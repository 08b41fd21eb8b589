CONSTANTS
  c1 = c1
  k1 = k1
  Unset = Unset
  Absent = Absent
  Cluster = {c1}
  Connection = {k1}
  NameOverride = {}
  Specs <- PlainSpecs
  UserOps = {"DeleteCluster", "DeleteConnection", "TouchChild", "Restart"}
  Failures = {"DeleteRemote"}
  MaxUid = 0
  MaxGen = 2
  MaxLag = 1
  MaxConnectionLag = 1
  InitialFinalizers <- LegacyFinalizers
SPECIFICATION FairSpec
PROPERTIES
  ConnectionHeldWhileReferenced
  DeletionCompletes
  ConnectionDeletionCompletes
  ImplementsOwnership
