CONSTANTS
  c1 = c1
  k1 = k1
  Unset = Unset
  Absent = Absent
  Cluster = {c1}
  Connection = {k1}
  NameOverride = {}
  Specs <- PlainSpecs
  UserOps = {"CreateCluster", "DeleteConnection", "Restart"}
  Failures <- AnyFailure
  MaxUid = 1
  MaxGen = 2
  MaxLag = 2
  MaxConnectionLag = 1
  InitialFinalizers <- NoFinalizers
SPECIFICATION Spec
PROPERTY
  ConnectionHeldWhileReferenced
