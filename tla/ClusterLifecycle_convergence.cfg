CONSTANTS
  c1 = c1
  k1 = k1
  Unset = Unset
  Absent = Absent
  Cluster = {c1}
  Connection = {k1}
  NameOverride = {"renamed"}
  Specs <- RenamingSpecs
  UserOps = {"CreateCluster", "UpdateCluster", "CreateConnection", "Restart"}
  Failures = {"SyncTemplate"}
  MaxUid = 1
  MaxGen = 2
  MaxLag = 1
  MaxConnectionLag = 1
  InitialFinalizers <- NoFinalizers
SPECIFICATION FairSpec
INVARIANT
  ReadyIsHonest
PROPERTIES
  SyncCompletes
  ImplementsOwnership
