CONSTANTS
  Absent = Absent
  Sync = {"y1"}
  Source = {"credentials"}
  Data = {"old", "new"}
  Namespace = {"apps", "infra"}
  Name = {"t1"}
  Form = {"opaque", "invalid"}
  Invalid = {"invalid"}
  RemoteName = {"n1"}
  Specs <- MovingSpecs
  InitialNamespaces = {"infra"}
  InitialSecrets <- LateSecrets
  Foreign <- ForeignTargets
  UserOps = {"CreateSync", "UpdateSync", "DeleteSync", "ChangeSource", "ChangeKubeconfig", "ChangeCluster", "Restart"}
  Failures = {"Workload"}
  MaxUid = 1
  MaxGen = 2
  MaxChanges = 1
  MaxLag = 1
SPECIFICATION FairSpec
INVARIANTS
  TypeOK
  SyncIsHonest
  CopyHasOwner
PROPERTIES
  DeletesOnlyOwnSecrets
  SyncCompletes
  SyncDeletionCompletes
  ImplementsOwnership
