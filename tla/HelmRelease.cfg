CONSTANTS
  Absent = Absent
  Release = {"r1"}
  Kubeconfig = {"workload"}
  Name = {"web", "api"}
  Chart = {"v1", "v2", "invalid"}
  Invalid = {"invalid"}
  Specs <- MovingSpecs
  UserOps = {"CreateRelease", "UpdateRelease", "DeleteRelease", "ChangeKubeconfig", "ChangeCluster", "Restart"}
  Failures = {"Read", "Helm"}
  MaxUid = 1
  MaxGen = 2
  MaxChanges = 1
  MaxLag = 1
SPECIFICATION FairSpec
INVARIANTS
  TypeOK
  ReleaseIsHonest
  ReleaseHasOwner
PROPERTIES
  ReleaseCompletes
  ReleaseDeletionCompletes
