CONSTANTS
  Absent = Absent
  Tampered = Tampered
  Export = {"e1"}
  Secret = {"s1", "s2"}
  Key = {"kubeconfig", "other"}
  Profile = {"viewer", "invalid"}
  Invalid = {"invalid"}
  RemoteName = {"n1", "n2"}
  Connection = {"k1"}
  Specs <- MovingOrInvalidSpecs
  UserOps = {"CreateExport", "DeleteExport", "UpdateExport", "TamperSecret", "DeleteSecret", "ChangeConnection", "ChangeCluster", "Restart"}
  Failures = {"Validate"}
  TTL = 2
  RenewBefore = 1
  SlowestReconcile = 1
  MaxTime = 1
  MaxUid = 1
  MaxGen = 2
  MaxChanges = 1
  MaxLag = 1
SPECIFICATION Spec
INVARIANTS
  TypeOK
  ExportIsHonest
  RotationScheduled
  SecretDeletedWithExport
