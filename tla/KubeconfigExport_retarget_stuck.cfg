CONSTANTS
  Absent = Absent
  Tampered = Tampered
  Export = {"e1"}
  Secret = {"s1", "s2"}
  Key = {"kubeconfig", "other"}
  Profile = {"viewer", "invalid"}
  Invalid = {"invalid"}
  RemoteName = {"n1"}
  Connection = {"k1"}
  Specs <- MovingSpecs
  UserOps = {"CreateExport", "UpdateExport", "Restart"}
  Failures = {}
  TTL = 2
  RenewBefore = 1
  SlowestReconcile = 1
  MaxTime = 0
  MaxUid = 1
  MaxGen = 2
  MaxChanges = 0
  MaxLag = 1
SPECIFICATION FairSpec
PROPERTY
  ExportCompletes
CHECK_DEADLOCK FALSE
