CONSTANTS
  Absent = Absent
  Tampered = Tampered
  Export = {"e1"}
  Secret = {"s1", "s2"}
  Key = {"kubeconfig"}
  Profile = {"viewer", "invalid"}
  Invalid = {"invalid"}
  RemoteName = {"n1"}
  Connection = {"k1"}
  Specs <- OrphanMovingSpecs
  UserOps = {"CreateExport", "UpdateExport"}
  Failures = {}
  TTL = 2
  RenewBefore = 1
  SlowestReconcile = 1
  MaxTime = 0
  MaxUid = 1
  MaxGen = 2
  MaxChanges = 0
  MaxLag = 1
SPECIFICATION Spec
INVARIANT
  ExportIsHonest
CHECK_DEADLOCK FALSE
