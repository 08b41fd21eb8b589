CONSTANTS
  Absent = Absent
  Tampered = Tampered
  Export = {"e1"}
  Secret = {"s1"}
  Key = {"kubeconfig"}
  Profile = {"viewer", "invalid"}
  Invalid = {"invalid"}
  RemoteName = {"n1"}
  Connection = {"k1"}
  Specs <- OneTargetSpecs
  UserOps = {"CreateExport", "UpdateExport", "DeleteExport", "CreateSecret", "DeleteSecret", "Restart"}
  Failures = {"Kubeconfig"}
  TTL = 2
  RenewBefore = 1
  SlowestReconcile = 1
  MaxTime = 1
  MaxUid = 1
  MaxGen = 2
  MaxChanges = 2
  MaxLag = 1
SPECIFICATION FairSpec
INVARIANT
  SecretDeletedWithExport
PROPERTIES
  DeletesOnlyOwnSecrets
  ExportCompletes
  ExportDeletionCompletes
  ImplementsOwnership
CHECK_DEADLOCK FALSE
