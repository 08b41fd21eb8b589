CONSTANTS
  c1 = c1
  c2 = c2
  k1 = k1
  Unset = Unset
  Absent = Absent
  Reserved = 9
  Uuids = {1, 2, 3}
  Cluster = {c1}
  Connection = {k1}
  NameOverride = {}
  Specs <- PlainSpec
  UserOps = {"TouchChild", "CreateCluster", "DeleteCluster", "Restart"}
  Failures = {"Render", "SyncTemplate", "DeleteRemote"}
  MaxEdits = 1
  MaxUid = 1
  MaxGen = 2
  MaxLag = 1
  MaxConnectionLag = 1
  InitialFinalizers <- Held
  Document <- WholeCluster
  DocumentSpecs <- MovingControlPlane
  Touched <- OnlyControlPlane
  DocumentOps = {"CreateDocument", "UpdateDocument", "DeleteDocument"}
  Reconciled = {"ControlPlane"}
  MaxDocumentLag = 1
  Manifests <- TwoManifests
  Refused = {3}
SPECIFICATION Spec
INVARIANTS
  TypeOK
  TemplateIsCurrent
  RenderIsDeterministic
  AcceptedUnlessSuppressed
