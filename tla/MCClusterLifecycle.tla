------------------------- MODULE MCClusterLifecycle -------------------------
(***************************************************************************)
(* Small instances of ClusterLifecycle for TLC.                            *)
(***************************************************************************)
EXTENDS ClusterLifecycle

CONSTANTS c1, k1

MCSpec(k, name, orphan, suspend) ==
  [connectionRef |-> k, clusterName |-> name, orphan |-> orphan,
   suspend |-> suspend]

(* One account: the delete policy and the suspend switch change. *)
SwitchSpecs ==
  {MCSpec(k1, Unset, FALSE, FALSE), MCSpec(k1, Unset, TRUE, FALSE),
   MCSpec(k1, Unset, FALSE, TRUE)}

(* One account, nothing but the delete policy. *)
PlainSpecs == {MCSpec(k1, Unset, FALSE, FALSE), MCSpec(k1, Unset, TRUE, FALSE)}

(* One account: the suspend switch and the remote name change. *)
RenamingSpecs ==
  {MCSpec(k1, Unset, FALSE, FALSE), MCSpec(k1, Unset, FALSE, TRUE),
   MCSpec(k1, "renamed", FALSE, FALSE)}

(* Objects that the legacy release left, and untouched ones. *)
LegacyFinalizers == {{}, {LegacyFinalizer}}

(* Every call to Omni, and rendering too. *)
AnyFailure == Call

(* A first start: nothing has a finalizer yet. *)
NoFinalizers == {{}}

=============================================================================
