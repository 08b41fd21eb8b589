------------------------- MODULE MCKubeconfigExport -------------------------
(***************************************************************************)
(* Small instances of KubeconfigExport for TLC.                            *)
(***************************************************************************)
EXTENDS KubeconfigExport

MCSpec(target, key, profile, policy) ==
  [target |-> target, key |-> key, profile |-> profile, policy |-> policy]

(* One target Secret: the policy changes. *)
OneTargetSpecs ==
  {MCSpec("s1", "kubeconfig", "viewer", "Delete"),
   MCSpec("s1", "kubeconfig", "viewer", "Orphan")}

(* Two target Secrets, cleaned up, and two keys of the first one. *)
MovingSpecs ==
  {MCSpec("s1", "kubeconfig", "viewer", "Delete"),
   MCSpec("s1", "other", "viewer", "Delete"),
   MCSpec("s2", "kubeconfig", "viewer", "Delete")}

(* The same, and a profile that the validation refuses. *)
MovingOrInvalidSpecs ==
  MovingSpecs \cup {MCSpec("s1", "kubeconfig", "invalid", "Delete")}

(* Two target Secrets, left behind. *)
OrphanMovingSpecs ==
  {MCSpec("s1", "kubeconfig", "viewer", "Orphan"),
   MCSpec("s2", "kubeconfig", "viewer", "Orphan")}

=============================================================================
