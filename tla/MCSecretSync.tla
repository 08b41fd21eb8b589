---------------------------- MODULE MCSecretSync ----------------------------
(***************************************************************************)
(* A small instance of SecretSync for TLC.                                 *)
(***************************************************************************)
EXTENDS SecretSync

MCTarget(namespace) == [namespace |-> namespace, name |-> "t1"]

MCSpec(namespace, form, createNamespace, policy) ==
  [target |-> MCTarget(namespace), source |-> "credentials", form |-> form,
   createNamespace |-> createNamespace, policy |-> policy]

(* A target in a namespace that has to be created, cleaned up; an invalid   *)
(* form of it, left behind; and a target in a namespace that is there.      *)
MovingSpecs ==
  {MCSpec("apps", "opaque", TRUE, "Delete"),
   MCSpec("apps", "invalid", FALSE, "Orphan"),
   MCSpec("infra", "opaque", FALSE, "Delete")}

(* Everything is there, or the source is yet to come, or the export has yet *)
(* to write the kubeconfig.                                                  *)
LateSecrets ==
  {[sources |-> [s \in Source |-> "old"], kubeconfig |-> "usable"],
   [sources |-> [s \in Source |-> Absent], kubeconfig |-> "usable"],
   [sources |-> [s \in Source |-> "new"], kubeconfig |-> Absent]}

(* Somebody else's Secret is at the target in the other namespace. *)
ForeignTargets == {MCTarget("infra")}

=============================================================================
