---------------------------- MODULE MCHelmRelease ----------------------------
(***************************************************************************)
(* Small instances of HelmRelease for TLC.                                 *)
(***************************************************************************)
EXTENDS HelmRelease

MCSpec(name, chart, policy) ==
  [kubeconfig |-> "workload", name |-> name, chart |-> chart, policy |-> policy]

(* A release, a new version of its chart that is left behind on deletion,   *)
(* and a chart that is refused, under another name.                         *)
MovingSpecs ==
  {MCSpec("web", "v1", "Uninstall"), MCSpec("web", "v2", "Orphan"),
   MCSpec("api", "invalid", "Uninstall")}

=============================================================================
