------------------------- MODULE FinalizerOwnership -------------------------
(***************************************************************************)
(* What every controller of the operator that keeps a finalizer promises   *)
(* about the things it makes outside the management cluster or next to its *)
(* own object: remote clusters, kubeconfig Secrets, copied Secrets.  Only  *)
(* an object that is stored with its finalizer makes such a thing; the     *)
(* finalizer goes only when nothing of the object is left, or when a user  *)
(* has asked for it to be left or has moved the object away from it; an    *)
(* object that was let go never comes back.                                *)
(*                                                                         *)
(* Caches, queues, conflicts, failing calls and crashes do not show here.  *)
(* ClusterLifecycle, KubeconfigExport and SecretSync implement this        *)
(* specification.  HelmRelease does not: Helm's rollback gives a release   *)
(* back to the object that installed the revision before.                  *)
(***************************************************************************)
CONSTANTS
  Owner,   \* incarnations of custom resources
  Place,   \* where the things they make live
  Nobody   \* the owner of a place with nothing in it that is ours

VARIABLES
  held,    \* the owners that are stored with the finalizer
  gone,    \* the owners that are not, and never will be
  owner,   \* [Place -> Owner \cup {Nobody}]
  excused  \* the owners that users have told to leave something behind

vars == <<held, gone, owner, excused>>

TypeOK ==
  /\ held \subseteq Owner /\ gone \subseteq Owner /\ held \cap gone = {}
  /\ owner \in [Place -> Owner \cup {Nobody}]
  /\ excused \subseteq Owner

Init ==
  /\ TypeOK
  /\ owner = [p \in Place |-> Nobody]
  /\ excused = {}

(* The finalizer is added. *)
Hold(o) ==
  /\ o \notin held \cup gone
  /\ held' = held \cup {o}
  /\ UNCHANGED <<gone, owner, excused>>

(* An object with its finalizer makes something, or takes it over. *)
Make(o, p) ==
  /\ o \in held
  /\ owner' = [owner EXCEPT ![p] = o]
  /\ UNCHANGED <<held, gone, excused>>

(* Something is removed, by its owner or by somebody else. *)
Remove(p) ==
  /\ owner[p] # Nobody
  /\ owner' = [owner EXCEPT ![p] = Nobody]
  /\ UNCHANGED <<held, gone, excused>>

(* A user tells an owner to leave what it has made where it is now. *)
Excuse(o) ==
  /\ excused' = excused \cup {o}
  /\ UNCHANGED <<held, gone, owner>>

(* The finalizer is removed, and the object goes with it. *)
LetGo(o) ==
  /\ o \in held
  /\ excused' \in {excused, excused \cup {o}}
  /\ \A p \in Place : owner[p] = o => o \in excused'
  /\ held' = held \ {o}
  /\ gone' = gone \cup {o}
  /\ UNCHANGED owner

(* Owners that have nothing to lose become impossible. *)
Forget ==
  /\ gone \subseteq gone'
  /\ gone' \cap held = {}
  /\ UNCHANGED <<held, owner, excused>>

Next ==
  \/ \E o \in Owner : Hold(o) \/ Excuse(o) \/ LetGo(o)
  \/ \E o \in Owner, p \in Place : Make(o, p)
  \/ \E p \in Place : Remove(p)
  \/ Forget

Spec == Init /\ [][Next]_vars

=============================================================================
