--------------------------- MODULE ObjectVersions ---------------------------
(***************************************************************************)
(* Kubernetes objects as the reconcilers see them.  An object is the       *)
(* sequence of its versions that matter: the head is the version in the    *)
(* informer cache, the last one is the version that the API server stores, *)
(* and those between are watch events on their way.  A version is the      *)
(* object, a record with at least the fields gen, fins and deleting, or    *)
(* Absent.                                                                 *)
(***************************************************************************)
EXTENDS Sequences, Naturals

CONSTANT Absent  \* there is no such object

Cached(versions) == Head(versions)
Stored(versions) == versions[Len(versions)]

(* The API server drops a deleting object once it has no finalizer. *)
Settle(object) ==
  IF object.deleting /\ object.fins = {} THEN Absent ELSE object

(* specOrDeletionChangedPredicate on the event that leads from old to new *)
EventPasses(old, new) ==
  \/ old = Absent
  \/ new = Absent
  \/ old.gen # new.gen
  \/ old.deleting # new.deleting

(* What the initial list of an informer puts on its workqueue: a request    *)
(* for each object that is stored.                                          *)
Listed(versions) == {x \in DOMAIN versions : Stored(versions[x]) # Absent}

=============================================================================
