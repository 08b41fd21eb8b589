----------------------- MODULE ClusterOwnershipProofs -----------------------
(***************************************************************************)
(* ClusterLifecycle implements FinalizerOwnership, for every value of the  *)
(* constants: each step of the two reconcilers, the informers, the users   *)
(* and a crash is a step of the protocol, or does not show in it.          *)
(***************************************************************************)
EXTENDS ClusterLifecycleProofs

-----------------------------------------------------------------------------
(* The invariant that the steps are read under *)

(* Uids stay within their bound, so that every incarnation is an owner. *)
UidsBounded == lastUid <= MaxUid

(* Reconcile goes to Omni, and removes its finalizers, with a copy that has *)
(* one of them.                                                             *)
WorkerHasFinalizer ==
  clusterWorker.pc \in {"getConnection", "deleteRemote", "removeFinalizers"}
    => clusterWorker.item.fins # {}

ProtocolInv == OwnerInv /\ UidsBounded /\ WorkerHasFinalizer

(* ProtocolInv holds when the operator starts. *)
LEMMA InitProtocol == Init => ProtocolInv
  <1> SUFFICES ASSUME Init PROVE ProtocolInv
    OBVIOUS
  <1>1. UidsBounded
    BY BoundsAssumption DEF Init, UidsBounded
  <1>2. WorkerHasFinalizer
    BY DEF Init, IdleClusterWorker, WorkerHasFinalizer
  <1> QED  BY <1>1, <1>2, InitOwner DEF ProtocolInv

(* What a step makes of the last uid, and of the copy that Reconcile holds: *)
(* a new Reconcile at a step that needs a finalizer starts from a copy that *)
(* has one.                                                                 *)
LEMMA StepWorker ==
  ASSUME TypeOK, [Next]_vars, UidsBounded, WorkerHasFinalizer
  PROVE  UidsBounded' /\ WorkerHasFinalizer'
  <1>1. lastUid \in Nat /\ MaxUid \in Nat
    BY BoundsAssumption DEF TypeOK
  <1>2. ASSUME UNCHANGED lastUid, clusterWorker' \in {clusterWorker, IdleClusterWorker}
        PROVE  UidsBounded' /\ WorkerHasFinalizer'
    BY <1>2 DEF UidsBounded, WorkerHasFinalizer, IdleClusterWorker
  <1>3. ASSUME lastUid < MaxUid, lastUid' = lastUid + 1, UNCHANGED clusterWorker
        PROVE  UidsBounded' /\ WorkerHasFinalizer'
    BY <1>1, <1>3 DEF UidsBounded, WorkerHasFinalizer
  <1>4. ASSUME NEW pc, NEW reason, NEW observes, clusterWorker.pc # "idle",
               AdvanceCluster(pc, reason, observes),
               \/ pc \in {"sync", "updateStatus"}
               \/ clusterWorker.pc \in {"getConnection", "deleteRemote"}
        PROVE  UidsBounded' /\ WorkerHasFinalizer'
    <2>1. UNCHANGED lastUid /\ clusterWorker'.pc = pc
          /\ clusterWorker'.item = clusterWorker.item
      BY <1>4, BusyType DEF AdvanceCluster, BusyClusterWorker
    <2> QED  BY <1>4, <2>1 DEF UidsBounded, WorkerHasFinalizer
  <1>5. CASE ClusterWorkerStep
    <2>1. CASE MissingConnection
      BY <1>4, <2>1 DEF MissingConnection
    <2>2. CASE FoundConnectionForDelete
      BY <1>4, <2>2 DEF FoundConnectionForDelete
    <2>3. CASE RenderSucceeds
      BY <1>4, <2>3 DEF RenderSucceeds
    <2>4. CASE RenderFails
      BY <1>4, <2>4 DEF RenderFails
    <2>5. CASE SyncTemplateSucceeds
      BY <1>4, <2>5 DEF SyncTemplateSucceeds
    <2>6. CASE SyncTemplateFails
      BY <1>4, <2>6 DEF SyncTemplateFails
    <2>7. CASE DeleteRemoteSucceeds
      BY <1>4, <2>7 DEF DeleteRemoteSucceeds
    <2>8. CASE DeleteRemoteFails
      BY <1>4, <2>8 DEF DeleteRemoteFails
    <2>9. CASE UpdateClusterStatus
      BY <1>2, <2>9 DEF UpdateClusterStatus, ClusterDone
    <2>10. CASE AddClusterFinalizer
      BY <1>2, <2>10 DEF AddClusterFinalizer, ClusterDone
    <2>11. CASE RemoveClusterFinalizers
      BY <1>2, <2>11 DEF RemoveClusterFinalizers, ClusterDone
    <2>12. CASE ClusterWriteFails
      BY <1>2, <2>12 DEF ClusterWriteFails, ClusterDone
    <2> QED
      BY <1>5, <2>1, <2>2, <2>3, <2>4, <2>5, <2>6, <2>7, <2>8, <2>9, <2>10, <2>11,
         <2>12 DEF ClusterWorkerStep
  <1>6. ASSUME NEW c \in Cluster, ReconcileCluster(c)
        PROVE  UidsBounded' /\ WorkerHasFinalizer'
    <2>1. ASSUME NEW pc, NEW reason, BeginCluster(c, pc, reason),
                 pc \in {"addFinalizer", "updateStatus"}
                   \/ HasFinalizer(Cached(clusterVersions[c]))
          PROVE  UidsBounded' /\ WorkerHasFinalizer'
      BY <2>1 DEF BeginCluster, UidsBounded, WorkerHasFinalizer, HasFinalizer
    <2>2. CASE ReconcileNothing(c)
      BY <1>2, <2>2 DEF ReconcileNothing
    <2>3. CASE ReconcileDeleteOrphan(c)
      BY <2>1, <2>3 DEF ReconcileDeleteOrphan
    <2>4. CASE ReconcileDelete(c)
      BY <2>1, <2>4 DEF ReconcileDelete
    <2>5. CASE ReconcileNew(c)
      BY <2>1, <2>5 DEF ReconcileNew
    <2>6. CASE ReconcileSuspended(c)
      BY <2>1, <2>6 DEF ReconcileSuspended
    <2>7. CASE ReconcileSync(c)
      BY <2>1, <2>7 DEF ReconcileSync
    <2> QED  BY <1>6, <2>2, <2>3, <2>4, <2>5, <2>6, <2>7 DEF ReconcileCluster
  <1>7. ASSUME NEW c \in Cluster, ClusterStep(c)
        PROVE  UidsBounded' /\ WorkerHasFinalizer'
    <2>1. CASE DeliverCluster(c)
      BY <1>2, <2>1 DEF DeliverCluster
    <2>2. CASE CreateCluster(c)
      BY <1>3, <2>2 DEF CreateCluster
    <2>3. CASE UpdateCluster(c)
      BY <1>2, <2>3 DEF UpdateCluster
    <2>4. CASE DeleteCluster(c)
      BY <1>2, <2>4 DEF DeleteCluster
    <2> QED  BY <1>6, <1>7, <2>1, <2>2, <2>3, <2>4 DEF ClusterStep
  <1>8. CASE ConnectionWorkerStep \/ \E k \in Connection : ConnectionStep(k)
    <2>1. \/ UNCHANGED <<lastUid, clusterWorker>>
          \/ \E k \in Connection : CreateConnection(k)
      BY <1>8 DEF ConnectionWorkerStep, ListReferences, UpdateConnectionStatus,
        AddConnectionFinalizer, RemoveConnectionFinalizers, ConnectionAlreadyGone,
        ConnectionWriteFails, ConnectionStep, ReconcileConnection,
        ReconcileConnectionNothing, ReconcileConnectionDelete,
        ReconcileConnectionNew, ReconcileConnectionPing, BeginConnection,
        DeliverConnection, DeleteConnection
    <2> QED  BY <1>2, <1>3, <2>1 DEF CreateConnection
  <1>9. CASE Restart
    BY <1>2, <1>9 DEF Restart
  <1>10. CASE UNCHANGED vars
    BY <1>2, <1>10 DEF vars
  <1>11. ASSUME NEW refs \in SUBSET Cluster, WakeClusters(refs)
         PROVE  UidsBounded' /\ WorkerHasFinalizer'
    BY <1>2, <1>11 DEF WakeClusters
  <1> QED  BY <1>5, <1>7, <1>8, <1>9, <1>10, <1>11 DEF Next

(* Every step keeps ProtocolInv. *)
LEMMA StepProtocol == ProtocolInv /\ [Next]_vars => ProtocolInv'
  BY StepOwner, StepWorker DEF ProtocolInv, OwnerInv, HeldInv


-----------------------------------------------------------------------------
(* What a write of the API server is in the protocol *)

(* The incarnation that is stored is an owner, and has been issued. *)
LEMMA StoredIsOwner ==
  ASSUME ProtocolInv, NEW c \in Cluster, Stored(clusterVersions[c]) # Absent
  PROVE  /\ Stored(clusterVersions[c]) \in ClusterObject
         /\ Stored(clusterVersions[c]).uid \in Nat
         /\ Stored(clusterVersions[c]).uid <= lastUid
         /\ <<c, Stored(clusterVersions[c]).uid>> \in Incarnations
  <1> DEFINE o == Stored(clusterVersions[c])
  <1>1. o \in ClusterObject /\ o.uid \in Nat /\ o.uid <= lastUid
    BY VersionType DEF ProtocolInv, OwnerInv, HeldInv, UidsIssued, ClusterVersion,
                       ClusterObject
  <1>2. lastUid \in Nat /\ MaxUid \in Nat /\ lastUid <= MaxUid
    BY BoundsAssumption DEF ProtocolInv, OwnerInv, HeldInv, TypeOK, UidsBounded
  <1> HIDE DEF o
  <1>3. o.uid \in 0 .. MaxUid
    BY <1>1, <1>2
  <1> QED  BY <1>1, <1>3 DEF o, Incarnations

(* The incarnation that Reconcile works on is an owner. *)
LEMMA WorkerIsOwner ==
  ASSUME ProtocolInv, clusterWorker.pc # "idle"
  PROVE  /\ clusterWorker.key \in Cluster /\ clusterWorker.item \in ClusterObject
         /\ ItemTarget \in Connection \X Remote
         /\ Incarnation \in Incarnations /\ Incarnation \in Cluster \X Nat
  <1> USE DEF ProtocolInv, OwnerInv, HeldInv
  <1>1. clusterWorker.key \in Cluster /\ clusterWorker.item \in ClusterObject
    BY BusyType DEF BusyClusterWorker
  <1>2. clusterWorker.item.spec \in ClusterSpec /\ clusterWorker.item.uid \in Nat
    BY <1>1 DEF ClusterObject
  <1>3. lastUid \in Nat /\ MaxUid \in Nat /\ lastUid <= MaxUid
        /\ clusterWorker.item.uid <= lastUid
    BY BoundsAssumption DEF TypeOK, UidsBounded, UidsIssued
  <1>4. clusterWorker.item.uid \in 0 .. MaxUid
    BY <1>2, <1>3
  <1> QED
    BY <1>1, <1>2, <1>4, TargetType DEF ItemTarget, Incarnation, Incarnations

(* Deliveries, restarts and steps inside Reconcile change no stored object. *)
LEMMA SameStored ==
  ASSUME \A c \in Cluster : Stored(clusterVersions'[c]) = Stored(clusterVersions[c]),
         UNCHANGED lastUid
  PROVE  UNCHANGED <<HeldIncarnations, GoneIncarnations>>
  BY DEF HeldIncarnations, GoneIncarnations, Incarnations, Held

(* A write that keeps the incarnation, with or without a finalizer, does    *)
(* not show; one that adds the finalizer is Hold.                           *)
LEMMA KeepStored ==
  ASSUME ProtocolInv, NEW c \in Cluster, NEW x \in ClusterVersion,
         StoreCluster(c, x), UNCHANGED lastUid, NEW o,
         o = Stored(clusterVersions[c]), o # Absent, x # Absent, x.uid = o.uid,
         o.fins # {} => x.fins # {}
  PROVE  /\ GoneIncarnations' = GoneIncarnations
         /\ (x.fins # {} => o.fins # {}) => HeldIncarnations' = HeldIncarnations
         /\ x.fins # {} /\ o.fins = {} =>
              /\ HeldIncarnations' = HeldIncarnations \cup {<<c, o.uid>>}
              /\ <<c, o.uid>> \notin HeldIncarnations \cup GoneIncarnations
  <1>1. /\ Stored(clusterVersions'[c]) = x
        /\ \A d \in Cluster \ {c} : clusterVersions'[d] = clusterVersions[d]
    BY AppendStored DEF ProtocolInv, OwnerInv, HeldInv
  <1>2. <<c, o.uid>> \in Incarnations
    BY StoredIsOwner
  <1>3. \A i \in Incarnations : i = <<i[1], i[2]>> /\ i[1] \in Cluster
    BY DEF Incarnations
  <1>4. GoneIncarnations' = GoneIncarnations
    <2>1. ASSUME NEW i \in Incarnations
          PROVE  i \in GoneIncarnations' <=> i \in GoneIncarnations
      BY <1>1, <1>3, <2>1 DEF GoneIncarnations, Incarnations
    <2> QED  BY <2>1 DEF GoneIncarnations, Incarnations
  <1>5. ASSUME NEW i \in Incarnations
        PROVE  i \in HeldIncarnations' <=>
                 IF i[1] = c THEN i[2] = o.uid /\ x.fins # {} ELSE i \in HeldIncarnations
    BY <1>1, <1>3, <1>5 DEF HeldIncarnations, Held, Incarnations
  <1>6. ASSUME NEW i \in Incarnations, i[1] = c
        PROVE  i \in HeldIncarnations <=> i[2] = o.uid /\ o.fins # {}
    BY <1>6 DEF HeldIncarnations, Held
  <1>7. (x.fins # {} => o.fins # {}) => HeldIncarnations' = HeldIncarnations
    BY <1>5, <1>6 DEF HeldIncarnations, Incarnations
  <1>8. ASSUME x.fins # {}, o.fins = {}
        PROVE  /\ HeldIncarnations' = HeldIncarnations \cup {<<c, o.uid>>}
               /\ <<c, o.uid>> \notin HeldIncarnations \cup GoneIncarnations
    <2>1. HeldIncarnations' \subseteq Incarnations
          /\ HeldIncarnations \subseteq Incarnations
      BY DEF HeldIncarnations, Incarnations
    <2>2. \A i \in Incarnations :
            i \in HeldIncarnations' <=> i \in HeldIncarnations \/ i = <<c, o.uid>>
      BY <1>2, <1>3, <1>5, <1>6, <1>8
    <2>3. <<c, o.uid>> \notin HeldIncarnations \cup GoneIncarnations
      BY <1>2, <1>6, <1>8 DEF GoneIncarnations
    <2> QED  BY <1>2, <2>1, <2>2, <2>3
  <1> QED  BY <1>4, <1>7, <1>8

(* When the API server drops the object, its incarnation is let go. *)
LEMMA DropStored ==
  ASSUME ProtocolInv, NEW c \in Cluster, StoreCluster(c, Absent),
         UNCHANGED lastUid, NEW o, o = Stored(clusterVersions[c]), o # Absent
  PROVE  /\ HeldIncarnations' = HeldIncarnations \ {<<c, o.uid>>}
         /\ GoneIncarnations' = GoneIncarnations \cup {<<c, o.uid>>}
         /\ <<c, o.uid>> \in HeldIncarnations <=> o.fins # {}
  <1>1. /\ Stored(clusterVersions'[c]) = Absent
        /\ \A d \in Cluster \ {c} : clusterVersions'[d] = clusterVersions[d]
    <2>1. Absent \in ClusterVersion
      BY DEF ClusterVersion
    <2> QED  BY <2>1, AppendStored DEF ProtocolInv, OwnerInv, HeldInv
  <1>2. <<c, o.uid>> \in Incarnations /\ o.uid <= lastUid
    BY StoredIsOwner
  <1>3. \A i \in Incarnations : i = <<i[1], i[2]>> /\ i[1] \in Cluster
    BY DEF Incarnations
  <1>4. /\ HeldIncarnations' \subseteq Incarnations
        /\ HeldIncarnations \subseteq Incarnations
        /\ GoneIncarnations' \subseteq Incarnations
        /\ GoneIncarnations \subseteq Incarnations
    BY DEF HeldIncarnations, GoneIncarnations, Incarnations
  <1>5. ASSUME NEW i \in Incarnations
        PROVE  i \in HeldIncarnations' <=> i \in HeldIncarnations /\ i # <<c, o.uid>>
    <2>1. CASE i[1] = c
      BY <1>1, <1>3, <2>1 DEF HeldIncarnations, Held, Incarnations
    <2>2. CASE i[1] # c
      BY <1>1, <1>3, <2>2 DEF HeldIncarnations, Held, Incarnations
    <2> QED  BY <2>1, <2>2
  <1>6. ASSUME NEW i \in Incarnations
        PROVE  i \in GoneIncarnations' <=> i \in GoneIncarnations \/ i = <<c, o.uid>>
    <2>1. CASE i[1] = c
      BY <1>1, <1>2, <1>3, <2>1 DEF GoneIncarnations, Incarnations
    <2>2. CASE i[1] # c
      BY <1>1, <1>3, <2>2 DEF GoneIncarnations, Incarnations
    <2> QED  BY <2>1, <2>2
  <1>7. <<c, o.uid>> \in HeldIncarnations <=> o.fins # {}
    BY <1>2 DEF HeldIncarnations, Held
  <1> QED  BY <1>2, <1>4, <1>5, <1>6, <1>7

-----------------------------------------------------------------------------
(* What each kind of step is in the protocol *)

(* A step that changes none of the four does not show. *)
LEMMA DoesNotShow ==
  ASSUME UNCHANGED <<HeldIncarnations, GoneIncarnations, RemoteOwner, Excused>>
  PROVE  [Ownership!Next]_(Ownership!vars)
  BY DEF Ownership!vars

(* So does a step that keeps stored objects, remotes and histories. *)
LEMMA KeepsAll ==
  ASSUME \A c \in Cluster : Stored(clusterVersions'[c]) = Stored(clusterVersions[c]),
         UNCHANGED <<lastUid, omni, orphaned, retargeted>>
  PROVE  [Ownership!Next]_(Ownership!vars)
  <1>1. UNCHANGED <<RemoteOwner, Excused>>
    BY DEF RemoteOwner, Excused
  <1> QED  BY <1>1, SameStored, DoesNotShow

(* SyncTemplate, as far as it got, is Make by an owner that is held. *)
LEMMA SyncIsMake ==
  ASSUME ProtocolInv, clusterWorker.pc = "sync", omni' = Applied,
         UNCHANGED <<clusterVersions, lastUid, orphaned, retargeted>>
  PROVE  [Ownership!Next]_(Ownership!vars)
  <1>1. /\ ItemTarget \in Connection \X Remote
        /\ Incarnation \in Incarnations /\ Incarnation \in Cluster \X Nat
        /\ clusterWorker.item \in ClusterObject
    BY WorkerIsOwner
  <1>2. Incarnation \in HeldIncarnations
    <2>1. Held(clusterWorker.key, clusterWorker.item.uid)
      BY DEF ProtocolInv, OwnerInv, HeldInv, WorkerDeletes, SyncHoldsFinalizer
    <2> QED  BY <1>1, <2>1 DEF HeldIncarnations, Incarnation
  <1>3. UNCHANGED <<HeldIncarnations, GoneIncarnations, Excused>>
    BY SameStored DEF Excused
  <1> DEFINE new == [by |-> Incarnation, gen |-> clusterWorker.item.gen]
  <1>4. new # Absent /\ new.by = Incarnation
    BY <1>1, AbsentRemoteAssumption DEF RemoteCluster, ClusterObject
  <1> HIDE DEF new
  <1>5. /\ omni \in [Connection \X Remote -> RemoteCluster \cup {Absent}]
        /\ omni' = [omni EXCEPT ![ItemTarget] = new]
    BY DEF ProtocolInv, OwnerInv, HeldInv, TypeOK, Applied, new
  <1>6. RemoteOwner' = [RemoteOwner EXCEPT ![ItemTarget] = Incarnation]
    BY <1>1, <1>4, <1>5 DEF RemoteOwner
  <1>7. Ownership!Make(Incarnation, ItemTarget)
    BY <1>2, <1>3, <1>6 DEF Ownership!Make
  <1> QED  BY <1>1, <1>7 DEF Ownership!Next

(* DeleteCluster, as far as it got, is Remove, of whatever was there. *)
LEMMA DeleteIsRemove ==
  ASSUME ProtocolInv, clusterWorker.pc # "idle",
         omni' = [omni EXCEPT ![ItemTarget] = Absent],
         UNCHANGED <<clusterVersions, lastUid, orphaned, retargeted>>
  PROVE  [Ownership!Next]_(Ownership!vars)
  <1>1. ItemTarget \in Connection \X Remote
    BY WorkerIsOwner
  <1>2. UNCHANGED <<HeldIncarnations, GoneIncarnations, Excused>>
    BY SameStored DEF Excused
  <1>3. omni \in [Connection \X Remote -> RemoteCluster \cup {Absent}]
    BY DEF ProtocolInv, OwnerInv, HeldInv, TypeOK
  <1>4. RemoteOwner' = [RemoteOwner EXCEPT ![ItemTarget] = Absent]
    BY <1>1, <1>3 DEF RemoteOwner
  <1>5. CASE RemoteOwner[ItemTarget] # Absent
    <2>1. Ownership!Remove(ItemTarget)
      BY <1>2, <1>4, <1>5 DEF Ownership!Remove
    <2> QED  BY <1>1, <2>1 DEF Ownership!Next
  <1>6. CASE RemoteOwner[ItemTarget] = Absent
    <2>1. UNCHANGED RemoteOwner
      BY <1>1, <1>4, <1>6 DEF RemoteOwner
    <2> QED  BY <1>2, <2>1, DoesNotShow
  <1> QED  BY <1>5, <1>6

(* AddFinalizer is Hold. *)
LEMMA AddIsHold ==
  ASSUME ProtocolInv, AddClusterFinalizer
  PROVE  [Ownership!Next]_(Ownership!vars)
  <1> DEFINE c == clusterWorker.key
             o == Stored(clusterVersions[c])
  <1>1. c \in Cluster /\ clusterWorker.item = o /\ clusterWorker.item \in ClusterObject
    BY WorkerIsOwner DEF AddClusterFinalizer
  <1>2. PICK x \in ClusterVersion : StoreCluster(c, x) /\ Continues(o, x)
    BY AddContinues DEF ProtocolInv, OwnerInv, HeldInv
  <1>3. UNCHANGED <<lastUid, omni, orphaned, retargeted>>
    BY DEF AddClusterFinalizer, history
  <1>4. UNCHANGED <<RemoteOwner, Excused>>
    BY <1>3 DEF RemoteOwner, Excused
  <1>5. /\ GoneIncarnations' = GoneIncarnations
        /\ (x.fins # {} => o.fins # {}) => HeldIncarnations' = HeldIncarnations
        /\ x.fins # {} /\ o.fins = {} =>
             /\ HeldIncarnations' = HeldIncarnations \cup {<<c, o.uid>>}
             /\ <<c, o.uid>> \notin HeldIncarnations \cup GoneIncarnations
    BY <1>1, <1>2, <1>3, KeepStored DEF Continues
  <1>6. <<c, o.uid>> \in Incarnations
    BY <1>1, <1>2, StoredIsOwner DEF Continues
  <1> HIDE DEF c, o
  <1>7. CASE x.fins # {} /\ o.fins = {}
    <2>1. Ownership!Hold(<<c, o.uid>>)
      BY <1>4, <1>5, <1>7 DEF Ownership!Hold
    <2> QED  BY <1>6, <2>1 DEF Ownership!Next
  <1>8. CASE x.fins # {} => o.fins # {}
    BY <1>4, <1>5, <1>8, DoesNotShow
  <1> QED  BY <1>7, <1>8

(* A status write does not show. *)
LEMMA StatusDoesNotShow ==
  ASSUME ProtocolInv, UpdateClusterStatus
  PROVE  [Ownership!Next]_(Ownership!vars)
  <1> DEFINE c == clusterWorker.key
             o == Stored(clusterVersions[c])
             x == [o EXCEPT !.status = NewStatus(o)]
  <1>1. c \in Cluster
    BY WorkerIsOwner DEF UpdateClusterStatus
  <1>2. o # Absent /\ StoreCluster(c, x)
    BY DEF UpdateClusterStatus
  <1>3. o \in ClusterObject /\ clusterWorker \in BusyClusterWorker
    BY <1>1, <1>2, StoredIsOwner, BusyType
       DEF UpdateClusterStatus, ProtocolInv, OwnerInv, HeldInv
  <1>4. NewStatus(o) \in [obs : Nat, reason : Reason]
    BY <1>3 DEF NewStatus, BusyClusterWorker, ClusterObject
  <1>5. x \in ClusterObject /\ x.uid = o.uid /\ x.fins = o.fins
    BY <1>3, <1>4 DEF ClusterObject
  <1>6. UNCHANGED <<lastUid, omni, orphaned, retargeted>>
    BY DEF UpdateClusterStatus, history
  <1>7. UNCHANGED <<RemoteOwner, Excused>>
    BY <1>6 DEF RemoteOwner, Excused
  <1> HIDE DEF c, o, x
  <1>8. x # Absent /\ x \in ClusterVersion
    BY <1>5, AbsentAssumption DEF ClusterVersion
  <1>9. UNCHANGED <<HeldIncarnations, GoneIncarnations>>
    BY <1>1, <1>2, <1>5, <1>6, <1>8, KeepStored DEF o
  <1> QED  BY <1>7, <1>9, DoesNotShow

(* RemoveFinalizers is LetGo: nothing of the incarnation is left, or a user *)
(* has excused it.                                                          *)
LEMMA RemoveIsLetGo ==
  ASSUME ProtocolInv, RemoveClusterFinalizers
  PROVE  [Ownership!Next]_(Ownership!vars)
  <1> USE DEF ProtocolInv, OwnerInv
  <1> DEFINE c == clusterWorker.key
             item == clusterWorker.item
  <1>1. /\ clusterWorker.pc = "removeFinalizers" /\ UNCHANGED <<lastUid, omni, retargeted>>
        /\ orphaned' = IF item.spec.orphan THEN orphaned \cup {Incarnation} ELSE orphaned
    BY DEF RemoveClusterFinalizers
  <1>2. /\ c \in Cluster /\ item \in ClusterObject
        /\ Incarnation \in Incarnations /\ Incarnation \in Cluster \X Nat
    BY <1>1, WorkerIsOwner
  <1>3. item = Stored(clusterVersions[c]) /\ StoreCluster(c, Absent)
    BY RemoveVanishes
  <1>4. /\ HeldIncarnations' = HeldIncarnations \ {Incarnation}
        /\ GoneIncarnations' = GoneIncarnations \cup {Incarnation}
        /\ Incarnation \in HeldIncarnations
    <2>1. item # Absent /\ item.fins # {}
      BY <1>1, <1>2, AbsentAssumption DEF WorkerHasFinalizer
    <2> QED  BY <1>1, <1>2, <1>3, <2>1, DropStored DEF Incarnation
  <1>5. Excused' \in {Excused, Excused \cup {Incarnation}} /\ UNCHANGED RemoteOwner
    BY <1>1 DEF Excused, RemoteOwner
  <1>6. ASSUME NEW t \in Connection \X Remote, RemoteOwner[t] = Incarnation
        PROVE  Incarnation \in Excused'
    <2>1. omni[t] # Absent /\ omni[t].by = Incarnation
      BY <1>2, <1>6, AbsentRemoteAssumption DEF RemoteOwner
    <2>2. CASE item.spec.orphan
      BY <1>1, <2>2 DEF Excused
    <2>3. CASE ~item.spec.orphan
      BY <1>1, <2>1, <2>3 DEF RemoteGone, Excused
    <2> QED  BY <2>2, <2>3
  <1>7. Ownership!LetGo(Incarnation)
    BY <1>4, <1>5, <1>6 DEF Ownership!LetGo
  <1> QED  BY <1>2, <1>7 DEF Ownership!Next

(* Every step of a running Reconcile is a step of the protocol. *)
LEMMA WorkerSteps ==
  ASSUME ProtocolInv, ClusterWorkerStep
  PROVE  [Ownership!Next]_(Ownership!vars)
  <1>1. ASSUME NEW pc, NEW reason, NEW observes, clusterWorker.pc # "idle",
               AdvanceCluster(pc, reason, observes),
               \/ omni' = omni
               \/ clusterWorker.pc = "sync" /\ omni' = Applied
               \/ omni' = [omni EXCEPT ![ItemTarget] = Absent]
        PROVE  [Ownership!Next]_(Ownership!vars)
    <2>1. UNCHANGED <<clusterVersions, lastUid, orphaned, retargeted>>
      BY <1>1 DEF AdvanceCluster, history
    <2>2. CASE omni' = omni
      BY <2>1, <2>2, KeepsAll
    <2>3. CASE clusterWorker.pc = "sync" /\ omni' = Applied
      BY <2>1, <2>3, SyncIsMake
    <2>4. CASE omni' = [omni EXCEPT ![ItemTarget] = Absent]
      BY <1>1, <2>1, <2>4, DeleteIsRemove
    <2> QED  BY <1>1, <2>2, <2>3, <2>4
  <1>2. CASE MissingConnection
    BY <1>1, <1>2 DEF MissingConnection
  <1>3. CASE FoundConnectionForDelete
    BY <1>1, <1>3 DEF FoundConnectionForDelete
  <1>4. CASE RenderSucceeds
    BY <1>1, <1>4 DEF RenderSucceeds
  <1>5. CASE RenderFails
    BY <1>1, <1>5 DEF RenderFails
  <1>6. CASE SyncTemplateSucceeds
    BY <1>1, <1>6 DEF SyncTemplateSucceeds
  <1>7. CASE SyncTemplateFails
    BY <1>1, <1>7 DEF SyncTemplateFails
  <1>8. CASE DeleteRemoteSucceeds
    BY <1>1, <1>8 DEF DeleteRemoteSucceeds
  <1>9. CASE DeleteRemoteFails
    BY <1>1, <1>9 DEF DeleteRemoteFails
  <1>10. CASE ClusterWriteFails
    <2>1. UNCHANGED <<clusterVersions, lastUid, omni, orphaned, retargeted>>
      BY <1>10 DEF ClusterWriteFails, history
    <2> QED  BY <2>1, KeepsAll
  <1> QED
    BY <1>2, <1>3, <1>4, <1>5, <1>6, <1>7, <1>8, <1>9, <1>10, StatusDoesNotShow,
       AddIsHold, RemoveIsLetGo DEF ClusterWorkerStep

(* A new uid, for an object without a finalizer or for another kind of      *)
(* object, only makes incarnations impossible: Forget.                      *)
LEMMA NewUidIsForget ==
  ASSUME ProtocolInv, lastUid' = lastUid + 1, UNCHANGED <<omni, orphaned, retargeted>>,
         \A d \in Cluster :
           LET o == Stored(clusterVersions[d])
               p == Stored(clusterVersions'[d])
           IN  \/ p = o
               \/ o = Absent /\ p # Absent /\ p.uid = lastUid + 1 /\ p.fins = {}
  PROVE  [Ownership!Next]_(Ownership!vars)
  <1>1. lastUid \in Nat
    BY DEF ProtocolInv, OwnerInv, HeldInv, TypeOK
  <1>2. \A i \in Incarnations : i[1] \in Cluster /\ i[2] \in Nat
    BY DEF Incarnations
  <1>3. HeldIncarnations' = HeldIncarnations
    <2>1. ASSUME NEW i \in Incarnations
          PROVE  i \in HeldIncarnations' <=> i \in HeldIncarnations
      BY <1>2 DEF HeldIncarnations, Held, Incarnations
    <2> QED  BY <2>1 DEF HeldIncarnations, Incarnations
  <1>4. GoneIncarnations \subseteq GoneIncarnations'
    <2>1. ASSUME NEW i \in Incarnations, i \in GoneIncarnations
          PROVE  i \in GoneIncarnations'
      BY <1>1, <1>2, <2>1 DEF GoneIncarnations, Incarnations
    <2> QED  BY <2>1 DEF GoneIncarnations, Incarnations
  <1>5. GoneIncarnations' \cap HeldIncarnations' = {}
    BY DEF GoneIncarnations, HeldIncarnations, Held
  <1>6. UNCHANGED <<RemoteOwner, Excused>>
    BY DEF RemoteOwner, Excused
  <1>7. Ownership!Forget
    BY <1>3, <1>4, <1>5, <1>6 DEF Ownership!Forget
  <1> QED  BY <1>7 DEF Ownership!Next

(* A user creates a cluster. *)
LEMMA CreateIsForget ==
  ASSUME ProtocolInv, NEW c \in Cluster, CreateCluster(c)
  PROVE  [Ownership!Next]_(Ownership!vars)
  <1>1. PICK s \in Specs : StoreCluster(c, NewCluster(lastUid + 1, s, {}))
    BY DEF CreateCluster
  <1> DEFINE x == NewCluster(lastUid + 1, s, {})
  <1>2. x \in ClusterObject /\ x.uid = lastUid + 1 /\ x.fins = {}
    <2>1. lastUid + 1 \in Nat /\ s \in ClusterSpec
      BY SpecsAssumption DEF TypeOK, ProtocolInv, OwnerInv, HeldInv
    <2> QED  BY <2>1, NewClusterType DEF NewCluster
  <1> HIDE DEF x
  <1>3. x # Absent /\ x \in ClusterVersion
    BY <1>2, AbsentAssumption DEF ClusterVersion
  <1>4. /\ Stored(clusterVersions'[c]) = x
        /\ \A d \in Cluster \ {c} : clusterVersions'[d] = clusterVersions[d]
    BY <1>1, <1>3, AppendStored DEF x, ProtocolInv, OwnerInv, HeldInv
  <1>5. /\ Stored(clusterVersions[c]) = Absent
        /\ lastUid' = lastUid + 1 /\ UNCHANGED <<omni, orphaned, retargeted>>
    BY DEF CreateCluster, history
  <1> QED  BY <1>2, <1>3, <1>4, <1>5, NewUidIsForget

(* An edit is Excuse when it moves the target, and does not show otherwise. *)
LEMMA UpdateIsExcuse ==
  ASSUME ProtocolInv, NEW c \in Cluster, UpdateCluster(c)
  PROVE  [Ownership!Next]_(Ownership!vars)
  <1> DEFINE o == Stored(clusterVersions[c])
  <1>1. o # Absent /\ o \in ClusterObject /\ <<c, o.uid>> \in Incarnations
    BY StoredIsOwner DEF UpdateCluster
  <1>2. PICK s \in Specs :
          /\ StoreCluster(c, EditedCluster(o, s))
          /\ retargeted' \in {retargeted, retargeted \cup {<<c, o.uid>>}}
    BY DEF UpdateCluster
  <1>3. UNCHANGED <<lastUid, omni, orphaned>>
    BY DEF UpdateCluster
  <1> DEFINE x == EditedCluster(o, s)
  <1>4. x \in ClusterObject /\ x.uid = o.uid /\ x.fins = o.fins
    BY <1>1, SpecsAssumption, EditedClusterType
  <1> HIDE DEF x
  <1>5. x # Absent /\ x \in ClusterVersion /\ StoreCluster(c, x)
    BY <1>2, <1>4, AbsentAssumption DEF ClusterVersion, x
  <1> HIDE DEF o
  <1>6. UNCHANGED <<HeldIncarnations, GoneIncarnations>>
    BY <1>1, <1>3, <1>4, <1>5, KeepStored DEF o
  <1>7. UNCHANGED RemoteOwner
    BY <1>3 DEF RemoteOwner
  <1>8. Excused' \in {Excused, Excused \cup {<<c, o.uid>>}}
    BY <1>2, <1>3 DEF Excused
  <1>9. CASE Excused' = Excused
    BY <1>6, <1>7, <1>9, DoesNotShow
  <1>10. CASE Excused' = Excused \cup {<<c, o.uid>>}
    <2>1. Ownership!Excuse(<<c, o.uid>>)
      BY <1>6, <1>7, <1>10 DEF Ownership!Excuse
    <2> QED  BY <1>1, <2>1 DEF Ownership!Next
  <1> QED  BY <1>8, <1>9, <1>10

(* A delete request does not show, or is Forget when nothing holds the      *)
(* object.                                                                  *)
LEMMA DeleteIsForget ==
  ASSUME ProtocolInv, NEW c \in Cluster, DeleteCluster(c)
  PROVE  [Ownership!Next]_(Ownership!vars)
  <1> DEFINE o == Stored(clusterVersions[c])
             x == MarkedCluster(o)
  <1>1. o # Absent /\ o \in ClusterObject
    BY StoredIsOwner DEF DeleteCluster
  <1>2. StoreCluster(c, Settle(x)) /\ UNCHANGED <<lastUid, omni, orphaned, retargeted>>
    BY DEF DeleteCluster
  <1>3. x \in ClusterObject /\ x.uid = o.uid /\ x.fins = o.fins /\ x.deleting
    BY <1>1, MarkedClusterType
  <1>4. UNCHANGED <<RemoteOwner, Excused>>
    BY <1>2 DEF RemoteOwner, Excused
  <1> HIDE DEF x, o
  <1>5. CASE o.fins # {}
    <2>1. Settle(x) = x /\ x # Absent /\ x \in ClusterVersion
      BY <1>3, <1>5, AbsentAssumption DEF Settle, ClusterVersion
    <2>2. UNCHANGED <<HeldIncarnations, GoneIncarnations>>
      BY <1>1, <1>2, <1>3, <2>1, KeepStored DEF o
    <2> QED  BY <1>4, <2>2, DoesNotShow
  <1>6. CASE o.fins = {}
    <2>1. Settle(x) = Absent
      BY <1>3, <1>6 DEF Settle
    <2>2. /\ HeldIncarnations' = HeldIncarnations \ {<<c, o.uid>>}
          /\ GoneIncarnations' = GoneIncarnations \cup {<<c, o.uid>>}
          /\ <<c, o.uid>> \notin HeldIncarnations
      BY <1>1, <1>2, <1>6, <2>1, DropStored DEF o
    <2>3. GoneIncarnations \cap HeldIncarnations = {}
      BY DEF GoneIncarnations, HeldIncarnations, Held
    <2>4. Ownership!Forget
      BY <1>4, <2>2, <2>3 DEF Ownership!Forget
    <2> QED  BY <2>4 DEF Ownership!Next
  <1> QED  BY <1>5, <1>6

(* The connection side hands out uids, and does nothing else that shows. *)
LEMMA ConnectionSteps ==
  ASSUME ProtocolInv,
         ConnectionWorkerStep \/ \E k \in Connection : ConnectionStep(k)
  PROVE  [Ownership!Next]_(Ownership!vars)
  <1>1. UNCHANGED <<clusterVersions, omni, orphaned, retargeted>>
    BY ConnectionSide DEF ProtocolInv, OwnerInv, HeldInv
  <1>2. lastUid' \in {lastUid, lastUid + 1}
    BY DEF ConnectionWorkerStep, ListReferences, UpdateConnectionStatus,
      AddConnectionFinalizer, RemoveConnectionFinalizers, ConnectionAlreadyGone,
      ConnectionWriteFails, ConnectionStep, ReconcileConnection,
      ReconcileConnectionNothing, ReconcileConnectionDelete,
      ReconcileConnectionNew, ReconcileConnectionPing, BeginConnection,
      DeliverConnection, DeleteConnection, CreateConnection
  <1>3. CASE lastUid' = lastUid
    BY <1>1, <1>3, KeepsAll
  <1>4. CASE lastUid' = lastUid + 1
    BY <1>1, <1>4, NewUidIsForget
  <1> QED  BY <1>2, <1>3, <1>4

(* Every step is a step of the protocol, or does not show. *)
LEMMA StepImplements ==
  ProtocolInv /\ [Next]_vars => [Ownership!Next]_(Ownership!vars)
  <1> SUFFICES ASSUME ProtocolInv, [Next]_vars
               PROVE  [Ownership!Next]_(Ownership!vars)
    OBVIOUS
  <1>1. TypeOK
    BY DEF ProtocolInv, OwnerInv, HeldInv
  <1>2. ASSUME NEW c \in Cluster, ClusterStep(c)
        PROVE  [Ownership!Next]_(Ownership!vars)
    <2>1. CASE ReconcileCluster(c)
      <3>1. UNCHANGED <<clusterVersions, lastUid, omni, orphaned, retargeted>>
        BY <2>1 DEF ReconcileCluster, ReconcileNothing, ReconcileDeleteOrphan,
          ReconcileDelete, ReconcileNew, ReconcileSuspended, ReconcileSync,
          BeginCluster, history
      <3> QED  BY <3>1, KeepsAll
    <2>2. CASE DeliverCluster(c)
      <3>1. \A d \in Cluster :
              Stored(clusterVersions'[d]) = Stored(clusterVersions[d])
        BY <1>1, <2>2, DeliverStored
      <3>2. UNCHANGED <<lastUid, omni, orphaned, retargeted>>
        BY <2>2 DEF DeliverCluster, history
      <3> QED  BY <3>1, <3>2, KeepsAll
    <2> QED
      BY <1>2, <2>1, <2>2, CreateIsForget, UpdateIsExcuse, DeleteIsForget
         DEF ClusterStep
  <1>3. CASE Restart
    <2>1. \A d \in Cluster : Stored(clusterVersions'[d]) = Stored(clusterVersions[d])
      BY <1>1, <1>3, RestartStored
    <2>2. UNCHANGED <<lastUid, omni, orphaned, retargeted>>
      BY <1>3 DEF Restart, history
    <2> QED  BY <2>1, <2>2, KeepsAll
  <1>4. ASSUME NEW refs \in SUBSET Cluster, WakeClusters(refs)
        PROVE  [Ownership!Next]_(Ownership!vars)
    <2>1. UNCHANGED <<clusterVersions, lastUid, omni, orphaned, retargeted>>
      BY <1>4 DEF WakeClusters, history
    <2> QED  BY <2>1, KeepsAll
  <1>5. CASE UNCHANGED vars
    BY <1>5, KeepsAll DEF vars
  <1> QED
    BY <1>2, <1>3, <1>4, <1>5, WorkerSteps, ConnectionSteps DEF Next

(* Nothing is owned when the operator starts. *)
LEMMA InitImplements == Init => Ownership!Init
  <1> SUFFICES ASSUME Init PROVE Ownership!Init
    OBVIOUS
  <1>1. /\ HeldIncarnations \subseteq Incarnations
        /\ GoneIncarnations \subseteq Incarnations
        /\ HeldIncarnations \cap GoneIncarnations = {}
    BY DEF HeldIncarnations, GoneIncarnations, Held
  <1>2. RemoteOwner = [t \in Connection \X Remote |-> Absent]
    BY DEF Init, RemoteOwner
  <1>3. Excused = {}
    BY DEF Init, Excused
  <1> QED  BY <1>1, <1>2, <1>3 DEF Ownership!Init, Ownership!TypeOK

(* The OmniCluster controller implements the ownership protocol: however    *)
(* stale its cache, whichever calls fail and whenever it crashes, it syncs  *)
(* a remote cluster only for an OmniCluster that has its finalizer at that  *)
(* moment, and removes the finalizer only when nothing of that incarnation  *)
(* is left in Omni or a user has excused it.                                *)
THEOREM ClusterImplementsOwnership == Spec => ImplementsOwnership
  <1> QED
    BY InitProtocol, StepProtocol, InitImplements, StepImplements, PTL
       DEF Spec, ImplementsOwnership, Ownership!Spec

=============================================================================
