-------------------------- MODULE SecretSyncProofs --------------------------
(***************************************************************************)
(* Proofs about SecretSync, for every set of syncs, Secrets and specs, any *)
(* failures and user operations, and every bound.  The lineage of the      *)
(* syncs is that of ObjectVersionsProofs; what is particular to this       *)
(* controller is which Secret of the workload cluster Reconcile looks at,  *)
(* deletes and writes.                                                     *)
(***************************************************************************)
EXTENDS SecretSync, ObjectVersionsProofs

-----------------------------------------------------------------------------
(* Types, and what Reconcile knows at each of its steps *)

(* What an earlier step has found out holds when a later one relies on it:  *)
(* a Secret is written with a cluster and data, a victim is a target, and   *)
(* the finalizer is removed on the way of a deletion only.                  *)
WorkerKnows ==
  worker.pc # "idle" =>
    /\ worker.pc \in {"getCluster", "getSource", "ensureNamespace", "getTarget",
                      "write"} => ~worker.item.deleting
    /\ worker.pc = "removeFinalizer" => worker.item.deleting
    /\ worker.pc # "addFinalizer" => worker.item.fins # {}
    /\ worker.pc = "addFinalizer" => ~worker.item.deleting
    /\ worker.pc = "getSource" => worker.cluster \in RemoteName
    /\ worker.pc \in {"getKubeconfig", "checkOwned", "delete", "ensureNamespace",
                      "getTarget", "write"} /\ ~worker.item.deleting
         => worker.cluster \in RemoteName /\ worker.data \in Data
    /\ worker.pc \in {"checkOwned", "delete"} =>
         /\ worker.victim \in Target
         /\ worker.item.deleting => worker.victim = DeletedTarget(worker.item)
    /\ worker.reason = "Synced" => ~worker.item.deleting

(* Nobody but Reconcile writes to the workload cluster, so what it is about *)
(* to delete is still its own.                                              *)
VictimIsOwned ==
  worker.pc = "delete" => IsOwnedSecret(worker.item, workload[worker.victim])

KnownInv == TypeOK /\ WorkerKnows /\ VictimIsOwned

(* The parts of an object have their types. *)
LEMMA ObjectType ==
  ASSUME NEW o \in SyncObject
  PROVE  /\ o # Absent /\ o.uid \in Nat /\ o.gen \in Nat /\ o.spec \in SyncSpec
         /\ o.spec.target \in Target /\ o.spec.source \in Source
         /\ o.spec.target.namespace \in Namespace /\ o.spec.form \in Form
         /\ o.deleting \in BOOLEAN /\ o.fins \in SUBSET {Finalizer}
         /\ o.status.target \in Target \cup {Absent}
         /\ DeletedTarget(o) \in Target
  BY SyncAbsentAssumption DEF SyncObject, SyncSpec, Target, DeletedTarget

(* A worker that is not idle has an object. *)
LEMMA BusyType ==
  ASSUME TypeOK, worker.pc # "idle"
  PROVE  worker \in BusyWorker /\ worker.key \in Sync /\ worker.item \in SyncObject
  BY DEF TypeOK, IdleWorker, BusyWorker

(* The versions are those of the lineage. *)
LEMMA VersionsType ==
  ASSUME TypeOK
  PROVE  /\ Tracked(Sync, SyncVersion, syncVersions, worker)
         /\ Absent \in SyncVersion
         /\ \A y \in Sync : /\ Cached(syncVersions[y]) \in SyncVersion
                            /\ Stored(syncVersions[y]) \in SyncVersion
  <1>1. syncVersions \in VersionMaps(Sync, SyncVersion)
    BY DEF TypeOK, VersionMaps
  <1>2. Versioned(SyncVersion)
    BY ObjectType DEF Versioned, SyncVersion
  <1>3. worker.pc # "idle" =>
          worker.key \in Sync /\ worker.item \in SyncVersion /\ worker.item # Absent
    BY BusyType, ObjectType DEF SyncVersion
  <1>4. Tracked(Sync, SyncVersion, syncVersions, worker)
    BY <1>1, <1>2, <1>3 DEF Tracked
  <1> QED  BY <1>1, <1>4, MapEnds DEF SyncVersion

(* A store of a version is a write of the lineage. *)
LEMMA StoreIsAppend ==
  ASSUME TypeOK, NEW y \in Sync, NEW x \in SyncVersion, StoreSync(y, x)
  PROVE  /\ syncVersions' = Appended(syncVersions, y, x)
         /\ syncVersions' \in [Sync -> Seq(SyncVersion)]
         /\ \A z \in Sync : syncVersions'[z] # <<>>
  <1>1. syncVersions' = Appended(syncVersions, y, x)
    BY DEF StoreSync, Appended
  <1>2. syncVersions \in VersionMaps(Sync, SyncVersion)
    BY DEF TypeOK, VersionMaps
  <1>3. Appended(syncVersions, y, x) \in VersionMaps(Sync, SyncVersion)
    BY <1>2, MapAppend
  <1> QED  BY <1>1, <1>3 DEF VersionMaps

(* The initial states. *)
LEMMA InitKnown == Init => KnownInv
  <1> SUFFICES ASSUME Init PROVE KnownInv
    OBVIOUS
  <1>1. /\ syncVersions \in [Sync -> Seq(SyncVersion)]
        /\ \A y \in Sync : syncVersions[y] # <<>>
    <2>1. <<Absent>> \in Seq(SyncVersion) /\ <<Absent>> # <<>>
      BY OneVersion DEF SyncVersion
    <2> QED  BY <2>1 DEF Init
  <1>2. worker = IdleWorker /\ worker.pc = "idle"
    BY DEF Init, IdleWorker
  <1>3. /\ sources \in [Source -> Data \cup {Absent}]
        /\ kubeconfig \in KubeconfigValue
    BY SyncAssumption DEF Init, KubeconfigValue
  <1>4. workload \in [Target -> WorkloadSecret \cup {Absent}]
    BY DEF Init, WorkloadSecret
  <1>5. namespaces \subseteq Namespace
    BY SyncAssumption DEF Init
  <1> QED
    BY <1>1, <1>2, <1>3, <1>4, <1>5
       DEF Init, KnownInv, TypeOK, WorkerKnows, VictimIsOwned

(* Reconcile starts. *)
LEMMA KnownBegin ==
  ASSUME KnownInv, NEW y \in Sync, Reconcile(y)
  PROVE  /\ KnownInv'
         /\ \/ UNCHANGED worker
            \/ /\ worker.pc = "idle" /\ worker'.key = y
               /\ worker'.item = Cached(syncVersions[y])
               /\ Cached(syncVersions[y]) # Absent
               /\ worker'.pc = "removeFinalizer" => worker'.item.spec.policy = "Orphan"
         /\ UNCHANGED <<syncVersions, environment, remote, orphaned>>
  <1> DEFINE item == Cached(syncVersions[y])
  <1> USE DEF KnownInv
  <1>1. item \in SyncVersion
    BY VersionsType
  <1>2. CASE ReconcileNothing(y)
    <2>1. /\ UNCHANGED <<syncVersions, worker, environment, remote, orphaned>>
          /\ queue' \subseteq Sync
      BY <1>2 DEF ReconcileNothing, TypeOK
    <2> QED  BY <2>1 DEF TypeOK, WorkerKnows, VictimIsOwned, environment, remote
  <1>3. ASSUME NEW pc \in {"addFinalizer", "getCluster", "getKubeconfig",
                           "removeFinalizer"},
               CanReconcile(y), item # Absent, Begin(y, pc),
               pc # "addFinalizer" => item.fins # {},
               pc \in {"addFinalizer", "getCluster"} => ~item.deleting,
               pc \in {"getKubeconfig", "removeFinalizer"} => item.deleting,
               pc = "removeFinalizer" => item.spec.policy = "Orphan"
        PROVE  /\ KnownInv'
               /\ worker.pc = "idle" /\ worker'.key = y
               /\ worker'.item = item
               /\ worker'.pc = "removeFinalizer" => item.spec.policy = "Orphan"
               /\ UNCHANGED <<syncVersions, environment, remote, orphaned>>
    <2>1. item \in SyncObject
      BY <1>1, <1>3 DEF SyncVersion
    <2>2. worker' = [pc |-> pc, key |-> y, item |-> item, cluster |-> Absent,
                     data |-> Absent, victim |-> Absent, found |-> Absent,
                     reason |-> "None", again |-> FALSE]
      BY <1>3 DEF Begin, IdleWorker
    <2>3. worker' \in BusyWorker
      BY <2>1, <2>2 DEF BusyWorker, Reason
    <2>4. WorkerKnows' /\ VictimIsOwned'
      BY <1>3, <2>2 DEF WorkerKnows, VictimIsOwned
    <2>5. /\ UNCHANGED <<syncVersions, environment, remote, orphaned>>
          /\ queue' \subseteq Sync
      BY <1>3 DEF Begin, TypeOK
    <2>6. TypeOK'
      BY <2>3, <2>5 DEF TypeOK, environment, remote
    <2> QED  BY <1>3, <2>2, <2>4, <2>5, <2>6 DEF CanReconcile
  <1>4. CASE ReconcileDelete(y)
    <2>1. CASE item.spec.policy = "Orphan"
      BY <1>3, <1>4, <2>1 DEF ReconcileDelete
    <2>2. CASE item.spec.policy # "Orphan"
      BY <1>3, <1>4, <2>2 DEF ReconcileDelete
    <2> QED  BY <2>1, <2>2
  <1>5. CASE ReconcileNew(y)
    BY <1>3, <1>5 DEF ReconcileNew
  <1>6. CASE ReconcileSync(y)
    BY <1>3, <1>6 DEF ReconcileSync
  <1> QED  BY <1>2, <1>4, <1>5, <1>6 DEF Reconcile

(* Reconcile has something to report. *)
LEMMA KnownReport ==
  ASSUME TypeOK, WorkerKnows, worker.pc \notin {"idle", "addFinalizer"},
         NEW reason \in Reason, NEW again \in BOOLEAN,
         worker' = Report(reason, again),
         reason = "Synced" => ~worker.item.deleting
  PROVE  /\ worker' \in BusyWorker /\ WorkerKnows' /\ VictimIsOwned'
         /\ Follows(worker, worker') /\ worker'.pc = "updateStatus"
  <1>1. worker \in BusyWorker
    BY BusyType
  <1>2. /\ worker' \in BusyWorker
        /\ worker'.pc = "updateStatus" /\ worker'.key = worker.key
        /\ worker'.item = worker.item /\ worker'.reason = reason
    BY <1>1 DEF Report, BusyWorker
  <1> QED  BY <1>2 DEF WorkerKnows, VictimIsOwned, Follows

(* A step of Reconcile that only looks: nothing but its own state changes,  *)
(* its copy stays, and the finalizer is next only when what it looked at is *)
(* not its own.                                                             *)
LEMMA KnownLook ==
  ASSUME KnownInv,
         \/ SpecError \/ MissingCluster \/ FoundCluster
         \/ MissingSource \/ FoundSource \/ NoKubeconfig \/ FoundKubeconfig
         \/ CheckOwned \/ GetTarget
  PROVE  /\ KnownInv' /\ Follows(worker, worker')
         /\ worker'.pc = "removeFinalizer" =>
              /\ worker.pc = "checkOwned" /\ worker.item.deleting
              /\ ~IsOwnedSecret(worker.item, workload[worker.victim])
         /\ UNCHANGED <<syncVersions, queue, environment, remote, orphaned>>
  <1> USE DEF KnownInv
  <1>1. {"ValidationFailed", "MissingCluster", "MissingSecret"} \subseteq Reason \ {"Synced"}
    BY DEF Reason
  <1>2. /\ worker.pc \notin {"idle", "addFinalizer"}
        /\ UNCHANGED <<syncVersions, queue, environment, remote, orphaned>>
    BY DEF SpecError, MissingCluster, FoundCluster, MissingSource, FoundSource,
       NoKubeconfig, FoundKubeconfig, CheckOwned, GetTarget, Advance
  <1>3. /\ worker \in BusyWorker /\ worker.key \in Sync
        /\ worker.item \in SyncObject /\ worker.item.spec.target \in Target
        /\ worker.item.spec.source \in Source /\ DeletedTarget(worker.item) \in Target
        /\ worker.item.status.target \in Target \cup {Absent}
    BY <1>2, BusyType, ObjectType
  <1>4. ASSUME worker' \in BusyWorker PROVE TypeOK'
    BY <1>2, <1>4 DEF TypeOK, environment, remote
  <1>5. CASE \E reason \in Reason \ {"Synced"}, again \in BOOLEAN :
               worker' = Report(reason, again)
    BY <1>2, <1>4, <1>5, KnownReport
  <1>6. CASE SpecError \/ MissingCluster \/ MissingSource
    BY <1>1, <1>5, <1>6 DEF SpecError, MissingCluster, MissingSource, Advance
  <1>7. CASE NoKubeconfig
    BY <1>1, <1>5, <1>7 DEF NoKubeconfig, Advance
  <1>8. CASE FoundCluster
    <2>1. worker.pc = "getCluster" /\ cluster \in RemoteName
      BY <1>8 DEF FoundCluster, TypeOK
    <2>2. /\ worker' \in BusyWorker /\ worker'.pc = "getSource"
          /\ worker'.key = worker.key /\ worker'.item = worker.item
          /\ worker'.cluster = cluster /\ worker'.reason = worker.reason
      BY <1>3, <1>8, <2>1 DEF FoundCluster, Advance, BusyWorker
    <2> QED
      BY <1>2, <1>4, <2>1, <2>2 DEF WorkerKnows, VictimIsOwned, Follows
  <1>9. CASE FoundSource
    <2>1. /\ worker.pc = "getSource"
          /\ sources[worker.item.spec.source] \in Data
      BY <1>3, <1>9 DEF FoundSource, TypeOK
    <2>2. /\ worker' \in BusyWorker /\ worker'.pc = "getKubeconfig"
          /\ worker'.key = worker.key /\ worker'.item = worker.item
          /\ worker'.cluster = worker.cluster /\ worker'.reason = worker.reason
          /\ worker'.data \in Data
      BY <1>3, <1>9, <2>1 DEF FoundSource, Advance, BusyWorker
    <2> QED
      BY <1>2, <1>4, <2>1, <2>2 DEF WorkerKnows, VictimIsOwned, Follows
  <1>10. ASSUME worker.pc = "getKubeconfig", NEW victim \in Target,
                worker' = [worker EXCEPT !.pc = "checkOwned", !.victim = victim],
                worker.item.deleting => victim = DeletedTarget(worker.item)
         PROVE  /\ KnownInv' /\ Follows(worker, worker')
                /\ worker'.pc # "removeFinalizer"
    <2>1. /\ worker' \in BusyWorker /\ worker'.pc = "checkOwned"
          /\ worker'.key = worker.key /\ worker'.item = worker.item
          /\ worker'.cluster = worker.cluster /\ worker'.data = worker.data
          /\ worker'.reason = worker.reason /\ worker'.victim = victim
      BY <1>3, <1>10 DEF BusyWorker
    <2> QED
      BY <1>2, <1>4, <1>10, <2>1 DEF WorkerKnows, VictimIsOwned, Follows
  <1>11. CASE FoundKubeconfig
    <2>0. worker.pc = "getKubeconfig"
      BY <1>11 DEF FoundKubeconfig
    <2>1. CASE worker.item.deleting
      BY <1>2, <1>3, <1>10, <1>11, <2>1 DEF FoundKubeconfig, Advance
    <2>2. CASE ~worker.item.deleting /\ HasPreviousTarget(worker.item)
      <3>1. worker.item.status.target \in Target
        BY <1>3, <2>2 DEF HasPreviousTarget
      <3> QED  BY <1>2, <1>10, <1>11, <2>2, <3>1 DEF FoundKubeconfig, Advance
    <2>3. CASE ~worker.item.deleting /\ ~HasPreviousTarget(worker.item)
      <3>1. worker' = [worker EXCEPT !.pc = "ensureNamespace"]
        BY <1>11, <2>3 DEF FoundKubeconfig, Advance
      <3>2. /\ worker' \in BusyWorker /\ worker'.pc = "ensureNamespace"
            /\ worker'.key = worker.key /\ worker'.item = worker.item
            /\ worker'.cluster = worker.cluster /\ worker'.data = worker.data
            /\ worker'.reason = worker.reason
        BY <1>3, <3>1 DEF BusyWorker
      <3> QED
        BY <1>2, <1>4, <2>0, <2>3, <3>2 DEF WorkerKnows, VictimIsOwned, Follows
    <2> QED  BY <2>1, <2>2, <2>3
  <1>12. CASE CheckOwned
    <2> DEFINE owned == IsOwnedSecret(worker.item, workload[worker.victim])
    <2>1. /\ worker.pc = "checkOwned"
          /\ worker' = [worker EXCEPT !.pc = IF owned THEN "delete" ELSE AfterDelete]
      BY <1>12 DEF CheckOwned, Advance
    <2>2. /\ worker' \in BusyWorker
          /\ worker'.pc = IF owned THEN "delete" ELSE AfterDelete
          /\ worker'.key = worker.key /\ worker'.item = worker.item
          /\ worker'.cluster = worker.cluster /\ worker'.data = worker.data
          /\ worker'.reason = worker.reason /\ worker'.victim = worker.victim
      BY <1>3, <2>1 DEF BusyWorker, AfterDelete
    <2>3. workload' = workload
      BY <1>2 DEF remote
    <2>4. WorkerKnows' /\ Follows(worker, worker')
      BY <2>1, <2>2 DEF WorkerKnows, Follows, AfterDelete
    <2>5. VictimIsOwned'
      BY <2>2, <2>3 DEF VictimIsOwned, AfterDelete, IsOwnedSecret
    <2> QED  BY <1>2, <1>4, <2>1, <2>2, <2>4, <2>5 DEF AfterDelete
  <1>13. CASE GetTarget
    <2>1. /\ worker.pc = "getTarget"
          /\ workload[worker.item.spec.target] \in WorkloadSecret \cup {Absent}
      BY <1>3, <1>13 DEF GetTarget, TypeOK
    <2>2. /\ worker' \in BusyWorker /\ worker'.pc = "write"
          /\ worker'.key = worker.key /\ worker'.item = worker.item
          /\ worker'.cluster = worker.cluster /\ worker'.data = worker.data
          /\ worker'.reason = worker.reason
      BY <1>3, <1>13, <2>1 DEF GetTarget, Advance, BusyWorker
    <2> QED
      BY <1>2, <1>4, <2>1, <2>2 DEF WorkerKnows, VictimIsOwned, Follows
  <1> QED
    BY <1>6, <1>7, <1>8, <1>9, <1>11, <1>12, <1>13

(* The calls to the workload cluster: a Secret goes only at the victim and  *)
(* comes only at the target, and the finalizer is next only after the       *)
(* deletion.                                                                *)
LEMMA KnownCall ==
  ASSUME KnownInv, DeleteSecret \/ EnsureNamespace \/ WriteTarget \/ WorkloadFails
  PROVE  /\ KnownInv' /\ Follows(worker, worker')
         /\ \/ workload' = workload
            \/ worker.pc = "delete" /\ workload' = Deleted
            \/ worker.pc = "write" /\ workload' = Written
         /\ worker'.pc = "removeFinalizer" =>
              worker.pc = "delete" /\ worker.item.deleting /\ workload' = Deleted
         /\ UNCHANGED <<syncVersions, queue, environment, orphaned>>
  <1> USE DEF KnownInv
  <1>1. /\ worker.pc \in {"checkOwned", "delete", "ensureNamespace", "getTarget",
                          "write"}
        /\ UNCHANGED <<syncVersions, queue, environment, orphaned>>
    BY DEF DeleteSecret, EnsureNamespace, WriteTarget, WorkloadFails, DeleteFails,
       SyncFails, CanWrite
  <1>2. /\ worker \in BusyWorker /\ worker.key \in Sync
        /\ worker.item \in SyncObject /\ worker.item.spec.target \in Target
        /\ worker.item.uid \in Nat /\ worker.item.spec.form \in Form
        /\ worker.item.spec.target.namespace \in Namespace
    BY <1>1, BusyType, ObjectType
  <1>3. {"DeleteFailed", "SyncFailed", "Synced"} \subseteq Reason
    BY DEF Reason
  <1>4. workload \in [Target -> WorkloadSecret \cup {Absent}]
        /\ namespaces \subseteq Namespace
    BY DEF TypeOK
  <1>5. Deleted \in [Target -> WorkloadSecret \cup {Absent}]
    BY <1>4 DEF Deleted
  <1>6. worker.pc = "write" => Written \in [Target -> WorkloadSecret \cup {Absent}]
    <2>1. ASSUME worker.pc = "write" PROVE DesiredSecret \in WorkloadSecret
      <3>1. worker.cluster \in RemoteName /\ worker.data \in Data
        BY <2>1 DEF WorkerKnows
      <3> QED  BY <1>2, <3>1 DEF DesiredSecret, WorkloadSecret
    <2> QED  BY <1>4, <2>1 DEF Written
  <1>7. ASSUME worker' \in BusyWorker,
               workload' \in [Target -> WorkloadSecret \cup {Absent}],
               namespaces' \subseteq Namespace
        PROVE  TypeOK'
    BY <1>1, <1>7 DEF TypeOK, environment
  <1>8. CASE DeleteSecret
    <2>1. /\ worker.pc = "delete" /\ workload' = Deleted /\ namespaces' = namespaces
          /\ worker' = [worker EXCEPT !.pc = AfterDelete]
      BY <1>8 DEF DeleteSecret
    <2>2. /\ worker' \in BusyWorker /\ worker'.pc = AfterDelete
          /\ worker'.key = worker.key /\ worker'.item = worker.item
          /\ worker'.cluster = worker.cluster /\ worker'.data = worker.data
          /\ worker'.reason = worker.reason
      BY <1>2, <2>1 DEF BusyWorker, AfterDelete
    <2>3. WorkerKnows' /\ VictimIsOwned' /\ Follows(worker, worker')
      BY <2>1, <2>2 DEF WorkerKnows, VictimIsOwned, Follows, AfterDelete
    <2> QED
      BY <1>1, <1>4, <1>5, <1>7, <2>1, <2>2, <2>3 DEF AfterDelete
  <1>9. CASE EnsureNamespace
    <2>1. /\ worker.pc = "ensureNamespace" /\ workload' = workload
          /\ namespaces' \subseteq Namespace
          /\ worker' = [worker EXCEPT !.pc = "getTarget"]
      BY <1>2, <1>4, <1>9 DEF EnsureNamespace
    <2>2. /\ worker' \in BusyWorker /\ worker'.pc = "getTarget"
          /\ worker'.key = worker.key /\ worker'.item = worker.item
          /\ worker'.cluster = worker.cluster /\ worker'.data = worker.data
          /\ worker'.reason = worker.reason
      BY <1>2, <2>1 DEF BusyWorker
    <2>3. WorkerKnows' /\ VictimIsOwned' /\ Follows(worker, worker')
      BY <2>1, <2>2 DEF WorkerKnows, VictimIsOwned, Follows
    <2> QED  BY <1>1, <1>4, <1>7, <2>1, <2>2, <2>3
  <1>10. CASE WriteTarget
    <2>1. /\ worker.pc = "write" /\ workload' = Written /\ namespaces' = namespaces
          /\ worker' = Report("Synced", FALSE)
      BY <1>10 DEF WriteTarget, CanWrite
    <2>2. ~worker.item.deleting
      BY <2>1 DEF WorkerKnows
    <2> QED  BY <1>1, <1>3, <1>4, <1>6, <1>7, <2>1, <2>2, KnownReport
  <1>11. CASE DeleteFails
    <2>1. /\ worker' = Report("DeleteFailed", TRUE) /\ namespaces' = namespaces
          /\ \/ workload' = workload
             \/ worker.pc = "delete" /\ workload' = Deleted
      BY <1>11 DEF DeleteFails
    <2> QED  BY <1>1, <1>3, <1>4, <1>5, <1>7, <2>1, KnownReport
  <1>12. CASE SyncFails
    <2>1. /\ worker' = Report("SyncFailed", TRUE) /\ namespaces' = namespaces
          /\ \/ workload' = workload
             \/ worker.pc = "write" /\ workload' = Written
      BY <1>12 DEF SyncFails, CanWrite
    <2> QED  BY <1>1, <1>3, <1>4, <1>6, <1>7, <2>1, KnownReport
  <1> QED  BY <1>8, <1>9, <1>10, <1>11, <1>12 DEF WorkloadFails

-----------------------------------------------------------------------------
(* The writes to a sync *)

(* Reconcile ends. *)
LEMMA DoneType ==
  ASSUME TypeOK, worker.pc # "idle", NEW again \in BOOLEAN, Done(again)
  PROVE  /\ worker' = IdleWorker /\ worker'.pc = "idle" /\ Follows(worker, worker')
         /\ queue' \subseteq Sync
         /\ WorkerKnows' /\ VictimIsOwned'
  <1>1. worker.key \in Sync /\ queue \subseteq Sync
    BY BusyType DEF TypeOK
  <1>2. worker' = IdleWorker /\ worker'.pc = "idle"
    BY DEF Done, IdleWorker
  <1>3. queue' \subseteq Sync
    BY <1>1 DEF Done
  <1> QED  BY <1>2, <1>3 DEF Follows, WorkerKnows, VictimIsOwned

(* AddFinalizer gives the stored version its finalizer. *)
LEMMA AddIsFinalize ==
  ASSUME KnownInv, AddFinalizer
  PROVE  LET x == [worker.item EXCEPT !.fins = {Finalizer}]
             o == Stored(syncVersions[worker.key])
         IN  /\ worker.key \in Sync /\ Busy(worker, worker.key) /\ worker.item = o
             /\ x \in SyncObject /\ StoreSync(worker.key, x) /\ Finalized(o, x)
             /\ x.status = o.status
             /\ KnownInv' /\ worker' = IdleWorker /\ Follows(worker, worker')
             /\ UNCHANGED <<environment, remote, orphaned>>
  <1> DEFINE x == [worker.item EXCEPT !.fins = {Finalizer}]
             o == Stored(syncVersions[worker.key])
  <1> USE DEF KnownInv
  <1>1. /\ worker.pc = "addFinalizer" /\ worker.item = o /\ StoreSync(worker.key, x)
        /\ Done(TRUE) /\ UNCHANGED <<environment, remote, orphaned>>
    BY DEF AddFinalizer
  <1>2. worker.key \in Sync /\ worker.item \in SyncObject /\ worker.item # Absent
    BY <1>1, BusyType, ObjectType
  <1>3. /\ x \in SyncObject /\ x.uid = worker.item.uid /\ x.gen = worker.item.gen
        /\ x.spec = worker.item.spec /\ x.deleting = worker.item.deleting
        /\ x.fins = {Finalizer} /\ x.status = worker.item.status
    BY <1>2 DEF SyncObject
  <1> HIDE DEF x
  <1>4. x # Absent /\ x \in SyncVersion
    BY <1>3, ObjectType DEF SyncVersion
  <1>5. TypeOK'
    BY <1>1, <1>2, <1>4, StoreIsAppend, DoneType DEF TypeOK, environment, remote
  <1>6. Finalized(o, x)
    BY <1>1, <1>2, <1>3, <1>4 DEF Finalized
  <1> QED
    BY <1>1, <1>2, <1>3, <1>5, <1>6, DoneType DEF Busy, x

(* UpdateStatus continues the stored version with a new status. *)
LEMMA StatusIsContinue ==
  ASSUME KnownInv, UpdateStatus
  PROVE  LET o == Stored(syncVersions[worker.key])
             x == [o EXCEPT !.status = NewStatus(o)]
         IN  /\ worker.key \in Sync /\ Busy(worker, worker.key)
             /\ x \in SyncObject /\ StoreSync(worker.key, x) /\ Continuation(o, x)
             /\ o \in SyncObject /\ x.spec = o.spec
             /\ x.status.target = NewStatus(o).target
             /\ KnownInv' /\ worker' = IdleWorker /\ Follows(worker, worker')
             /\ UNCHANGED <<environment, remote, orphaned>>
  <1> DEFINE o == Stored(syncVersions[worker.key])
             x == [o EXCEPT !.status = NewStatus(o)]
  <1> USE DEF KnownInv
  <1>1. /\ worker.pc = "updateStatus" /\ o # Absent /\ StoreSync(worker.key, x)
        /\ Done(worker.again) /\ UNCHANGED <<environment, remote, orphaned>>
    BY DEF UpdateStatus
  <1>2. /\ worker \in BusyWorker /\ worker.key \in Sync
        /\ worker.item \in SyncObject /\ worker.item.spec.target \in Target
        /\ worker.reason \in Reason /\ worker.again \in BOOLEAN
    BY <1>1, BusyType, ObjectType DEF BusyWorker
  <1>3. o \in SyncObject
    BY <1>1, <1>2, VersionsType DEF SyncVersion
  <1>4. /\ NewStatus(o) \in [obs : Nat, target : Target \cup {Absent}, reason : Reason]
        /\ o.gen \in Nat
    <2>1. o.gen \in Nat /\ o.spec.target \in Target
      BY <1>3, ObjectType
    <2> QED  BY <1>2, <2>1 DEF NewStatus
  <1> HIDE DEF o
  <1>5. /\ x \in SyncObject /\ x.uid = o.uid /\ x.gen = o.gen
        /\ x.spec = o.spec /\ x.deleting = o.deleting
        /\ x.fins = o.fins /\ x.status = NewStatus(o)
    BY <1>3, <1>4 DEF SyncObject
  <1> HIDE DEF x
  <1>6. x # Absent /\ x \in SyncVersion
    BY <1>5, ObjectType DEF SyncVersion
  <1>7. TypeOK'
    BY <1>1, <1>2, <1>6, StoreIsAppend, DoneType DEF TypeOK, environment, remote
  <1>8. Continuation(o, x)
    BY <1>1, <1>4, <1>5, <1>6 DEF Continuation
  <1>9. KnownInv' /\ worker' = IdleWorker /\ Follows(worker, worker')
    BY <1>1, <1>2, <1>7, DoneType
  <1> QED
    BY <1>1, <1>2, <1>3, <1>5, <1>8, <1>9 DEF Busy, x, o

(* RemoveFinalizer takes the finalizer from the stored version, whichever   *)
(* incarnation that is by now.                                              *)
LEMMA RemoveIsSettle ==
  ASSUME KnownInv, RemoveFinalizer
  PROVE  LET o == Stored(syncVersions[worker.key])
             x == Settle([o EXCEPT !.fins = {}])
         IN  /\ worker.key \in Sync /\ Busy(worker, worker.key)
             /\ worker.item \in SyncObject /\ worker.item.deleting
             /\ o \in SyncObject /\ x \in SyncVersion /\ StoreSync(worker.key, x)
             /\ o.deleting => x = Absent
             /\ ~o.deleting /\ o.fins = {} => Continuation(o, x)
             /\ x # Absent => x.uid = o.uid /\ x.spec = o.spec /\ x.status = o.status
             /\ KnownInv' /\ worker' = IdleWorker /\ Follows(worker, worker')
             /\ orphaned' = IF worker.item.spec.policy = "Orphan"
                              THEN orphaned \cup {worker.item.uid} ELSE orphaned
             /\ UNCHANGED <<environment, remote>>
  <1> DEFINE o == Stored(syncVersions[worker.key])
             e == [o EXCEPT !.fins = {}]
             x == Settle(e)
  <1> USE DEF KnownInv
  <1>1. /\ worker.pc = "removeFinalizer" /\ o # Absent /\ StoreSync(worker.key, x)
        /\ Done(FALSE) /\ UNCHANGED <<environment, remote>>
        /\ orphaned' = IF worker.item.spec.policy = "Orphan"
                         THEN orphaned \cup {worker.item.uid} ELSE orphaned
    BY DEF RemoveFinalizer
  <1>2. /\ worker.key \in Sync /\ worker.item \in SyncObject
        /\ worker.item.uid \in Nat /\ worker.item.deleting
    BY <1>1, BusyType, ObjectType DEF WorkerKnows
  <1>3. o \in SyncObject
    BY <1>1, <1>2, VersionsType DEF SyncVersion
  <1> HIDE DEF o
  <1>4. /\ e \in SyncObject /\ e.uid = o.uid /\ e.gen = o.gen
        /\ e.spec = o.spec /\ e.deleting = o.deleting
        /\ e.fins = {} /\ e.status = o.status
    BY <1>3 DEF SyncObject
  <1> HIDE DEF e
  <1>5. /\ x \in SyncVersion
        /\ o.deleting => x = Absent
        /\ ~o.deleting => x = e
    BY <1>4 DEF Settle, SyncVersion
  <1>6. x # Absent => x.uid = o.uid /\ x.spec = o.spec /\ x.status = o.status
    <2>1. o.deleting \in BOOLEAN
      BY <1>3, ObjectType
    <2>2. CASE o.deleting
      BY <1>5, <2>2
    <2>3. CASE ~o.deleting
      BY <1>4, <1>5, <2>3
    <2> QED  BY <2>1, <2>2, <2>3
  <1>7. ~o.deleting /\ o.fins = {} => Continuation(o, x)
    <2>1. o.gen \in Nat /\ e # Absent
      BY <1>3, <1>4, ObjectType
    <2> QED  BY <1>1, <1>4, <1>5, <2>1 DEF Continuation
  <1> HIDE DEF x
  <1>8. worker' = IdleWorker /\ Follows(worker, worker') /\ queue' \subseteq Sync
        /\ WorkerKnows' /\ VictimIsOwned'
    BY <1>1, DoneType
  <1>9. orphaned' \subseteq Nat
    BY <1>1, <1>2 DEF TypeOK
  <1>10. TypeOK'
    BY <1>1, <1>2, <1>5, <1>8, <1>9, StoreIsAppend DEF TypeOK, environment, remote
  <1> QED
    BY <1>1, <1>2, <1>3, <1>5, <1>6, <1>7, <1>8, <1>10 DEF Busy, x, e, o

(* A conflict ends Reconcile. *)
LEMMA KnownCallFails ==
  ASSUME KnownInv, CallFails
  PROVE  /\ KnownInv' /\ worker' = IdleWorker /\ Follows(worker, worker')
         /\ UNCHANGED <<syncVersions, environment, remote, orphaned>>
  <1> USE DEF KnownInv
  <1>1. /\ worker.pc # "idle" /\ Done(TRUE)
        /\ UNCHANGED <<syncVersions, environment, remote, orphaned>>
    BY DEF CallFails
  <1>2. TypeOK'
    BY <1>1, DoneType DEF TypeOK, environment, remote
  <1> QED  BY <1>1, <1>2, DoneType

(* What users and other controllers change besides leaves Reconcile alone. *)
LEMMA KnownStays ==
  ASSUME KnownInv, UNCHANGED <<worker, workload>>, TypeOK'
  PROVE  KnownInv' /\ Follows(worker, worker')
  BY DEF KnownInv, WorkerKnows, VictimIsOwned, Follows, IsOwnedSecret

(* A new sync. *)
LEMMA CreateIsNew ==
  ASSUME KnownInv, NEW y \in Sync, CreateSync(y)
  PROVE  \E x \in SyncObject :
           /\ StoreSync(y, x) /\ Stored(syncVersions[y]) = Absent
           /\ x # Absent /\ x.uid = lastUid + 1 /\ x.fins = {}
           /\ x.status.target = Absent
           /\ lastUid < MaxUid /\ lastUid' = lastUid + 1
           /\ KnownInv' /\ Follows(worker, worker')
           /\ UNCHANGED <<worker, remote, orphaned, retargeted>>
           /\ ~x.deleting
  <1> USE DEF KnownInv
  <1>1. PICK spec \in Specs : StoreSync(y, NewSync(lastUid + 1, spec))
    BY DEF CreateSync
  <1> DEFINE x == NewSync(lastUid + 1, spec)
  <1>2. /\ x \in SyncObject /\ x.uid = lastUid + 1 /\ x.fins = {}
        /\ x.status.target = Absent /\ ~x.deleting
    BY SyncAssumption DEF NewSync, SyncObject, Reason, TypeOK
  <1> HIDE DEF x
  <1>3. x # Absent /\ x \in SyncVersion
    BY <1>2, ObjectType DEF SyncVersion
  <1>4. /\ Stored(syncVersions[y]) = Absent /\ lastUid < MaxUid
        /\ lastUid' = lastUid + 1
        /\ UNCHANGED <<queue, worker, sources, kubeconfig, notices, cluster, changes,
                       retargeted, remote, orphaned>>
    BY DEF CreateSync
  <1>5. StoreSync(y, x)
    BY <1>1 DEF x
  <1>6. TypeOK'
    BY <1>3, <1>4, <1>5, StoreIsAppend DEF TypeOK, remote
  <1> QED  BY <1>2, <1>3, <1>4, <1>5, <1>6, KnownStays DEF remote

(* An edit. *)
LEMMA EditedSyncType ==
  ASSUME NEW o \in SyncObject, NEW s \in SyncSpec
  PROVE  LET e == [o EXCEPT !.spec = s, !.gen = @ + 1]
         IN  /\ e \in SyncObject /\ e.uid = o.uid /\ e.spec = s /\ e.fins = o.fins
             /\ e.deleting = o.deleting /\ e.gen = o.gen + 1 /\ e.status = o.status
  <1> DEFINE n == [o EXCEPT !.spec = s]
  <1>1. /\ n \in SyncObject /\ n.uid = o.uid /\ n.fins = o.fins /\ n.spec = s
        /\ n.deleting = o.deleting /\ n.gen = o.gen /\ n.status = o.status
    BY DEF SyncObject
  <1>2. n.gen + 1 \in Nat
    BY <1>1, ObjectType
  <1>3. [o EXCEPT !.spec = s, !.gen = @ + 1] = [n EXCEPT !.gen = n.gen + 1]
    OBVIOUS
  <1> HIDE DEF n
  <1>4. LET e == [n EXCEPT !.gen = n.gen + 1]
        IN  /\ e \in SyncObject /\ e.uid = n.uid /\ e.spec = n.spec
            /\ e.fins = n.fins /\ e.deleting = n.deleting
            /\ e.gen = n.gen + 1 /\ e.status = n.status
    BY <1>1, <1>2 DEF SyncObject
  <1> QED  BY <1>1, <1>3, <1>4

(* A delete request. *)
LEMMA MarkedSyncType ==
  ASSUME NEW o \in SyncObject
  PROVE  LET e == [o EXCEPT !.deleting = TRUE, !.gen = @ + 1]
         IN  /\ e \in SyncObject /\ e.uid = o.uid /\ e.spec = o.spec /\ e.fins = o.fins
             /\ e.deleting /\ e.gen = o.gen + 1 /\ e.status = o.status
  <1> DEFINE n == [o EXCEPT !.deleting = TRUE]
  <1>1. /\ n \in SyncObject /\ n.uid = o.uid /\ n.fins = o.fins /\ n.spec = o.spec
        /\ n.deleting /\ n.gen = o.gen /\ n.status = o.status
    BY DEF SyncObject
  <1>2. n.gen + 1 \in Nat
    BY <1>1, ObjectType
  <1>3. [o EXCEPT !.deleting = TRUE, !.gen = @ + 1] = [n EXCEPT !.gen = n.gen + 1]
    OBVIOUS
  <1> HIDE DEF n
  <1>4. LET e == [n EXCEPT !.gen = n.gen + 1]
        IN  /\ e \in SyncObject /\ e.uid = n.uid /\ e.spec = n.spec
            /\ e.fins = n.fins /\ e.deleting = n.deleting
            /\ e.gen = n.gen + 1 /\ e.status = n.status
    BY <1>1, <1>2 DEF SyncObject
  <1> QED  BY <1>1, <1>3, <1>4

(* A user edits the stored version. *)
LEMMA UpdateIsContinue ==
  ASSUME KnownInv, NEW y \in Sync, UpdateSync(y)
  PROVE  LET o == Stored(syncVersions[y])
         IN  /\ o \in SyncObject
             /\ \E x \in SyncObject :
                  /\ StoreSync(y, x) /\ Continuation(o, x) /\ x.status = o.status
                  /\ retargeted' = IF x.spec.target # o.spec.target
                                     THEN retargeted \cup {o.uid} ELSE retargeted
                  /\ x.deleting = o.deleting
             /\ KnownInv' /\ Follows(worker, worker')
             /\ UNCHANGED <<worker, lastUid, remote, orphaned>>
  <1> DEFINE o == Stored(syncVersions[y])
  <1> USE DEF KnownInv
  <1>1. o \in SyncObject /\ o # Absent
    <2>1. o # Absent
      BY DEF UpdateSync
    <2> QED  BY <2>1, VersionsType DEF SyncVersion
  <1>2. PICK spec \in Specs \ {o.spec} :
          /\ StoreSync(y, [o EXCEPT !.spec = spec, !.gen = @ + 1])
          /\ retargeted' = IF spec.target # o.spec.target
                             THEN retargeted \cup {o.uid} ELSE retargeted
    BY DEF UpdateSync
  <1>3. UNCHANGED <<queue, worker, sources, kubeconfig, notices, cluster, lastUid,
                    changes, remote, orphaned>>
    BY DEF UpdateSync
  <1>4. o.uid \in Nat /\ o.gen \in Nat
    BY <1>1, ObjectType
  <1> HIDE DEF o
  <1>5. spec \in SyncSpec
    BY SyncAssumption
  <1> DEFINE x == [o EXCEPT !.spec = spec, !.gen = @ + 1]
  <1>6. /\ x \in SyncObject /\ x.uid = o.uid /\ x.spec = spec /\ x.fins = o.fins
        /\ x.deleting = o.deleting /\ x.gen = o.gen + 1 /\ x.status = o.status
    BY <1>1, <1>5, EditedSyncType
  <1>7. StoreSync(y, x)
    BY <1>2
  <1> HIDE DEF x
  <1>8. x # Absent /\ x \in SyncVersion
    BY <1>6, ObjectType DEF SyncVersion
  <1>9. Continuation(o, x)
    BY <1>1, <1>4, <1>6, <1>8 DEF Continuation
  <1>10. retargeted' \subseteq Nat
    BY <1>2, <1>4 DEF TypeOK
  <1>11. TypeOK'
    BY <1>3, <1>7, <1>8, <1>10, StoreIsAppend DEF TypeOK, remote
  <1>12. KnownInv' /\ Follows(worker, worker')
    BY <1>3, <1>11, KnownStays DEF remote
  <1> QED  BY <1>1, <1>2, <1>3, <1>6, <1>7, <1>9, <1>12 DEF o

(* A delete request marks a sync that has its finalizer, and removes one    *)
(* that has none.                                                           *)
LEMMA DeleteIsSettle ==
  ASSUME KnownInv, NEW y \in Sync, DeleteSync(y)
  PROVE  LET o == Stored(syncVersions[y])
         IN  /\ o \in SyncObject
             /\ \E x \in SyncVersion :
                  /\ StoreSync(y, x)
                  /\ o.fins = {} => x = Absent
                  /\ o.fins # {} => Continuation(o, x)
                  /\ x # Absent => x.uid = o.uid /\ x.spec = o.spec /\ x.status = o.status
             /\ KnownInv' /\ Follows(worker, worker')
             /\ UNCHANGED <<worker, environment, remote, orphaned>>
  <1> DEFINE o == Stored(syncVersions[y])
             e == [o EXCEPT !.deleting = TRUE, !.gen = @ + 1]
             x == Settle(e)
  <1> USE DEF KnownInv
  <1>1. o \in SyncObject /\ o # Absent /\ ~o.deleting
    <2>1. o # Absent /\ ~o.deleting
      BY DEF DeleteSync
    <2> QED  BY <2>1, VersionsType DEF SyncVersion
  <1>2. /\ StoreSync(y, x)
        /\ UNCHANGED <<queue, worker, environment, remote, orphaned>>
    BY DEF DeleteSync
  <1>3. o.uid \in Nat /\ o.gen \in Nat
    BY <1>1, ObjectType
  <1> HIDE DEF o
  <1>4. /\ e \in SyncObject /\ e.uid = o.uid /\ e.spec = o.spec /\ e.fins = o.fins
        /\ e.deleting /\ e.gen = o.gen + 1 /\ e.status = o.status
    BY <1>1, MarkedSyncType
  <1> HIDE DEF e
  <1>5. e # Absent
    BY <1>4, ObjectType
  <1>6. /\ o.fins = {} => x = Absent
        /\ o.fins # {} => x = e
        /\ x \in SyncVersion
    BY <1>4 DEF Settle, SyncVersion
  <1> HIDE DEF x
  <1>7. o.fins # {} => Continuation(o, x)
    BY <1>1, <1>3, <1>4, <1>5, <1>6 DEF Continuation
  <1>8. x # Absent => x.uid = o.uid /\ x.spec = o.spec /\ x.status = o.status
    BY <1>4, <1>6
  <1>9. TypeOK'
    BY <1>2, <1>6, StoreIsAppend DEF TypeOK, environment, remote
  <1>10. KnownInv' /\ Follows(worker, worker')
    BY <1>2, <1>9, KnownStays DEF remote
  <1> QED  BY <1>1, <1>2, <1>6, <1>7, <1>8, <1>10 DEF o

(* A watch event of a sync is delivered. *)
LEMMA KnownDeliver ==
  ASSUME KnownInv, NEW y \in Sync, DeliverSync(y)
  PROVE  /\ KnownInv' /\ Follows(worker, worker')
         /\ Len(syncVersions[y]) > 1
         /\ syncVersions' = Delivered(syncVersions, y)
         /\ UNCHANGED <<worker, environment, remote, orphaned>>
  <1> USE DEF KnownInv
  <1>1. /\ Len(syncVersions[y]) > 1
        /\ syncVersions' = Delivered(syncVersions, y)
        /\ UNCHANGED <<worker, environment, remote, orphaned>>
        /\ queue' \subseteq Sync
    BY DEF DeliverSync, Delivered, TypeOK
  <1>2. syncVersions \in VersionMaps(Sync, SyncVersion)
    BY DEF TypeOK, VersionMaps
  <1>3. Delivered(syncVersions, y) \in VersionMaps(Sync, SyncVersion)
    BY <1>1, <1>2, MapTail
  <1>4. TypeOK'
    BY <1>1, <1>3 DEF TypeOK, VersionMaps, environment, remote
  <1> QED  BY <1>1, <1>4, KnownStays DEF remote

(* Secrets and the cluster change, and their events are delivered. *)
LEMMA KnownChange ==
  ASSUME KnownInv,
         \/ \E secret \in Source \cup {"kubeconfig"} : DeliverNotice(secret)
         \/ \E s \in Source : ChangeSource(s)
         \/ ChangeKubeconfig \/ ChangeCluster
  PROVE  /\ KnownInv' /\ Follows(worker, worker')
         /\ UNCHANGED <<syncVersions, worker, lastUid, retargeted, remote, orphaned>>
  <1> USE DEF KnownInv
  <1>1. UNCHANGED <<syncVersions, worker, lastUid, retargeted, remote, orphaned>>
    BY DEF DeliverNotice, ChangeSource, ChangeKubeconfig, ChangeCluster
  <1>2. CachedSyncs \subseteq Sync
    BY DEF CachedSyncs
  <1>3. CASE \E secret \in Source \cup {"kubeconfig"} : DeliverNotice(secret)
    <2>1. PICK secret \in Source \cup {"kubeconfig"} : DeliverNotice(secret)
      BY <1>3
    <2>2. /\ notices' = notices \ {secret} /\ queue' = queue \cup RequestsForSecret(secret)
          /\ UNCHANGED <<sources, kubeconfig, cluster, changes>>
      BY <2>1 DEF DeliverNotice
    <2>3. RequestsForSecret(secret) \subseteq Sync
      BY <1>2 DEF RequestsForSecret
    <2>4. TypeOK'
      BY <1>1, <2>2, <2>3 DEF TypeOK, remote
    <2> QED  BY <1>1, <2>4, KnownStays DEF remote
  <1>4. CASE \E s \in Source : ChangeSource(s)
    <2>1. PICK s \in Source : ChangeSource(s)
      BY <1>4
    <2>2. PICK d \in Data \cup {Absent} : sources' = [sources EXCEPT ![s] = d]
      BY <2>1 DEF ChangeSource
    <2>3. /\ notices' = notices \cup {s} /\ changes' = changes + 1
          /\ UNCHANGED <<queue, kubeconfig, cluster>>
      BY <2>1 DEF ChangeSource, CountChange
    <2>4. TypeOK'
      BY <1>1, <2>2, <2>3 DEF TypeOK, remote
    <2> QED  BY <1>1, <2>4, KnownStays DEF remote
  <1>5. CASE ChangeKubeconfig
    <2>1. TypeOK'
      BY <1>1, <1>5 DEF ChangeKubeconfig, CountChange, TypeOK, remote
    <2> QED  BY <1>1, <2>1, KnownStays DEF remote
  <1>6. CASE ChangeCluster
    <2>1. TypeOK'
      BY <1>1, <1>2, <1>6 DEF ChangeCluster, CountChange, TypeOK, remote
    <2> QED  BY <1>1, <2>1, KnownStays DEF remote
  <1> QED  BY <1>3, <1>4, <1>5, <1>6

(* The operator restarts. *)
LEMMA KnownRestart ==
  ASSUME KnownInv, Restart
  PROVE  /\ KnownInv' /\ worker' = IdleWorker /\ Follows(worker, worker')
         /\ worker'.pc = "idle"
         /\ syncVersions' = Relisted(syncVersions, Sync)
         /\ UNCHANGED <<lastUid, retargeted, remote, orphaned>>
  <1> USE DEF KnownInv
  <1>1. /\ worker' = IdleWorker /\ syncVersions' = Relisted(syncVersions, Sync)
        /\ notices' = {} /\ queue' = Listed(syncVersions)
        /\ UNCHANGED <<sources, kubeconfig, cluster, lastUid, changes, retargeted,
                       remote, orphaned>>
    BY DEF Restart, Relisted
  <1>2. worker'.pc = "idle"
    BY <1>1 DEF IdleWorker
  <1>3. syncVersions \in VersionMaps(Sync, SyncVersion)
    BY DEF TypeOK, VersionMaps
  <1>4. syncVersions' \in VersionMaps(Sync, SyncVersion)
    BY <1>1, <1>3, MapRestart
  <1>5. queue' \subseteq Sync
    BY <1>1 DEF Listed, TypeOK
  <1>6. TypeOK'
    BY <1>1, <1>4, <1>5 DEF TypeOK, VersionMaps, remote
  <1> QED
    BY <1>1, <1>2, <1>6 DEF WorkerKnows, VictimIsOwned, Follows

(* Every step. *)
LEMMA StepKnown == KnownInv /\ [Next]_vars => KnownInv'
  <1> SUFFICES ASSUME KnownInv, [Next]_vars PROVE KnownInv'
    OBVIOUS
  <1>1. CASE WorkerStep
    <2>1. CASE \/ SpecError \/ MissingCluster \/ FoundCluster
               \/ MissingSource \/ FoundSource \/ NoKubeconfig \/ FoundKubeconfig
               \/ CheckOwned \/ GetTarget
      BY <2>1, KnownLook
    <2>2. CASE DeleteSecret \/ EnsureNamespace \/ WriteTarget \/ WorkloadFails
      BY <2>2, KnownCall
    <2>3. CASE CallSucceeds
      BY <2>3, AddIsFinalize, StatusIsContinue, RemoveIsSettle DEF CallSucceeds
    <2>4. CASE CallFails
      BY <2>4, KnownCallFails
    <2> QED  BY <1>1, <2>1, <2>2, <2>3, <2>4 DEF WorkerStep
  <1>2. ASSUME NEW y \in Sync, Reconcile(y) \/ DeliverSync(y) PROVE KnownInv'
    BY <1>2, KnownBegin, KnownDeliver
  <1>3. ASSUME NEW y \in Sync, CreateSync(y) PROVE KnownInv'
    BY <1>3, CreateIsNew
  <1>4. ASSUME NEW y \in Sync, UpdateSync(y) PROVE KnownInv'
    BY <1>4, UpdateIsContinue
  <1>5. ASSUME NEW y \in Sync, DeleteSync(y) PROVE KnownInv'
    BY <1>5, DeleteIsSettle
  <1>6. CASE \/ \E secret \in Source \cup {"kubeconfig"} : DeliverNotice(secret)
             \/ \E s \in Source : ChangeSource(s)
             \/ ChangeKubeconfig \/ ChangeCluster
    BY <1>6, KnownChange
  <1>7. CASE Restart
    BY <1>7, KnownRestart
  <1>8. CASE UNCHANGED vars
    BY <1>8 DEF vars, KnownInv, TypeOK, WorkerKnows, VictimIsOwned, IsOwnedSecret
  <1> QED
    BY <1>1, <1>2, <1>3, <1>4, <1>5, <1>6, <1>7, <1>8 DEF Next

(* Every variable of the sync controller keeps its type, whatever fails and *)
(* whatever users do: in particular Reconcile never writes a Secret whose   *)
(* cluster label or data it has not read.                                   *)
THEOREM SyncTypeCorrect == Spec => []TypeOK
  <1>1. KnownInv => TypeOK
    BY DEF KnownInv
  <1> QED  BY <1>1, InitKnown, StepKnown, PTL DEF Spec

(* What a step does to the Secrets of the workload cluster. *)
LEMMA StepWorkload ==
  ASSUME KnownInv, [Next]_vars
  PROVE  \/ workload' = workload
         \/ worker.pc = "delete" /\ workload' = Deleted
         \/ worker.pc = "write" /\ workload' = Written
  <1>1. CASE WorkerStep
    <2>1. CASE \/ SpecError \/ MissingCluster \/ FoundCluster
               \/ MissingSource \/ FoundSource \/ NoKubeconfig \/ FoundKubeconfig
               \/ CheckOwned \/ GetTarget
      BY <2>1, KnownLook DEF remote
    <2>2. CASE DeleteSecret \/ EnsureNamespace \/ WriteTarget \/ WorkloadFails
      BY <2>2, KnownCall
    <2>3. CASE CallSucceeds
      BY <2>3 DEF CallSucceeds, AddFinalizer, UpdateStatus, RemoveFinalizer, remote
    <2>4. CASE CallFails
      BY <2>4, KnownCallFails DEF remote
    <2> QED  BY <1>1, <2>1, <2>2, <2>3, <2>4 DEF WorkerStep
  <1>2. ASSUME NEW y \in Sync,
               \/ Reconcile(y) \/ DeliverSync(y) \/ CreateSync(y) \/ UpdateSync(y)
               \/ DeleteSync(y)
        PROVE  workload' = workload
    BY <1>2, KnownBegin DEF DeliverSync, CreateSync, UpdateSync, DeleteSync, remote
  <1>3. CASE \/ \E secret \in Source \cup {"kubeconfig"} : DeliverNotice(secret)
             \/ \E s \in Source : ChangeSource(s)
             \/ ChangeKubeconfig \/ ChangeCluster
    BY <1>3, KnownChange DEF remote
  <1>4. CASE Restart
    BY <1>4, KnownRestart DEF remote
  <1>5. CASE UNCHANGED vars
    BY <1>5 DEF vars
  <1> QED  BY <1>1, <1>2, <1>3, <1>4, <1>5 DEF Next

(* The operator deletes no Secret of the workload cluster but one that the  *)
(* sync it is reconciling has written: CheckOwned reads the owner, and what *)
(* it read still holds when the delete request is sent.                     *)
THEOREM SyncDeletesItsOwn == Spec => DeletesOnlyOwnSecrets
  <1>1. ASSUME KnownInv, [Next]_vars
        PROVE  [\A t \in Target : (workload[t] # Absent /\ workload'[t] = Absent)
                                    => workload[t].owner = worker.item.uid]_vars
    <2> SUFFICES ASSUME NEW t \in Target, workload[t] # Absent, workload'[t] = Absent
                 PROVE  workload[t].owner = worker.item.uid
      OBVIOUS
    <2> USE DEF KnownInv
    <2>1. workload \in [Target -> WorkloadSecret \cup {Absent}]
      BY <1>1 DEF TypeOK
    <2>2. CASE worker.pc = "delete" /\ workload' = Deleted
      <3>1. t = worker.victim
        BY <2>1, <2>2 DEF Deleted
      <3> QED  BY <1>1, <2>2, <3>1 DEF VictimIsOwned, IsOwnedSecret
    <2>3. CASE worker.pc = "write" /\ workload' = Written
      <3>1. /\ worker.item.spec.target \in Target /\ worker.item.uid \in Nat
            /\ worker.item.spec.form \in Form
            /\ worker.cluster \in RemoteName /\ worker.data \in Data
        BY <1>1, <2>3, BusyType, ObjectType DEF WorkerKnows
      <3>2. DesiredSecret # Absent
        BY <3>1, SyncAbsentAssumption DEF DesiredSecret, WorkloadSecret
      <3>3. Written[t] = IF t = worker.item.spec.target THEN DesiredSecret ELSE workload[t]
        BY <2>1 DEF Written
      <3> QED  BY <2>3, <3>2, <3>3
    <2> QED  BY <1>1, <2>2, <2>3, StepWorkload
  <1> QED
    BY <1>1, InitKnown, StepKnown, PTL DEF Spec, DeletesOnlyOwnSecrets

-----------------------------------------------------------------------------
(* Who looks after the copies *)

TargetOf == [s \in SyncSpec |-> s.target]

(* The versions that there can be: incarnations are counted, the API server *)
(* keeps no deleting sync without a finalizer, and the target in the status *)
(* is that of the spec unless a user has moved the sync.                    *)
SyncViews ==
  {v \in SyncVersion :
     v # Absent =>
       /\ v.uid \in 1 .. MaxUid
       /\ v.deleting => v.fins # {}
       /\ v.uid \notin retargeted => v.status.target \in {Absent, v.spec.target}}

InCustody ==
  Custody(syncVersions, worker, Sync, lastUid, TargetOf, retargeted, Target,
          SecretOwner, SyncViews)

(* Before the finalizer goes, so does the copy. *)
CopyGone ==
  (/\ worker.pc = "removeFinalizer"
   /\ worker.item.spec.policy # "Orphan"
   /\ worker.item.uid \notin retargeted)
    => \A t \in Target : SecretOwner[t] # worker.item.uid

UidsIssued ==
  /\ lastUid <= MaxUid
  /\ \A t \in Target : SecretOwner[t] \in (1 .. lastUid) \cup {Absent}

SyncInv == KnownInv /\ InCustody /\ CopyGone /\ UidsIssued /\ CopyHasOwner

(* What the parts of the invariant say in the terms of the lineage. *)
LEMMA SyncParts ==
  ASSUME SyncInv
  PROVE  /\ TypeOK /\ lastUid \in Nat /\ lastUid <= MaxUid /\ MaxUid \in Nat
         /\ Tracked(Sync, SyncVersion, syncVersions, worker)
         /\ Absent \notin Nat /\ Absent \in SyncVersion /\ Absent \in SyncViews
         /\ InCustody
         /\ \A t \in Target :
              /\ SecretOwner[t] \in (1 .. lastUid) \cup {Absent}
              /\ SecretOwner[t] # Absent =>
                   HeldUid(syncVersions, Sync, SecretOwner[t]) \/ SecretOwner[t] \in Excused
  <1>1. TypeOK /\ lastUid \in Nat /\ MaxUid \in Nat /\ Absent \notin Nat
    BY SyncAssumption, SyncAbsentAssumption DEF SyncInv, KnownInv, TypeOK
  <1>2. Tracked(Sync, SyncVersion, syncVersions, worker) /\ Absent \in SyncVersion
    BY <1>1, VersionsType
  <1>3. Absent \in SyncViews
    BY <1>2 DEF SyncViews
  <1>4. ASSUME NEW t \in Target, SecretOwner[t] # Absent
        PROVE  HeldUid(syncVersions, Sync, SecretOwner[t]) \/ SecretOwner[t] \in Excused
    <2>1. workload[t] # Absent /\ workload[t].owner = SecretOwner[t]
      BY <1>4 DEF SecretOwner
    <2>2. Held(SecretOwner[t]) <=> HeldUid(syncVersions, Sync, SecretOwner[t])
      BY DEF Held, HeldUid
    <2> QED  BY <1>4, <2>1, <2>2 DEF SyncInv, CopyHasOwner, Excused
  <1> QED  BY <1>1, <1>2, <1>3, <1>4 DEF SyncInv, UidsIssued

(* The copies have owners after a step if they have in those terms. *)
LEMMA CopiesKept ==
  ASSUME KnownInv', InCustody', CopyGone', UidsIssued',
         \A t \in Target : SecretOwner'[t] # Absent =>
           \/ HeldUid(syncVersions', Sync, SecretOwner'[t])
           \/ SecretOwner'[t] \in Excused'
  PROVE  SyncInv'
  <1>1. ASSUME NEW t \in Target, workload'[t] # Absent, workload'[t].owner # Absent
        PROVE  \/ \E y \in Sync :
                    /\ Stored(syncVersions'[y]) # Absent
                    /\ Stored(syncVersions'[y]).uid = workload'[t].owner
                    /\ Stored(syncVersions'[y]).fins # {}
               \/ workload'[t].owner \in orphaned'
               \/ workload'[t].owner \in retargeted'
    <2>1. SecretOwner'[t] = workload'[t].owner
      BY <1>1 DEF SecretOwner
    <2> QED  BY <1>1, <2>1 DEF HeldUid, Excused
  <1>2. CopyHasOwner'
    BY <1>1 DEF CopyHasOwner, Held
  <1> QED  BY <1>2 DEF SyncInv

(* What does not show in who is held and who is gone. *)
LEMMA SameHeld ==
  ASSUME UNCHANGED lastUid,
         \A v : /\ HeldUid(syncVersions', Sync, v) <=> HeldUid(syncVersions, Sync, v)
                /\ StoredUid(syncVersions', Sync, v) <=> StoredUid(syncVersions, Sync, v)
  PROVE  UNCHANGED <<HeldUids, GoneUids>>
  <1>1. \A v : Held(v)' <=> Held(v)
    BY DEF Held, HeldUid
  <1>2. GoneUids = {u \in 1 .. lastUid : ~StoredUid(syncVersions, Sync, u)}
    BY DEF GoneUids, StoredUid
  <1>3. GoneUids' = {u \in 1 .. lastUid' : ~StoredUid(syncVersions', Sync, u)}
    BY DEF GoneUids, StoredUid
  <1> QED  BY <1>1, <1>2, <1>3 DEF HeldUids

(* A step that changes none of the four does not show. *)
LEMMA DoesNotShow ==
  ASSUME UNCHANGED <<HeldUids, GoneUids, SecretOwner, Excused>>
  PROVE  [Ownership!Next]_(Ownership!vars)
  BY DEF Ownership!vars

(* Nobody sees anything new, and no Secret changes. *)
LEMMA SyncQuiet ==
  ASSUME SyncInv, KnownInv', CopyGone',
         SeesNoMore(syncVersions, worker, syncVersions', worker', Sync),
         UNCHANGED <<lastUid, orphaned, retargeted, workload>>
  PROVE  SyncInv' /\ [Ownership!Next]_(Ownership!vars)
  <1>1. UNCHANGED <<SecretOwner, Excused, SyncViews>>
    BY DEF SecretOwner, Excused, SyncViews
  <1>2. /\ Custody(syncVersions', worker', Sync, lastUid, TargetOf, retargeted, Target,
                   SecretOwner, SyncViews)
        /\ \A v : /\ HeldUid(syncVersions', Sync, v) <=> HeldUid(syncVersions, Sync, v)
                  /\ StoredUid(syncVersions', Sync, v) <=> StoredUid(syncVersions, Sync, v)
    <2>1. \A t \in Target : SecretOwner[t] \in {SecretOwner[t], Absent}
      OBVIOUS
    <2>2. /\ Tracked(Sync, SyncVersion, syncVersions, worker) /\ lastUid \in Nat
          /\ Absent \notin Nat
      BY SyncParts
    <2>3. Custody(syncVersions, worker, Sync, lastUid, TargetOf, retargeted, Target,
                  SecretOwner, SyncViews)
      BY DEF SyncInv, InCustody
    <2>4. retargeted \subseteq retargeted /\ SyncViews \subseteq SyncViews
      OBVIOUS
    <2> QED  BY <2>1, <2>2, <2>3, <2>4, CustodyFewer
  <1>3. InCustody' /\ UidsIssued'
    BY <1>1, <1>2 DEF InCustody, UidsIssued, SyncInv
  <1>4. SyncInv'
    BY <1>1, <1>2, <1>3, SyncParts, CopiesKept
  <1> QED  BY <1>1, <1>2, <1>4, SameHeld, DoesNotShow

(* When Reconcile ends and no Secret changes. *)
LEMMA IdleKeeps ==
  ASSUME worker' = IdleWorker
  PROVE  /\ CopyGone'
         /\ UNCHANGED <<orphaned, retargeted, workload>>
              => UNCHANGED <<SecretOwner, Excused, SyncViews>>
  <1>1. worker'.pc = "idle"
    BY DEF IdleWorker
  <1>2. CopyGone'
    BY <1>1 DEF CopyGone
  <1> QED  BY <1>2 DEF SecretOwner, Excused, SyncViews

(* What the copy that Reconcile holds says. *)
LEMMA SyncItem ==
  ASSUME SyncInv, worker.pc # "idle"
  PROVE  LET o == Stored(syncVersions[worker.key])
         IN  /\ worker.key \in Sync /\ Busy(worker, worker.key)
             /\ worker.item \in SyncObject /\ worker.item # Absent
             /\ worker.item \in SyncViews /\ o \in SyncViews
             /\ worker.item.uid \in 1 .. lastUid /\ worker.item.uid \in 1 .. MaxUid
             /\ Precedes(worker.item, o)
             /\ Active(worker.item) =>
                  /\ o # Absent /\ o.uid = worker.item.uid
                  /\ HeldUid(syncVersions, Sync, worker.item.uid)
             /\ worker.item.uid \notin retargeted =>
                  \A t \in Target : SecretOwner[t] = worker.item.uid
                                      => t = worker.item.spec.target
             /\ TargetOf[worker.item.spec] = worker.item.spec.target
  <1> DEFINE o == Stored(syncVersions[worker.key])
  <1>1. /\ Tracked(Sync, SyncVersion, syncVersions, worker) /\ TypeOK
        /\ lastUid \in Nat /\ lastUid <= MaxUid /\ MaxUid \in Nat
    BY SyncParts
  <1>2. Custody(syncVersions, worker, Sync, lastUid, TargetOf, retargeted, Target,
                SecretOwner, SyncViews)
    BY DEF SyncInv, InCustody
  <1>3. worker.key \in Sync /\ worker.item \in SyncObject
    BY <1>1, BusyType
  <1>4. worker.item # Absent /\ worker.item.spec \in SyncSpec
    BY <1>3, ObjectType
  <1>5. Busy(worker, worker.key)
    BY DEF Busy
  <1>6. /\ worker.item \in SyncViews /\ o \in SyncViews /\ worker.item.uid <= lastUid
        /\ Precedes(worker.item, o)
        /\ Active(worker.item) => /\ StillStored(o, worker.item)
                                  /\ HeldUid(syncVersions, Sync, worker.item.uid)
        /\ worker.item.uid \notin retargeted =>
             \A t \in Target : SecretOwner[t] = worker.item.uid
                                 => t = TargetOf[worker.item.spec]
    BY <1>1, <1>2, <1>3, <1>5, CustodyItem
  <1>7. TargetOf[worker.item.spec] = worker.item.spec.target
    BY <1>4 DEF TargetOf
  <1>8. worker.item.uid \in 1 .. MaxUid
    BY <1>4, <1>6 DEF SyncViews
  <1>9. worker.item.uid \in 1 .. lastUid
    BY <1>1, <1>6, <1>8
  <1> QED
    BY <1>3, <1>4, <1>5, <1>6, <1>7, <1>8, <1>9 DEF StillStored

(* What is stored. *)
LEMMA SyncStored ==
  ASSUME SyncInv, NEW y \in Sync, Stored(syncVersions[y]) # Absent
  PROVE  /\ Stored(syncVersions[y]) \in SyncViews
         /\ Stored(syncVersions[y]).uid \in 1 .. MaxUid
  <1>1. Tracked(Sync, SyncVersion, syncVersions, worker)
    BY SyncParts
  <1>2. /\ Len(syncVersions[y]) \in Views(syncVersions, worker, y)
        /\ View(syncVersions, worker, y, Len(syncVersions[y])) = Stored(syncVersions[y])
    BY <1>1, ViewType
  <1>3. Stored(syncVersions[y]) \in SyncViews
    BY <1>2 DEF SyncInv, InCustody, Custody, ViewsIn
  <1> QED  BY <1>3 DEF SyncViews

(* A copy is deleted: Remove. *)
LEMMA SyncDeletes ==
  ASSUME SyncInv, KnownInv', CopyGone', Follows(worker, worker'),
         worker.pc = "delete", workload' = Deleted,
         UNCHANGED <<syncVersions, lastUid, orphaned, retargeted>>
  PROVE  SyncInv' /\ [Ownership!Next]_(Ownership!vars)
  <1>1. /\ Tracked(Sync, SyncVersion, syncVersions, worker) /\ lastUid \in Nat
        /\ Absent \notin Nat
    BY SyncParts
  <1>2. worker.victim \in Target /\ workload \in [Target -> WorkloadSecret \cup {Absent}]
    BY DEF SyncInv, KnownInv, WorkerKnows, TypeOK
  <1>3. SecretOwner' = [SecretOwner EXCEPT ![worker.victim] = Absent]
    BY <1>2 DEF Deleted, SecretOwner
  <1>4. /\ UNCHANGED <<Excused, SyncViews>>
        /\ \A t \in Target : SecretOwner'[t] \in {SecretOwner[t], Absent}
    BY <1>3 DEF Excused, SyncViews, SecretOwner
  <1>5. SeesNoMore(syncVersions, worker, syncVersions, worker', Sync)
    BY <1>1, FewerFollow
  <1>6. Custody(syncVersions, worker', Sync, lastUid, TargetOf, retargeted, Target,
                SecretOwner', SyncViews)
    <2>1. Custody(syncVersions, worker, Sync, lastUid, TargetOf, retargeted, Target,
                  SecretOwner, SyncViews)
      BY DEF SyncInv, InCustody
    <2>2. retargeted \subseteq retargeted /\ SyncViews \subseteq SyncViews
      OBVIOUS
    <2> QED  BY <1>1, <1>4, <1>5, <2>1, <2>2, CustodyFewer
  <1>7. InCustody' /\ UidsIssued'
    BY <1>4, <1>6 DEF InCustody, UidsIssued, SyncInv
  <1>8. SyncInv'
    BY <1>4, <1>7, SyncParts, CopiesKept
  <1>9. UNCHANGED <<HeldUids, GoneUids>>
    BY DEF HeldUids, GoneUids, Held
  <1>10. CASE SecretOwner[worker.victim] # Absent
    <2>1. Ownership!Remove(worker.victim)
      BY <1>3, <1>4, <1>9, <1>10 DEF Ownership!Remove
    <2> QED  BY <1>2, <1>8, <2>1 DEF Ownership!Next
  <1>11. CASE SecretOwner[worker.victim] = Absent
    <2>1. SecretOwner' = SecretOwner
      BY <1>2, <1>3, <1>11 DEF SecretOwner
    <2> QED  BY <1>4, <1>8, <1>9, <2>1, DoesNotShow
  <1> QED  BY <1>10, <1>11

(* A copy is written: Make, by a sync that is held at that moment. *)
LEMMA SyncWrites ==
  ASSUME SyncInv, KnownInv', CopyGone', Follows(worker, worker'),
         worker.pc = "write", workload' = Written,
         UNCHANGED <<syncVersions, lastUid, orphaned, retargeted>>
  PROVE  SyncInv' /\ [Ownership!Next]_(Ownership!vars)
  <1> DEFINE item == worker.item
  <1>1. /\ Tracked(Sync, SyncVersion, syncVersions, worker) /\ lastUid \in Nat
        /\ Absent \notin Nat
    BY SyncParts
  <1>2. /\ worker.key \in Sync /\ Busy(worker, worker.key) /\ item \in SyncObject
        /\ item.uid \in 1 .. lastUid /\ item.uid \in 1 .. MaxUid /\ item # Absent
        /\ TargetOf[item.spec] = item.spec.target
        /\ Active(item) => HeldUid(syncVersions, Sync, item.uid)
    BY SyncItem
  <1>3. Active(item)
    BY <1>2 DEF SyncInv, KnownInv, WorkerKnows, Active
  <1>4. /\ item.spec.target \in Target /\ item.spec.form \in Form /\ item.uid \in Nat
        /\ worker.cluster \in RemoteName /\ worker.data \in Data
        /\ workload \in [Target -> WorkloadSecret \cup {Absent}]
    BY <1>2, <1>3, ObjectType DEF SyncInv, KnownInv, WorkerKnows, TypeOK, Active
  <1>5. SecretOwner' = [SecretOwner EXCEPT ![item.spec.target] = item.uid]
    <2>1. DesiredSecret # Absent /\ DesiredSecret.owner = item.uid
      BY <1>4, SyncAbsentAssumption DEF DesiredSecret, WorkloadSecret
    <2> QED  BY <1>4, <2>1 DEF Written, SecretOwner
  <1>6. /\ UNCHANGED <<Excused, SyncViews>>
        /\ \A t \in Target :
             SecretOwner'[t] = IF t = item.spec.target THEN item.uid ELSE SecretOwner[t]
    BY <1>5 DEF Excused, SyncViews, SecretOwner
  <1> HIDE DEF item
  <1>7. Custody(syncVersions, worker', Sync, lastUid, TargetOf, retargeted, Target,
                SecretOwner', SyncViews)
    <2>1. Custody(syncVersions, worker, Sync, lastUid, TargetOf, retargeted, Target,
                  SecretOwner, SyncViews)
      BY DEF SyncInv, InCustody
    <2>2. \A t \in Target : \/ SecretOwner'[t] = SecretOwner[t]
                            \/ /\ SecretOwner'[t] = worker.item.uid
                               /\ worker.item.uid \notin retargeted
                                    => t = TargetOf[worker.item.spec]
      BY <1>2, <1>6 DEF item
    <2> QED  BY <1>1, <1>2, <2>1, <2>2, CustodyMake
  <1>8. InCustody' /\ UidsIssued'
    BY <1>2, <1>6, <1>7 DEF InCustody, UidsIssued, SyncInv
  <1>9. SyncInv'
    BY <1>2, <1>3, <1>6, <1>8, SyncParts, CopiesKept
  <1>10. UNCHANGED <<HeldUids, GoneUids>>
    BY DEF HeldUids, GoneUids, Held
  <1>11. item.uid \in HeldUids
    BY <1>2, <1>3 DEF HeldUids, Held, HeldUid
  <1>12. Ownership!Make(item.uid, item.spec.target)
    BY <1>5, <1>6, <1>10, <1>11 DEF Ownership!Make
  <1> QED  BY <1>2, <1>4, <1>9, <1>12 DEF Ownership!Next

(* The finalizer is added: Hold. *)
LEMMA SyncAdds ==
  ASSUME SyncInv, AddFinalizer
  PROVE  SyncInv' /\ [Ownership!Next]_(Ownership!vars)
  <1> DEFINE x == [worker.item EXCEPT !.fins = {Finalizer}]
             y == worker.key
             o == Stored(syncVersions[y])
  <1>1. /\ y \in Sync /\ Busy(worker, y) /\ worker.item = o
        /\ x \in SyncObject /\ StoreSync(y, x) /\ Finalized(o, x)
        /\ x.status = o.status
        /\ KnownInv' /\ worker' = IdleWorker /\ Follows(worker, worker')
        /\ UNCHANGED <<environment, remote, orphaned>>
    BY AddIsFinalize DEF SyncInv
  <1>2. UNCHANGED <<lastUid, orphaned, retargeted, workload>>
    BY <1>1 DEF environment, remote
  <1>3. UNCHANGED <<SecretOwner, Excused, SyncViews>> /\ CopyGone'
    BY <1>1, <1>2, IdleKeeps
  <1>4. /\ Tracked(Sync, SyncVersion, syncVersions, worker) /\ lastUid \in Nat
        /\ Absent \notin Nat
    BY SyncParts
  <1>5. worker.item.uid \in 1 .. MaxUid /\ worker.item \in SyncViews /\ o # Absent
    BY <1>1, SyncItem DEF Busy
  <1> HIDE DEF x, y, o
  <1>6. x \in SyncVersion /\ syncVersions' = Appended(syncVersions, y, x)
    <2>1. x \in SyncVersion
      BY <1>1 DEF SyncVersion
    <2> QED  BY <1>1, <2>1, StoreIsAppend DEF SyncInv, KnownInv
  <1>7. x \in SyncViews /\ x.uid = worker.item.uid
    <2>1. /\ x.uid = worker.item.uid /\ x.spec = worker.item.spec
          /\ x.fins # {} /\ x.status = worker.item.status
      BY <1>1 DEF Finalized
    <2> QED  BY <1>1, <1>5, <1>6, <2>1 DEF SyncViews
  <1>8. /\ Custody(syncVersions', worker', Sync, lastUid, TargetOf, retargeted, Target,
                   SecretOwner, SyncViews)
        /\ \A v : /\ HeldUid(syncVersions', Sync, v)
                       <=> HeldUid(syncVersions, Sync, v) \/ v = x.uid
                  /\ StoredUid(syncVersions', Sync, v) <=> StoredUid(syncVersions, Sync, v)
    <2>1. Custody(syncVersions, worker, Sync, lastUid, TargetOf, retargeted, Target,
                  SecretOwner, SyncViews)
      BY DEF SyncInv, InCustody
    <2> QED  BY <1>1, <1>4, <1>6, <1>7, <2>1, CustodyFinalize DEF o
  <1>9. InCustody' /\ UidsIssued'
    BY <1>2, <1>3, <1>8 DEF InCustody, UidsIssued, SyncInv
  <1>10. SyncInv'
    BY <1>1, <1>3, <1>8, <1>9, SyncParts, CopiesKept
  <1>11. /\ HeldUids = {u \in 1 .. MaxUid : HeldUid(syncVersions, Sync, u)}
         /\ HeldUids' = {u \in 1 .. MaxUid : HeldUid(syncVersions', Sync, u)}
         /\ GoneUids = {u \in 1 .. lastUid : ~StoredUid(syncVersions, Sync, u)}
         /\ GoneUids' = {u \in 1 .. lastUid' : ~StoredUid(syncVersions', Sync, u)}
    BY DEF HeldUids, GoneUids, Held, HeldUid, StoredUid
  <1>12. HeldUids' = HeldUids \cup {x.uid} /\ GoneUids' = GoneUids
    BY <1>2, <1>5, <1>7, <1>8, <1>11
  <1>13. x.uid \notin GoneUids
    BY <1>1, <1>5, <1>7, <1>11 DEF StoredUid, o
  <1>14. CASE x.uid \in HeldUids
    BY <1>3, <1>10, <1>12, <1>14, DoesNotShow
  <1>15. CASE x.uid \notin HeldUids
    <2>1. Ownership!Hold(x.uid)
      BY <1>3, <1>12, <1>13, <1>15 DEF Ownership!Hold
    <2> QED  BY <1>5, <1>7, <1>10, <2>1 DEF Ownership!Next
  <1> QED  BY <1>14, <1>15

(* The stored version is continued; it is Excuse when that adds to those    *)
(* who may leave something behind, and does not show otherwise.             *)
LEMMA SyncContinues ==
  ASSUME SyncInv, KnownInv', CopyGone', Follows(worker, worker'),
         NEW y \in Sync, NEW x \in SyncObject, StoreSync(y, x), NEW o,
         o = Stored(syncVersions[y]), o \in SyncObject, Continuation(o, x),
         retargeted \subseteq retargeted',
         o.uid \notin retargeted' => /\ x.spec.target = o.spec.target
                                    /\ x.status.target \in {Absent, x.spec.target},
         x.deleting => x.fins # {},
         NEW e \in 1 .. MaxUid, Excused' \in {Excused, Excused \cup {e}},
         UNCHANGED <<lastUid, workload>>
  PROVE  SyncInv' /\ [Ownership!Next]_(Ownership!vars)
  <1>1. /\ Tracked(Sync, SyncVersion, syncVersions, worker) /\ lastUid \in Nat
        /\ Absent \notin Nat
    BY SyncParts
  <1>2. Custody(syncVersions, worker, Sync, lastUid, TargetOf, retargeted, Target,
                SecretOwner, SyncViews)
    BY DEF SyncInv, InCustody
  <1>3. x # Absent /\ x.uid = o.uid /\ o # Absent
    BY DEF Continuation
  <1>4. x \in SyncVersion /\ syncVersions' = Appended(syncVersions, y, x)
    <2>1. x \in SyncVersion
      BY DEF SyncVersion
    <2> QED  BY <2>1, StoreIsAppend DEF SyncInv, KnownInv
  <1>5. o \in SyncViews
    <2>1. Len(syncVersions[y]) \in Views(syncVersions, worker, y)
          /\ View(syncVersions, worker, y, Len(syncVersions[y])) = o
      BY <1>1, ViewType
    <2> QED  BY <1>2, <2>1 DEF Custody, ViewsIn
  <1>6. o.uid \in 1 .. MaxUid
    BY <1>3, <1>5 DEF SyncViews
  <1>7. retargeted \subseteq retargeted'
    OBVIOUS
  <1>8. SyncViews \subseteq SyncViews'
    BY <1>7 DEF SyncViews
  <1>9. x \in SyncViews'
    BY <1>3, <1>4, <1>6 DEF SyncViews
  <1>10. x.uid \notin retargeted' => TargetOf[x.spec] = TargetOf[o.spec]
    <2>1. x.spec \in SyncSpec /\ o.spec \in SyncSpec
      BY ObjectType
    <2> QED  BY <1>3, <2>1 DEF TargetOf
  <1>11. UNCHANGED SecretOwner
    BY DEF SecretOwner
  <1>12. /\ Custody(syncVersions', worker', Sync, lastUid, TargetOf, retargeted',
                    Target, SecretOwner, SyncViews')
         /\ \A v : /\ HeldUid(syncVersions', Sync, v) <=> HeldUid(syncVersions, Sync, v)
                   /\ StoredUid(syncVersions', Sync, v) <=> StoredUid(syncVersions, Sync, v)
    <2>1. /\ Continuation(Stored(syncVersions[y]), x)
          /\ x.uid \notin retargeted' =>
               TargetOf[x.spec] = TargetOf[Stored(syncVersions[y]).spec]
      BY <1>10
    <2>2. ASSUME NEW moved, retargeted \subseteq moved, NEW S, SyncViews \subseteq S,
                 x \in S,
                 x.uid \notin moved =>
                   TargetOf[x.spec] = TargetOf[Stored(syncVersions[y]).spec]
          PROVE  /\ Custody(Appended(syncVersions, y, x), worker', Sync, lastUid,
                            TargetOf, moved, Target, SecretOwner, S)
                 /\ \A v : /\ HeldUid(Appended(syncVersions, y, x), Sync, v)
                                <=> HeldUid(syncVersions, Sync, v)
                           /\ StoredUid(Appended(syncVersions, y, x), Sync, v)
                                <=> StoredUid(syncVersions, Sync, v)
      BY <1>1, <1>2, <1>4, <2>1, <2>2, CustodyContinue
    <2> QED  BY <1>4, <1>7, <1>8, <1>9, <2>1, <2>2
  <1>13. InCustody' /\ UidsIssued'
    BY <1>11, <1>12 DEF InCustody, UidsIssued, SyncInv
  <1>14. Excused' = Excused \/ Excused' = Excused \cup {e}
    OBVIOUS
  <1>15. SyncInv'
    BY <1>11, <1>12, <1>13, <1>14, SyncParts, CopiesKept
  <1>16. UNCHANGED <<HeldUids, GoneUids>>
    BY <1>12, SameHeld
  <1>17. CASE Excused' = Excused
    BY <1>11, <1>15, <1>16, <1>17, DoesNotShow
  <1>18. CASE Excused' = Excused \cup {e}
    <2>1. Ownership!Excuse(e)
      BY <1>11, <1>16, <1>18 DEF Ownership!Excuse
    <2> QED  BY <1>15, <2>1 DEF Ownership!Next
  <1> QED  BY <1>14, <1>17, <1>18

(* A status is written. *)
LEMMA SyncReports ==
  ASSUME SyncInv, UpdateStatus
  PROVE  SyncInv' /\ [Ownership!Next]_(Ownership!vars)
  <1> DEFINE y == worker.key
             o == Stored(syncVersions[y])
             x == [o EXCEPT !.status = NewStatus(o)]
  <1>1. /\ y \in Sync /\ Busy(worker, y)
        /\ x \in SyncObject /\ StoreSync(y, x) /\ Continuation(o, x)
        /\ o \in SyncObject /\ x.spec = o.spec /\ x.status.target = NewStatus(o).target
        /\ KnownInv' /\ worker' = IdleWorker /\ Follows(worker, worker')
        /\ UNCHANGED <<environment, remote, orphaned>>
    BY StatusIsContinue DEF SyncInv
  <1>2. UNCHANGED <<lastUid, orphaned, retargeted, workload>> /\ CopyGone'
    BY <1>1, IdleKeeps DEF environment, remote
  <1>3. o.uid \notin retargeted => x.status.target \in {Absent, x.spec.target}
    <2>1. CASE worker.reason = "Synced"
      <3>1. Active(worker.item)
        <4>1. worker.pc = "updateStatus"
          BY DEF UpdateStatus
        <4>2. worker.item # Absent
          BY <1>1, SyncItem DEF Busy
        <4> QED  BY <2>1, <4>1, <4>2 DEF SyncInv, KnownInv, WorkerKnows, Active
      <3>2. /\ o # Absent /\ o.uid = worker.item.uid
            /\ TargetOf[worker.item.spec] = worker.item.spec.target
        BY <1>1, <3>1, SyncItem DEF Busy
      <3>3. o.uid \notin retargeted => TargetOf[worker.item.spec] = TargetOf[o.spec]
        <4>1. /\ Tracked(Sync, SyncVersion, syncVersions, worker)
              /\ Custody(syncVersions, worker, Sync, lastUid, TargetOf, retargeted,
                         Target, SecretOwner, SyncViews)
          BY SyncParts DEF InCustody
        <4>2. TargetsAgree(syncVersions, worker, Sync, TargetOf, retargeted)
          BY <4>1 DEF Custody
        <4>3. /\ Len(syncVersions[y]) \in Views(syncVersions, worker, y)
              /\ View(syncVersions, worker, y, Len(syncVersions[y])) = o
              /\ 0 \in Views(syncVersions, worker, y)
              /\ View(syncVersions, worker, y, 0) = worker.item /\ worker.item # Absent
          BY <1>1, <4>1, ViewType
        <4> QED  BY <1>1, <3>2, <4>2, <4>3 DEF TargetsAgree
      <3>4. TargetOf[o.spec] = o.spec.target
        BY <1>1, ObjectType DEF TargetOf
      <3> QED  BY <1>1, <2>1, <3>2, <3>3, <3>4 DEF NewStatus
    <2>2. CASE worker.reason # "Synced"
      BY <1>1, <2>2 DEF NewStatus
    <2> QED  BY <2>1, <2>2
  <1>4. /\ retargeted' = retargeted /\ Excused' = Excused
        /\ worker.item.uid \in 1 .. MaxUid
    BY <1>1, <1>2, SyncItem DEF Excused, Busy
  <1>5. x.deleting => x.fins # {}
    <2>1. o \in SyncViews /\ o # Absent
      BY <1>1, ObjectType, SyncItem DEF Busy
    <2>2. x.deleting = o.deleting /\ x.fins = o.fins
      BY <1>1 DEF SyncObject
    <2> QED  BY <2>1, <2>2 DEF SyncViews
  <1> HIDE DEF x, o, y
  <1> QED  BY <1>1, <1>2, <1>3, <1>4, <1>5, SyncContinues DEF o

(* The stored version goes away.  One without a finalizer is forgotten; one *)
(* with it is let go by the Reconcile that has seen to its copy.            *)
LEMMA SyncVanishes ==
  ASSUME SyncInv, KnownInv', CopyGone', Follows(worker, worker'),
         NEW y \in Sync, StoreSync(y, Absent), NEW o,
         o = Stored(syncVersions[y]), o \in SyncObject,
         \/ o.fins = {} /\ orphaned' = orphaned
         \/ /\ Busy(worker, y) /\ worker.item.deleting /\ worker.item.uid = o.uid
            /\ worker.pc = "removeFinalizer"
            /\ orphaned' = IF worker.item.spec.policy = "Orphan"
                             THEN orphaned \cup {worker.item.uid} ELSE orphaned,
         UNCHANGED <<lastUid, retargeted, workload>>
  PROVE  SyncInv' /\ [Ownership!Next]_(Ownership!vars)
  <1>1. /\ Tracked(Sync, SyncVersion, syncVersions, worker) /\ lastUid \in Nat
        /\ Absent \notin Nat /\ Absent \in SyncVersion /\ Absent \in SyncViews
        /\ lastUid <= MaxUid /\ MaxUid \in Nat
    BY SyncParts
  <1>2. Custody(syncVersions, worker, Sync, lastUid, TargetOf, retargeted, Target,
                SecretOwner, SyncViews)
    BY DEF SyncInv, InCustody
  <1>3. syncVersions' = Appended(syncVersions, y, Absent) /\ o # Absent
    BY <1>1, StoreIsAppend, ObjectType DEF SyncInv, KnownInv
  <1>4. UNCHANGED <<SecretOwner, SyncViews>>
    BY DEF SecretOwner, SyncViews
  <1>5. /\ Custody(syncVersions', worker', Sync, lastUid, TargetOf, retargeted, Target,
                   SecretOwner, SyncViews)
        /\ \A v : /\ HeldUid(syncVersions', Sync, v)
                       <=> HeldUid(syncVersions, Sync, v) /\ v # o.uid
                  /\ StoredUid(syncVersions', Sync, v)
                       <=> StoredUid(syncVersions, Sync, v) /\ v # o.uid
    <2>1. /\ Stored(syncVersions[y]) # Absent
          /\ \/ Stored(syncVersions[y]).fins = {}
             \/ /\ Busy(worker, y) /\ worker.item.deleting
                /\ worker.item.uid = Stored(syncVersions[y]).uid
      BY <1>3
    <2> QED  BY <1>1, <1>2, <1>3, <2>1, CustodyVanish
  <1>6. InCustody' /\ UidsIssued'
    BY <1>4, <1>5 DEF InCustody, UidsIssued, SyncInv
  <1>7. o.uid \in 1 .. lastUid
    <2>1. /\ Len(syncVersions[y]) \in Views(syncVersions, worker, y)
          /\ View(syncVersions, worker, y, Len(syncVersions[y])) = o
      BY <1>1, ViewType
    <2>2. o \in SyncViews
      BY <1>2, <2>1 DEF Custody, ViewsIn
    <2>3. o.uid <= lastUid
      BY <1>2, <1>3, <2>1 DEF Custody, Lineage, Issued
    <2> QED  BY <1>1, <1>3, <2>2, <2>3 DEF SyncViews
  <1>8. /\ HeldUids = {u \in 1 .. MaxUid : HeldUid(syncVersions, Sync, u)}
        /\ HeldUids' = {u \in 1 .. MaxUid : HeldUid(syncVersions', Sync, u)}
        /\ GoneUids = {u \in 1 .. lastUid : ~StoredUid(syncVersions, Sync, u)}
        /\ GoneUids' = {u \in 1 .. lastUid' : ~StoredUid(syncVersions', Sync, u)}
    BY DEF HeldUids, GoneUids, Held, HeldUid, StoredUid
  <1>9. HeldUids' = HeldUids \ {o.uid} /\ GoneUids' = GoneUids \cup {o.uid}
    BY <1>5, <1>7, <1>8
  <1>10. CASE o.fins = {} /\ orphaned' = orphaned
    <2>1. ~HeldUid(syncVersions, Sync, o.uid)
      <3>1. ASSUME NEW z \in Sync, Stored(syncVersions[z]) # Absent,
                   Stored(syncVersions[z]).uid = o.uid
            PROVE  Stored(syncVersions[z]).fins = {}
        <4>1. CASE z = y
          BY <1>10, <4>1
        <4>2. CASE z # y
          <5>1. /\ Len(syncVersions[z]) \in Views(syncVersions, worker, z)
                /\ View(syncVersions, worker, z, Len(syncVersions[z]))
                     = Stored(syncVersions[z])
            BY <1>1, ViewType
          <5>2. Lineage(syncVersions, worker, Sync, lastUid)
            BY <1>2 DEF Custody
          <5>3. Stored(syncVersions[y]).uid # Stored(syncVersions[z]).uid
            BY <1>1, <1>3, <3>1, <4>2, <5>1, <5>2, ViewDistinct
          <5> QED  BY <3>1, <5>3
        <4> QED  BY <4>1, <4>2
      <3> QED  BY <3>1 DEF HeldUid
    <2>2. Excused' = Excused
      BY <1>10 DEF Excused
    <2>3. SyncInv'
      BY <1>4, <1>5, <1>6, <2>1, <2>2, SyncParts, CopiesKept
    <2>4. HeldUids' = HeldUids /\ GoneUids' \cap HeldUids = {}
      <3>1. o.uid \notin HeldUids
        BY <1>8, <2>1
      <3>2. \A v : HeldUid(syncVersions, Sync, v) => StoredUid(syncVersions, Sync, v)
        BY DEF HeldUid, StoredUid
      <3> QED  BY <1>8, <1>9, <3>1, <3>2
    <2>5. Ownership!Forget
      BY <1>4, <1>9, <2>2, <2>4 DEF Ownership!Forget
    <2> QED  BY <2>3, <2>5 DEF Ownership!Next
  <1>11. CASE /\ Busy(worker, y) /\ worker.item.deleting /\ worker.item.uid = o.uid
              /\ worker.pc = "removeFinalizer"
              /\ orphaned' = IF worker.item.spec.policy = "Orphan"
                               THEN orphaned \cup {worker.item.uid} ELSE orphaned
    <2>1. Excused' \in {Excused, Excused \cup {o.uid}}
      BY <1>11 DEF Excused
    <2>2. ASSUME NEW t \in Target, SecretOwner[t] = o.uid PROVE o.uid \in Excused'
      <3>1. CASE worker.item.spec.policy = "Orphan"
        BY <1>11, <3>1 DEF Excused
      <3>2. CASE worker.item.spec.policy # "Orphan"
        BY <1>11, <2>2, <3>2 DEF Excused, SyncInv, CopyGone
      <3> QED  BY <3>1, <3>2
    <2>3. ASSUME NEW t \in Target, SecretOwner'[t] # Absent
          PROVE  \/ HeldUid(syncVersions', Sync, SecretOwner'[t])
                 \/ SecretOwner'[t] \in Excused'
      <3>1. SecretOwner'[t] = SecretOwner[t]
        BY <1>4
      <3>2. HeldUid(syncVersions, Sync, SecretOwner[t]) \/ SecretOwner[t] \in Excused
        BY <2>3, <3>1, SyncParts
      <3>3. CASE SecretOwner[t] = o.uid
        BY <2>2, <3>1, <3>3
      <3>4. CASE SecretOwner[t] # o.uid
        BY <1>5, <2>1, <3>1, <3>2, <3>4
      <3> QED  BY <3>3, <3>4
    <2>4. SyncInv'
      BY <1>6, <2>3, CopiesKept
    <2>5. CASE o.uid \in HeldUids
      <3>1. Ownership!LetGo(o.uid)
        BY <1>4, <1>9, <2>1, <2>2, <2>5 DEF Ownership!LetGo
      <3> QED  BY <1>1, <1>7, <2>4, <3>1 DEF Ownership!Next
    <2>6. o.uid \in HeldUids
      <3>1. worker.item.fins # {} /\ worker.item # Absent /\ Precedes(worker.item, o)
        BY <1>11, SyncItem DEF SyncInv, KnownInv, WorkerKnows, Busy
      <3>2. o.fins # {}
        BY <1>3, <1>11, <3>1 DEF Precedes
      <3>3. HeldUid(syncVersions, Sync, o.uid)
        BY <1>3, <3>2 DEF HeldUid
      <3> QED  BY <1>1, <1>7, <1>8, <3>3
    <2> QED  BY <2>5, <2>6
  <1> QED  BY <1>10, <1>11

(* The finalizer is removed. *)
LEMMA SyncRemoves ==
  ASSUME SyncInv, RemoveFinalizer
  PROVE  SyncInv' /\ [Ownership!Next]_(Ownership!vars)
  <1> DEFINE y == worker.key
             o == Stored(syncVersions[y])
             x == Settle([o EXCEPT !.fins = {}])
  <1>1. /\ y \in Sync /\ Busy(worker, y)
        /\ worker.item \in SyncObject /\ worker.item.deleting
        /\ o \in SyncObject /\ x \in SyncVersion /\ StoreSync(y, x)
        /\ o.deleting => x = Absent
        /\ ~o.deleting /\ o.fins = {} => Continuation(o, x)
        /\ x # Absent => x.uid = o.uid /\ x.spec = o.spec /\ x.status = o.status
        /\ KnownInv' /\ worker' = IdleWorker /\ Follows(worker, worker')
        /\ orphaned' = IF worker.item.spec.policy = "Orphan"
                         THEN orphaned \cup {worker.item.uid} ELSE orphaned
        /\ UNCHANGED <<environment, remote>>
    BY RemoveIsSettle DEF SyncInv
  <1>2. UNCHANGED <<lastUid, retargeted, workload>> /\ CopyGone'
    BY <1>1, IdleKeeps DEF environment, remote
  <1>3. /\ worker.pc = "removeFinalizer" /\ worker.item # Absent /\ o # Absent
        /\ Precedes(worker.item, o) /\ worker.item.uid \in 1 .. MaxUid
    BY <1>1, SyncItem, ObjectType DEF RemoveFinalizer
  <1>4. o \in SyncViews
    BY <1>1, <1>3, SyncStored
  <1> HIDE DEF x, y, o
  <1>5. CASE worker.item.uid = o.uid
    <2>1. x = Absent
      BY <1>1, <1>3, <1>5 DEF Precedes
    <2> QED  BY <1>1, <1>2, <1>3, <1>5, <2>1, SyncVanishes DEF o
  <1>6. CASE worker.item.uid # o.uid
    <2>1. o.fins = {} /\ ~o.deleting
      BY <1>3, <1>4, <1>6 DEF Precedes, SyncViews
    <2>2. Continuation(o, x) /\ x # Absent /\ x \in SyncObject
      BY <1>1, <2>1 DEF Continuation, SyncVersion
    <2>3. Excused' \in {Excused, Excused \cup {worker.item.uid}}
      BY <1>1, <1>2 DEF Excused
    <2>4. o.uid \notin retargeted' => /\ x.spec.target = o.spec.target
                                      /\ x.status.target \in {Absent, x.spec.target}
      BY <1>1, <1>2, <1>3, <1>4, <2>2 DEF SyncViews
    <2>5. ~x.deleting
      <3>1. x = [o EXCEPT !.fins = {}]
        BY <2>2 DEF x, Settle
      <3> QED  BY <1>1, <2>1, <3>1 DEF SyncObject
    <2> QED  BY <1>1, <1>2, <1>3, <2>2, <2>3, <2>4, <2>5, SyncContinues DEF o
  <1> QED  BY <1>5, <1>6

(* A user creates a sync: Forget, of the uids passed over. *)
LEMMA SyncCreates ==
  ASSUME SyncInv, NEW y \in Sync, CreateSync(y)
  PROVE  SyncInv' /\ [Ownership!Next]_(Ownership!vars)
  <1>1. PICK x \in SyncObject :
          /\ StoreSync(y, x) /\ Stored(syncVersions[y]) = Absent
          /\ x # Absent /\ x.uid = lastUid + 1 /\ x.fins = {}
          /\ x.status.target = Absent
          /\ lastUid < MaxUid /\ lastUid' = lastUid + 1
          /\ KnownInv' /\ Follows(worker, worker')
          /\ UNCHANGED <<worker, remote, orphaned, retargeted>>
          /\ ~x.deleting
    BY CreateIsNew DEF SyncInv
  <1>2. /\ Tracked(Sync, SyncVersion, syncVersions, worker) /\ lastUid \in Nat
        /\ Absent \notin Nat /\ MaxUid \in Nat
        /\ \A t \in Target : SecretOwner[t] \in (1 .. lastUid) \cup {Absent}
    BY SyncParts
  <1>3. UNCHANGED <<SecretOwner, Excused, SyncViews, workload>>
    BY <1>1 DEF SecretOwner, Excused, SyncViews, remote
  <1>4. x \in SyncVersion /\ syncVersions' = Appended(syncVersions, y, x)
    <2>1. x \in SyncVersion
      BY DEF SyncVersion
    <2> QED  BY <1>1, <2>1, StoreIsAppend DEF SyncInv, KnownInv
  <1>5. x \in SyncViews
    BY <1>1, <1>2, <1>4 DEF SyncViews
  <1>6. /\ Custody(syncVersions', worker, Sync, lastUid + 1, TargetOf, retargeted,
                   Target, SecretOwner, SyncViews)
        /\ \A v : /\ HeldUid(syncVersions', Sync, v) <=> HeldUid(syncVersions, Sync, v)
                  /\ StoredUid(syncVersions', Sync, v)
                       <=> StoredUid(syncVersions, Sync, v) \/ v = lastUid + 1
    <2>1. Custody(syncVersions, worker, Sync, lastUid, TargetOf, retargeted, Target,
                  SecretOwner, SyncViews)
      BY DEF SyncInv, InCustody
    <2>2. \A t \in Target : SecretOwner[t] # lastUid + 1
      <3>1. lastUid + 1 \in Nat /\ lastUid + 1 \notin 1 .. lastUid
        BY <1>2
      <3> QED  BY <1>2, <3>1
    <2> QED  BY <1>1, <1>2, <1>4, <1>5, <2>1, <2>2, CustodyCreate
  <1>7. InCustody' /\ CopyGone'
    BY <1>1, <1>3, <1>6 DEF InCustody, SyncInv, CopyGone
  <1>8. UidsIssued'
    <2>1. lastUid' <= MaxUid /\ 1 .. lastUid \subseteq 1 .. lastUid'
      BY <1>1, <1>2
    <2> QED  BY <1>2, <1>3, <2>1 DEF UidsIssued
  <1>9. SyncInv'
    BY <1>1, <1>3, <1>6, <1>7, <1>8, SyncParts, CopiesKept
  <1>10. /\ HeldUids = {u \in 1 .. MaxUid : HeldUid(syncVersions, Sync, u)}
         /\ HeldUids' = {u \in 1 .. MaxUid : HeldUid(syncVersions', Sync, u)}
         /\ GoneUids = {u \in 1 .. lastUid : ~StoredUid(syncVersions, Sync, u)}
         /\ GoneUids' = {u \in 1 .. lastUid' : ~StoredUid(syncVersions', Sync, u)}
    BY DEF HeldUids, GoneUids, Held, HeldUid, StoredUid
  <1>11. HeldUids' = HeldUids /\ GoneUids' = GoneUids
    <2>1. \A u \in Nat : u \in 1 .. lastUid' <=> u \in 1 .. lastUid \/ u = lastUid + 1
      BY <1>1, <1>2
    <2>2. \A u \in 1 .. lastUid : u # lastUid + 1 /\ u \in Nat
      BY <1>2
    <2>3. 1 .. lastUid' \subseteq Nat
      OBVIOUS
    <2> QED  BY <1>6, <1>10, <2>1, <2>2, <2>3
  <1> QED  BY <1>3, <1>9, <1>11, DoesNotShow

(* A user edits a sync: Excuse when it moves the target. *)
LEMMA SyncEdits ==
  ASSUME SyncInv, NEW y \in Sync, UpdateSync(y)
  PROVE  SyncInv' /\ [Ownership!Next]_(Ownership!vars)
  <1> DEFINE o == Stored(syncVersions[y])
  <1>1. /\ o \in SyncObject
        /\ KnownInv' /\ Follows(worker, worker')
        /\ UNCHANGED <<worker, lastUid, remote, orphaned>>
    BY UpdateIsContinue DEF SyncInv
  <1>2. PICK x \in SyncObject :
          /\ StoreSync(y, x) /\ Continuation(o, x) /\ x.status = o.status
          /\ retargeted' = IF x.spec.target # o.spec.target
                             THEN retargeted \cup {o.uid} ELSE retargeted
          /\ x.deleting = o.deleting
    BY UpdateIsContinue DEF SyncInv
  <1>3. o # Absent /\ o \in SyncViews /\ o.uid \in 1 .. MaxUid
    BY <1>1, ObjectType, SyncStored
  <1> HIDE DEF o
  <1>4. /\ retargeted \subseteq retargeted'
        /\ Excused' \in {Excused, Excused \cup {o.uid}}
        /\ workload' = workload
    BY <1>1, <1>2 DEF Excused, remote
  <1>5. o.uid \notin retargeted' => /\ x.spec.target = o.spec.target
                                    /\ x.status.target \in {Absent, x.spec.target}
    BY <1>2, <1>3 DEF SyncViews
  <1>6. x.deleting => x.fins # {}
    BY <1>2, <1>3 DEF SyncViews, Continuation
  <1>7. CopyGone'
    BY <1>1, <1>4 DEF SyncInv, CopyGone, SecretOwner
  <1> QED
    BY <1>1, <1>2, <1>3, <1>4, <1>5, <1>6, <1>7, SyncContinues DEF o

(* A user deletes a sync: Forget when nothing holds it. *)
LEMMA SyncDeletion ==
  ASSUME SyncInv, NEW y \in Sync, DeleteSync(y)
  PROVE  SyncInv' /\ [Ownership!Next]_(Ownership!vars)
  <1> DEFINE o == Stored(syncVersions[y])
  <1>1. /\ o \in SyncObject
        /\ KnownInv' /\ Follows(worker, worker')
        /\ UNCHANGED <<worker, environment, remote, orphaned>>
    BY DeleteIsSettle DEF SyncInv
  <1>2. PICK x \in SyncVersion :
          /\ StoreSync(y, x)
          /\ o.fins = {} => x = Absent
          /\ o.fins # {} => Continuation(o, x)
          /\ x # Absent => x.uid = o.uid /\ x.spec = o.spec /\ x.status = o.status
    BY DeleteIsSettle DEF SyncInv
  <1>3. o # Absent /\ o \in SyncViews /\ o.uid \in 1 .. MaxUid
    BY <1>1, ObjectType, SyncStored
  <1> HIDE DEF o
  <1>4. UNCHANGED <<lastUid, orphaned, retargeted, workload, Excused>>
    BY <1>1 DEF environment, remote, Excused
  <1>5. CopyGone'
    BY <1>1, <1>4 DEF SyncInv, CopyGone, SecretOwner
  <1>6. CASE o.fins = {}
    BY <1>1, <1>2, <1>4, <1>5, <1>6, SyncVanishes DEF o
  <1>7. CASE o.fins # {}
    <2>1. x # Absent /\ x \in SyncObject /\ Continuation(o, x) /\ x.fins # {}
      BY <1>2, <1>7 DEF Continuation, SyncVersion
    <2>2. o.uid \notin retargeted' => /\ x.spec.target = o.spec.target
                                      /\ x.status.target \in {Absent, x.spec.target}
      BY <1>2, <1>3, <1>4, <2>1 DEF SyncViews
    <2>3. retargeted \subseteq retargeted' /\ Excused' \in {Excused, Excused \cup {o.uid}}
      BY <1>4
    <2> QED  BY <1>1, <1>2, <1>3, <1>4, <1>5, <2>1, <2>2, <2>3, SyncContinues DEF o
  <1> QED  BY <1>6, <1>7

(* The target that Reconcile looks at in a deletion is where its copy is. *)
LEMMA VictimIsTarget ==
  ASSUME SyncInv, worker.pc \in {"checkOwned", "delete"}, worker.item.deleting,
         worker.item.uid \notin retargeted
  PROVE  /\ worker.victim \in Target
         /\ \A t \in Target : SecretOwner[t] = worker.item.uid => t = worker.victim
  <1>1. /\ worker.item \in SyncViews /\ worker.item # Absent
        /\ \A t \in Target : SecretOwner[t] = worker.item.uid
                               => t = worker.item.spec.target
    BY SyncItem
  <1>2. worker.victim = DeletedTarget(worker.item) /\ worker.victim \in Target
    BY DEF SyncInv, KnownInv, WorkerKnows
  <1>3. DeletedTarget(worker.item) = worker.item.spec.target
    BY <1>1 DEF SyncViews, DeletedTarget
  <1> QED  BY <1>1, <1>2, <1>3

(* A step of Reconcile that changes no object and no Secret. *)
LEMMA SyncLooks ==
  ASSUME SyncInv,
         \/ SpecError \/ MissingCluster \/ FoundCluster
         \/ MissingSource \/ FoundSource \/ NoKubeconfig \/ FoundKubeconfig
         \/ CheckOwned \/ GetTarget
  PROVE  SyncInv' /\ [Ownership!Next]_(Ownership!vars)
  <1>1. /\ KnownInv' /\ Follows(worker, worker')
        /\ worker'.pc = "removeFinalizer" =>
             /\ worker.pc = "checkOwned" /\ worker.item.deleting
             /\ ~IsOwnedSecret(worker.item, workload[worker.victim])
        /\ UNCHANGED <<syncVersions, queue, environment, remote, orphaned>>
    BY KnownLook DEF SyncInv
  <1>2. UNCHANGED <<syncVersions, lastUid, orphaned, retargeted, workload>>
    BY <1>1 DEF environment, remote
  <1>3. Tracked(Sync, SyncVersion, syncVersions, worker)
    BY SyncParts
  <1>4. SeesNoMore(syncVersions, worker, syncVersions', worker', Sync)
    BY <1>1, <1>2, <1>3, FewerFollow
  <1>5. CopyGone'
    <2> SUFFICES ASSUME worker'.pc = "removeFinalizer",
                        worker'.item.uid \notin retargeted', NEW t \in Target,
                        SecretOwner'[t] = worker'.item.uid
                 PROVE  FALSE
      BY DEF CopyGone
    <2>1. /\ worker'.item = worker.item /\ worker.pc = "checkOwned"
          /\ worker.item.deleting /\ worker.pc # "idle"
          /\ ~IsOwnedSecret(worker.item, workload[worker.victim])
      BY <1>1 DEF Follows
    <2>2. SecretOwner[t] = worker.item.uid /\ worker.item.uid \notin retargeted
      BY <1>2, <2>1 DEF SecretOwner
    <2>3. t = worker.victim
      BY <2>1, <2>2, VictimIsTarget
    <2>4. worker.item.uid # Absent
      BY <2>1, SyncItem, SyncParts
    <2> QED  BY <2>1, <2>2, <2>3, <2>4 DEF SecretOwner, IsOwnedSecret
  <1> QED  BY <1>1, <1>2, <1>4, <1>5, SyncQuiet

(* A call to the workload cluster, as far as it got. *)
LEMMA SyncCalls ==
  ASSUME SyncInv, DeleteSecret \/ EnsureNamespace \/ WriteTarget \/ WorkloadFails
  PROVE  SyncInv' /\ [Ownership!Next]_(Ownership!vars)
  <1>1. /\ KnownInv' /\ Follows(worker, worker')
        /\ \/ workload' = workload
           \/ worker.pc = "delete" /\ workload' = Deleted
           \/ worker.pc = "write" /\ workload' = Written
        /\ worker'.pc = "removeFinalizer" =>
             worker.pc = "delete" /\ worker.item.deleting /\ workload' = Deleted
        /\ UNCHANGED <<syncVersions, queue, environment, orphaned>>
    BY KnownCall DEF SyncInv
  <1>2. UNCHANGED <<syncVersions, lastUid, orphaned, retargeted>>
    BY <1>1 DEF environment
  <1>3. CopyGone'
    <2> SUFFICES ASSUME worker'.pc = "removeFinalizer",
                        worker'.item.uid \notin retargeted', NEW t \in Target,
                        SecretOwner'[t] = worker'.item.uid
                 PROVE  FALSE
      BY DEF CopyGone
    <2>1. /\ worker'.item = worker.item /\ worker.pc = "delete"
          /\ worker.item.deleting /\ workload' = Deleted
      BY <1>1 DEF Follows
    <2>2. /\ worker.item.uid \notin retargeted
          /\ workload \in [Target -> WorkloadSecret \cup {Absent}]
      BY <1>2, <2>1 DEF SyncInv, KnownInv, TypeOK
    <2>3. /\ worker.victim \in Target
          /\ SecretOwner[t] = worker.item.uid => t = worker.victim
      BY <2>1, <2>2, VictimIsTarget
    <2>4. worker.item.uid # Absent
      BY <2>1, SyncItem, SyncParts
    <2>5. SecretOwner'[t] = IF t = worker.victim THEN Absent ELSE SecretOwner[t]
      BY <2>1, <2>2, <2>3 DEF SecretOwner, Deleted
    <2> QED  BY <2>1, <2>3, <2>4, <2>5
  <1>4. CASE workload' = workload
    <2>1. Tracked(Sync, SyncVersion, syncVersions, worker)
      BY SyncParts
    <2>2. SeesNoMore(syncVersions, worker, syncVersions', worker', Sync)
      BY <1>1, <1>2, <2>1, FewerFollow
    <2> QED  BY <1>1, <1>2, <1>3, <1>4, <2>2, SyncQuiet
  <1>5. CASE worker.pc = "delete" /\ workload' = Deleted
    BY <1>1, <1>2, <1>3, <1>5, SyncDeletes
  <1>6. CASE worker.pc = "write" /\ workload' = Written
    BY <1>1, <1>2, <1>3, <1>6, SyncWrites
  <1> QED  BY <1>1, <1>4, <1>5, <1>6

(* Reconcile starts, with the Orphan policy perhaps at its last step. *)
LEMMA SyncBegins ==
  ASSUME SyncInv, NEW y \in Sync, Reconcile(y)
  PROVE  SyncInv' /\ [Ownership!Next]_(Ownership!vars)
  <1>1. /\ KnownInv'
        /\ \/ UNCHANGED worker
           \/ /\ worker.pc = "idle" /\ worker'.key = y
              /\ worker'.item = Cached(syncVersions[y])
              /\ Cached(syncVersions[y]) # Absent
              /\ worker'.pc = "removeFinalizer" => worker'.item.spec.policy = "Orphan"
        /\ UNCHANGED <<syncVersions, environment, remote, orphaned>>
    BY KnownBegin DEF SyncInv
  <1>2. UNCHANGED <<syncVersions, lastUid, orphaned, retargeted, workload>>
    BY <1>1 DEF environment, remote
  <1>3. Tracked(Sync, SyncVersion, syncVersions, worker)
    BY SyncParts
  <1>4. CASE UNCHANGED worker
    <2>1. Follows(worker, worker')
      BY <1>4 DEF Follows
    <2>2. SeesNoMore(syncVersions, worker, syncVersions', worker', Sync)
      BY <1>2, <1>3, <2>1, FewerFollow
    <2>3. CopyGone'
      BY <1>2, <1>4 DEF SyncInv, CopyGone, SecretOwner
    <2> QED  BY <1>1, <1>2, <2>2, <2>3, SyncQuiet
  <1>5. CASE /\ worker.pc = "idle" /\ worker'.key = y
             /\ worker'.item = Cached(syncVersions[y])
             /\ Cached(syncVersions[y]) # Absent
             /\ worker'.pc = "removeFinalizer" => worker'.item.spec.policy = "Orphan"
    <2>1. SeesNoMore(syncVersions, worker, syncVersions', worker', Sync)
      BY <1>2, <1>3, <1>5, FewerBegin
    <2>2. CopyGone'
      BY <1>5 DEF CopyGone
    <2> QED  BY <1>1, <1>2, <2>1, <2>2, SyncQuiet
  <1> QED  BY <1>1, <1>4, <1>5

(* Every step keeps the invariant, and is a step of the protocol or does    *)
(* not show in it.                                                          *)
LEMMA StepSync ==
  ASSUME SyncInv, [Next]_vars
  PROVE  SyncInv' /\ [Ownership!Next]_(Ownership!vars)
  <1>1. Tracked(Sync, SyncVersion, syncVersions, worker) /\ KnownInv
    BY SyncParts DEF SyncInv
  <1>2. ASSUME KnownInv',
               UNCHANGED <<syncVersions, lastUid, orphaned, retargeted, workload>>,
               UNCHANGED worker \/ worker' = IdleWorker
        PROVE  SyncInv' /\ [Ownership!Next]_(Ownership!vars)
    <2>1. Follows(worker, worker')
      BY <1>2 DEF Follows, IdleWorker
    <2>2. SeesNoMore(syncVersions, worker, syncVersions', worker', Sync)
      BY <1>1, <1>2, <2>1, FewerFollow
    <2>3. CopyGone'
      <3>1. CASE UNCHANGED worker
        BY <1>2, <3>1 DEF SyncInv, CopyGone, SecretOwner
      <3>2. CASE worker' = IdleWorker
        BY <3>2, IdleKeeps
      <3> QED  BY <1>2, <3>1, <3>2
    <2> QED  BY <1>2, <2>2, <2>3, SyncQuiet
  <1>3. CASE WorkerStep
    <2>1. CASE \/ SpecError \/ MissingCluster \/ FoundCluster
               \/ MissingSource \/ FoundSource \/ NoKubeconfig \/ FoundKubeconfig
               \/ CheckOwned \/ GetTarget
      BY <2>1, SyncLooks
    <2>2. CASE DeleteSecret \/ EnsureNamespace \/ WriteTarget \/ WorkloadFails
      BY <2>2, SyncCalls
    <2>3. CASE CallSucceeds
      BY <2>3, SyncAdds, SyncReports, SyncRemoves DEF CallSucceeds
    <2>4. CASE CallFails
      <3>1. UNCHANGED <<syncVersions, lastUid, orphaned, retargeted, workload>>
            /\ KnownInv' /\ worker' = IdleWorker
        BY <1>1, <2>4, KnownCallFails DEF environment, remote
      <3> QED  BY <1>2, <3>1
    <2> QED  BY <1>3, <2>1, <2>2, <2>3, <2>4 DEF WorkerStep
  <1>4. ASSUME NEW y \in Sync, DeliverSync(y)
        PROVE  SyncInv' /\ [Ownership!Next]_(Ownership!vars)
    <2>1. /\ KnownInv' /\ Follows(worker, worker') /\ Len(syncVersions[y]) > 1
          /\ syncVersions' = Delivered(syncVersions, y)
          /\ UNCHANGED <<worker, environment, remote, orphaned>>
      BY <1>1, <1>4, KnownDeliver
    <2>2. UNCHANGED <<worker, lastUid, orphaned, retargeted, workload>>
      BY <2>1 DEF environment, remote
    <2>3. SeesNoMore(syncVersions, worker, syncVersions', worker', Sync)
      BY <1>1, <2>1, <2>2, FewerDeliver
    <2>4. CopyGone'
      BY <2>2 DEF SyncInv, CopyGone, SecretOwner
    <2> QED  BY <2>1, <2>2, <2>3, <2>4, SyncQuiet
  <1>5. ASSUME NEW y \in Sync,
               Reconcile(y) \/ CreateSync(y) \/ UpdateSync(y) \/ DeleteSync(y)
        PROVE  SyncInv' /\ [Ownership!Next]_(Ownership!vars)
    BY <1>5, SyncBegins, SyncCreates, SyncEdits, SyncDeletion
  <1>6. CASE \/ \E secret \in Source \cup {"kubeconfig"} : DeliverNotice(secret)
             \/ \E s \in Source : ChangeSource(s)
             \/ ChangeKubeconfig \/ ChangeCluster
    <2>1. /\ KnownInv' /\ UNCHANGED worker
          /\ UNCHANGED <<syncVersions, lastUid, orphaned, retargeted, workload>>
      BY <1>1, <1>6, KnownChange DEF remote
    <2> QED  BY <1>2, <2>1
  <1>7. CASE Restart
    <2>1. /\ KnownInv' /\ worker' = IdleWorker /\ worker'.pc = "idle"
          /\ syncVersions' = Relisted(syncVersions, Sync)
          /\ UNCHANGED <<lastUid, orphaned, retargeted, workload>>
      BY <1>1, <1>7, KnownRestart DEF remote
    <2>2. SeesNoMore(syncVersions, worker, syncVersions', worker', Sync)
      BY <1>1, <2>1, FewerRestart
    <2> QED  BY <2>1, <2>2, IdleKeeps, SyncQuiet
  <1>8. CASE UNCHANGED vars
    <2>1. KnownInv'
      BY <1>1, StepKnown
    <2> QED  BY <1>2, <1>8, <2>1 DEF vars
  <1> QED  BY <1>3, <1>4, <1>5, <1>6, <1>7, <1>8 DEF Next

(* Nothing is owned when the operator starts. *)
LEMMA InitSync == Init => SyncInv /\ Ownership!Init
  <1> SUFFICES ASSUME Init PROVE SyncInv /\ Ownership!Init
    OBVIOUS
  <1>1. KnownInv
    BY InitKnown
  <1>2. /\ worker.pc = "idle" /\ syncVersions = [y \in Sync |-> <<Absent>>]
        /\ lastUid = 0 /\ orphaned = {} /\ retargeted = {}
    BY DEF Init, IdleWorker
  <1>3. SecretOwner = [t \in Target |-> Absent]
    BY DEF Init, SecretOwner
  <1>4. /\ InCustody
        /\ \A v : /\ ~HeldUid(syncVersions, Sync, v)
                  /\ ~StoredUid(syncVersions, Sync, v)
    <2>1. Versioned(SyncVersion) /\ Absent \in SyncVersion
      BY <1>1, VersionsType DEF KnownInv, Tracked
    <2>2. Absent \in SyncViews
      BY <2>1 DEF SyncViews
    <2> QED  BY <1>2, <2>1, <2>2, CustodyInit DEF InCustody
  <1>5. CopyGone /\ UidsIssued
    BY <1>2, <1>3, SyncAssumption DEF CopyGone, UidsIssued
  <1>6. CopyHasOwner
    BY <1>3 DEF CopyHasOwner, SecretOwner
  <1>7. HeldUids = {} /\ GoneUids = {} /\ Excused = {}
    BY <1>2, <1>4 DEF HeldUids, GoneUids, Held, HeldUid, Excused
  <1>8. Ownership!Init
    BY <1>3, <1>7 DEF Ownership!Init, Ownership!TypeOK
  <1> QED  BY <1>1, <1>4, <1>5, <1>6, <1>8 DEF SyncInv

(* No copy in a workload cluster loses the sync that is to remove it: not   *)
(* by a stale cache, a failed or half-done call, a crash or a conflict, and *)
(* not when a sync is deleted and created anew under its name.  Users leave *)
(* copies behind only with the Orphan policy or by moving the target.       *)
THEOREM CopiesAreOwned == Spec => []CopyHasOwner
  <1>1. SyncInv => CopyHasOwner
    BY DEF SyncInv
  <1>2. SyncInv /\ [Next]_vars => SyncInv'
    BY StepSync
  <1> QED  BY <1>1, <1>2, InitSync, PTL DEF Spec

(* The OmniSecretSync controller implements the ownership protocol: it      *)
(* writes a copy only for a sync that has its finalizer at that moment, and *)
(* removes the finalizer only after the copy or with the user's leave.      *)
THEOREM SyncImplementsOwnership == Spec => ImplementsOwnership
  <1>1. SyncInv /\ [Next]_vars => SyncInv'
    BY StepSync
  <1>2. SyncInv /\ [Next]_vars => [Ownership!Next]_(Ownership!vars)
    BY StepSync
  <1> QED
    BY <1>1, <1>2, InitSync, PTL DEF Spec, ImplementsOwnership, Ownership!Spec

-----------------------------------------------------------------------------
(* The status is honest.  A success asks for no further request, the copy   *)
(* may have been made of an object, a source and a cluster that have        *)
(* changed since, and nobody watches the workload cluster: whatever         *)
(* Reconcile has not seen must bring a request, or a watch event that will. *)

(* When Reconcile writes for one sync, no other stored one has that target: *)
(* nothing in the operator or its webhooks sees to that.                    *)
TargetsApart ==
  worker.pc = "write" =>
    \A y \in Sync \ {worker.key} :
      LET o == Stored(syncVersions[y])
      IN  o # Absent => o.spec.target # worker.item.spec.target

(* The target is the desired copy. *)
Copied(o) ==
  workload[o.spec.target] =
    [owner |-> o.uid, cluster |-> cluster, form |-> o.spec.form,
     data |-> sources[o.spec.source]]

(* A request for y is due, or the event of its source will bring one. *)
SyncDue(y) ==
  \/ Due(syncVersions, worker, queue, y)
  \/ Stored(syncVersions[y]).spec.source \in notices

SyncTold == Told(syncVersions, worker, queue, Sync)

(* Reconcile is on its way to a success, past the steps that read the       *)
(* cluster and the source.                                                  *)
HasSource ==
  \/ worker.pc \in {"getKubeconfig", "checkOwned", "delete", "ensureNamespace",
                    "getTarget", "write"} /\ ~worker.item.deleting
  \/ worker.pc = "updateStatus" /\ worker.reason = "Synced"

HasCluster == worker.pc = "getSource" \/ HasSource

(* What Reconcile has read is as it was, or another request is due. *)
WorkerFresh ==
  /\ HasCluster => worker.cluster = cluster \/ worker.key \in queue
  /\ HasSource => \/ worker.data = sources[worker.item.spec.source]
                  \/ worker.item.spec.source \in notices
                  \/ worker.key \in queue

(* What Reconcile is about to report it has written. *)
WorkerCopied ==
  worker.pc = "updateStatus" /\ worker.reason = "Synced" =>
    workload[worker.item.spec.target] = DesiredSecret

ReportIsHonest ==
  \A y \in Sync :
    ReportsSynced(y) => SyncDue(y) \/ Copied(Stored(syncVersions[y]))

HonestInv ==
  SyncInv /\ SyncTold /\ WorkerFresh /\ WorkerCopied /\ ReportIsHonest


(* A request that is due is pending. *)
LEMMA HonestSync == HonestInv => SyncIsHonest
  <1> SUFFICES ASSUME HonestInv, NEW y \in Sync, ReportsSynced(y), ~Pending(y)
               PROVE  Copied(Stored(syncVersions[y]))
    BY DEF SyncIsHonest, Copied
  <1>1. ~SyncDue(y)
    <2>1. Len(syncVersions[y]) \in Nat
      BY SyncParts, MapEnds DEF HonestInv, Tracked
    <2>2. ~Announced(syncVersions[y], 1)
      BY <2>1 DEF Pending, Announced, Places
    <2> QED  BY <2>2 DEF SyncDue, Due, Busy, Pending
  <1> QED  BY <1>1 DEF HonestInv, ReportIsHonest

(* No stored version changes; what a copy is made of and the copy change    *)
(* for those alone that are due.                                            *)
LEMMA HonestStays ==
  ASSUME ReportIsHonest,
         \A y \in Sync :
           LET o == Stored(syncVersions[y])
           IN  /\ Stored(syncVersions'[y]) = o
               /\ o # Absent /\ SyncDue(y) => SyncDue(y)'
               /\ o # Absent /\ Copied(o) =>
                    \/ SyncDue(y)'
                    \/ /\ workload'[o.spec.target] = workload[o.spec.target]
                       /\ cluster' = cluster
                       /\ sources'[o.spec.source] = sources[o.spec.source]
  PROVE  ReportIsHonest'
  <1> SUFFICES ASSUME NEW y \in Sync, ReportsSynced(y)', ~SyncDue(y)'
               PROVE  Copied(Stored(syncVersions[y]))'
    BY DEF ReportIsHonest
  <1> DEFINE o == Stored(syncVersions[y])
  <1>1. Stored(syncVersions'[y]) = o
    OBVIOUS
  <1>2. ReportsSynced(y) /\ o # Absent /\ ~SyncDue(y)
    BY <1>1 DEF ReportsSynced
  <1>3. Copied(o)
    BY <1>2 DEF ReportIsHonest
  <1>4. /\ workload'[o.spec.target] = workload[o.spec.target]
        /\ cluster' = cluster
        /\ sources'[o.spec.source] = sources[o.spec.source]
    BY <1>2, <1>3
  <1> QED  BY <1>1, <1>3, <1>4 DEF Copied

(* The sync k is written. *)
LEMMA HonestWrites ==
  ASSUME ReportIsHonest, NEW k \in Sync, NEW x,
         Stored(syncVersions'[k]) = x, UNCHANGED <<workload, cluster, sources>>,
         \A y \in Sync \ {k} : /\ syncVersions'[y] = syncVersions[y]
                               /\ SyncDue(y) => SyncDue(y)',
         \/ SyncDue(k)'
         \/ x = Absent
         \/ x.deleting
         \/ x.status.reason # "Synced"
         \/ Copied(x)
  PROVE  ReportIsHonest'
  <1> SUFFICES ASSUME NEW y \in Sync, ReportsSynced(y)', ~SyncDue(y)'
               PROVE  Copied(Stored(syncVersions[y]))'
    BY DEF ReportIsHonest
  <1>1. CASE y = k
    <2>1. x # Absent /\ ~x.deleting /\ x.status.reason = "Synced"
      BY <1>1 DEF ReportsSynced
    <2>2. Copied(x)
      BY <1>1, <2>1
    <2> QED  BY <1>1, <2>2 DEF Copied
  <1>2. CASE y # k
    <2>1. syncVersions'[y] = syncVersions[y] /\ ~SyncDue(y)
      BY <1>2
    <2>2. ReportsSynced(y)
      BY <2>1 DEF ReportsSynced
    <2>3. Copied(Stored(syncVersions[y]))
      BY <2>1, <2>2 DEF ReportIsHonest
    <2> QED  BY <2>1, <2>3 DEF Copied
  <1> QED  BY <1>1, <1>2

(* Reconcile goes on or ends, and the queue may grow; no request is lost.   *)
LEMMA DueFollows ==
  ASSUME HonestInv, Follows(worker, worker'), queue \subseteq queue',
         UNCHANGED syncVersions,
         worker.pc # "idle" => worker'.pc # "idle" \/ worker.key \in queue'
  PROVE  /\ SyncTold'
         /\ \A y \in Sync : Due(syncVersions, worker, queue, y)
                              => Due(syncVersions', worker', queue', y)
  <1>1. /\ Told(syncVersions, worker', queue', Sync)
        /\ \A y \in Sync :
             Due(syncVersions, worker, queue, y)
               /\ (Busy(worker, y) => Busy(worker', y) \/ y \in queue')
                 => Due(syncVersions, worker', queue', y)
    BY ToldFollow DEF HonestInv, SyncTold
  <1>2. \A y \in Sync : Busy(worker, y) => Busy(worker', y) \/ y \in queue'
    BY DEF Busy, Follows
  <1> QED  BY <1>1, <1>2 DEF SyncTold

(* Nothing changes but Reconcile and, growing, the queue. *)
LEMMA HonestQuiet ==
  ASSUME HonestInv, SyncInv', Follows(worker, worker'), queue \subseteq queue',
         UNCHANGED <<syncVersions, workload, cluster, sources, notices>>,
         worker.pc # "idle" => worker'.pc # "idle" \/ worker.key \in queue',
         WorkerFresh', WorkerCopied'
  PROVE  HonestInv'
  <1>1. /\ SyncTold'
        /\ \A y \in Sync : Due(syncVersions, worker, queue, y)
                             => Due(syncVersions', worker', queue', y)
    BY DueFollows
  <1>2. ReportIsHonest'
    BY <1>1, HonestStays DEF HonestInv, SyncDue
  <1> QED  BY <1>1, <1>2 DEF HonestInv

(* An idle worker has nothing to be held to. *)
LEMMA IdleIsFresh ==
  ASSUME worker'.pc = "idle"
  PROVE  WorkerFresh' /\ WorkerCopied'
  BY DEF WorkerFresh, WorkerCopied, HasCluster, HasSource

(* Reconcile gets no further, and has nothing to report as synced. *)
LEMMA FreshUntilSynced ==
  ASSUME worker'.pc = "updateStatus", worker'.reason # "Synced"
  PROVE  WorkerFresh' /\ WorkerCopied'
  BY DEF WorkerFresh, WorkerCopied, HasCluster, HasSource

(* Reconcile goes on with what it has read. *)
LEMMA FreshGoesOn ==
  ASSUME WorkerFresh, HasSource, UNCHANGED <<sources, notices, cluster, queue>>,
         worker'.key = worker.key, worker'.item = worker.item,
         worker'.cluster = worker.cluster, worker'.data = worker.data
  PROVE  WorkerFresh'
  <1>1. HasCluster
    BY DEF HasCluster
  <1> QED  BY <1>1 DEF WorkerFresh


(* The steps of a sync or a deletion before the status is written *)
BusySteps ==
  {"getSource", "getKubeconfig", "checkOwned", "delete", "ensureNamespace",
   "getTarget", "write", "removeFinalizer"}

(* Reconcile looks at something: at the cluster and the source as they are, *)
(* and later with what it has read of them.                                 *)
LEMMA HonestLook ==
  ASSUME HonestInv, SyncInv',
         \/ SpecError \/ MissingCluster \/ FoundCluster
         \/ MissingSource \/ FoundSource \/ NoKubeconfig \/ FoundKubeconfig
         \/ CheckOwned \/ GetTarget
  PROVE  HonestInv'
  <1>1. KnownInv /\ TypeOK /\ WorkerFresh
    BY DEF HonestInv, SyncInv, KnownInv
  <1>2. /\ Follows(worker, worker')
        /\ UNCHANGED <<syncVersions, queue, environment, remote, orphaned>>
    BY <1>1, KnownLook
  <1>3. UNCHANGED <<syncVersions, queue, workload, cluster, sources, notices>>
    BY <1>2 DEF environment, remote
  <1>4. worker.pc # "idle"
    BY DEF SpecError, MissingCluster, FoundCluster, MissingSource, FoundSource,
           NoKubeconfig, FoundKubeconfig, CheckOwned, GetTarget
  <1>5. worker \in BusyWorker /\ worker.item \in SyncObject
    BY <1>1, <1>4, BusyType
  <1>6. ASSUME worker'.pc # "idle", WorkerFresh', WorkerCopied' PROVE HonestInv'
    BY <1>2, <1>3, <1>6, HonestQuiet
  <1>7. ASSUME NEW reason, reason # "Synced", NEW again, worker' = Report(reason, again)
        PROVE  HonestInv'
    <2>1. worker'.pc = "updateStatus" /\ worker'.reason # "Synced"
      BY <1>5, <1>7 DEF Report, BusyWorker
    <2> QED  BY <1>6, <2>1, FreshUntilSynced
  <1>8. ASSUME worker'.pc \in BusySteps, WorkerFresh' PROVE HonestInv'
    <2>1. worker'.pc # "idle" /\ WorkerCopied'
      BY <1>8 DEF WorkerCopied, BusySteps
    <2> QED  BY <1>6, <1>8, <2>1
  <1>9. ASSUME worker'.pc \in BusySteps, HasSource,
               worker'.key = worker.key, worker'.item = worker.item,
               worker'.cluster = worker.cluster, worker'.data = worker.data
        PROVE  HonestInv'
    BY <1>1, <1>3, <1>8, <1>9, FreshGoesOn
  <1>10. CASE SpecError \/ MissingCluster \/ MissingSource
    BY <1>7, <1>10 DEF SpecError, MissingCluster, MissingSource, Advance
  <1>11. CASE NoKubeconfig
    BY <1>7, <1>11 DEF NoKubeconfig, Advance
  <1>12. CASE FoundCluster
    <2>1. worker'.pc = "getSource" /\ worker'.cluster = cluster
      BY <1>5, <1>12 DEF FoundCluster, Advance, BusyWorker
    <2>2. WorkerFresh'
      BY <1>3, <2>1 DEF WorkerFresh, HasSource
    <2> QED  BY <1>8, <2>1, <2>2 DEF BusySteps
  <1>13. CASE FoundSource
    <2>1. /\ worker.pc = "getSource" /\ worker'.pc = "getKubeconfig"
          /\ worker'.data = sources[worker.item.spec.source]
          /\ worker'.cluster = worker.cluster
          /\ worker'.item = worker.item /\ worker'.key = worker.key
      BY <1>5, <1>13 DEF FoundSource, Advance, BusyWorker
    <2>2. worker.cluster = cluster \/ worker.key \in queue
      BY <1>1, <2>1 DEF WorkerFresh, HasCluster
    <2>3. WorkerFresh'
      BY <1>3, <2>1, <2>2 DEF WorkerFresh
    <2> QED  BY <1>8, <2>1, <2>3 DEF BusySteps
  <1>14. CASE FoundKubeconfig \/ CheckOwned \/ GetTarget
    <2>1. /\ worker'.key = worker.key /\ worker'.item = worker.item
          /\ worker'.cluster = worker.cluster /\ worker'.data = worker.data
          /\ worker'.pc \in BusySteps
          /\ worker.pc \in {"getKubeconfig", "checkOwned", "getTarget"}
      <3>1. CASE FoundKubeconfig
        BY <1>5, <3>1 DEF FoundKubeconfig, Advance, BusyWorker, BusySteps
      <3>2. CASE CheckOwned
        BY <1>5, <3>2 DEF CheckOwned, Advance, BusyWorker, BusySteps, AfterDelete
      <3>3. CASE GetTarget
        BY <1>5, <3>3 DEF GetTarget, Advance, BusyWorker, BusySteps
      <3> QED  BY <1>14, <3>1, <3>2, <3>3
    <2>2. CASE ~worker.item.deleting
      <3>1. HasSource
        BY <2>1, <2>2 DEF HasSource
      <3> QED  BY <1>9, <2>1, <3>1
    <2>3. CASE worker.item.deleting
      <3>1. WorkerKnows'
        BY DEF SyncInv, KnownInv
      <3>2. ~HasCluster'
        BY <2>1, <2>3, <3>1 DEF HasCluster, HasSource, BusySteps, WorkerKnows
      <3>3. WorkerFresh'
        BY <3>2 DEF WorkerFresh, HasCluster
      <3> QED  BY <1>8, <2>1, <3>3
    <2> QED  BY <2>2, <2>3
  <1> QED  BY <1>10, <1>11, <1>12, <1>13, <1>14

(* Another object is another incarnation. *)
LEMMA OtherUid ==
  ASSUME SyncInv, worker.pc # "idle", NEW y \in Sync, y # worker.key,
         Stored(syncVersions[y]) # Absent
  PROVE  Stored(syncVersions[y]).uid # worker.item.uid
  <1> DEFINE k == worker.key
             m == syncVersions
  <1>1. Tracked(Sync, SyncVersion, m, worker) /\ InCustody
    BY SyncParts
  <1>2. Lineage(m, worker, Sync, lastUid)
    BY <1>1 DEF InCustody, Custody
  <1>3. k \in Sync /\ Busy(worker, k)
    BY SyncItem
  <1>4. /\ Len(m[y]) \in Views(m, worker, y)
        /\ View(m, worker, y, Len(m[y])) = Stored(m[y])
    BY <1>1, ViewType
  <1> QED  BY <1>1, <1>2, <1>3, <1>4, ViewDistinct


(* Reconcile calls the workload cluster: it deletes what is its own and     *)
(* writes where no other sync has its target, so no copy that another sync  *)
(* reports is touched.                                                      *)
LEMMA HonestCalls ==
  ASSUME HonestInv, SyncInv', TargetsApart,
         DeleteSecret \/ EnsureNamespace \/ WriteTarget \/ WorkloadFails
  PROVE  HonestInv'
  <1>1. KnownInv /\ TypeOK /\ WorkerFresh /\ SyncInv /\ WorkerKnows /\ VictimIsOwned
    BY DEF HonestInv, SyncInv, KnownInv
  <1>2. /\ Follows(worker, worker')
        /\ \/ workload' = workload
           \/ worker.pc = "delete" /\ workload' = Deleted
           \/ worker.pc = "write" /\ workload' = Written
        /\ UNCHANGED <<syncVersions, queue, environment, orphaned>>
    BY <1>1, KnownCall
  <1>3. UNCHANGED <<syncVersions, queue, cluster, sources, notices>>
    BY <1>2 DEF environment
  <1>4. worker.pc \in {"checkOwned", "delete", "ensureNamespace", "getTarget", "write"}
    BY DEF DeleteSecret, EnsureNamespace, WriteTarget, WorkloadFails, DeleteFails,
           SyncFails, CanWrite
  <1>5. /\ worker \in BusyWorker /\ worker.item \in SyncObject
        /\ worker.item.spec.target \in Target
        /\ workload \in [Target -> WorkloadSecret \cup {Absent}]
    BY <1>1, <1>4, BusyType, ObjectType DEF TypeOK
  <1>6. /\ worker'.pc # "idle" /\ WorkerFresh' /\ WorkerCopied'
    <2>1. CASE DeleteSecret
      <3>1. /\ worker'.key = worker.key /\ worker'.item = worker.item
            /\ worker'.cluster = worker.cluster /\ worker'.data = worker.data
            /\ worker'.pc = AfterDelete /\ worker.pc = "delete"
        BY <1>5, <2>1 DEF DeleteSecret, BusyWorker
      <3>2. CASE worker.item.deleting
        BY <3>1, <3>2
           DEF AfterDelete, WorkerFresh, WorkerCopied, HasCluster, HasSource
      <3>3. CASE ~worker.item.deleting
        <4>1. HasSource /\ worker'.pc = "ensureNamespace"
          BY <3>1, <3>3 DEF HasSource, AfterDelete
        <4> QED  BY <1>1, <1>3, <3>1, <4>1, FreshGoesOn DEF WorkerCopied
      <3> QED  BY <3>2, <3>3
    <2>2. CASE EnsureNamespace
      <3>1. /\ worker'.key = worker.key /\ worker'.item = worker.item
            /\ worker'.cluster = worker.cluster /\ worker'.data = worker.data
            /\ worker'.pc = "getTarget" /\ worker.pc = "ensureNamespace"
        BY <1>5, <2>2 DEF EnsureNamespace, BusyWorker
      <3>2. HasSource
        BY <1>1, <3>1 DEF HasSource, WorkerKnows
      <3> QED  BY <1>1, <1>3, <3>1, <3>2, FreshGoesOn DEF WorkerCopied
    <2>3. CASE WriteTarget
      <3>1. /\ worker'.key = worker.key /\ worker'.item = worker.item
            /\ worker'.cluster = worker.cluster /\ worker'.data = worker.data
            /\ worker'.pc = "updateStatus" /\ worker.pc = "write"
            /\ workload' = Written
        BY <1>5, <2>3 DEF WriteTarget, CanWrite, Report, BusyWorker
      <3>2. HasSource
        BY <1>1, <3>1 DEF HasSource, WorkerKnows
      <3>3. WorkerFresh'
        BY <1>1, <1>3, <3>1, <3>2, FreshGoesOn
      <3>4. DesiredSecret' = DesiredSecret
        BY <3>1 DEF DesiredSecret
      <3>5. workload'[worker.item.spec.target] = DesiredSecret
        BY <1>5, <3>1 DEF Written
      <3>6. WorkerCopied'
        BY <3>1, <3>4, <3>5 DEF WorkerCopied
      <3> QED  BY <3>1, <3>3, <3>6
    <2>4. CASE WorkloadFails
      <3>1. worker'.pc = "updateStatus" /\ worker'.reason # "Synced"
        BY <1>5, <2>4 DEF WorkloadFails, DeleteFails, SyncFails, Report, BusyWorker
      <3> QED  BY <3>1, FreshUntilSynced
    <2> QED  BY <2>1, <2>2, <2>3, <2>4
  <1>7. /\ SyncTold'
        /\ \A y \in Sync : Due(syncVersions, worker, queue, y)
                             => Due(syncVersions', worker', queue', y)
    BY <1>2, <1>3, <1>6, DueFollows
  <1>8. ASSUME NEW y \in Sync, Stored(syncVersions[y]) # Absent,
               Copied(Stored(syncVersions[y]))
        PROVE  LET o == Stored(syncVersions[y])
               IN  SyncDue(y)' \/ workload'[o.spec.target] = workload[o.spec.target]
    <2> DEFINE o == Stored(syncVersions[y])
    <2>1. o \in SyncObject /\ o.spec.target \in Target
      BY <1>1, <1>8, VersionsType, ObjectType DEF SyncVersion
    <2>2. CASE y = worker.key
      <3>1. Busy(worker', y)
        BY <1>2, <1>6, <2>2 DEF Busy, Follows
      <3> QED  BY <3>1 DEF SyncDue, Due
    <2>3. CASE y # worker.key /\ worker.pc = "delete" /\ workload' = Deleted
      <3>1. o.uid # worker.item.uid
        BY <1>1, <1>8, <2>3, OtherUid
      <3>2. workload[worker.victim].owner = worker.item.uid
        BY <1>1, <2>3 DEF VictimIsOwned, IsOwnedSecret
      <3>3. workload[o.spec.target].owner = o.uid
        BY <1>8 DEF Copied
      <3>4. o.spec.target # worker.victim
        BY <3>1, <3>2, <3>3
      <3> QED  BY <1>5, <2>1, <2>3, <3>4 DEF Deleted
    <2>4. CASE y # worker.key /\ worker.pc = "write" /\ workload' = Written
      <3>1. o.spec.target # worker.item.spec.target
        BY <1>8, <2>4 DEF TargetsApart
      <3> QED  BY <1>5, <2>1, <2>4, <3>1 DEF Written
    <2> QED  BY <1>2, <2>2, <2>3, <2>4
  <1>9. ReportIsHonest'
    <2>1. \A y \in Sync : SyncDue(y) => SyncDue(y)'
      BY <1>3, <1>7 DEF SyncDue
    <2> QED  BY <1>3, <1>8, <2>1, HonestStays DEF HonestInv
  <1> QED  BY <1>6, <1>7, <1>9 DEF HonestInv

(* A write to a sync, after which Reconcile goes on or ends: it must bring  *)
(* a request, unless it changes nothing that Reconcile works from.          *)
LEMMA HonestStore ==
  ASSUME HonestInv, SyncInv', NEW k \in Sync, NEW x \in SyncVersion,
         StoreSync(k, x), Signalled(Stored(syncVersions[k]), x),
         UNCHANGED <<workload, cluster, sources, notices>>,
         UNCHANGED worker \/ (worker' = IdleWorker /\ worker.key = k),
         queue \subseteq queue',
         \/ k \in queue'
         \/ EventPasses(Stored(syncVersions[k]), x)
         \/ x = Absent
         \/ x.deleting
         \/ x.status.reason # "Synced"
         \/ Copied(x)
         \/ x.spec.source \in notices
  PROVE  HonestInv'
  <1> DEFINE next == Appended(syncVersions, k, x)
  <1>1. /\ Tracked(Sync, SyncVersion, syncVersions, worker)
        /\ syncVersions' = next
    BY SyncParts, StoreIsAppend DEF HonestInv
  <1>2. /\ Told(next, worker, queue, Sync)
        /\ \A y \in Sync : Due(syncVersions, worker, queue, y)
                             => Due(next, worker, queue, y)
        /\ Stored(next[k]) = x
        /\ \A y \in Sync \ {k} : next[y] = syncVersions[y]
    BY <1>1, ToldAppend DEF HonestInv, SyncTold
  <1>3. EventPasses(Stored(syncVersions[k]), x) => Announced(next[k], 1)
    BY <1>1, PassingIsAnnounced DEF Tracked
  <1> HIDE DEF next
  <1>4. Follows(worker, worker')
    BY DEF Follows, IdleWorker
  <1>5. /\ Told(next, worker', queue', Sync)
        /\ \A y \in Sync :
             Due(next, worker, queue, y)
               /\ (Busy(worker, y) => Busy(worker', y) \/ y \in queue')
                 => Due(next, worker', queue', y)
    BY <1>2, <1>4, ToldFollow
  <1>6. \A y \in Sync \ {k} : SyncDue(y) => SyncDue(y)'
    <2>1. \A y \in Sync \ {k} : Busy(worker, y) => Busy(worker', y)
      BY DEF Busy
    <2> QED  BY <1>1, <1>2, <1>5, <2>1 DEF SyncDue
  <1>7. \/ SyncDue(k)' \/ x = Absent \/ x.deleting
        \/ x.status.reason # "Synced" \/ Copied(x)
    BY <1>1, <1>2, <1>3 DEF SyncDue, Due
  <1>8. ReportIsHonest'
    BY <1>1, <1>2, <1>6, <1>7, HonestWrites DEF HonestInv
  <1>9. WorkerFresh' /\ WorkerCopied'
    <2>1. CASE UNCHANGED worker
      BY <2>1 DEF HonestInv, WorkerFresh, WorkerCopied, HasCluster, HasSource,
                  DesiredSecret
    <2>2. CASE worker' = IdleWorker
      BY <2>2, IdleIsFresh DEF IdleWorker
    <2> QED  BY <2>1, <2>2
  <1> QED  BY <1>1, <1>5, <1>8, <1>9 DEF HonestInv, SyncTold


(* AddFinalizer asks for another request. *)
LEMMA HonestAdds ==
  ASSUME HonestInv, SyncInv', AddFinalizer
  PROVE  HonestInv'
  <1> DEFINE x == [worker.item EXCEPT !.fins = {Finalizer}]
             o == Stored(syncVersions[worker.key])
  <1>1. /\ worker.key \in Sync
        /\ x \in SyncObject /\ StoreSync(worker.key, x) /\ Finalized(o, x)
        /\ worker' = IdleWorker /\ UNCHANGED <<environment, remote, orphaned>>
    BY AddIsFinalize DEF HonestInv, SyncInv
  <1>2. queue' = queue \cup {worker.key}
    BY DEF AddFinalizer, Done
  <1> HIDE DEF x, o
  <1>3. Signalled(o, x) /\ x \in SyncVersion
    BY <1>1 DEF Finalized, Signalled, SameContent, SyncVersion
  <1>4. UNCHANGED <<workload, cluster, sources, notices>>
    BY <1>1 DEF environment, remote
  <1> QED  BY <1>1, <1>2, <1>3, <1>4, HonestStore DEF o

(* UpdateStatus reports the stored generation: it is the one that Reconcile *)
(* has copied the source for, with the cluster and the source as they are,  *)
(* or another request is due.                                               *)
LEMMA HonestReports ==
  ASSUME HonestInv, SyncInv', UpdateStatus
  PROVE  HonestInv'
  <1> DEFINE k == worker.key
             o == Stored(syncVersions[k])
             status == NewStatus(o)
             x == [o EXCEPT !.status = status]
  <1>1. /\ k \in Sync /\ x \in SyncObject /\ StoreSync(k, x) /\ o \in SyncObject
        /\ worker' = IdleWorker /\ UNCHANGED <<environment, remote, orphaned>>
    BY StatusIsContinue DEF HonestInv, SyncInv
  <1>2. /\ worker.pc = "updateStatus" /\ Cached(syncVersions[k]) = o
        /\ queue \subseteq queue'
    BY DEF UpdateStatus, Done
  <1>3. status.reason = worker.reason
    BY DEF NewStatus
  <1> HIDE DEF status
  <1>4. /\ x.status = status /\ x.uid = o.uid /\ x.gen = o.gen
        /\ x.spec = o.spec /\ x.deleting = o.deleting
    BY <1>1 DEF SyncObject
  <1>5. o # Absent /\ x # Absent
    BY <1>1, ObjectType
  <1> HIDE DEF x, o
  <1>6. Signalled(o, x) /\ x \in SyncVersion
    BY <1>1, <1>4, <1>5 DEF Signalled, SameContent, SyncVersion
  <1>7. \/ k \in queue' \/ x.status.reason # "Synced" \/ Copied(x)
        \/ x.spec.source \in notices
    <2> SUFFICES ASSUME k \notin queue, worker.reason = "Synced",
                        x.spec.source \notin notices
                 PROVE  Copied(x)
      BY <1>2, <1>3, <1>4
    <2>1. SameContent(worker.item, o)
      BY <1>2 DEF HonestInv, SyncTold, Told, WorkerTold
    <2>2. worker.item.uid = x.uid /\ worker.item.spec = x.spec
      BY <1>4, <2>1 DEF SameContent
    <2>3. workload[worker.item.spec.target] = DesiredSecret
      BY <1>2 DEF HonestInv, WorkerCopied
    <2>4. HasSource /\ HasCluster
      BY <1>2 DEF HasSource, HasCluster
    <2>5. /\ worker.cluster = cluster
          /\ worker.data = sources[worker.item.spec.source]
      BY <2>2, <2>4 DEF HonestInv, WorkerFresh
    <2> QED  BY <2>2, <2>3, <2>5 DEF Copied, DesiredSecret
  <1>8. UNCHANGED <<workload, cluster, sources, notices>>
    BY <1>1 DEF environment, remote
  <1> QED  BY <1>1, <1>2, <1>6, <1>7, <1>8, HonestStore DEF o

(* RemoveFinalizer leaves no sync behind that reports something, or another *)
(* request is due: the object has been created again.                       *)
LEMMA HonestRemoves ==
  ASSUME HonestInv, SyncInv', RemoveFinalizer
  PROVE  HonestInv'
  <1> DEFINE k == worker.key
             o == Stored(syncVersions[k])
             e == [o EXCEPT !.fins = {}]
             x == Settle(e)
  <1>1. /\ k \in Sync
        /\ worker.item \in SyncObject /\ worker.item.deleting
        /\ o \in SyncObject /\ x \in SyncVersion /\ StoreSync(k, x)
        /\ o.deleting => x = Absent
        /\ worker' = IdleWorker /\ UNCHANGED <<environment, remote>>
    BY RemoveIsSettle DEF HonestInv, SyncInv
  <1>2. /\ worker.pc = "removeFinalizer" /\ Cached(syncVersions[k]) = o
        /\ queue' = queue
    BY DEF RemoveFinalizer, Done
  <1>3. /\ e \in SyncObject /\ e.uid = o.uid /\ e.gen = o.gen
        /\ e.spec = o.spec /\ e.deleting = o.deleting
    BY <1>1 DEF SyncObject
  <1>4. o # Absent /\ e # Absent
    BY <1>1, <1>3, ObjectType
  <1>5. x = Absent \/ x = e
    BY DEF Settle
  <1> HIDE DEF x, e, o
  <1>6. Signalled(o, x)
    BY <1>3, <1>4, <1>5 DEF Signalled, SameContent, EventPasses
  <1>7. k \in queue' \/ x = Absent
    <2>1. k \in queue \/ SameContent(worker.item, o)
      BY <1>2 DEF HonestInv, SyncTold, Told, WorkerTold
    <2>2. SameContent(worker.item, o) => o.deleting
      BY <1>1 DEF SameContent
    <2> QED  BY <1>1, <1>2, <2>1, <2>2
  <1>8. UNCHANGED <<workload, cluster, sources, notices>>
    BY <1>1 DEF environment, remote
  <1> QED  BY <1>1, <1>2, <1>6, <1>7, <1>8, HonestStore DEF o

(* Reconcile gives up, and asks for another request. *)
LEMMA HonestEnds ==
  ASSUME HonestInv, SyncInv', CallFails
  PROVE  HonestInv'
  <1>1. /\ worker' = IdleWorker /\ Follows(worker, worker')
        /\ UNCHANGED <<syncVersions, environment, remote, orphaned>>
    BY KnownCallFails DEF HonestInv, SyncInv
  <1>2. queue \subseteq queue' /\ worker.key \in queue'
    BY DEF CallFails, Done
  <1>3. WorkerFresh' /\ WorkerCopied'
    BY <1>1, IdleIsFresh DEF IdleWorker
  <1>4. UNCHANGED <<workload, cluster, sources, notices>>
    BY <1>1 DEF environment, remote
  <1> QED  BY <1>1, <1>2, <1>3, <1>4, HonestQuiet

(* Users create, edit and delete: each time an event passes. *)
LEMMA HonestUser ==
  ASSUME HonestInv, SyncInv', NEW y \in Sync,
         CreateSync(y) \/ UpdateSync(y) \/ DeleteSync(y)
  PROVE  HonestInv'
  <1> DEFINE o == Stored(syncVersions[y])
  <1>1. KnownInv
    BY DEF HonestInv, SyncInv
  <1>2. UNCHANGED <<worker, queue, workload, cluster, sources, notices>>
    BY DEF CreateSync, UpdateSync, DeleteSync, environment, remote
  <1>3. ASSUME NEW x \in SyncVersion, StoreSync(y, x), EventPasses(o, x)
        PROVE  HonestInv'
    <2>1. Signalled(o, x)
      BY <1>3 DEF Signalled
    <2> QED  BY <1>2, <1>3, <2>1, HonestStore
  <1>4. CASE CreateSync(y)
    <2>1. PICK x \in SyncObject : StoreSync(y, x) /\ o = Absent
      BY <1>1, <1>4, CreateIsNew
    <2>2. EventPasses(o, x) /\ x \in SyncVersion
      BY <2>1 DEF EventPasses, SyncVersion
    <2> QED  BY <1>3, <2>1, <2>2
  <1>5. CASE UpdateSync(y)
    <2>1. o \in SyncObject
      BY <1>1, <1>5, UpdateIsContinue
    <2>2. PICK spec \in Specs : StoreSync(y, [o EXCEPT !.spec = spec, !.gen = @ + 1])
      BY <1>5 DEF UpdateSync
    <2> DEFINE x == [o EXCEPT !.spec = spec, !.gen = @ + 1]
    <2>3. x \in SyncObject /\ x.gen = o.gen + 1 /\ o.gen \in Nat
      <3>1. spec \in SyncSpec
        BY SyncAssumption
      <3> QED  BY <2>1, <3>1, EditedSyncType, ObjectType
    <2>4. StoreSync(y, x)
      BY <2>2
    <2> HIDE DEF x
    <2>5. EventPasses(o, x) /\ x \in SyncVersion
      BY <2>3 DEF EventPasses, SyncVersion
    <2> QED  BY <1>3, <2>4, <2>5
  <1>6. CASE DeleteSync(y)
    <2>1. o \in SyncObject
      BY <1>1, <1>6, DeleteIsSettle
    <2> DEFINE e == [o EXCEPT !.deleting = TRUE, !.gen = @ + 1]
               x == Settle(e)
    <2>2. StoreSync(y, x)
      BY <1>6 DEF DeleteSync
    <2>3. e \in SyncObject /\ e.gen = o.gen + 1 /\ o.gen \in Nat
      BY <2>1, MarkedSyncType, ObjectType
    <2>4. x = Absent \/ x = e
      BY DEF Settle
    <2> HIDE DEF x, e
    <2>5. EventPasses(o, x) /\ x \in SyncVersion
      BY <2>3, <2>4 DEF EventPasses, SyncVersion
    <2> QED  BY <1>3, <2>2, <2>5
  <1> QED  BY <1>4, <1>5, <1>6

(* Reconcile starts.  A request that leads to nothing is one for an object  *)
(* that is gone or going, or that has not seen what is stored: then one is  *)
(* due.                                                                     *)
LEMMA HonestBegins ==
  ASSUME HonestInv, SyncInv', NEW y \in Sync, Reconcile(y)
  PROVE  HonestInv'
  <1>1. KnownInv /\ Told(syncVersions, worker, queue, Sync)
    BY DEF HonestInv, SyncTold, SyncInv
  <1>2. UNCHANGED <<syncVersions, environment, remote, orphaned>>
    BY <1>1, KnownBegin
  <1>3. UNCHANGED <<syncVersions, workload, cluster, sources, notices>>
    BY <1>2 DEF environment, remote
  <1>4. worker.pc = "idle" /\ queue' = queue \ {y}
    BY DEF Reconcile, ReconcileNothing, ReconcileDelete, ReconcileNew,
           ReconcileSync, CanReconcile, Begin
  <1>5. CASE ReconcileNothing(y)
    <2>1. UNCHANGED worker
      BY <1>5 DEF ReconcileNothing
    <2>2. /\ Told(syncVersions, worker, queue \ {y}, Sync)
          /\ \A z \in Sync \ {y} : Due(syncVersions, worker, queue, z)
                                     => Due(syncVersions, worker, queue \ {y}, z)
      BY <1>1, <1>4, ToldNothing
    <2> DEFINE o == Stored(syncVersions[y])
               c == Cached(syncVersions[y])
    <2>3. c = Absent \/ c.deleting
      BY <1>5 DEF ReconcileNothing
    <2>4. SyncDue(y)' \/ o = Absent \/ o.deleting
      <3>1. CASE Announced(syncVersions[y], 1)
        BY <1>3, <3>1 DEF SyncDue, Due
      <3>2. CASE ~Announced(syncVersions[y], 1)
        <4>1. SameContent(c, o)
          BY <1>1, <3>2, VersionsType, CacheIsStored DEF KnownInv, Tracked, Told
        <4> QED  BY <2>3, <4>1 DEF SameContent
      <3> QED  BY <3>1, <3>2
    <2>5. ReportIsHonest'
      BY <1>3, <1>4, <2>1, <2>2, <2>4, HonestWrites DEF HonestInv, SyncDue
    <2>6. WorkerFresh' /\ WorkerCopied'
      BY <1>4, <2>1, IdleIsFresh
    <2> QED  BY <1>3, <1>4, <2>1, <2>2, <2>5, <2>6 DEF HonestInv, SyncTold
  <1>6. CASE ReconcileDelete(y) \/ ReconcileNew(y) \/ ReconcileSync(y)
    <2>1. /\ worker'.pc \in {"addFinalizer", "getCluster", "getKubeconfig",
                             "removeFinalizer"}
          /\ worker'.key = y /\ worker'.item = Cached(syncVersions[y])
          /\ worker'.pc = "getKubeconfig" => worker'.item.deleting
      <3>1. ASSUME NEW pc, Begin(y, pc)
            PROVE  /\ worker'.pc = pc /\ worker'.key = y
                   /\ worker'.item = Cached(syncVersions[y])
        BY <3>1 DEF Begin, IdleWorker
      <3>2. CASE ReconcileDelete(y)
        BY <3>1, <3>2 DEF ReconcileDelete
      <3>3. CASE ReconcileNew(y) \/ ReconcileSync(y)
        BY <3>1, <3>3 DEF ReconcileNew, ReconcileSync
      <3> QED  BY <1>6, <3>2, <3>3
    <2>2. /\ Told(syncVersions, worker', queue \ {y}, Sync)
          /\ \A z \in Sync : Due(syncVersions, worker, queue, z)
                               => Due(syncVersions, worker', queue \ {y}, z)
      BY <1>1, <1>4, <2>1, ToldBegin
    <2>3. ReportIsHonest'
      BY <1>3, <1>4, <2>2, HonestStays DEF HonestInv, SyncDue
    <2>4. WorkerFresh' /\ WorkerCopied'
      BY <2>1 DEF WorkerFresh, WorkerCopied, HasCluster, HasSource
    <2> QED  BY <1>3, <1>4, <2>2, <2>3, <2>4 DEF HonestInv, SyncTold
  <1> QED  BY <1>5, <1>6 DEF Reconcile


(* A watch event of a sync is delivered. *)
LEMMA HonestDelivers ==
  ASSUME HonestInv, SyncInv', NEW y \in Sync, DeliverSync(y)
  PROVE  HonestInv'
  <1>1. KnownInv /\ Told(syncVersions, worker, queue, Sync)
    BY DEF HonestInv, SyncTold, SyncInv
  <1>2. /\ Len(syncVersions[y]) > 1
        /\ syncVersions' = Delivered(syncVersions, y)
        /\ UNCHANGED <<worker, environment, remote, orphaned>>
    BY <1>1, KnownDeliver
  <1>3. UNCHANGED <<worker, workload, cluster, sources, notices>>
    BY <1>2 DEF environment, remote
  <1>4. Requests(syncVersions, y, queue, queue')
    BY DEF DeliverSync, Requests
  <1>5. Tracked(Sync, SyncVersion, syncVersions, worker)
    BY <1>1, VersionsType DEF KnownInv
  <1> DEFINE next == Delivered(syncVersions, y)
  <1>6. /\ Told(next, worker, queue', Sync)
        /\ \A z \in Sync : Due(syncVersions, worker, queue, z)
                             => Due(next, worker, queue', z)
        /\ \A z \in Sync : Stored(next[z]) = Stored(syncVersions[z])
    BY <1>1, <1>2, <1>4, <1>5, ToldDeliver
  <1> HIDE DEF next
  <1>7. syncVersions' = next
    BY <1>2 DEF next
  <1>8. ReportIsHonest'
    BY <1>3, <1>6, <1>7, HonestStays DEF HonestInv, SyncDue
  <1>9. WorkerFresh' /\ WorkerCopied'
    BY <1>3, <1>4 DEF HonestInv, WorkerFresh, WorkerCopied, HasCluster, HasSource,
                      DesiredSecret, Requests
  <1> QED  BY <1>3, <1>6, <1>7, <1>8, <1>9 DEF HonestInv, SyncTold

(* An event of a Secret or a change of the cluster asks for what it is to   *)
(* ask for: the syncs that Reconcile sees in the cache are the stored ones, *)
(* with the sources that are stored, unless a request is due anyway.        *)
LEMMA CacheWillDo ==
  ASSUME HonestInv, NEW y \in Sync
  PROVE  LET c == Cached(syncVersions[y])
             o == Stored(syncVersions[y])
         IN  /\ o # Absent /\ ~Due(syncVersions, worker, queue, y)
                  => c # Absent /\ c.spec = o.spec
             /\ Busy(worker, y) /\ y \notin queue
                  => c # Absent /\ c.spec = worker.item.spec
  <1> DEFINE c == Cached(syncVersions[y])
             o == Stored(syncVersions[y])
  <1>1. /\ syncVersions \in VersionMaps(Sync, SyncVersion)
        /\ ChangesTell(syncVersions, Sync) /\ WorkerTold(syncVersions, worker, queue)
    BY SyncParts DEF HonestInv, SyncTold, Told, Tracked
  <1>2. ASSUME o # Absent, ~Due(syncVersions, worker, queue, y)
        PROVE  c # Absent /\ c.spec = o.spec
    <2>1. SameContent(c, o)
      BY <1>1, <1>2, CacheIsStored DEF Due
    <2> QED  BY <1>2, <2>1 DEF SameContent
  <1>3. ASSUME Busy(worker, y), y \notin queue
        PROVE  c # Absent /\ c.spec = worker.item.spec
    <2>1. SameContent(worker.item, c) /\ worker.item # Absent
      BY <1>1, <1>3, SyncItem DEF WorkerTold, Busy, HonestInv
    <2> QED  BY <2>1 DEF SameContent
  <1> QED  BY <1>2, <1>3

(* The event of a Secret is delivered. *)
LEMMA HonestNotice ==
  ASSUME HonestInv, SyncInv', NEW secret, DeliverNotice(secret)
  PROVE  HonestInv'
  <1>1. /\ notices' = notices \ {secret}
        /\ queue' = queue \cup RequestsForSecret(secret)
        /\ UNCHANGED <<syncVersions, worker, workload, cluster, sources>>
    BY DEF DeliverNotice, remote
  <1>2. Follows(worker, worker')
    BY <1>1 DEF Follows
  <1>3. /\ SyncTold'
        /\ \A y \in Sync : Due(syncVersions, worker, queue, y)
                             => Due(syncVersions', worker', queue', y)
    BY <1>1, <1>2, DueFollows
  <1>4. ASSUME NEW y \in Sync, Cached(syncVersions[y]) # Absent,
               Cached(syncVersions[y]).spec.source = secret
        PROVE  y \in queue'
    BY <1>1, <1>4 DEF RequestsForSecret, CachedSyncs
  <1>5. ASSUME NEW y \in Sync, Stored(syncVersions[y]) # Absent, SyncDue(y)
        PROVE  SyncDue(y)'
    <2>1. CASE Due(syncVersions, worker, queue, y)
      BY <1>3, <2>1 DEF SyncDue
    <2>2. CASE /\ ~Due(syncVersions, worker, queue, y)
               /\ Stored(syncVersions[y]).spec.source = secret
      <3>1. y \in queue'
        BY <1>4, <1>5, <2>2, CacheWillDo
      <3> QED  BY <3>1 DEF SyncDue, Due
    <2>3. CASE /\ ~Due(syncVersions, worker, queue, y)
               /\ Stored(syncVersions[y]).spec.source # secret
      BY <1>1, <1>5, <2>3 DEF SyncDue
    <2> QED  BY <2>1, <2>2, <2>3
  <1>6. ReportIsHonest'
    BY <1>1, <1>5, HonestStays DEF HonestInv
  <1>7. WorkerFresh'
    <2>1. worker.pc # "idle" /\ worker.item.spec.source = secret => worker.key \in queue'
      <3> SUFFICES ASSUME worker.pc # "idle", worker.item.spec.source = secret,
                          worker.key \notin queue
                   PROVE  worker.key \in queue'
        BY <1>1
      <3>1. worker.key \in Sync /\ Busy(worker, worker.key)
        BY SyncItem DEF HonestInv
      <3> QED  BY <1>4, <3>1, CacheWillDo
    <2>2. WorkerFresh
      BY DEF HonestInv
    <2>3. HasSource => worker.pc # "idle"
      BY DEF HasSource
    <2>4. HasCluster' = HasCluster /\ HasSource' = HasSource
      BY <1>1 DEF HasCluster, HasSource
    <2> QED  BY <1>1, <2>1, <2>2, <2>3, <2>4 DEF WorkerFresh
  <1>8. WorkerCopied'
    BY <1>1 DEF HonestInv, WorkerCopied, DesiredSecret
  <1> QED  BY <1>3, <1>6, <1>7, <1>8 DEF HonestInv

(* A source or the kubeconfig changes: there will be an event. *)
LEMMA HonestSecrets ==
  ASSUME HonestInv, SyncInv',
         (\E s \in Source : ChangeSource(s)) \/ ChangeKubeconfig
  PROVE  HonestInv'
  <1>1. /\ notices \subseteq notices'
        /\ UNCHANGED <<syncVersions, queue, worker, workload, cluster>>
        /\ \A s \in Source : s \in notices' \/ sources'[s] = sources[s]
    <2>1. CASE ChangeKubeconfig
      BY <2>1 DEF ChangeKubeconfig, remote
    <2>2. ASSUME NEW s \in Source, ChangeSource(s)
          PROVE  /\ notices \subseteq notices'
                 /\ UNCHANGED <<syncVersions, queue, worker, workload, cluster>>
                 /\ \A t \in Source : t \in notices' \/ sources'[t] = sources[t]
      <3>1. sources \in [Source -> Data \cup {Absent}]
        BY SyncParts DEF HonestInv, TypeOK
      <3>2. PICK d : sources' = [sources EXCEPT ![s] = d]
        BY <2>2 DEF ChangeSource
      <3> QED  BY <2>2, <3>1, <3>2 DEF ChangeSource, remote
    <2> QED  BY <2>1, <2>2
  <1>2. Follows(worker, worker')
    BY <1>1 DEF Follows
  <1>3. /\ SyncTold'
        /\ \A y \in Sync : Due(syncVersions, worker, queue, y)
                             => Due(syncVersions', worker', queue', y)
    BY <1>1, <1>2, DueFollows
  <1>4. \A y \in Sync : SyncDue(y) => SyncDue(y)'
    BY <1>1, <1>3 DEF SyncDue
  <1>5. ASSUME NEW y \in Sync, Stored(syncVersions[y]) # Absent
        PROVE  LET o == Stored(syncVersions[y])
               IN  SyncDue(y)' \/ sources'[o.spec.source] = sources[o.spec.source]
    <2>1. Stored(syncVersions[y]).spec.source \in Source
      BY <1>5, SyncParts, VersionsType, ObjectType DEF HonestInv, SyncVersion
    <2> QED  BY <1>1, <2>1 DEF SyncDue
  <1>6. ReportIsHonest'
    BY <1>1, <1>4, <1>5, HonestStays DEF HonestInv
  <1>7. WorkerFresh'
    <2>1. HasSource => worker.item.spec.source \in Source
      BY SyncParts, BusyType, ObjectType DEF HonestInv, HasSource
    <2>2. HasCluster' = HasCluster /\ HasSource' = HasSource
      BY <1>1 DEF HasCluster, HasSource
    <2>3. WorkerFresh
      BY DEF HonestInv
    <2> QED  BY <1>1, <2>1, <2>2, <2>3 DEF WorkerFresh
  <1>8. WorkerCopied'
    BY <1>1 DEF HonestInv, WorkerCopied, DesiredSecret
  <1> QED  BY <1>3, <1>6, <1>7, <1>8 DEF HonestInv

(* The cluster changes, and with it the label of every copy. *)
LEMMA HonestCluster ==
  ASSUME HonestInv, SyncInv', ChangeCluster
  PROVE  HonestInv'
  <1>1. /\ queue' = queue \cup CachedSyncs
        /\ UNCHANGED <<syncVersions, worker, workload, sources, notices>>
    BY DEF ChangeCluster, remote
  <1>2. Follows(worker, worker')
    BY <1>1 DEF Follows
  <1>3. /\ SyncTold'
        /\ \A y \in Sync : Due(syncVersions, worker, queue, y)
                             => Due(syncVersions', worker', queue', y)
    BY <1>1, <1>2, DueFollows
  <1>4. ASSUME NEW y \in Sync, Stored(syncVersions[y]) # Absent PROVE SyncDue(y)'
    <2>1. CASE Due(syncVersions, worker, queue, y)
      BY <1>3, <2>1 DEF SyncDue
    <2>2. CASE ~Due(syncVersions, worker, queue, y)
      <3>1. y \in CachedSyncs
        BY <1>4, <2>2, CacheWillDo DEF CachedSyncs
      <3> QED  BY <1>1, <3>1 DEF SyncDue, Due
    <2> QED  BY <2>1, <2>2
  <1>5. ReportIsHonest'
    BY <1>1, <1>4 DEF ReportIsHonest, ReportsSynced
  <1>6. worker.pc # "idle" => worker.key \in queue'
    <2> SUFFICES ASSUME worker.pc # "idle", worker.key \notin queue
                 PROVE  worker.key \in CachedSyncs
      BY <1>1
    <2>1. worker.key \in Sync /\ Busy(worker, worker.key)
      BY SyncItem DEF HonestInv
    <2> QED  BY <2>1, CacheWillDo DEF CachedSyncs
  <1>7. WorkerFresh'
    BY <1>1, <1>6 DEF WorkerFresh, HasCluster, HasSource
  <1>8. WorkerCopied'
    BY <1>1 DEF HonestInv, WorkerCopied, DesiredSecret
  <1> QED  BY <1>3, <1>5, <1>7, <1>8 DEF HonestInv

(* The operator restarts: the events that were on their way are lost, and   *)
(* every sync that is stored is looked at.                                  *)
LEMMA HonestRestarts ==
  ASSUME HonestInv, SyncInv', Restart
  PROVE  HonestInv'
  <1>1. /\ worker'.pc = "idle"
        /\ syncVersions' = Relisted(syncVersions, Sync)
    BY KnownRestart DEF HonestInv, SyncInv
  <1>2. queue' = Listed(syncVersions)
    BY DEF Restart
  <1>3. syncVersions \in VersionMaps(Sync, SyncVersion)
    BY SyncParts DEF HonestInv, Tracked
  <1>4. /\ Told(syncVersions', worker', queue', Sync)
        /\ \A y \in Sync :
             /\ Stored(syncVersions'[y]) = Stored(syncVersions[y])
             /\ Stored(syncVersions[y]) # Absent
                  => Due(syncVersions', worker', queue', y)
    BY <1>1, <1>2, <1>3, ToldRestart
  <1>5. ReportIsHonest'
    BY <1>4 DEF ReportIsHonest, ReportsSynced, SyncDue
  <1> QED  BY <1>1, <1>4, <1>5, IdleIsFresh DEF HonestInv, SyncTold

(* Every step. *)
LEMMA StepHonest == HonestInv /\ TargetsApart /\ [Next]_vars => HonestInv'
  <1> SUFFICES ASSUME HonestInv, TargetsApart, [Next]_vars PROVE HonestInv'
    OBVIOUS
  <1>1. SyncInv'
    BY StepSync DEF HonestInv
  <1>2. CASE WorkerStep
    <2>1. CASE \/ SpecError \/ MissingCluster \/ FoundCluster
               \/ MissingSource \/ FoundSource \/ NoKubeconfig \/ FoundKubeconfig
               \/ CheckOwned \/ GetTarget
      BY <1>1, <2>1, HonestLook
    <2>2. CASE DeleteSecret \/ EnsureNamespace \/ WriteTarget \/ WorkloadFails
      BY <1>1, <2>2, HonestCalls
    <2>3. CASE CallSucceeds
      BY <1>1, <2>3, HonestAdds, HonestReports, HonestRemoves DEF CallSucceeds
    <2>4. CASE CallFails
      BY <1>1, <2>4, HonestEnds
    <2> QED  BY <1>2, <2>1, <2>2, <2>3, <2>4 DEF WorkerStep
  <1>3. ASSUME NEW y \in Sync,
               \/ Reconcile(y) \/ DeliverSync(y)
               \/ CreateSync(y) \/ UpdateSync(y) \/ DeleteSync(y)
        PROVE  HonestInv'
    BY <1>1, <1>3, HonestBegins, HonestDelivers, HonestUser
  <1>4. CASE \E secret \in Source \cup {"kubeconfig"} : DeliverNotice(secret)
    BY <1>1, <1>4, HonestNotice
  <1>5. CASE (\E s \in Source : ChangeSource(s)) \/ ChangeKubeconfig
    BY <1>1, <1>5, HonestSecrets
  <1>6. CASE ChangeCluster \/ Restart
    BY <1>1, <1>6, HonestCluster, HonestRestarts
  <1>7. CASE UNCHANGED vars
    <2>1. /\ UNCHANGED <<syncVersions, queue, worker, workload>>
          /\ UNCHANGED <<cluster, sources, notices>>
      BY <1>7 DEF vars
    <2>2. Follows(worker, worker')
      BY <2>1 DEF Follows
    <2>3. WorkerFresh' /\ WorkerCopied'
      BY <2>1 DEF HonestInv, WorkerFresh, WorkerCopied, HasCluster, HasSource,
                  DesiredSecret
    <2> QED  BY <1>1, <2>1, <2>2, <2>3, HonestQuiet
  <1> QED  BY <1>2, <1>3, <1>4, <1>5, <1>6, <1>7 DEF Next

(* The initial states. *)
LEMMA InitHonest == Init => HonestInv
  <1> SUFFICES ASSUME Init PROVE HonestInv
    OBVIOUS
  <1>1. SyncInv
    BY InitSync
  <1>2. worker.pc = "idle" /\ syncVersions = [y \in Sync |-> <<Absent>>]
    BY DEF Init, IdleWorker
  <1>3. SyncTold
    BY <1>2, ToldInit DEF SyncTold
  <1>4. \A y \in Sync : Stored(syncVersions[y]) = Absent
    <2>1. \A y \in Sync : Len(syncVersions[y]) = 1 /\ syncVersions[y][1] = Absent
      BY <1>2, OneVersion
    <2>2. ASSUME NEW s, Len(s) = 1, s[1] = Absent PROVE Stored(s) = Absent
      BY <2>2 DEF Stored
    <2> QED  BY <2>1, <2>2
  <1> QED
    BY <1>1, <1>2, <1>3, <1>4
       DEF HonestInv, WorkerFresh, WorkerCopied, HasCluster, HasSource,
           ReportIsHonest, ReportsSynced

(* As long as no two syncs share a target when one of them writes there,    *)
(* Synced=True for the current generation is never a lie for good, whatever *)
(* is edited, rotated, renamed, lost or late, and wherever a call fails or  *)
(* the operator crashes: the target is the copy of the source as it is now, *)
(* labelled for the cluster as it is now, or a request is under way.        *)
THEOREM SyncsAreCopied == Spec /\ []TargetsApart => []SyncIsHonest
  <1>1. HonestInv /\ TargetsApart /\ [Next]_vars => HonestInv'
    BY StepHonest
  <1>2. HonestInv => SyncIsHonest
    BY HonestSync
  <1> QED  BY <1>1, <1>2, InitHonest, PTL DEF Spec

(* With one OmniSecretSync there is nobody to share a target with. *)
THEOREM OneSyncIsCopied ==
  ASSUME \A y, z \in Sync : y = z
  PROVE  Spec => []SyncIsHonest
  <1>1. HonestInv => TargetsApart
    <2> SUFFICES ASSUME HonestInv, worker.pc # "idle", NEW y \in Sync \ {worker.key}
                 PROVE  FALSE
      BY DEF TargetsApart
    <2>1. worker.key \in Sync
      BY SyncItem DEF HonestInv
    <2> QED  BY <2>1
  <1>2. HonestInv /\ [Next]_vars => HonestInv'
    BY <1>1, StepHonest
  <1>3. HonestInv => SyncIsHonest
    BY HonestSync
  <1> QED  BY <1>2, <1>3, InitHonest, PTL DEF Spec


=============================================================================
