----------------------- MODULE KubeconfigExportProofs -----------------------
(***************************************************************************)
(* Proofs about KubeconfigExport, for every set of exports, Secrets and    *)
(* specs, any failures and user operations, and every bound.  The lineage  *)
(* of the exports is that of ObjectVersionsProofs; what is particular to   *)
(* this controller is which Secret Reconcile reads, deletes and writes,    *)
(* and that users tamper with Secrets, delete them and create their own    *)
(* between any two of its steps.                                           *)
(***************************************************************************)
EXTENDS KubeconfigExport, ObjectVersionsProofs

-----------------------------------------------------------------------------
(* Types, and what Reconcile knows at each of its steps *)

(* The Secret that Reconcile is about to delete *)
Victim ==
  IF worker.pc = "deletePrevious" THEN worker.item.status.target
                                  ELSE TargetSecret(worker.item)

(* What an earlier step has found out holds when a later one relies on it:  *)
(* a Secret is written with the name of a cluster and a kubeconfig, and the *)
(* finalizer is removed on the way of a deletion only.                      *)
WorkerKnows ==
  worker.pc # "idle" =>
    /\ worker.pc \in {"addFinalizer", "checkSpec", "getPrevious", "deletePrevious",
                      "getSecret", "generate", "write"} => ~worker.item.deleting
    /\ worker.pc \in {"getTarget", "deleteTarget", "removeFinalizer"}
         => worker.item.deleting
    /\ worker.pc # "addFinalizer" => worker.item.fins # {}
    /\ worker.pc \in {"getPrevious", "deletePrevious", "getSecret", "generate",
                      "write"} => worker.cluster \in ClusterObject
    /\ worker.pc = "write" => worker.data \in Kubeconfig
    /\ worker.pc = "deletePrevious" => worker.item.status.target \in Secret

(* The Secret that was read before a deletion is one of the export.  By the *)
(* time of the Delete it can be gone, or others can have put one of their   *)
(* own in its place; no other export has written there.                     *)
VictimIsOwned ==
  worker.pc \in {"deletePrevious", "deleteTarget"} =>
    /\ IsOwnedSecret(worker.item, worker.secret)
    /\ secrets[Victim] # Absent =>
         secrets[Victim].owner \in {worker.item.uid, Absent}

KnownInv == TypeOK /\ WorkerKnows /\ VictimIsOwned

(* The parts of an object have their types. *)
LEMMA ObjectType ==
  ASSUME NEW o \in ExportObject
  PROVE  /\ o # Absent /\ o.uid \in Nat /\ o.gen \in Nat /\ o.spec \in ExportSpec
         /\ o.spec.target \in Secret /\ o.spec.key \in Key
         /\ o.spec.profile \in Profile /\ o.spec.policy \in {"Delete", "Orphan"}
         /\ o.deleting \in BOOLEAN /\ o.fins \in SUBSET {Finalizer}
         /\ o.status.target \in Secret \cup {Absent}
         /\ TargetSecret(o) \in Secret
  BY ExportAbsentAssumption DEF ExportObject, ExportSpec, ExportStatus, TargetSecret

(* A worker that is not idle has an object. *)
LEMMA BusyType ==
  ASSUME TypeOK, worker.pc # "idle"
  PROVE  worker \in BusyWorker /\ worker.key \in Export /\ worker.item \in ExportObject
  BY DEF TypeOK, IdleWorker, BusyWorker

(* The versions are those of the lineage. *)
LEMMA VersionsType ==
  ASSUME TypeOK
  PROVE  /\ Tracked(Export, ExportVersion, exportVersions, worker)
         /\ Absent \in ExportVersion
         /\ \A e \in Export : /\ Cached(exportVersions[e]) \in ExportVersion
                              /\ Stored(exportVersions[e]) \in ExportVersion
  <1>1. exportVersions \in VersionMaps(Export, ExportVersion)
    BY DEF TypeOK, VersionMaps
  <1>2. Versioned(ExportVersion)
    BY ObjectType DEF Versioned, ExportVersion
  <1>3. worker.pc # "idle" =>
          worker.key \in Export /\ worker.item \in ExportVersion /\ worker.item # Absent
    BY BusyType, ObjectType DEF ExportVersion
  <1>4. Tracked(Export, ExportVersion, exportVersions, worker)
    BY <1>1, <1>2, <1>3 DEF Tracked
  <1> QED  BY <1>1, <1>4, MapEnds DEF ExportVersion

(* A store of a version is a write of the lineage. *)
LEMMA StoreIsAppend ==
  ASSUME TypeOK, NEW e \in Export, NEW x \in ExportVersion, StoreExport(e, x)
  PROVE  /\ exportVersions' = Appended(exportVersions, e, x)
         /\ exportVersions' \in [Export -> Seq(ExportVersion)]
         /\ \A z \in Export : exportVersions'[z] # <<>>
  <1>1. exportVersions' = Appended(exportVersions, e, x)
    BY DEF StoreExport, Appended
  <1>2. exportVersions \in VersionMaps(Export, ExportVersion)
    BY DEF TypeOK, VersionMaps
  <1>3. Appended(exportVersions, e, x) \in VersionMaps(Export, ExportVersion)
    BY <1>2, MapAppend
  <1> QED  BY <1>1, <1>3 DEF VersionMaps

(* The watch events of Secrets name exports. *)
LEMMA RequestsType ==
  ASSUME NEW objects \in SUBSET (SecretObject \cup {Absent})
  PROVE  RequestsForSecret(objects) \subseteq Export
  BY DEF RequestsForSecret, SecretObject

(* The delay until the next rotation, and the time that a timer is set to. *)
LEMMA DelayType ==
  ASSUME TypeOK, worker.pc # "idle", NEW exp \in Nat
  PROVE  RequeueAfter(exp) \in Nat \cup {Absent}
  <1>1. worker.at \in Nat
    BY BusyType DEF BusyWorker
  <1> QED  BY <1>1, ExportAssumption DEF RequeueAfter, NextRotationTime

(* The initial states. *)
LEMMA InitKnown == Init => KnownInv
  <1> SUFFICES ASSUME Init PROVE KnownInv
    OBVIOUS
  <1>1. /\ exportVersions \in [Export -> Seq(ExportVersion)]
        /\ \A e \in Export : exportVersions[e] # <<>>
    <2>1. <<Absent>> \in Seq(ExportVersion) /\ <<Absent>> # <<>>
      BY OneVersion DEF ExportVersion
    <2> QED  BY <2>1 DEF Init
  <1>2. worker = IdleWorker /\ worker.pc = "idle"
    BY DEF Init, IdleWorker
  <1> QED
    BY <1>1, <1>2 DEF Init, KnownInv, TypeOK, WorkerKnows, VictimIsOwned

(* Reconcile starts. *)
LEMMA KnownBegin ==
  ASSUME KnownInv, NEW e \in Export, Reconcile(e)
  PROVE  /\ KnownInv'
         /\ \/ UNCHANGED worker
            \/ /\ worker.pc = "idle" /\ worker'.key = e
               /\ worker'.item = Cached(exportVersions[e])
               /\ Cached(exportVersions[e]) # Absent
               /\ worker'.pc = "removeFinalizer" => worker'.item.spec.policy = "Orphan"
         /\ UNCHANGED <<exportVersions, secrets, environment, orphaned>>
  <1> DEFINE item == Cached(exportVersions[e])
  <1> USE DEF KnownInv
  <1>1. item \in ExportVersion
    BY VersionsType
  <1>2. CASE ReconcileNothing(e)
    <2>1. /\ UNCHANGED <<exportVersions, timer, worker, secrets, notices, environment,
                         orphaned>>
          /\ queue' \subseteq Export
      BY <1>2 DEF ReconcileNothing, TypeOK
    <2> QED
      BY <2>1 DEF TypeOK, WorkerKnows, VictimIsOwned, Victim, environment,
         TargetSecret, IsOwnedSecret
  <1>3. ASSUME NEW pc \in {"addFinalizer", "checkSpec", "getTarget",
                           "removeFinalizer"},
               CanReconcile(e), item # Absent, Begin(e, pc),
               pc # "addFinalizer" => item.fins # {},
               pc \in {"addFinalizer", "checkSpec"} => ~item.deleting,
               pc \in {"getTarget", "removeFinalizer"} => item.deleting,
               pc = "removeFinalizer" => item.spec.policy = "Orphan"
        PROVE  /\ KnownInv'
               /\ worker.pc = "idle" /\ worker'.key = e
               /\ worker'.item = item
               /\ worker'.pc = "removeFinalizer" => item.spec.policy = "Orphan"
               /\ UNCHANGED <<exportVersions, secrets, environment, orphaned>>
    <2>1. item \in ExportObject
      BY <1>1, <1>3 DEF ExportVersion
    <2>2. worker' = [pc |-> pc, key |-> e, item |-> item, cluster |-> Absent,
                     at |-> 0, secret |-> Absent, data |-> Absent, reason |-> "None",
                     hash |-> Absent, again |-> FALSE, delay |-> Absent]
      BY <1>3 DEF Begin, IdleWorker
    <2>3. worker' \in BusyWorker
      BY <2>1, <2>2 DEF BusyWorker, Reason
    <2>4. WorkerKnows' /\ VictimIsOwned'
      BY <1>3, <2>2 DEF WorkerKnows, VictimIsOwned
    <2>5. /\ UNCHANGED <<exportVersions, timer, secrets, notices, environment, orphaned>>
          /\ queue' \subseteq Export
      BY <1>3 DEF Begin, TypeOK
    <2>6. TypeOK'
      BY <2>3, <2>5 DEF TypeOK, environment
    <2> QED  BY <1>3, <2>2, <2>4, <2>5, <2>6 DEF CanReconcile
  <1>4. CASE ReconcileDelete(e)
    <2>1. CASE item.spec.policy = "Delete"
      BY <1>3, <1>4, <2>1 DEF ReconcileDelete
    <2>2. CASE item.spec.policy # "Delete"
      <3>1. item # Absent
        BY <1>4 DEF ReconcileDelete
      <3>2. item.spec.policy = "Orphan"
        BY <1>1, <2>2, <3>1, ObjectType DEF ExportVersion
      <3> QED  BY <1>3, <1>4, <2>2, <3>2 DEF ReconcileDelete
    <2> QED  BY <2>1, <2>2
  <1>5. CASE ReconcileNew(e)
    BY <1>3, <1>5 DEF ReconcileNew
  <1>6. CASE ReconcileExport(e)
    BY <1>3, <1>6 DEF ReconcileExport
  <1> QED  BY <1>2, <1>4, <1>5, <1>6 DEF Reconcile

(* Reconcile has something to report. *)
LEMMA KnownReport ==
  ASSUME TypeOK, WorkerKnows, worker.pc \notin {"idle", "addFinalizer"},
         NEW reason \in Reason, NEW hash \in Kubeconfig \cup {Absent},
         NEW again \in BOOLEAN, NEW delay \in Nat \cup {Absent},
         worker' = Report(reason, hash, again, delay)
  PROVE  /\ worker' \in BusyWorker /\ WorkerKnows' /\ VictimIsOwned'
         /\ Follows(worker, worker') /\ worker'.pc = "updateStatus"
  <1>1. worker \in BusyWorker
    BY BusyType
  <1>2. /\ worker' \in BusyWorker
        /\ worker'.pc = "updateStatus" /\ worker'.key = worker.key
        /\ worker'.item = worker.item
    BY <1>1, ZenonT(60) DEF Report, BusyWorker
  <1> QED  BY <1>2 DEF WorkerKnows, VictimIsOwned, Follows

(* A step of Reconcile that only looks: nothing but its own state changes,  *)
(* its copy stays, and the finalizer is next only when the Secret it looked *)
(* at is not its own.                                                       *)
LEMMA KnownLook ==
  ASSUME KnownInv,
         \/ SpecError \/ MissingCluster \/ MissingConnection \/ FoundDependencies
         \/ GetPreviousTarget \/ GetTarget \/ ReuseSecret \/ ReplaceSecret
         \/ GenerateKubeconfig \/ GenerateFails
  PROVE  /\ KnownInv' /\ Follows(worker, worker')
         /\ worker'.pc = "removeFinalizer" =>
              /\ worker.pc = "getTarget" /\ worker.item.deleting
              /\ ~IsOwnedSecret(worker.item, secrets[TargetSecret(worker.item)])
         /\ UNCHANGED <<exportVersions, secrets, environment, orphaned>>
  <1> USE DEF KnownInv
  <1>1. {"ValidationFailed", "MissingCluster", "MissingConnection", "ExportFailed",
         "Exported"} \subseteq Reason
    BY DEF Reason
  <1>2. /\ worker.pc \notin {"idle", "addFinalizer"}
        /\ UNCHANGED <<exportVersions, queue, timer, secrets, notices, environment,
                       orphaned>>
    BY DEF SpecError, MissingCluster, MissingConnection, FoundDependencies,
       GetPreviousTarget, GetTarget, ReuseSecret, ReplaceSecret,
       GenerateKubeconfig, GenerateFails, Advance
  <1>3. /\ worker \in BusyWorker /\ worker.key \in Export
        /\ worker.item \in ExportObject /\ worker.item.spec.profile \in Profile
        /\ TargetSecret(worker.item) \in Secret /\ worker.at \in Nat
        /\ worker.item.status.target \in Secret \cup {Absent}
        /\ worker.item.spec.key \in Key
    BY <1>2, BusyType, ObjectType DEF BusyWorker
  <1>4. ASSUME worker' \in BusyWorker PROVE TypeOK'
    BY <1>2, <1>4 DEF TypeOK, environment
  <1>5. CASE \E reason \in Reason, hash \in Kubeconfig \cup {Absent},
                again \in BOOLEAN, delay \in Nat \cup {Absent} :
               worker' = Report(reason, hash, again, delay)
    BY <1>2, <1>4, <1>5, KnownReport
  <1>6. CASE SpecError \/ MissingCluster \/ MissingConnection \/ GenerateFails
    BY <1>1, <1>5, <1>6
       DEF SpecError, MissingCluster, MissingConnection, GenerateFails, Advance
  <1>7. CASE FoundDependencies
    <2>1. worker.pc = "checkSpec" /\ cluster \in ClusterObject /\ now \in Nat
      BY <1>7 DEF FoundDependencies, TypeOK
    <2>2. /\ worker' \in BusyWorker /\ worker'.pc = "getPrevious"
          /\ worker'.key = worker.key /\ worker'.item = worker.item
          /\ worker'.cluster = cluster
      BY <1>3, <1>7, <2>1 DEF FoundDependencies, Advance, BusyWorker
    <2> QED
      BY <1>2, <1>4, <2>1, <2>2 DEF WorkerKnows, VictimIsOwned, Follows
  <1>8. CASE GetPreviousTarget
    <2>1. /\ worker.pc = "getPrevious"
          /\ \/ /\ worker' = [worker EXCEPT !.pc = "deletePrevious",
                                            !.secret = secrets[worker.item.status.target]]
                /\ PreviousTargetOwned(worker.item)
             \/ worker' = [worker EXCEPT !.pc = "getSecret"]
      BY <1>8 DEF GetPreviousTarget, Advance
    <2>2. CASE worker' = [worker EXCEPT !.pc = "getSecret"]
      <3>1. /\ worker' \in BusyWorker /\ worker'.pc = "getSecret"
            /\ worker'.key = worker.key /\ worker'.item = worker.item
            /\ worker'.cluster = worker.cluster
        BY <1>3, <2>2 DEF BusyWorker
      <3> QED
        BY <1>2, <1>4, <2>1, <3>1 DEF WorkerKnows, VictimIsOwned, Follows
    <2>3. CASE /\ worker' = [worker EXCEPT !.pc = "deletePrevious",
                                           !.secret = secrets[worker.item.status.target]]
               /\ PreviousTargetOwned(worker.item)
      <3>1. /\ worker.item.status.target \in Secret
            /\ IsOwnedSecret(worker.item, secrets[worker.item.status.target])
        BY <1>3, <2>3 DEF PreviousTargetOwned
      <3>2. secrets[worker.item.status.target] \in SecretObject \cup {Absent}
        BY <3>1 DEF TypeOK
      <3>3. /\ worker' \in BusyWorker /\ worker'.pc = "deletePrevious"
            /\ worker'.key = worker.key /\ worker'.item = worker.item
            /\ worker'.cluster = worker.cluster
            /\ worker'.secret = secrets[worker.item.status.target]
        BY <1>3, <2>3, <3>2 DEF BusyWorker
      <3>4. WorkerKnows' /\ Follows(worker, worker')
        BY <2>1, <3>1, <3>3 DEF WorkerKnows, Follows
      <3>5. VictimIsOwned'
        BY <1>2, <3>1, <3>3 DEF VictimIsOwned, Victim, IsOwnedSecret
      <3> QED  BY <1>2, <1>4, <3>3, <3>4, <3>5
    <2> QED  BY <2>1, <2>2, <2>3
  <1>9. CASE GetTarget
    <2> DEFINE secret == secrets[TargetSecret(worker.item)]
    <2>1. /\ worker.pc = "getTarget"
          /\ \/ /\ worker' = [worker EXCEPT !.pc = "deleteTarget", !.secret = secret]
                /\ IsOwnedSecret(worker.item, secret)
             \/ /\ worker' = [worker EXCEPT !.pc = "removeFinalizer"]
                /\ ~IsOwnedSecret(worker.item, secret)
      BY <1>9 DEF GetTarget, Advance
    <2>2. secret \in SecretObject \cup {Absent}
      BY <1>3 DEF TypeOK
    <2>3. worker.item.deleting
      BY <2>1 DEF WorkerKnows
    <2>4. CASE /\ worker' = [worker EXCEPT !.pc = "deleteTarget", !.secret = secret]
               /\ IsOwnedSecret(worker.item, secret)
      <3>1. /\ worker' \in BusyWorker /\ worker'.pc = "deleteTarget"
            /\ worker'.key = worker.key /\ worker'.item = worker.item
            /\ worker'.secret = secret
        <4> HIDE DEF secret
        <4> QED  BY <1>3, <2>2, <2>4 DEF BusyWorker
      <3>2. WorkerKnows' /\ Follows(worker, worker')
        BY <2>1, <3>1 DEF WorkerKnows, Follows
      <3>3. VictimIsOwned'
        BY <1>2, <2>4, <3>1 DEF VictimIsOwned, Victim, IsOwnedSecret, TargetSecret
      <3> QED  BY <1>2, <1>4, <2>3, <3>1, <3>2, <3>3
    <2>5. CASE /\ worker' = [worker EXCEPT !.pc = "removeFinalizer"]
               /\ ~IsOwnedSecret(worker.item, secret)
      <3>1. /\ worker' \in BusyWorker /\ worker'.pc = "removeFinalizer"
            /\ worker'.key = worker.key /\ worker'.item = worker.item
        BY <1>3, <2>5 DEF BusyWorker
      <3>2. WorkerKnows' /\ Follows(worker, worker') /\ VictimIsOwned'
        BY <2>1, <3>1 DEF WorkerKnows, Follows, VictimIsOwned
      <3> QED  BY <1>2, <1>4, <2>1, <2>3, <2>5, <3>1, <3>2
    <2> QED  BY <2>1, <2>4, <2>5
  <1>10. CASE ReuseSecret
    <2>1. PICK secret :
            /\ secret = secrets[TargetSecret(worker.item)]
            /\ CurrentKubeconfigSecretState(worker.item, secret, worker.cluster.name)
            /\ worker' = Report("Exported", secret.hash, FALSE, RequeueAfter(secret.hash.exp))
      BY <1>10, Zenon DEF ReuseSecret, Advance
    <2>2. secret \in SecretObject
      <3>1. secret # Absent
        BY <2>1, Zenon DEF CurrentKubeconfigSecretState
      <3>2. secrets \in [Secret -> SecretObject \cup {Absent}]
        BY DEF TypeOK
      <3> QED  BY <1>3, <2>1, <3>1, <3>2, Zenon
    <2>3. secret.hash \in Kubeconfig \cup {Absent} /\ secret.hash # Absent
      <3>1. secret.hash = secret.data[worker.item.spec.key] /\ secret.hash # Absent
        BY <2>1, Zenon DEF CurrentKubeconfigSecretState
      <3> QED  BY <2>2, <3>1 DEF SecretObject
    <2>4. secret.hash.exp \in Nat
      BY <2>3 DEF Kubeconfig
    <2>5. RequeueAfter(secret.hash.exp) \in Nat \cup {Absent}
      BY <1>2, <2>4, DelayType
    <2> QED  BY <1>1, <1>5, <2>1, <2>3, <2>5, ZenonT(60)
  <1>11. CASE ReplaceSecret
    <2>1. /\ worker.pc = "getSecret"
          /\ secrets[TargetSecret(worker.item)] \in SecretObject \cup {Absent}
      BY <1>3, <1>11 DEF ReplaceSecret, TypeOK
    <2>2. /\ worker' \in BusyWorker /\ worker'.pc = "generate"
          /\ worker'.key = worker.key /\ worker'.item = worker.item
          /\ worker'.cluster = worker.cluster
      BY <1>3, <1>11, <2>1 DEF ReplaceSecret, Advance, BusyWorker
    <2> QED
      BY <1>2, <1>4, <2>1, <2>2 DEF WorkerKnows, VictimIsOwned, Follows
  <1>12. CASE GenerateKubeconfig
    <2> DEFINE new == [cluster |-> worker.cluster.name,
                       account |-> worker.cluster.connection,
                       profile |-> worker.item.spec.profile, exp |-> worker.at + TTL]
    <2>1. /\ worker.pc = "generate"
          /\ worker' = [worker EXCEPT !.pc = "write", !.data = new]
      BY <1>12 DEF GenerateKubeconfig, Advance
    <2>2. worker.cluster \in ClusterObject
      BY <2>1 DEF WorkerKnows
    <2>3. new \in Kubeconfig
      BY <1>3, <2>2, ExportAssumption DEF Kubeconfig, ClusterObject
    <2> HIDE DEF new
    <2>4. /\ worker' \in BusyWorker /\ worker'.pc = "write"
          /\ worker'.key = worker.key /\ worker'.item = worker.item
          /\ worker'.cluster = worker.cluster /\ worker'.data = new
      BY <1>3, <2>1, <2>3 DEF BusyWorker
    <2> QED
      BY <1>2, <1>4, <2>1, <2>3, <2>4 DEF WorkerKnows, VictimIsOwned, Follows
  <1> QED
    BY <1>6, <1>7, <1>8, <1>9, <1>10, <1>11, <1>12

(* Where WriteSecret writes: the Secret that was read, or the one that the  *)
(* spec names.                                                              *)
WrittenAt ==
  IF worker.secret # Absent THEN TargetSecret(worker.item)
                            ELSE worker.item.spec.target

Deleted == [secrets EXCEPT ![Victim] = Absent]

Written == [secrets EXCEPT ![WrittenAt] = MergedSecret]

(* What is written is a Secret of the export. *)
LEMMA MergedType ==
  ASSUME KnownInv, worker.pc = "write"
  PROVE  /\ MergedSecret \in SecretObject /\ MergedSecret.owner = worker.item.uid
         /\ WrittenAt \in Secret
  <1> DEFINE old == IF worker.secret = Absent THEN [k \in Key |-> Absent]
                                              ELSE worker.secret.data
             data == [k \in Key |-> IF k = worker.item.spec.key THEN worker.data
                                    ELSE IF k \in DroppedKeys(worker.item) THEN Absent
                                    ELSE old[k]]
             hash == SpecHash(worker.item.spec, worker.cluster.name)
  <1>1. /\ worker.key \in Export /\ worker.item \in ExportObject
        /\ worker.secret \in SecretObject \cup {Absent}
        /\ worker.data \in Kubeconfig /\ worker.cluster \in ClusterObject
    BY BusyType DEF KnownInv, WorkerKnows, BusyWorker
  <1>2. /\ worker.item.uid \in Nat /\ worker.item.spec.target \in Secret
        /\ worker.item.spec.key \in Key /\ worker.item.spec.profile \in Profile
        /\ TargetSecret(worker.item) \in Secret
    BY <1>1, ObjectType
  <1>3. old \in [Key -> Kubeconfig \cup {Tampered, Absent}]
    BY <1>1 DEF SecretObject
  <1> HIDE DEF old
  <1>4. data \in [Key -> Kubeconfig \cup {Tampered, Absent}]
    BY <1>1, <1>3
  <1>5. hash \in RemoteName \X Key \X Profile
    BY <1>1, <1>2 DEF SpecHash, ClusterObject
  <1>6. MergedSecret = [owner |-> worker.item.uid, export |-> worker.key,
                        specHash |-> hash, hash |-> worker.data, data |-> data]
    BY DEF MergedSecret, old
  <1> HIDE DEF data, hash
  <1>7. MergedSecret \in SecretObject /\ MergedSecret.owner = worker.item.uid
    BY <1>1, <1>2, <1>4, <1>5, <1>6 DEF SecretObject
  <1> QED  BY <1>2, <1>7 DEF WrittenAt

(* The writes to Secrets: one goes only as the victim and comes only where  *)
(* the spec or the status says, and the finalizer is next only after the    *)
(* deletion.                                                                *)
LEMMA KnownCall ==
  ASSUME KnownInv, DeletePreviousTarget \/ WriteSecret \/ DeleteTarget
  PROVE  /\ KnownInv' /\ Follows(worker, worker')
         /\ \/ worker.pc \in {"deletePrevious", "deleteTarget"} /\ secrets' = Deleted
            \/ worker.pc = "write" /\ secrets' = Written
         /\ worker'.pc = "removeFinalizer" =>
              worker.pc = "deleteTarget" /\ worker.item.deleting /\ secrets' = Deleted
         /\ UNCHANGED <<exportVersions, environment, orphaned>>
  <1> USE DEF KnownInv
  <1>1. /\ worker.pc \in {"deletePrevious", "write", "deleteTarget"}
        /\ UNCHANGED <<exportVersions, queue, timer, environment, orphaned>>
    BY DEF DeletePreviousTarget, WriteSecret, DeleteTarget
  <1>2. /\ worker \in BusyWorker /\ worker.key \in Export
        /\ worker.item \in ExportObject /\ TargetSecret(worker.item) \in Secret
    BY <1>1, BusyType, ObjectType
  <1>3. /\ secrets \in [Secret -> SecretObject \cup {Absent}]
        /\ notices \subseteq Export
    BY DEF TypeOK
  <1>4. ASSUME worker' \in BusyWorker,
               secrets' \in [Secret -> SecretObject \cup {Absent}],
               notices' \subseteq Export
        PROVE  TypeOK'
    BY <1>1, <1>4 DEF TypeOK, environment
  <1>5. ASSUME NEW s \in Secret, DeleteSecretAt(s)
        PROVE  /\ secrets' \in [Secret -> SecretObject \cup {Absent}]
               /\ notices' \subseteq Export
    <2>1. {secrets[s]} \in SUBSET (SecretObject \cup {Absent})
      BY <1>3
    <2>2. RequestsForSecret({secrets[s]}) \subseteq Export
      BY <2>1, RequestsType
    <2> QED  BY <1>3, <1>5, <2>2 DEF DeleteSecretAt
  <1>6. CASE DeletePreviousTarget
    <2>1. /\ worker.pc = "deletePrevious" /\ DeleteSecretAt(worker.item.status.target)
          /\ worker' = [worker EXCEPT !.pc = "getSecret", !.secret = Absent]
      BY <1>6 DEF DeletePreviousTarget
    <2>2. /\ worker' \in BusyWorker /\ worker'.pc = "getSecret"
          /\ worker'.key = worker.key /\ worker'.item = worker.item
          /\ worker'.cluster = worker.cluster
      BY <1>2, <2>1 DEF BusyWorker
    <2>3. WorkerKnows' /\ VictimIsOwned' /\ Follows(worker, worker')
      BY <2>1, <2>2 DEF WorkerKnows, VictimIsOwned, Follows
    <2>4. worker.item.status.target \in Secret
      BY <2>1 DEF WorkerKnows
    <2>5. secrets' = Deleted
      BY <2>1 DEF DeleteSecretAt, Deleted, Victim
    <2> QED  BY <1>1, <1>4, <1>5, <2>1, <2>2, <2>3, <2>4, <2>5
  <1>7. CASE DeleteTarget
    <2>1. /\ worker.pc = "deleteTarget" /\ DeleteSecretAt(TargetSecret(worker.item))
          /\ worker' = [worker EXCEPT !.pc = "removeFinalizer", !.secret = Absent]
      BY <1>7 DEF DeleteTarget
    <2>2. /\ worker' \in BusyWorker /\ worker'.pc = "removeFinalizer"
          /\ worker'.key = worker.key /\ worker'.item = worker.item
      BY <1>2, <2>1 DEF BusyWorker
    <2>3. WorkerKnows' /\ VictimIsOwned' /\ Follows(worker, worker') /\ worker.item.deleting
      BY <2>1, <2>2 DEF WorkerKnows, VictimIsOwned, Follows
    <2>4. secrets' = Deleted
      BY <2>1 DEF DeleteSecretAt, Deleted, Victim
    <2> QED  BY <1>1, <1>2, <1>4, <1>5, <2>1, <2>2, <2>3, <2>4
  <1>8. CASE WriteSecret
    <2>1. /\ worker.pc = "write" /\ secrets' = Written
          /\ notices' = notices \cup RequestsForSecret({secrets[WrittenAt], MergedSecret})
          /\ worker' = Report("Exported", worker.data, FALSE,
                              RequeueAfter(worker.data.exp))
      BY <1>8 DEF WriteSecret, Written, WrittenAt
    <2>2. MergedSecret \in SecretObject /\ WrittenAt \in Secret
      BY <2>1, MergedType
    <2>3. {secrets[WrittenAt], MergedSecret} \in SUBSET (SecretObject \cup {Absent})
      BY <1>3, <2>2
    <2>4. /\ secrets' \in [Secret -> SecretObject \cup {Absent}]
          /\ notices' \subseteq Export
      BY <1>3, <2>1, <2>2, <2>3, RequestsType DEF Written
    <2>5. worker.data \in Kubeconfig /\ worker.data.exp \in Nat
      BY <2>1 DEF WorkerKnows, Kubeconfig
    <2>6. RequeueAfter(worker.data.exp) \in Nat \cup {Absent}
      BY <2>1, <2>5, DelayType
    <2>7. "Exported" \in Reason
      BY DEF Reason
    <2>8. /\ worker' \in BusyWorker /\ WorkerKnows' /\ VictimIsOwned'
          /\ Follows(worker, worker') /\ worker'.pc = "updateStatus"
      BY <2>1, <2>5, <2>6, <2>7, KnownReport
    <2> QED  BY <1>1, <1>4, <2>1, <2>4, <2>8
  <1> QED  BY <1>6, <1>7, <1>8


-----------------------------------------------------------------------------
(* The writes to an export *)

(* Reconcile ends. *)
LEMMA DoneType ==
  ASSUME TypeOK, worker.pc # "idle", NEW again \in BOOLEAN,
         NEW delay \in Nat \cup {Absent}, Done(again, delay)
  PROVE  /\ worker' = IdleWorker /\ worker'.pc = "idle" /\ Follows(worker, worker')
         /\ queue' \subseteq Export /\ timer' \in [Export -> Nat \cup {Absent}]
         /\ WorkerKnows' /\ VictimIsOwned'
  <1>1. /\ worker.key \in Export /\ queue \subseteq Export /\ now \in Nat
        /\ timer \in [Export -> Nat \cup {Absent}]
    BY BusyType DEF TypeOK
  <1>2. worker' = IdleWorker /\ worker'.pc = "idle"
    BY DEF Done, IdleWorker
  <1>3. queue' \subseteq Export
    BY <1>1 DEF Done
  <1>4. timer' \in [Export -> Nat \cup {Absent}]
    <2>1. CASE delay = Absent
      BY <1>1, <2>1 DEF Done
    <2>2. CASE delay # Absent
      <3>1. Earlier(timer[worker.key], now + delay) \in Nat \cup {Absent}
        BY <1>1, <2>2 DEF Earlier
      <3> QED  BY <1>1, <2>2, <3>1 DEF Done
    <2> QED  BY <2>1, <2>2
  <1> QED  BY <1>2, <1>3, <1>4 DEF Follows, WorkerKnows, VictimIsOwned

(* AddFinalizer gives the stored version its finalizer. *)
LEMMA AddIsFinalize ==
  ASSUME KnownInv, AddFinalizer
  PROVE  LET x == [worker.item EXCEPT !.fins = {Finalizer}]
             o == Stored(exportVersions[worker.key])
         IN  /\ worker.key \in Export /\ Busy(worker, worker.key) /\ worker.item = o
             /\ x \in ExportObject /\ StoreExport(worker.key, x) /\ Finalized(o, x)
             /\ x.status = o.status
             /\ KnownInv' /\ worker' = IdleWorker /\ Follows(worker, worker')
             /\ UNCHANGED <<secrets, environment, orphaned>>
  <1> DEFINE x == [worker.item EXCEPT !.fins = {Finalizer}]
             o == Stored(exportVersions[worker.key])
  <1> USE DEF KnownInv
  <1>1. /\ worker.pc = "addFinalizer" /\ worker.item = o /\ StoreExport(worker.key, x)
        /\ Done(TRUE, Absent) /\ UNCHANGED <<secrets, notices, environment, orphaned>>
    BY DEF AddFinalizer
  <1>2. worker.key \in Export /\ worker.item \in ExportObject /\ worker.item # Absent
    BY <1>1, BusyType, ObjectType
  <1>3. /\ x \in ExportObject /\ x.uid = worker.item.uid /\ x.gen = worker.item.gen
        /\ x.spec = worker.item.spec /\ x.deleting = worker.item.deleting
        /\ x.fins = {Finalizer} /\ x.status = worker.item.status
    BY <1>2 DEF ExportObject
  <1> HIDE DEF x
  <1>4. x # Absent /\ x \in ExportVersion
    BY <1>3, ObjectType DEF ExportVersion
  <1>5. TypeOK'
    BY <1>1, <1>2, <1>4, StoreIsAppend, DoneType DEF TypeOK, environment
  <1>6. Finalized(o, x)
    BY <1>1, <1>2, <1>3, <1>4 DEF Finalized
  <1> QED
    BY <1>1, <1>2, <1>3, <1>5, <1>6, DoneType DEF Busy, x

(* UpdateStatus continues the stored version with a status that names the   *)
(* target of its spec.                                                      *)
LEMMA StatusIsContinue ==
  ASSUME KnownInv, UpdateStatus
  PROVE  LET o == Stored(exportVersions[worker.key])
             x == [o EXCEPT !.status = NewStatus(o)]
         IN  /\ worker.key \in Export /\ Busy(worker, worker.key)
             /\ x \in ExportObject /\ StoreExport(worker.key, x) /\ Continuation(o, x)
             /\ o \in ExportObject /\ x.spec = o.spec
             /\ x.status.target = x.spec.target
             /\ KnownInv' /\ worker' = IdleWorker /\ Follows(worker, worker')
             /\ UNCHANGED <<secrets, environment, orphaned>>
  <1> DEFINE o == Stored(exportVersions[worker.key])
             x == [o EXCEPT !.status = NewStatus(o)]
  <1> USE DEF KnownInv
  <1>1. /\ worker.pc = "updateStatus" /\ o # Absent /\ StoreExport(worker.key, x)
        /\ Done(worker.again, worker.delay)
        /\ UNCHANGED <<secrets, notices, environment, orphaned>>
    BY DEF UpdateStatus
  <1>2. /\ worker \in BusyWorker /\ worker.key \in Export
        /\ worker.reason \in Reason /\ worker.hash \in Kubeconfig \cup {Absent}
        /\ worker.again \in BOOLEAN /\ worker.delay \in Nat \cup {Absent}
    BY <1>1, BusyType DEF BusyWorker
  <1>3. o \in ExportObject
    BY <1>1, <1>2, VersionsType DEF ExportVersion
  <1> HIDE DEF o
  <1>4. /\ NewStatus(o) \in ExportStatus /\ NewStatus(o).target = o.spec.target
        /\ o.gen \in Nat
    <2>1. o.gen \in Nat /\ o.spec.target \in Secret /\ o.spec.key \in Key
      BY <1>3, ObjectType
    <2> QED  BY <1>2, <2>1 DEF NewStatus, ExportStatus
  <1>5. /\ x \in ExportObject /\ x.uid = o.uid /\ x.gen = o.gen
        /\ x.spec = o.spec /\ x.deleting = o.deleting
        /\ x.fins = o.fins /\ x.status = NewStatus(o)
    BY <1>3, <1>4 DEF ExportObject
  <1> HIDE DEF x
  <1>6. x # Absent /\ x \in ExportVersion
    BY <1>5, ObjectType DEF ExportVersion
  <1>7. TypeOK'
    BY <1>1, <1>2, <1>6, StoreIsAppend, DoneType DEF TypeOK, environment
  <1>8. Continuation(o, x)
    BY <1>1, <1>4, <1>5, <1>6 DEF Continuation
  <1>9. KnownInv' /\ worker' = IdleWorker /\ Follows(worker, worker')
    BY <1>1, <1>2, <1>7, DoneType
  <1> QED
    BY <1>1, <1>2, <1>3, <1>4, <1>5, <1>8, <1>9 DEF Busy, x, o

(* RemoveFinalizer removes the stored version, which is the one that        *)
(* Reconcile holds.                                                         *)
LEMMA RemoveIsVanish ==
  ASSUME KnownInv, RemoveFinalizer
  PROVE  /\ worker.key \in Export /\ Busy(worker, worker.key)
         /\ worker.item = Stored(exportVersions[worker.key])
         /\ worker.item \in ExportObject /\ worker.item.deleting
         /\ StoreExport(worker.key, Absent)
         /\ KnownInv' /\ worker' = IdleWorker /\ Follows(worker, worker')
         /\ orphaned' = IF worker.item.spec.policy = "Orphan"
                          THEN orphaned \cup {worker.item.uid} ELSE orphaned
         /\ UNCHANGED <<secrets, environment>>
  <1> DEFINE x == [worker.item EXCEPT !.fins = {}]
  <1> USE DEF KnownInv
  <1>1. /\ worker.pc = "removeFinalizer" /\ StoreExport(worker.key, Settle(x))
        /\ worker.item = Stored(exportVersions[worker.key])
        /\ Done(FALSE, Absent) /\ UNCHANGED <<secrets, notices, environment>>
        /\ orphaned' = IF worker.item.spec.policy = "Orphan"
                         THEN orphaned \cup {worker.item.uid} ELSE orphaned
    BY DEF RemoveFinalizer
  <1>2. /\ worker.key \in Export /\ worker.item \in ExportObject
        /\ worker.item.uid \in Nat /\ worker.item.deleting
    BY <1>1, BusyType, ObjectType DEF WorkerKnows
  <1>3. Settle(x) = Absent
    <2>1. x.deleting /\ x.fins = {}
      BY <1>2 DEF ExportObject
    <2> QED  BY <2>1 DEF Settle
  <1>4. StoreExport(worker.key, Absent) /\ Absent \in ExportVersion
    BY <1>1, <1>3 DEF ExportVersion
  <1>5. /\ worker' = IdleWorker /\ Follows(worker, worker') /\ queue' \subseteq Export
        /\ timer' \in [Export -> Nat \cup {Absent}] /\ WorkerKnows' /\ VictimIsOwned'
    BY <1>1, DoneType
  <1>6. orphaned' \subseteq Nat
    BY <1>1, <1>2 DEF TypeOK
  <1>7. TypeOK'
    BY <1>1, <1>2, <1>4, <1>5, <1>6, StoreIsAppend DEF TypeOK, environment
  <1> QED  BY <1>1, <1>2, <1>4, <1>5, <1>7 DEF Busy

(* A conflict ends Reconcile, and so does a status that is there already. *)
LEMMA KnownEnds ==
  ASSUME KnownInv, CallFails \/ StatusUnchanged
  PROVE  /\ KnownInv' /\ worker' = IdleWorker /\ Follows(worker, worker')
         /\ UNCHANGED <<exportVersions, secrets, environment, orphaned>>
  <1> USE DEF KnownInv
  <1>1. /\ worker.pc # "idle"
        /\ UNCHANGED <<exportVersions, secrets, notices, environment, orphaned>>
    BY DEF CallFails, StatusUnchanged
  <1>2. PICK again \in BOOLEAN, delay \in Nat \cup {Absent} : Done(again, delay)
    <2>1. worker.again \in BOOLEAN /\ worker.delay \in Nat \cup {Absent}
      BY <1>1, BusyType DEF BusyWorker
    <2>2. CASE CallFails
      BY <2>2 DEF CallFails
    <2>3. CASE StatusUnchanged
      BY <2>1, <2>3 DEF StatusUnchanged
    <2> QED  BY <2>2, <2>3
  <1>3. /\ worker' = IdleWorker /\ Follows(worker, worker') /\ queue' \subseteq Export
        /\ timer' \in [Export -> Nat \cup {Absent}] /\ WorkerKnows' /\ VictimIsOwned'
    BY <1>1, <1>2, DoneType
  <1>4. TypeOK'
    BY <1>1, <1>3 DEF TypeOK, environment
  <1> QED  BY <1>1, <1>3, <1>4

(* What users and other controllers change besides leaves Reconcile alone. *)
LEMMA KnownStays ==
  ASSUME KnownInv, UNCHANGED <<worker, secrets>>, TypeOK'
  PROVE  KnownInv' /\ Follows(worker, worker')
  BY DEF KnownInv, WorkerKnows, VictimIsOwned, Victim, Follows, IsOwnedSecret,
     TargetSecret

(* A new export. *)
LEMMA CreateIsNew ==
  ASSUME KnownInv, NEW e \in Export, CreateExport(e)
  PROVE  \E x \in ExportObject :
           /\ StoreExport(e, x) /\ Stored(exportVersions[e]) = Absent
           /\ x # Absent /\ x.uid = lastUid + 1 /\ x.fins = {}
           /\ x.status.target = Absent /\ x.status.reason = "None"
           /\ x.spec \in Specs
           /\ lastUid < MaxUid /\ lastUid' = lastUid + 1
           /\ KnownInv' /\ Follows(worker, worker')
           /\ UNCHANGED <<worker, secrets, orphaned, retargeted>>
           /\ ~x.deleting
  <1> USE DEF KnownInv
  <1>1. PICK spec \in Specs : StoreExport(e, NewExport(lastUid + 1, spec))
    BY DEF CreateExport
  <1> DEFINE x == NewExport(lastUid + 1, spec)
  <1>2. /\ x \in ExportObject /\ x.uid = lastUid + 1 /\ x.fins = {}
        /\ x.status.target = Absent /\ x.status.reason = "None" /\ ~x.deleting
        /\ x.spec \in Specs
    BY ExportAssumption DEF NewExport, ExportObject, ExportStatus, Reason, TypeOK
  <1> HIDE DEF x
  <1>3. x # Absent /\ x \in ExportVersion
    BY <1>2, ObjectType DEF ExportVersion
  <1>4. /\ Stored(exportVersions[e]) = Absent /\ lastUid < MaxUid
        /\ lastUid' = lastUid + 1
        /\ UNCHANGED <<queue, timer, worker, secrets, notices, cluster, connections,
                       now, changes, orphaned, retargeted>>
    BY DEF CreateExport
  <1>5. StoreExport(e, x)
    BY <1>1 DEF x
  <1>6. TypeOK'
    BY <1>3, <1>4, <1>5, StoreIsAppend DEF TypeOK
  <1> QED  BY <1>2, <1>3, <1>4, <1>5, <1>6, KnownStays

(* An edit. *)
LEMMA EditedExportType ==
  ASSUME NEW o \in ExportObject, NEW s \in ExportSpec
  PROVE  LET x == [o EXCEPT !.spec = s, !.gen = @ + 1]
         IN  /\ x \in ExportObject /\ x.uid = o.uid /\ x.spec = s /\ x.fins = o.fins
             /\ x.deleting = o.deleting /\ x.gen = o.gen + 1 /\ x.status = o.status
  <1> DEFINE n == [o EXCEPT !.spec = s]
  <1>1. /\ n \in ExportObject /\ n.uid = o.uid /\ n.fins = o.fins /\ n.spec = s
        /\ n.deleting = o.deleting /\ n.gen = o.gen /\ n.status = o.status
    BY DEF ExportObject
  <1>2. n.gen + 1 \in Nat
    BY <1>1, ObjectType
  <1>3. [o EXCEPT !.spec = s, !.gen = @ + 1] = [n EXCEPT !.gen = n.gen + 1]
    OBVIOUS
  <1> HIDE DEF n
  <1>4. LET x == [n EXCEPT !.gen = n.gen + 1]
        IN  /\ x \in ExportObject /\ x.uid = n.uid /\ x.spec = n.spec
            /\ x.fins = n.fins /\ x.deleting = n.deleting
            /\ x.gen = n.gen + 1 /\ x.status = n.status
    BY <1>1, <1>2 DEF ExportObject
  <1> QED  BY <1>1, <1>3, <1>4

(* A delete request. *)
LEMMA MarkedExportType ==
  ASSUME NEW o \in ExportObject
  PROVE  LET x == [o EXCEPT !.deleting = TRUE, !.gen = @ + 1]
         IN  /\ x \in ExportObject /\ x.uid = o.uid /\ x.spec = o.spec /\ x.fins = o.fins
             /\ x.deleting /\ x.gen = o.gen + 1 /\ x.status = o.status
  <1> DEFINE n == [o EXCEPT !.deleting = TRUE]
  <1>1. /\ n \in ExportObject /\ n.uid = o.uid /\ n.fins = o.fins /\ n.spec = o.spec
        /\ n.deleting /\ n.gen = o.gen /\ n.status = o.status
    BY DEF ExportObject
  <1>2. n.gen + 1 \in Nat
    BY <1>1, ObjectType
  <1>3. [o EXCEPT !.deleting = TRUE, !.gen = @ + 1] = [n EXCEPT !.gen = n.gen + 1]
    OBVIOUS
  <1> HIDE DEF n
  <1>4. LET x == [n EXCEPT !.gen = n.gen + 1]
        IN  /\ x \in ExportObject /\ x.uid = n.uid /\ x.spec = n.spec
            /\ x.fins = n.fins /\ x.deleting = n.deleting
            /\ x.gen = n.gen + 1 /\ x.status = n.status
    BY <1>1, <1>2 DEF ExportObject
  <1> QED  BY <1>1, <1>3, <1>4

(* A user edits the stored version. *)
LEMMA UpdateIsContinue ==
  ASSUME KnownInv, NEW e \in Export, UpdateExport(e)
  PROVE  LET o == Stored(exportVersions[e])
         IN  /\ o \in ExportObject
             /\ \E x \in ExportObject :
                  /\ StoreExport(e, x) /\ Continuation(o, x) /\ x.status = o.status
                  /\ x.spec \in Specs
                  /\ retargeted' = IF x.spec.target # o.spec.target
                                     THEN retargeted \cup {o.uid} ELSE retargeted
                  /\ x.deleting = o.deleting
             /\ KnownInv' /\ Follows(worker, worker')
             /\ UNCHANGED <<worker, lastUid, secrets, orphaned>>
  <1> DEFINE o == Stored(exportVersions[e])
  <1> USE DEF KnownInv
  <1>1. o \in ExportObject /\ o # Absent
    <2>1. o # Absent
      BY DEF UpdateExport
    <2> QED  BY <2>1, VersionsType DEF ExportVersion
  <1>2. PICK spec \in Specs \ {o.spec} :
          /\ StoreExport(e, [o EXCEPT !.spec = spec, !.gen = @ + 1])
          /\ retargeted' = IF spec.target # o.spec.target
                             THEN retargeted \cup {o.uid} ELSE retargeted
    BY DEF UpdateExport
  <1>3. UNCHANGED <<queue, timer, worker, secrets, notices, cluster, connections,
                    now, lastUid, changes, orphaned>>
    BY DEF UpdateExport
  <1>4. o.uid \in Nat /\ o.gen \in Nat
    BY <1>1, ObjectType
  <1> HIDE DEF o
  <1>5. spec \in ExportSpec
    BY ExportAssumption
  <1> DEFINE x == [o EXCEPT !.spec = spec, !.gen = @ + 1]
  <1>6. /\ x \in ExportObject /\ x.uid = o.uid /\ x.spec = spec /\ x.fins = o.fins
        /\ x.deleting = o.deleting /\ x.gen = o.gen + 1 /\ x.status = o.status
    BY <1>1, <1>5, EditedExportType
  <1>7. StoreExport(e, x)
    BY <1>2
  <1> HIDE DEF x
  <1>8. x # Absent /\ x \in ExportVersion
    BY <1>6, ObjectType DEF ExportVersion
  <1>9. Continuation(o, x)
    BY <1>1, <1>4, <1>6, <1>8 DEF Continuation
  <1>10. retargeted' \subseteq Nat
    BY <1>2, <1>4 DEF TypeOK
  <1>11. TypeOK'
    BY <1>3, <1>7, <1>8, <1>10, StoreIsAppend DEF TypeOK
  <1>12. KnownInv' /\ Follows(worker, worker')
    BY <1>3, <1>11, KnownStays
  <1> QED  BY <1>1, <1>2, <1>3, <1>6, <1>7, <1>9, <1>12 DEF o

(* A delete request marks an export that has its finalizer, and removes one *)
(* that has none.                                                           *)
LEMMA DeleteIsSettle ==
  ASSUME KnownInv, NEW e \in Export, DeleteExport(e)
  PROVE  LET o == Stored(exportVersions[e])
         IN  /\ o \in ExportObject
             /\ \E x \in ExportVersion :
                  /\ StoreExport(e, x)
                  /\ o.fins = {} => x = Absent
                  /\ o.fins # {} => Continuation(o, x)
                  /\ x # Absent => x.uid = o.uid /\ x.spec = o.spec /\ x.status = o.status
             /\ KnownInv' /\ Follows(worker, worker')
             /\ UNCHANGED <<worker, secrets, environment, orphaned>>
  <1> DEFINE o == Stored(exportVersions[e])
             d == [o EXCEPT !.deleting = TRUE, !.gen = @ + 1]
             x == Settle(d)
  <1> USE DEF KnownInv
  <1>1. o \in ExportObject /\ o # Absent /\ ~o.deleting
    <2>1. o # Absent /\ ~o.deleting
      BY DEF DeleteExport
    <2> QED  BY <2>1, VersionsType DEF ExportVersion
  <1>2. /\ StoreExport(e, x)
        /\ UNCHANGED <<queue, timer, worker, secrets, notices, environment, orphaned>>
    BY DEF DeleteExport
  <1>3. o.uid \in Nat /\ o.gen \in Nat
    BY <1>1, ObjectType
  <1> HIDE DEF o
  <1>4. /\ d \in ExportObject /\ d.uid = o.uid /\ d.spec = o.spec /\ d.fins = o.fins
        /\ d.deleting /\ d.gen = o.gen + 1 /\ d.status = o.status
    BY <1>1, MarkedExportType
  <1> HIDE DEF d
  <1>5. d # Absent
    BY <1>4, ObjectType
  <1>6. /\ o.fins = {} => x = Absent
        /\ o.fins # {} => x = d
        /\ x \in ExportVersion
    BY <1>4 DEF Settle, ExportVersion
  <1> HIDE DEF x
  <1>7. o.fins # {} => Continuation(o, x)
    BY <1>1, <1>3, <1>4, <1>5, <1>6 DEF Continuation
  <1>8. x # Absent => x.uid = o.uid /\ x.spec = o.spec /\ x.status = o.status
    BY <1>4, <1>6
  <1>9. TypeOK'
    BY <1>2, <1>6, StoreIsAppend DEF TypeOK, environment
  <1>10. KnownInv' /\ Follows(worker, worker')
    BY <1>2, <1>9, KnownStays
  <1> QED  BY <1>1, <1>2, <1>6, <1>7, <1>8, <1>10 DEF o


-----------------------------------------------------------------------------
(* The steps of everybody else *)

(* A watch event of an export is delivered. *)
LEMMA KnownDeliver ==
  ASSUME KnownInv, NEW e \in Export, DeliverExport(e)
  PROVE  /\ KnownInv' /\ Follows(worker, worker')
         /\ Len(exportVersions[e]) > 1
         /\ exportVersions' = Delivered(exportVersions, e)
         /\ UNCHANGED <<worker, secrets, environment, orphaned>>
  <1> USE DEF KnownInv
  <1>1. /\ Len(exportVersions[e]) > 1
        /\ exportVersions' = Delivered(exportVersions, e)
        /\ UNCHANGED <<timer, worker, secrets, notices, environment, orphaned>>
        /\ queue' \subseteq Export
    BY DEF DeliverExport, Delivered, TypeOK
  <1>2. exportVersions \in VersionMaps(Export, ExportVersion)
    BY DEF TypeOK, VersionMaps
  <1>3. Delivered(exportVersions, e) \in VersionMaps(Export, ExportVersion)
    BY <1>1, <1>2, MapTail
  <1>4. TypeOK'
    BY <1>1, <1>3 DEF TypeOK, VersionMaps, environment
  <1> QED  BY <1>1, <1>4, KnownStays

(* Requests come in, time passes, the cluster and the connections change. *)
LEMMA KnownChange ==
  ASSUME KnownInv,
         \/ \E e \in Export : DeliverNotice(e) \/ FireTimer(e)
         \/ \E k \in Connection : ChangeConnection(k)
         \/ ChangeCluster \/ Tick
  PROVE  /\ KnownInv' /\ Follows(worker, worker')
         /\ UNCHANGED <<exportVersions, worker, secrets, lastUid, retargeted, orphaned>>
  <1> USE DEF KnownInv
  <1>1. UNCHANGED <<exportVersions, worker, secrets, lastUid, retargeted, orphaned>>
    BY DEF DeliverNotice, FireTimer, ChangeConnection, ChangeCluster, Tick, environment
  <1>2. CachedExports \subseteq Export
    BY DEF CachedExports
  <1>3. CASE \E e \in Export : DeliverNotice(e) \/ FireTimer(e)
    <2>1. PICK e \in Export : DeliverNotice(e) \/ FireTimer(e)
      BY <1>3
    <2>2. CASE DeliverNotice(e)
      <3>1. TypeOK'
        BY <1>1, <2>2 DEF DeliverNotice, TypeOK, environment
      <3> QED  BY <1>1, <3>1, KnownStays
    <2>3. CASE FireTimer(e)
      <3>1. timer' = [timer EXCEPT ![e] = Absent] /\ queue' = queue \cup {e}
            /\ UNCHANGED <<notices, environment>>
        BY <2>3 DEF FireTimer
      <3>2. TypeOK'
        BY <1>1, <3>1 DEF TypeOK, environment
      <3> QED  BY <1>1, <3>2, KnownStays
    <2> QED  BY <2>1, <2>2, <2>3
  <1>4. CASE \E k \in Connection : ChangeConnection(k)
    <2>1. PICK k \in Connection : ChangeConnection(k)
      BY <1>4
    <2>2. TypeOK'
      BY <1>1, <1>2, <2>1 DEF ChangeConnection, CountChange, TypeOK
    <2> QED  BY <1>1, <2>2, KnownStays
  <1>5. CASE ChangeCluster
    <2>1. TypeOK'
      BY <1>1, <1>2, <1>5 DEF ChangeCluster, CountChange, TypeOK
    <2> QED  BY <1>1, <2>1, KnownStays
  <1>6. CASE Tick
    <2>1. TypeOK'
      BY <1>1, <1>6 DEF Tick, TypeOK
    <2> QED  BY <1>1, <2>1, KnownStays
  <1> QED  BY <1>3, <1>4, <1>5, <1>6

(* Users write to Secrets, delete them and create them, also the one that   *)
(* Reconcile is about to delete.                                            *)
LEMMA KnownUser ==
  ASSUME KnownInv, NEW s \in Secret, TamperSecret(s) \/ DeleteSecret(s) \/ CreateSecret(s)
  PROVE  /\ KnownInv' /\ Follows(worker, worker')
         /\ \E x \in SecretObject \cup {Absent} :
              /\ secrets' = [secrets EXCEPT ![s] = x]
              /\ \/ x = Absent
                 \/ x # Absent /\ x.owner = Absent /\ secrets[s] = Absent
                 \/ x # Absent /\ secrets[s] # Absent /\ x.owner = secrets[s].owner
         /\ UNCHANGED <<exportVersions, worker, lastUid, retargeted, orphaned>>
  <1> USE DEF KnownInv
  <1>1. /\ UNCHANGED <<exportVersions, queue, timer, worker, cluster, connections, now,
                       lastUid, retargeted, orphaned>>
        /\ changes \in Nat /\ changes' = changes + 1
    BY DEF TamperSecret, DeleteSecret, CreateSecret, CountChange, TypeOK
  <1>2. /\ secrets \in [Secret -> SecretObject \cup {Absent}] /\ notices \subseteq Export
        /\ secrets[s] \in SecretObject \cup {Absent}
    BY DEF TypeOK
  <1>3. RequestsForSecret({secrets[s]}) \subseteq Export
    <2>1. {secrets[s]} \in SUBSET (SecretObject \cup {Absent})
      BY <1>2
    <2> QED  BY <2>1, RequestsType
  <1> DEFINE foreign == [owner |-> Absent, export |-> Absent, specHash |-> Absent,
                         hash |-> Absent, data |-> [k \in Key |-> Tampered]]
             tampered == [secrets[s] EXCEPT !.data = [k \in Key |-> Tampered]]
  <1>4. /\ notices' \subseteq Export
        /\ \/ secrets[s] # Absent /\ secrets' = [secrets EXCEPT ![s] = tampered]
           \/ "DeleteSecret" \in UserOps /\ secrets' = [secrets EXCEPT ![s] = Absent]
           \/ /\ "CreateSecret" \in UserOps /\ secrets[s] = Absent
              /\ secrets' = [secrets EXCEPT ![s] = foreign]
    <2>1. CASE TamperSecret(s)
      BY <1>2, <1>3, <2>1 DEF TamperSecret
    <2>2. CASE DeleteSecret(s)
      BY <1>2, <1>3, <2>2 DEF DeleteSecret, DeleteSecretAt
    <2>3. CASE CreateSecret(s)
      BY <1>2, <2>3 DEF CreateSecret
    <2> QED  BY <2>1, <2>2, <2>3
  <1>5. foreign \in SecretObject /\ foreign.owner = Absent
    BY DEF SecretObject
  <1>6. secrets[s] # Absent => /\ tampered \in SecretObject
                               /\ tampered.owner = secrets[s].owner
    <2> DEFINE old == secrets[s]
    <2>1. old # Absent => old \in SecretObject
      BY <1>2
    <2> HIDE DEF old
    <2>2. old \in SecretObject =>
            /\ [old EXCEPT !.data = [k \in Key |-> Tampered]] \in SecretObject
            /\ [old EXCEPT !.data = [k \in Key |-> Tampered]].owner = old.owner
      BY DEF SecretObject
    <2> QED  BY <2>1, <2>2 DEF old
  <1> HIDE DEF foreign, tampered
  <1>7. PICK x \in SecretObject \cup {Absent} :
          /\ secrets' = [secrets EXCEPT ![s] = x]
          /\ \/ x = Absent /\ "DeleteSecret" \in UserOps
             \/ /\ x # Absent /\ x.owner = Absent /\ secrets[s] = Absent
                /\ "CreateSecret" \in UserOps
             \/ x # Absent /\ secrets[s] # Absent /\ x.owner = secrets[s].owner
    <2>1. tampered \in SecretObject => tampered # Absent
      BY ExportAbsentAssumption
    <2>2. foreign # Absent
      BY <1>5, ExportAbsentAssumption
    <2> QED  BY <1>4, <1>5, <1>6, <2>1, <2>2
  <1>8. secrets' \in [Secret -> SecretObject \cup {Absent}]
    BY <1>2, <1>7
  <1>9. TypeOK'
    BY <1>1, <1>4, <1>8 DEF TypeOK
  <1>10. WorkerKnows' /\ Follows(worker, worker')
    BY <1>1 DEF WorkerKnows, Follows
  <1>11. VictimIsOwned'
    <2> SUFFICES ASSUME worker.pc \in {"deletePrevious", "deleteTarget"}
                 PROVE  /\ IsOwnedSecret(worker.item, worker.secret)
                        /\ secrets'[Victim] # Absent =>
                             secrets'[Victim].owner \in {worker.item.uid, Absent}
      BY <1>1 DEF VictimIsOwned, Victim, TargetSecret, IsOwnedSecret
    <2>1. /\ IsOwnedSecret(worker.item, worker.secret)
          /\ secrets[Victim] # Absent =>
               secrets[Victim].owner \in {worker.item.uid, Absent}
      BY DEF VictimIsOwned
    <2>2. CASE s # Victim
      <3>1. secrets'[Victim] = secrets[Victim]
        BY <1>2, <1>7, <2>2
      <3> QED  BY <2>1, <3>1
    <2>3. CASE s = Victim
      <3>1. secrets'[Victim] = x
        BY <1>2, <1>7, <2>3
      <3> QED  BY <1>7, <2>1, <2>3, <3>1
    <2> QED  BY <2>2, <2>3
  <1> QED  BY <1>1, <1>7, <1>9, <1>10, <1>11

(* The operator restarts. *)
LEMMA KnownRestart ==
  ASSUME KnownInv, Restart
  PROVE  /\ KnownInv' /\ worker' = IdleWorker /\ Follows(worker, worker')
         /\ worker'.pc = "idle"
         /\ exportVersions' = Relisted(exportVersions, Export)
         /\ UNCHANGED <<secrets, environment, orphaned>>
  <1> USE DEF KnownInv
  <1>1. /\ worker' = IdleWorker /\ exportVersions' = Relisted(exportVersions, Export)
        /\ notices' = {} /\ queue' = Listed(exportVersions)
        /\ timer' = [e \in Export |-> Absent]
        /\ UNCHANGED <<secrets, environment, orphaned>>
    BY DEF Restart, Relisted
  <1>2. worker'.pc = "idle"
    BY <1>1 DEF IdleWorker
  <1>3. exportVersions \in VersionMaps(Export, ExportVersion)
    BY DEF TypeOK, VersionMaps
  <1>4. exportVersions' \in VersionMaps(Export, ExportVersion)
    BY <1>1, <1>3, MapRestart
  <1>5. queue' \subseteq Export
    BY <1>1 DEF Listed, TypeOK
  <1>6. TypeOK'
    BY <1>1, <1>4, <1>5 DEF TypeOK, VersionMaps, environment
  <1> QED
    BY <1>1, <1>2, <1>6 DEF WorkerKnows, VictimIsOwned, Follows

(* Every step. *)
LEMMA StepKnown == KnownInv /\ [Next]_vars => KnownInv'
  <1> SUFFICES ASSUME KnownInv, [Next]_vars PROVE KnownInv'
    OBVIOUS
  <1>1. CASE WorkerStep
    <2>1. CASE \/ SpecError \/ MissingCluster \/ MissingConnection \/ FoundDependencies
               \/ GetPreviousTarget \/ GetTarget \/ ReuseSecret \/ ReplaceSecret
               \/ GenerateKubeconfig \/ GenerateFails
      BY <2>1, KnownLook
    <2>2. CASE DeletePreviousTarget \/ WriteSecret \/ DeleteTarget
      BY <2>2, KnownCall
    <2>3. CASE AddFinalizer \/ RemoveFinalizer \/ UpdateStatus
      BY <2>3, AddIsFinalize, StatusIsContinue, RemoveIsVanish
    <2>4. CASE StatusUnchanged \/ CallFails
      BY <2>4, KnownEnds
    <2> QED  BY <1>1, <2>1, <2>2, <2>3, <2>4 DEF WorkerStep, CallSucceeds
  <1>2. ASSUME NEW e \in Export, Reconcile(e) \/ DeliverExport(e) PROVE KnownInv'
    BY <1>2, KnownBegin, KnownDeliver
  <1>3. ASSUME NEW e \in Export, CreateExport(e) PROVE KnownInv'
    BY <1>3, CreateIsNew
  <1>4. ASSUME NEW e \in Export, UpdateExport(e) PROVE KnownInv'
    BY <1>4, UpdateIsContinue
  <1>5. ASSUME NEW e \in Export, DeleteExport(e) PROVE KnownInv'
    BY <1>5, DeleteIsSettle
  <1>6. CASE \/ \E e \in Export : DeliverNotice(e) \/ FireTimer(e)
             \/ \E k \in Connection : ChangeConnection(k)
             \/ ChangeCluster \/ Tick
    BY <1>6, KnownChange
  <1>7. ASSUME NEW s \in Secret, TamperSecret(s) \/ DeleteSecret(s) \/ CreateSecret(s)
        PROVE  KnownInv'
    BY <1>7, KnownUser
  <1>8. CASE Restart
    BY <1>8, KnownRestart
  <1>9. CASE UNCHANGED vars
    <2>1. TypeOK' /\ UNCHANGED <<worker, secrets>>
      BY <1>9 DEF vars, KnownInv, TypeOK
    <2> QED  BY <2>1, KnownStays
  <1> QED
    BY <1>1, <1>2, <1>3, <1>4, <1>5, <1>6, <1>7, <1>8, <1>9 DEF Next

(* Every variable of the export controller keeps its type, whatever fails   *)
(* and whatever users do to exports and Secrets: in particular Reconcile    *)
(* writes no Secret without a kubeconfig for a cluster it has read, and     *)
(* sets its timers to times.                                                *)
THEOREM ExportTypeCorrect == Spec => []TypeOK
  <1>1. KnownInv => TypeOK
    BY DEF KnownInv
  <1> QED  BY <1>1, InitKnown, StepKnown, PTL DEF Spec

(* A step of Reconcile deletes a Secret only when it has found one of its   *)
(* own there, and never that of another export.                             *)
LEMMA WorkerDeletes ==
  ASSUME KnownInv, WorkerStep, NEW s \in Secret, secrets[s] # Absent,
         secrets'[s] = Absent
  PROVE  /\ IsOwnedSecret(worker.item, worker.secret)
         /\ \/ IsOwnedSecret(worker.item, secrets[s])
            \/ secrets[s].owner = Absent
  <1>1. CASE \/ SpecError \/ MissingCluster \/ MissingConnection \/ FoundDependencies
             \/ GetPreviousTarget \/ GetTarget \/ ReuseSecret \/ ReplaceSecret
             \/ GenerateKubeconfig \/ GenerateFails
    <2>1. secrets' = secrets
      BY <1>1, KnownLook
    <2> QED  BY <2>1
  <1>2. CASE DeletePreviousTarget \/ WriteSecret \/ DeleteTarget
    <2>1. /\ KnownInv'
          /\ \/ worker.pc \in {"deletePrevious", "deleteTarget"} /\ secrets' = Deleted
             \/ worker.pc = "write" /\ secrets' = Written
      BY <1>2, KnownCall
    <2>2. secrets \in [Secret -> SecretObject \cup {Absent}]
      BY DEF KnownInv, TypeOK
    <2>3. CASE worker.pc \in {"deletePrevious", "deleteTarget"} /\ secrets' = Deleted
      <3>1. s = Victim
        BY <2>2, <2>3 DEF Deleted
      <3> QED  BY <2>3, <3>1 DEF KnownInv, VictimIsOwned, IsOwnedSecret
    <2>4. CASE worker.pc = "write" /\ secrets' = Written
      <3>1. MergedSecret # Absent
        BY <2>4, MergedType, ExportAbsentAssumption
      <3>2. Written[s] = IF s = WrittenAt THEN MergedSecret ELSE secrets[s]
        BY <2>2 DEF Written
      <3> QED  BY <2>4, <3>1, <3>2
    <2> QED  BY <2>1, <2>3, <2>4
  <1>3. CASE AddFinalizer \/ RemoveFinalizer \/ UpdateStatus \/ StatusUnchanged \/ CallFails
    <2>1. secrets' = secrets
      BY <1>3 DEF AddFinalizer, RemoveFinalizer, UpdateStatus, StatusUnchanged, CallFails
    <2> QED  BY <2>1
  <1> QED  BY <1>1, <1>2, <1>3 DEF WorkerStep, CallSucceeds

(* The operator deletes a Secret only when the one that GetPreviousTarget   *)
(* or GetTarget has read there belonged to the export, and what goes is     *)
(* never the Secret of another export, whatever fails, however often the    *)
(* operator restarts and whatever users do between the look and the Delete. *)
(* The request carries no precondition, so a Secret that users put in the   *)
(* place of the one that was read goes with it: this bounds that race.      *)
THEOREM ExportDeletesItsOwn == Spec => DeletesOnlyOwnSecrets
  <1>1. ASSUME KnownInv, [Next]_vars
        PROVE  [\A s \in Secret :
                  (WorkerStep /\ secrets[s] # Absent /\ secrets'[s] = Absent)
                    => /\ IsOwnedSecret(worker.item, worker.secret)
                       /\ \/ IsOwnedSecret(worker.item, secrets[s])
                          \/ secrets[s].owner = Absent]_vars
    BY <1>1, WorkerDeletes
  <1> QED
    BY <1>1, InitKnown, StepKnown, PTL DEF Spec, DeletesOnlyOwnSecrets


-----------------------------------------------------------------------------
(* Who looks after the Secrets *)

TargetOf == [s \in ExportSpec |-> s.target]

(* The versions that there can be: incarnations are counted, the API server *)
(* keeps no deleting export without a finalizer, and the target in the      *)
(* status is that of the spec unless a user has moved the export.           *)
ExportViews ==
  {v \in ExportVersion :
     v # Absent =>
       /\ v.uid \in 1 .. MaxUid
       /\ v.deleting => v.fins # {}
       /\ v.uid \notin retargeted => v.status.target \in {Absent, v.spec.target}}

InCustody ==
  Custody(exportVersions, worker, Export, lastUid, TargetOf, retargeted, Secret,
          SecretOwner, ExportViews)

(* Before the finalizer goes, so does the Secret. *)
SecretGone ==
  (/\ worker.pc = "removeFinalizer"
   /\ worker.item.spec.policy # "Orphan"
   /\ worker.item.uid \notin retargeted)
    => \A s \in Secret : SecretOwner[s] # worker.item.uid

UidsIssued ==
  /\ lastUid <= MaxUid
  /\ \A s \in Secret : SecretOwner[s] \in (1 .. lastUid) \cup {Absent}

ExportInv ==
  KnownInv /\ InCustody /\ SecretGone /\ UidsIssued /\ SecretDeletedWithExport

(* What the parts of the invariant say in the terms of the lineage. *)
LEMMA ExportParts ==
  ASSUME ExportInv
  PROVE  /\ TypeOK /\ lastUid \in Nat /\ lastUid <= MaxUid /\ MaxUid \in Nat
         /\ Tracked(Export, ExportVersion, exportVersions, worker)
         /\ Absent \notin Nat /\ Absent \in ExportVersion /\ Absent \in ExportViews
         /\ InCustody
         /\ \A s \in Secret :
              /\ SecretOwner[s] \in (1 .. lastUid) \cup {Absent}
              /\ SecretOwner[s] # Absent =>
                   \/ HeldUid(exportVersions, Export, SecretOwner[s])
                   \/ SecretOwner[s] \in Excused
  <1>1. TypeOK /\ lastUid \in Nat /\ MaxUid \in Nat /\ Absent \notin Nat
    BY ExportAssumption, ExportAbsentAssumption DEF ExportInv, KnownInv, TypeOK
  <1>2. Tracked(Export, ExportVersion, exportVersions, worker) /\ Absent \in ExportVersion
    BY <1>1, VersionsType
  <1>3. Absent \in ExportViews
    BY <1>2 DEF ExportViews
  <1>4. ASSUME NEW s \in Secret, SecretOwner[s] # Absent
        PROVE  HeldUid(exportVersions, Export, SecretOwner[s]) \/ SecretOwner[s] \in Excused
    <2>1. secrets[s] # Absent /\ secrets[s].owner = SecretOwner[s]
      BY <1>4 DEF SecretOwner
    <2>2. Held(SecretOwner[s]) <=> HeldUid(exportVersions, Export, SecretOwner[s])
      BY DEF Held, HeldUid
    <2> QED  BY <1>4, <2>1, <2>2 DEF ExportInv, SecretDeletedWithExport, Excused
  <1> QED  BY <1>1, <1>2, <1>3, <1>4 DEF ExportInv, UidsIssued

(* The Secrets have owners after a step if they have in those terms. *)
LEMMA OwnersKept ==
  ASSUME KnownInv', InCustody', SecretGone', UidsIssued',
         \A s \in Secret : SecretOwner'[s] # Absent =>
           \/ HeldUid(exportVersions', Export, SecretOwner'[s])
           \/ SecretOwner'[s] \in Excused'
  PROVE  ExportInv'
  <1>1. ASSUME NEW s \in Secret, secrets'[s] # Absent, secrets'[s].owner # Absent
        PROVE  \/ \E e \in Export :
                    /\ Stored(exportVersions'[e]) # Absent
                    /\ Stored(exportVersions'[e]).uid = secrets'[s].owner
                    /\ Stored(exportVersions'[e]).fins # {}
               \/ secrets'[s].owner \in orphaned'
               \/ secrets'[s].owner \in retargeted'
    <2>1. SecretOwner'[s] = secrets'[s].owner
      BY <1>1 DEF SecretOwner
    <2> QED  BY <1>1, <2>1 DEF HeldUid, Excused
  <1>2. SecretDeletedWithExport'
    BY <1>1 DEF SecretDeletedWithExport, Held
  <1> QED  BY <1>2 DEF ExportInv

(* What does not show in who is held and who is gone. *)
LEMMA SameHeld ==
  ASSUME UNCHANGED lastUid,
         \A v : /\ HeldUid(exportVersions', Export, v)
                        <=> HeldUid(exportVersions, Export, v)
                /\ StoredUid(exportVersions', Export, v)
                        <=> StoredUid(exportVersions, Export, v)
  PROVE  UNCHANGED <<HeldUids, GoneUids>>
  <1>1. \A v : Held(v)' <=> Held(v)
    BY DEF Held, HeldUid
  <1>2. GoneUids = {u \in 1 .. lastUid : ~StoredUid(exportVersions, Export, u)}
    BY DEF GoneUids, StoredUid
  <1>3. GoneUids' = {u \in 1 .. lastUid' : ~StoredUid(exportVersions', Export, u)}
    BY DEF GoneUids, StoredUid
  <1> QED  BY <1>1, <1>2, <1>3 DEF HeldUids

(* A step that changes none of the four does not show. *)
LEMMA DoesNotShow ==
  ASSUME UNCHANGED <<HeldUids, GoneUids, SecretOwner, Excused>>
  PROVE  [Ownership!Next]_(Ownership!vars)
  BY DEF Ownership!vars

(* Nobody sees anything new, and no Secret changes. *)
LEMMA ExportQuiet ==
  ASSUME ExportInv, KnownInv', SecretGone',
         SeesNoMore(exportVersions, worker, exportVersions', worker', Export),
         UNCHANGED <<lastUid, orphaned, retargeted, secrets>>
  PROVE  ExportInv' /\ [Ownership!Next]_(Ownership!vars)
  <1>1. UNCHANGED <<SecretOwner, Excused, ExportViews>>
    BY DEF SecretOwner, Excused, ExportViews
  <1>2. /\ Custody(exportVersions', worker', Export, lastUid, TargetOf, retargeted, Secret,
                   SecretOwner, ExportViews)
        /\ \A v : /\ HeldUid(exportVersions', Export, v)
                          <=> HeldUid(exportVersions, Export, v)
                  /\ StoredUid(exportVersions', Export, v)
                          <=> StoredUid(exportVersions, Export, v)
    <2>1. \A s \in Secret : SecretOwner[s] \in {SecretOwner[s], Absent}
      OBVIOUS
    <2>2. /\ Tracked(Export, ExportVersion, exportVersions, worker) /\ lastUid \in Nat
          /\ Absent \notin Nat
      BY ExportParts
    <2>3. Custody(exportVersions, worker, Export, lastUid, TargetOf, retargeted, Secret,
                  SecretOwner, ExportViews)
      BY DEF ExportInv, InCustody
    <2>4. retargeted \subseteq retargeted /\ ExportViews \subseteq ExportViews
      OBVIOUS
    <2> QED  BY <2>1, <2>2, <2>3, <2>4, CustodyFewer
  <1>3. InCustody' /\ UidsIssued'
    BY <1>1, <1>2 DEF InCustody, UidsIssued, ExportInv
  <1>4. ExportInv'
    BY <1>1, <1>2, <1>3, ExportParts, OwnersKept
  <1> QED  BY <1>1, <1>2, <1>4, SameHeld, DoesNotShow

(* When Reconcile ends and no Secret changes. *)
LEMMA IdleKeeps ==
  ASSUME worker' = IdleWorker
  PROVE  /\ SecretGone'
         /\ UNCHANGED <<orphaned, retargeted, secrets>>
              => UNCHANGED <<SecretOwner, Excused, ExportViews>>
  <1>1. worker'.pc = "idle"
    BY DEF IdleWorker
  <1>2. SecretGone'
    BY <1>1 DEF SecretGone
  <1> QED  BY <1>2 DEF SecretOwner, Excused, ExportViews

(* What the copy that Reconcile holds says. *)
LEMMA ExportItem ==
  ASSUME ExportInv, worker.pc # "idle"
  PROVE  LET o == Stored(exportVersions[worker.key])
         IN  /\ worker.key \in Export /\ Busy(worker, worker.key)
             /\ worker.item \in ExportObject /\ worker.item # Absent
             /\ worker.item \in ExportViews /\ o \in ExportViews
             /\ worker.item.uid \in 1 .. lastUid /\ worker.item.uid \in 1 .. MaxUid
             /\ Precedes(worker.item, o)
             /\ Active(worker.item) =>
                  /\ o # Absent /\ o.uid = worker.item.uid
                  /\ HeldUid(exportVersions, Export, worker.item.uid)
             /\ worker.item.uid \notin retargeted =>
                  \A s \in Secret : SecretOwner[s] = worker.item.uid
                                      => s = worker.item.spec.target
             /\ TargetOf[worker.item.spec] = worker.item.spec.target
  <1> DEFINE o == Stored(exportVersions[worker.key])
  <1>1. /\ Tracked(Export, ExportVersion, exportVersions, worker) /\ TypeOK
        /\ lastUid \in Nat /\ lastUid <= MaxUid /\ MaxUid \in Nat
    BY ExportParts
  <1>2. Custody(exportVersions, worker, Export, lastUid, TargetOf, retargeted, Secret,
                SecretOwner, ExportViews)
    BY DEF ExportInv, InCustody
  <1>3. worker.key \in Export /\ worker.item \in ExportObject
    BY <1>1, BusyType
  <1>4. worker.item # Absent /\ worker.item.spec \in ExportSpec
    BY <1>3, ObjectType
  <1>5. Busy(worker, worker.key)
    BY DEF Busy
  <1>6. /\ worker.item \in ExportViews /\ o \in ExportViews /\ worker.item.uid <= lastUid
        /\ Precedes(worker.item, o)
        /\ Active(worker.item) => /\ StillStored(o, worker.item)
                                  /\ HeldUid(exportVersions, Export, worker.item.uid)
        /\ worker.item.uid \notin retargeted =>
             \A s \in Secret : SecretOwner[s] = worker.item.uid
                                 => s = TargetOf[worker.item.spec]
    BY <1>1, <1>2, <1>3, <1>5, CustodyItem
  <1>7. TargetOf[worker.item.spec] = worker.item.spec.target
    BY <1>4 DEF TargetOf
  <1>8. worker.item.uid \in 1 .. MaxUid
    BY <1>4, <1>6 DEF ExportViews
  <1>9. worker.item.uid \in 1 .. lastUid
    BY <1>1, <1>6, <1>8
  <1> QED
    BY <1>3, <1>4, <1>5, <1>6, <1>7, <1>8, <1>9 DEF StillStored

(* What is stored. *)
LEMMA ExportStored ==
  ASSUME ExportInv, NEW e \in Export, Stored(exportVersions[e]) # Absent
  PROVE  /\ Stored(exportVersions[e]) \in ExportViews
         /\ Stored(exportVersions[e]).uid \in 1 .. MaxUid
  <1>1. Tracked(Export, ExportVersion, exportVersions, worker)
    BY ExportParts
  <1>2. /\ Len(exportVersions[e]) \in Views(exportVersions, worker, e)
        /\ View(exportVersions, worker, e, Len(exportVersions[e]))
                = Stored(exportVersions[e])
    BY <1>1, ViewType
  <1>3. Stored(exportVersions[e]) \in ExportViews
    BY <1>2 DEF ExportInv, InCustody, Custody, ViewsIn
  <1> QED  BY <1>3 DEF ExportViews

(* A Secret goes, by Reconcile or by a user: Remove, if it had an owner. *)
LEMMA ExportLoses ==
  ASSUME ExportInv, KnownInv', SecretGone', Follows(worker, worker'), NEW p \in Secret,
         SecretOwner' \in {SecretOwner, [SecretOwner EXCEPT ![p] = Absent]},
         UNCHANGED <<exportVersions, lastUid, orphaned, retargeted>>
  PROVE  ExportInv' /\ [Ownership!Next]_(Ownership!vars)
  <1>1. /\ Tracked(Export, ExportVersion, exportVersions, worker) /\ lastUid \in Nat
        /\ Absent \notin Nat
    BY ExportParts
  <1>2. \/ SecretOwner' = SecretOwner
        \/ SecretOwner' = [SecretOwner EXCEPT ![p] = Absent]
    OBVIOUS
  <1>3. /\ UNCHANGED <<Excused, ExportViews>>
        /\ \A s \in Secret : SecretOwner'[s] \in {SecretOwner[s], Absent}
    BY <1>2 DEF Excused, ExportViews, SecretOwner
  <1>4. SeesNoMore(exportVersions, worker, exportVersions, worker', Export)
    BY <1>1, FewerFollow
  <1>5. Custody(exportVersions, worker', Export, lastUid, TargetOf, retargeted, Secret,
                SecretOwner', ExportViews)
    <2>1. Custody(exportVersions, worker, Export, lastUid, TargetOf, retargeted, Secret,
                  SecretOwner, ExportViews)
      BY DEF ExportInv, InCustody
    <2>2. retargeted \subseteq retargeted /\ ExportViews \subseteq ExportViews
      OBVIOUS
    <2> QED  BY <1>1, <1>3, <1>4, <2>1, <2>2, CustodyFewer
  <1>6. InCustody' /\ UidsIssued'
    BY <1>3, <1>5 DEF InCustody, UidsIssued, ExportInv
  <1>7. ExportInv'
    BY <1>3, <1>6, ExportParts, OwnersKept
  <1>8. UNCHANGED <<HeldUids, GoneUids>>
    BY DEF HeldUids, GoneUids, Held
  <1>9. CASE SecretOwner[p] # Absent /\ SecretOwner' = [SecretOwner EXCEPT ![p] = Absent]
    <2>1. Ownership!Remove(p)
      BY <1>3, <1>8, <1>9 DEF Ownership!Remove
    <2> QED  BY <1>7, <2>1 DEF Ownership!Next
  <1>10. CASE SecretOwner' = SecretOwner
    BY <1>3, <1>7, <1>8, <1>10, DoesNotShow
  <1>11. CASE SecretOwner[p] = Absent /\ SecretOwner' = [SecretOwner EXCEPT ![p] = Absent]
    <2>1. SecretOwner' = SecretOwner
      BY <1>11 DEF SecretOwner
    <2> QED  BY <1>10, <2>1
  <1> QED  BY <1>2, <1>9, <1>10, <1>11

(* A Secret is written: Make, by an export that is held at that moment. *)
LEMMA ExportWrites ==
  ASSUME ExportInv, KnownInv', SecretGone', Follows(worker, worker'),
         worker.pc = "write", secrets' = Written,
         UNCHANGED <<exportVersions, lastUid, orphaned, retargeted>>
  PROVE  ExportInv' /\ [Ownership!Next]_(Ownership!vars)
  <1> DEFINE item == worker.item
  <1>1. /\ Tracked(Export, ExportVersion, exportVersions, worker) /\ lastUid \in Nat
        /\ Absent \notin Nat
    BY ExportParts
  <1>2. /\ worker.key \in Export /\ Busy(worker, worker.key) /\ item \in ExportObject
        /\ item.uid \in 1 .. lastUid /\ item.uid \in 1 .. MaxUid /\ item # Absent
        /\ TargetOf[item.spec] = item.spec.target /\ item \in ExportViews
        /\ Active(item) => HeldUid(exportVersions, Export, item.uid)
    BY ExportItem
  <1>3. Active(item)
    BY <1>2 DEF ExportInv, KnownInv, WorkerKnows, Active
  <1>4. secrets \in [Secret -> SecretObject \cup {Absent}] /\ WrittenAt \in Secret
    BY MergedType DEF ExportInv, KnownInv, TypeOK
  <1>5. SecretOwner' = [SecretOwner EXCEPT ![WrittenAt] = item.uid]
    <2>1. MergedSecret # Absent /\ MergedSecret.owner = item.uid
      BY MergedType, ExportAbsentAssumption DEF ExportInv
    <2> QED  BY <1>4, <2>1 DEF Written, SecretOwner
  <1>6. /\ UNCHANGED <<Excused, ExportViews>>
        /\ \A s \in Secret :
             SecretOwner'[s] = IF s = WrittenAt THEN item.uid ELSE SecretOwner[s]
    BY <1>5 DEF Excused, ExportViews, SecretOwner
  <1>7. item.uid \notin retargeted => WrittenAt = TargetOf[item.spec]
    <2>1. item.uid \notin retargeted => item.status.target \in {Absent, item.spec.target}
      BY <1>2 DEF ExportViews
    <2> QED  BY <1>2, <2>1 DEF WrittenAt, TargetSecret
  <1> HIDE DEF item
  <1>8. Custody(exportVersions, worker', Export, lastUid, TargetOf, retargeted, Secret,
                SecretOwner', ExportViews)
    <2>1. Custody(exportVersions, worker, Export, lastUid, TargetOf, retargeted, Secret,
                  SecretOwner, ExportViews)
      BY DEF ExportInv, InCustody
    <2>2. \A s \in Secret : \/ SecretOwner'[s] = SecretOwner[s]
                            \/ /\ SecretOwner'[s] = worker.item.uid
                               /\ worker.item.uid \notin retargeted
                                    => s = TargetOf[worker.item.spec]
      BY <1>6, <1>7 DEF item
    <2> QED  BY <1>1, <1>2, <2>1, <2>2, CustodyMake
  <1>9. InCustody' /\ UidsIssued'
    BY <1>2, <1>6, <1>8 DEF InCustody, UidsIssued, ExportInv
  <1>10. ExportInv'
    BY <1>2, <1>3, <1>6, <1>9, ExportParts, OwnersKept
  <1>11. UNCHANGED <<HeldUids, GoneUids>>
    BY DEF HeldUids, GoneUids, Held
  <1>12. item.uid \in HeldUids
    BY <1>2, <1>3 DEF HeldUids, Held, HeldUid
  <1>13. Ownership!Make(item.uid, WrittenAt)
    BY <1>5, <1>6, <1>11, <1>12 DEF Ownership!Make
  <1> QED  BY <1>2, <1>4, <1>10, <1>13 DEF Ownership!Next

(* The finalizer is added: Hold. *)
LEMMA ExportAdds ==
  ASSUME ExportInv, AddFinalizer
  PROVE  ExportInv' /\ [Ownership!Next]_(Ownership!vars)
  <1> DEFINE x == [worker.item EXCEPT !.fins = {Finalizer}]
             e == worker.key
             o == Stored(exportVersions[e])
  <1>1. /\ e \in Export /\ Busy(worker, e) /\ worker.item = o
        /\ x \in ExportObject /\ StoreExport(e, x) /\ Finalized(o, x)
        /\ x.status = o.status
        /\ KnownInv' /\ worker' = IdleWorker /\ Follows(worker, worker')
        /\ UNCHANGED <<secrets, environment, orphaned>>
    BY AddIsFinalize DEF ExportInv
  <1>2. UNCHANGED <<lastUid, orphaned, retargeted, secrets>>
    BY <1>1 DEF environment
  <1>3. UNCHANGED <<SecretOwner, Excused, ExportViews>> /\ SecretGone'
    BY <1>1, <1>2, IdleKeeps
  <1>4. /\ Tracked(Export, ExportVersion, exportVersions, worker) /\ lastUid \in Nat
        /\ Absent \notin Nat
    BY ExportParts
  <1>5. worker.item.uid \in 1 .. MaxUid /\ worker.item \in ExportViews /\ o # Absent
    BY <1>1, ExportItem DEF Busy
  <1> HIDE DEF x, e, o
  <1>6. x \in ExportVersion /\ exportVersions' = Appended(exportVersions, e, x)
    <2>1. x \in ExportVersion
      BY <1>1 DEF ExportVersion
    <2> QED  BY <1>1, <2>1, StoreIsAppend DEF ExportInv, KnownInv
  <1>7. x \in ExportViews /\ x.uid = worker.item.uid
    <2>1. /\ x.uid = worker.item.uid /\ x.spec = worker.item.spec
          /\ x.fins # {} /\ x.status = worker.item.status
      BY <1>1 DEF Finalized
    <2> QED  BY <1>1, <1>5, <1>6, <2>1 DEF ExportViews
  <1>8. /\ Custody(exportVersions', worker', Export, lastUid, TargetOf, retargeted, Secret,
                   SecretOwner, ExportViews)
        /\ \A v : /\ HeldUid(exportVersions', Export, v)
                       <=> HeldUid(exportVersions, Export, v) \/ v = x.uid
                  /\ StoredUid(exportVersions', Export, v)
                          <=> StoredUid(exportVersions, Export, v)
    <2>1. Custody(exportVersions, worker, Export, lastUid, TargetOf, retargeted, Secret,
                  SecretOwner, ExportViews)
      BY DEF ExportInv, InCustody
    <2> QED  BY <1>1, <1>4, <1>6, <1>7, <2>1, CustodyFinalize DEF o
  <1>9. InCustody' /\ UidsIssued'
    BY <1>2, <1>3, <1>8 DEF InCustody, UidsIssued, ExportInv
  <1>10. ExportInv'
    BY <1>1, <1>3, <1>8, <1>9, ExportParts, OwnersKept
  <1>11. /\ HeldUids = {u \in 1 .. MaxUid : HeldUid(exportVersions, Export, u)}
         /\ HeldUids' = {u \in 1 .. MaxUid : HeldUid(exportVersions', Export, u)}
         /\ GoneUids = {u \in 1 .. lastUid : ~StoredUid(exportVersions, Export, u)}
         /\ GoneUids' = {u \in 1 .. lastUid' : ~StoredUid(exportVersions', Export, u)}
    BY DEF HeldUids, GoneUids, Held, HeldUid, StoredUid
  <1>12. HeldUids' = HeldUids \cup {x.uid} /\ GoneUids' = GoneUids
    BY <1>2, <1>5, <1>7, <1>8, <1>11
  <1>13. x.uid \notin GoneUids
    BY <1>1, <1>5, <1>7, <1>11 DEF StoredUid, o
  <1>14. CASE x.uid \in HeldUids
    BY <1>3, <1>10, <1>12, <1>14, DoesNotShow
  <1>15. CASE x.uid \notin HeldUids
    <2>1. Ownership!Hold(x.uid)
      BY <1>3, <1>12, <1>13, <1>15 DEF Ownership!Hold
    <2> QED  BY <1>5, <1>7, <1>10, <2>1 DEF Ownership!Next
  <1> QED  BY <1>14, <1>15

(* The bundle of facts about the versions of the exports, at a step that    *)
(* continues a stored export and may move targets.                          *)
LEMMA ExportCustodyContinues ==
  ASSUME Tracked(Export, ExportVersion, exportVersions, worker),
         Follows(worker, worker'), NEW e \in Export, NEW x \in ExportVersion,
         Continuation(Stored(exportVersions[e]), x), lastUid \in Nat, Absent \notin Nat,
         NEW moved, retargeted \subseteq moved, NEW S, ExportViews \subseteq S, x \in S,
         x.uid \notin moved =>
           TargetOf[x.spec] = TargetOf[Stored(exportVersions[e]).spec],
         Custody(exportVersions, worker, Export, lastUid, TargetOf, retargeted, Secret,
                 SecretOwner, ExportViews)
  PROVE  /\ Custody(Appended(exportVersions, e, x), worker', Export, lastUid, TargetOf,
                    moved, Secret, SecretOwner, S)
         /\ \A v : /\ HeldUid(Appended(exportVersions, e, x), Export, v)
                        <=> HeldUid(exportVersions, Export, v)
                   /\ StoredUid(Appended(exportVersions, e, x), Export, v)
                        <=> StoredUid(exportVersions, Export, v)
  BY CustodyContinue

(* The stored version is continued; it is Excuse when that adds to those    *)
(* who may leave something behind, and does not show otherwise.             *)
LEMMA ExportContinues ==
  ASSUME ExportInv, KnownInv', SecretGone', Follows(worker, worker'),
         NEW e \in Export, NEW x \in ExportObject, StoreExport(e, x), NEW o,
         o = Stored(exportVersions[e]), o \in ExportObject, Continuation(o, x),
         retargeted \subseteq retargeted',
         o.uid \notin retargeted' => /\ x.spec.target = o.spec.target
                                    /\ x.status.target \in {Absent, x.spec.target},
         x.deleting => x.fins # {},
         NEW d \in 1 .. MaxUid, Excused' \in {Excused, Excused \cup {d}},
         UNCHANGED <<lastUid, secrets>>
  PROVE  ExportInv' /\ [Ownership!Next]_(Ownership!vars)
  <1>1. /\ Tracked(Export, ExportVersion, exportVersions, worker) /\ lastUid \in Nat
        /\ Absent \notin Nat
    BY ExportParts
  <1>2. Custody(exportVersions, worker, Export, lastUid, TargetOf, retargeted, Secret,
                SecretOwner, ExportViews)
    BY DEF ExportInv, InCustody
  <1>3. x # Absent /\ x.uid = o.uid /\ o # Absent
    BY DEF Continuation
  <1>4. x \in ExportVersion /\ exportVersions' = Appended(exportVersions, e, x)
    <2>1. x \in ExportVersion
      BY DEF ExportVersion
    <2> QED  BY <2>1, StoreIsAppend DEF ExportInv, KnownInv
  <1>5. o \in ExportViews
    <2>1. Len(exportVersions[e]) \in Views(exportVersions, worker, e)
          /\ View(exportVersions, worker, e, Len(exportVersions[e])) = o
      BY <1>1, ViewType
    <2> QED  BY <1>2, <2>1 DEF Custody, ViewsIn
  <1>6. o.uid \in 1 .. MaxUid
    BY <1>3, <1>5 DEF ExportViews
  <1>7. retargeted \subseteq retargeted'
    OBVIOUS
  <1>8. ExportViews \subseteq ExportViews'
    BY <1>7 DEF ExportViews
  <1>9. x \in ExportViews'
    BY <1>3, <1>4, <1>6 DEF ExportViews
  <1>10. x.uid \notin retargeted' => TargetOf[x.spec] = TargetOf[o.spec]
    <2>1. x.spec \in ExportSpec /\ o.spec \in ExportSpec
      BY ObjectType
    <2> QED  BY <1>3, <2>1 DEF TargetOf
  <1>11. UNCHANGED SecretOwner
    BY DEF SecretOwner
  <1>12. /\ Custody(exportVersions', worker', Export, lastUid, TargetOf, retargeted',
                    Secret, SecretOwner, ExportViews')
         /\ \A v : /\ HeldUid(exportVersions', Export, v)
                           <=> HeldUid(exportVersions, Export, v)
                   /\ StoredUid(exportVersions', Export, v)
                           <=> StoredUid(exportVersions, Export, v)
    <2>1. /\ Continuation(Stored(exportVersions[e]), x)
          /\ x.uid \notin retargeted' =>
               TargetOf[x.spec] = TargetOf[Stored(exportVersions[e]).spec]
      BY <1>10
    <2>2. ASSUME NEW moved, retargeted \subseteq moved, NEW S, ExportViews \subseteq S,
                 x \in S,
                 x.uid \notin moved =>
                   TargetOf[x.spec] = TargetOf[Stored(exportVersions[e]).spec]
          PROVE  /\ Custody(Appended(exportVersions, e, x), worker', Export, lastUid,
                            TargetOf, moved, Secret, SecretOwner, S)
                 /\ \A v : /\ HeldUid(Appended(exportVersions, e, x), Export, v)
                                <=> HeldUid(exportVersions, Export, v)
                           /\ StoredUid(Appended(exportVersions, e, x), Export, v)
                                <=> StoredUid(exportVersions, Export, v)
      BY <1>1, <1>2, <1>4, <2>1, <2>2, ExportCustodyContinues
    <2> QED  BY <1>4, <1>7, <1>8, <1>9, <2>1, <2>2
  <1>13. InCustody' /\ UidsIssued'
    BY <1>11, <1>12 DEF InCustody, UidsIssued, ExportInv
  <1>14. Excused' = Excused \/ Excused' = Excused \cup {d}
    OBVIOUS
  <1>15. ExportInv'
    BY <1>11, <1>12, <1>13, <1>14, ExportParts, OwnersKept
  <1>16. UNCHANGED <<HeldUids, GoneUids>>
    BY <1>12, SameHeld
  <1>17. CASE Excused' = Excused
    BY <1>11, <1>15, <1>16, <1>17, DoesNotShow
  <1>18. CASE Excused' = Excused \cup {d}
    <2>1. Ownership!Excuse(d)
      BY <1>11, <1>16, <1>18 DEF Ownership!Excuse
    <2> QED  BY <1>15, <2>1 DEF Ownership!Next
  <1> QED  BY <1>14, <1>17, <1>18

(* A status is written, with the target of the spec it is written to. *)
LEMMA ExportReports ==
  ASSUME ExportInv, UpdateStatus
  PROVE  ExportInv' /\ [Ownership!Next]_(Ownership!vars)
  <1> DEFINE e == worker.key
             o == Stored(exportVersions[e])
             x == [o EXCEPT !.status = NewStatus(o)]
  <1>1. /\ e \in Export /\ Busy(worker, e)
        /\ x \in ExportObject /\ StoreExport(e, x) /\ Continuation(o, x)
        /\ o \in ExportObject /\ x.spec = o.spec /\ x.status.target = x.spec.target
        /\ KnownInv' /\ worker' = IdleWorker /\ Follows(worker, worker')
        /\ UNCHANGED <<secrets, environment, orphaned>>
    BY StatusIsContinue DEF ExportInv
  <1>2. UNCHANGED <<lastUid, orphaned, retargeted, secrets>> /\ SecretGone'
    BY <1>1, IdleKeeps DEF environment
  <1>3. /\ retargeted' = retargeted /\ Excused' = Excused
        /\ worker.item.uid \in 1 .. MaxUid
    BY <1>1, <1>2, ExportItem DEF Excused, Busy
  <1>4. x.deleting => x.fins # {}
    <2>1. o \in ExportViews /\ o # Absent
      BY <1>1, ObjectType, ExportItem DEF Busy
    <2>2. x.deleting = o.deleting /\ x.fins = o.fins
      BY <1>1 DEF ExportObject
    <2> QED  BY <2>1, <2>2 DEF ExportViews
  <1> HIDE DEF x, o, e
  <1> QED  BY <1>1, <1>2, <1>3, <1>4, ExportContinues DEF o

(* The stored version goes away.  One without a finalizer is forgotten; one *)
(* with it is let go by the Reconcile that has seen to its Secret.           *)
LEMMA ExportVanishes ==
  ASSUME ExportInv, KnownInv', SecretGone', Follows(worker, worker'),
         NEW e \in Export, StoreExport(e, Absent), NEW o,
         o = Stored(exportVersions[e]), o \in ExportObject,
         \/ o.fins = {} /\ orphaned' = orphaned
         \/ /\ Busy(worker, e) /\ worker.item.deleting /\ worker.item.uid = o.uid
            /\ worker.pc = "removeFinalizer"
            /\ orphaned' = IF worker.item.spec.policy = "Orphan"
                             THEN orphaned \cup {worker.item.uid} ELSE orphaned,
         UNCHANGED <<lastUid, retargeted, secrets>>
  PROVE  ExportInv' /\ [Ownership!Next]_(Ownership!vars)
  <1>1. /\ Tracked(Export, ExportVersion, exportVersions, worker) /\ lastUid \in Nat
        /\ Absent \notin Nat /\ Absent \in ExportVersion /\ Absent \in ExportViews
        /\ lastUid <= MaxUid /\ MaxUid \in Nat
    BY ExportParts
  <1>2. Custody(exportVersions, worker, Export, lastUid, TargetOf, retargeted, Secret,
                SecretOwner, ExportViews)
    BY DEF ExportInv, InCustody
  <1>3. exportVersions' = Appended(exportVersions, e, Absent) /\ o # Absent
    BY <1>1, StoreIsAppend, ObjectType DEF ExportInv, KnownInv
  <1>4. UNCHANGED <<SecretOwner, ExportViews>>
    BY DEF SecretOwner, ExportViews
  <1>5. /\ Custody(exportVersions', worker', Export, lastUid, TargetOf, retargeted, Secret,
                   SecretOwner, ExportViews)
        /\ \A v : /\ HeldUid(exportVersions', Export, v)
                       <=> HeldUid(exportVersions, Export, v) /\ v # o.uid
                  /\ StoredUid(exportVersions', Export, v)
                       <=> StoredUid(exportVersions, Export, v) /\ v # o.uid
    <2>1. /\ Stored(exportVersions[e]) # Absent
          /\ \/ Stored(exportVersions[e]).fins = {}
             \/ /\ Busy(worker, e) /\ worker.item.deleting
                /\ worker.item.uid = Stored(exportVersions[e]).uid
      BY <1>3
    <2> QED  BY <1>1, <1>2, <1>3, <2>1, CustodyVanish
  <1>6. InCustody' /\ UidsIssued'
    BY <1>4, <1>5 DEF InCustody, UidsIssued, ExportInv
  <1>7. o.uid \in 1 .. lastUid
    <2>1. /\ Len(exportVersions[e]) \in Views(exportVersions, worker, e)
          /\ View(exportVersions, worker, e, Len(exportVersions[e])) = o
      BY <1>1, ViewType
    <2>2. o \in ExportViews
      BY <1>2, <2>1 DEF Custody, ViewsIn
    <2>3. o.uid <= lastUid
      BY <1>2, <1>3, <2>1 DEF Custody, Lineage, Issued
    <2> QED  BY <1>1, <1>3, <2>2, <2>3 DEF ExportViews
  <1>8. /\ HeldUids = {u \in 1 .. MaxUid : HeldUid(exportVersions, Export, u)}
        /\ HeldUids' = {u \in 1 .. MaxUid : HeldUid(exportVersions', Export, u)}
        /\ GoneUids = {u \in 1 .. lastUid : ~StoredUid(exportVersions, Export, u)}
        /\ GoneUids' = {u \in 1 .. lastUid' : ~StoredUid(exportVersions', Export, u)}
    BY DEF HeldUids, GoneUids, Held, HeldUid, StoredUid
  <1>9. HeldUids' = HeldUids \ {o.uid} /\ GoneUids' = GoneUids \cup {o.uid}
    BY <1>5, <1>7, <1>8
  <1>10. CASE o.fins = {} /\ orphaned' = orphaned
    <2>1. ~HeldUid(exportVersions, Export, o.uid)
      <3>1. ASSUME NEW z \in Export, Stored(exportVersions[z]) # Absent,
                   Stored(exportVersions[z]).uid = o.uid
            PROVE  Stored(exportVersions[z]).fins = {}
        <4>1. CASE z = e
          BY <1>10, <4>1
        <4>2. CASE z # e
          <5>1. /\ Len(exportVersions[z]) \in Views(exportVersions, worker, z)
                /\ View(exportVersions, worker, z, Len(exportVersions[z]))
                        = Stored(exportVersions[z])
            BY <1>1, ViewType
          <5>2. Lineage(exportVersions, worker, Export, lastUid)
            BY <1>2 DEF Custody
          <5>3. Stored(exportVersions[e]).uid # Stored(exportVersions[z]).uid
            BY <1>1, <1>3, <3>1, <4>2, <5>1, <5>2, ViewDistinct
          <5> QED  BY <3>1, <5>3
        <4> QED  BY <4>1, <4>2
      <3> QED  BY <3>1 DEF HeldUid
    <2>2. Excused' = Excused
      BY <1>10 DEF Excused
    <2>3. ExportInv'
      BY <1>4, <1>5, <1>6, <2>1, <2>2, ExportParts, OwnersKept
    <2>4. HeldUids' = HeldUids /\ GoneUids' \cap HeldUids = {}
      <3>1. o.uid \notin HeldUids
        BY <1>8, <2>1
      <3>2. \A v : HeldUid(exportVersions, Export, v)
                        => StoredUid(exportVersions, Export, v)
        BY DEF HeldUid, StoredUid
      <3> QED  BY <1>8, <1>9, <3>1, <3>2
    <2>5. Ownership!Forget
      BY <1>4, <1>9, <2>2, <2>4 DEF Ownership!Forget
    <2> QED  BY <2>3, <2>5 DEF Ownership!Next
  <1>11. CASE /\ Busy(worker, e) /\ worker.item.deleting /\ worker.item.uid = o.uid
              /\ worker.pc = "removeFinalizer"
              /\ orphaned' = IF worker.item.spec.policy = "Orphan"
                               THEN orphaned \cup {worker.item.uid} ELSE orphaned
    <2>1. Excused' \in {Excused, Excused \cup {o.uid}}
      BY <1>11 DEF Excused
    <2>2. ASSUME NEW s \in Secret, SecretOwner[s] = o.uid PROVE o.uid \in Excused'
      <3>1. CASE worker.item.spec.policy = "Orphan"
        BY <1>11, <3>1 DEF Excused
      <3>2. CASE worker.item.spec.policy # "Orphan"
        BY <1>11, <2>2, <3>2 DEF Excused, ExportInv, SecretGone
      <3> QED  BY <3>1, <3>2
    <2>3. ASSUME NEW s \in Secret, SecretOwner'[s] # Absent
          PROVE  \/ HeldUid(exportVersions', Export, SecretOwner'[s])
                 \/ SecretOwner'[s] \in Excused'
      <3>1. SecretOwner'[s] = SecretOwner[s]
        BY <1>4
      <3>2. HeldUid(exportVersions, Export, SecretOwner[s]) \/ SecretOwner[s] \in Excused
        BY <2>3, <3>1, ExportParts
      <3>3. CASE SecretOwner[s] = o.uid
        BY <2>2, <3>1, <3>3
      <3>4. CASE SecretOwner[s] # o.uid
        BY <1>5, <2>1, <3>1, <3>2, <3>4
      <3> QED  BY <3>3, <3>4
    <2>4. ExportInv'
      BY <1>6, <2>3, OwnersKept
    <2>5. CASE o.uid \in HeldUids
      <3>1. Ownership!LetGo(o.uid)
        BY <1>4, <1>9, <2>1, <2>2, <2>5 DEF Ownership!LetGo
      <3> QED  BY <1>1, <1>7, <2>4, <3>1 DEF Ownership!Next
    <2>6. o.uid \in HeldUids
      <3>1. worker.item.fins # {} /\ worker.item # Absent /\ Precedes(worker.item, o)
        BY <1>11, ExportItem DEF ExportInv, KnownInv, WorkerKnows, Busy
      <3>2. o.fins # {}
        BY <1>3, <1>11, <3>1 DEF Precedes
      <3>3. HeldUid(exportVersions, Export, o.uid)
        BY <1>3, <3>2 DEF HeldUid
      <3> QED  BY <1>1, <1>7, <1>8, <3>3
    <2> QED  BY <2>5, <2>6
  <1> QED  BY <1>10, <1>11

(* The finalizer is removed. *)
LEMMA ExportRemoves ==
  ASSUME ExportInv, RemoveFinalizer
  PROVE  ExportInv' /\ [Ownership!Next]_(Ownership!vars)
  <1> DEFINE e == worker.key
             o == Stored(exportVersions[e])
  <1>1. /\ e \in Export /\ Busy(worker, e) /\ worker.item = o
        /\ worker.item \in ExportObject /\ worker.item.deleting
        /\ StoreExport(e, Absent)
        /\ KnownInv' /\ worker' = IdleWorker /\ Follows(worker, worker')
        /\ orphaned' = IF worker.item.spec.policy = "Orphan"
                         THEN orphaned \cup {worker.item.uid} ELSE orphaned
        /\ UNCHANGED <<secrets, environment>>
    BY RemoveIsVanish DEF ExportInv
  <1>2. UNCHANGED <<lastUid, retargeted, secrets>> /\ SecretGone'
    BY <1>1, IdleKeeps DEF environment
  <1>3. worker.pc = "removeFinalizer" /\ o \in ExportObject
    BY <1>1 DEF RemoveFinalizer
  <1> HIDE DEF e, o
  <1> QED  BY <1>1, <1>2, <1>3, ExportVanishes DEF o

(* A user creates a export: Forget, of the uids passed over. *)
LEMMA ExportCreates ==
  ASSUME ExportInv, NEW e \in Export, CreateExport(e)
  PROVE  ExportInv' /\ [Ownership!Next]_(Ownership!vars)
  <1>1. PICK x \in ExportObject :
          /\ StoreExport(e, x) /\ Stored(exportVersions[e]) = Absent
          /\ x # Absent /\ x.uid = lastUid + 1 /\ x.fins = {}
          /\ x.status.target = Absent
          /\ lastUid < MaxUid /\ lastUid' = lastUid + 1
          /\ KnownInv' /\ Follows(worker, worker')
          /\ UNCHANGED <<worker, secrets, orphaned, retargeted>>
          /\ ~x.deleting
    BY CreateIsNew DEF ExportInv
  <1>2. /\ Tracked(Export, ExportVersion, exportVersions, worker) /\ lastUid \in Nat
        /\ Absent \notin Nat /\ MaxUid \in Nat
        /\ \A s \in Secret : SecretOwner[s] \in (1 .. lastUid) \cup {Absent}
    BY ExportParts
  <1>3. UNCHANGED <<SecretOwner, Excused, ExportViews, secrets>>
    BY <1>1 DEF SecretOwner, Excused, ExportViews
  <1>4. x \in ExportVersion /\ exportVersions' = Appended(exportVersions, e, x)
    <2>1. x \in ExportVersion
      BY DEF ExportVersion
    <2> QED  BY <1>1, <2>1, StoreIsAppend DEF ExportInv, KnownInv
  <1>5. x \in ExportViews
    BY <1>1, <1>2, <1>4 DEF ExportViews
  <1>6. /\ Custody(exportVersions', worker, Export, lastUid + 1, TargetOf, retargeted,
                   Secret, SecretOwner, ExportViews)
        /\ \A v : /\ HeldUid(exportVersions', Export, v)
                          <=> HeldUid(exportVersions, Export, v)
                  /\ StoredUid(exportVersions', Export, v)
                       <=> StoredUid(exportVersions, Export, v) \/ v = lastUid + 1
    <2>1. Custody(exportVersions, worker, Export, lastUid, TargetOf, retargeted, Secret,
                  SecretOwner, ExportViews)
      BY DEF ExportInv, InCustody
    <2>2. \A s \in Secret : SecretOwner[s] # lastUid + 1
      <3>1. lastUid + 1 \in Nat /\ lastUid + 1 \notin 1 .. lastUid
        BY <1>2
      <3> QED  BY <1>2, <3>1
    <2> QED  BY <1>1, <1>2, <1>4, <1>5, <2>1, <2>2, CustodyCreate
  <1>7. InCustody' /\ SecretGone'
    BY <1>1, <1>3, <1>6 DEF InCustody, ExportInv, SecretGone
  <1>8. UidsIssued'
    <2>1. lastUid' <= MaxUid /\ 1 .. lastUid \subseteq 1 .. lastUid'
      BY <1>1, <1>2
    <2> QED  BY <1>2, <1>3, <2>1 DEF UidsIssued
  <1>9. ExportInv'
    BY <1>1, <1>3, <1>6, <1>7, <1>8, ExportParts, OwnersKept
  <1>10. /\ HeldUids = {u \in 1 .. MaxUid : HeldUid(exportVersions, Export, u)}
         /\ HeldUids' = {u \in 1 .. MaxUid : HeldUid(exportVersions', Export, u)}
         /\ GoneUids = {u \in 1 .. lastUid : ~StoredUid(exportVersions, Export, u)}
         /\ GoneUids' = {u \in 1 .. lastUid' : ~StoredUid(exportVersions', Export, u)}
    BY DEF HeldUids, GoneUids, Held, HeldUid, StoredUid
  <1>11. HeldUids' = HeldUids /\ GoneUids' = GoneUids
    <2>1. \A u \in Nat : u \in 1 .. lastUid' <=> u \in 1 .. lastUid \/ u = lastUid + 1
      BY <1>1, <1>2
    <2>2. \A u \in 1 .. lastUid : u # lastUid + 1 /\ u \in Nat
      BY <1>2
    <2>3. 1 .. lastUid' \subseteq Nat
      OBVIOUS
    <2> QED  BY <1>6, <1>10, <2>1, <2>2, <2>3
  <1> QED  BY <1>3, <1>9, <1>11, DoesNotShow

(* A user edits a export: Excuse when it moves the target. *)
LEMMA ExportEdits ==
  ASSUME ExportInv, NEW e \in Export, UpdateExport(e)
  PROVE  ExportInv' /\ [Ownership!Next]_(Ownership!vars)
  <1> DEFINE o == Stored(exportVersions[e])
  <1>1. /\ o \in ExportObject
        /\ KnownInv' /\ Follows(worker, worker')
        /\ UNCHANGED <<worker, lastUid, secrets, orphaned>>
    BY UpdateIsContinue DEF ExportInv
  <1>2. PICK x \in ExportObject :
          /\ StoreExport(e, x) /\ Continuation(o, x) /\ x.status = o.status
          /\ retargeted' = IF x.spec.target # o.spec.target
                             THEN retargeted \cup {o.uid} ELSE retargeted
          /\ x.deleting = o.deleting
    BY UpdateIsContinue DEF ExportInv
  <1>3. o # Absent /\ o \in ExportViews /\ o.uid \in 1 .. MaxUid
    BY <1>1, ObjectType, ExportStored
  <1> HIDE DEF o
  <1>4. /\ retargeted \subseteq retargeted'
        /\ Excused' \in {Excused, Excused \cup {o.uid}}
        /\ secrets' = secrets
    BY <1>1, <1>2 DEF Excused
  <1>5. o.uid \notin retargeted' => /\ x.spec.target = o.spec.target
                                    /\ x.status.target \in {Absent, x.spec.target}
    BY <1>2, <1>3 DEF ExportViews
  <1>6. x.deleting => x.fins # {}
    BY <1>2, <1>3 DEF ExportViews, Continuation
  <1>7. SecretGone'
    BY <1>1, <1>4 DEF ExportInv, SecretGone, SecretOwner
  <1> QED
    BY <1>1, <1>2, <1>3, <1>4, <1>5, <1>6, <1>7, ExportContinues DEF o

(* A user deletes a export: Forget when nothing holds it. *)
LEMMA ExportDeletion ==
  ASSUME ExportInv, NEW e \in Export, DeleteExport(e)
  PROVE  ExportInv' /\ [Ownership!Next]_(Ownership!vars)
  <1> DEFINE o == Stored(exportVersions[e])
  <1>1. /\ o \in ExportObject
        /\ KnownInv' /\ Follows(worker, worker')
        /\ UNCHANGED <<worker, secrets, environment, orphaned>>
    BY DeleteIsSettle DEF ExportInv
  <1>2. PICK x \in ExportVersion :
          /\ StoreExport(e, x)
          /\ o.fins = {} => x = Absent
          /\ o.fins # {} => Continuation(o, x)
          /\ x # Absent => x.uid = o.uid /\ x.spec = o.spec /\ x.status = o.status
    BY DeleteIsSettle DEF ExportInv
  <1>3. o # Absent /\ o \in ExportViews /\ o.uid \in 1 .. MaxUid
    BY <1>1, ObjectType, ExportStored
  <1> HIDE DEF o
  <1>4. UNCHANGED <<lastUid, orphaned, retargeted, secrets, Excused>>
    BY <1>1 DEF environment, Excused
  <1>5. SecretGone'
    BY <1>1, <1>4 DEF ExportInv, SecretGone, SecretOwner
  <1>6. CASE o.fins = {}
    BY <1>1, <1>2, <1>4, <1>5, <1>6, ExportVanishes DEF o
  <1>7. CASE o.fins # {}
    <2>1. x # Absent /\ x \in ExportObject /\ Continuation(o, x) /\ x.fins # {}
      BY <1>2, <1>7 DEF Continuation, ExportVersion
    <2>2. o.uid \notin retargeted' => /\ x.spec.target = o.spec.target
                                      /\ x.status.target \in {Absent, x.spec.target}
      BY <1>2, <1>3, <1>4, <2>1 DEF ExportViews
    <2>3. retargeted \subseteq retargeted' /\ Excused' \in {Excused, Excused \cup {o.uid}}
      BY <1>4
    <2> QED  BY <1>1, <1>2, <1>3, <1>4, <1>5, <2>1, <2>2, <2>3, ExportContinues DEF o
  <1> QED  BY <1>6, <1>7

(* The Secret that Reconcile looks at in a deletion is the one it has made. *)
LEMMA TargetIsOwned ==
  ASSUME ExportInv, worker.pc # "idle", worker.item.uid \notin retargeted
  PROVE  /\ TargetSecret(worker.item) \in Secret /\ worker.item.uid # Absent
         /\ \A s \in Secret : SecretOwner[s] = worker.item.uid
                                => s = TargetSecret(worker.item)
  <1>1. /\ worker.item \in ExportViews /\ worker.item # Absent
        /\ worker.item \in ExportObject
        /\ \A s \in Secret : SecretOwner[s] = worker.item.uid
                               => s = worker.item.spec.target
    BY ExportItem
  <1>2. TargetSecret(worker.item) \in Secret /\ worker.item.uid # Absent
    BY <1>1, ObjectType, ExportAbsentAssumption
  <1>3. TargetSecret(worker.item) = worker.item.spec.target
    BY <1>1 DEF ExportViews, TargetSecret
  <1> QED  BY <1>1, <1>2, <1>3

(* A step of Reconcile that changes no object and no Secret. *)
LEMMA ExportLooks ==
  ASSUME ExportInv,
         \/ SpecError \/ MissingCluster \/ MissingConnection \/ FoundDependencies
         \/ GetPreviousTarget \/ GetTarget \/ ReuseSecret \/ ReplaceSecret
         \/ GenerateKubeconfig \/ GenerateFails
  PROVE  ExportInv' /\ [Ownership!Next]_(Ownership!vars)
  <1>1. /\ KnownInv' /\ Follows(worker, worker')
        /\ worker'.pc = "removeFinalizer" =>
             /\ worker.pc = "getTarget" /\ worker.item.deleting
             /\ ~IsOwnedSecret(worker.item, secrets[TargetSecret(worker.item)])
        /\ UNCHANGED <<exportVersions, secrets, environment, orphaned>>
    BY KnownLook DEF ExportInv
  <1>2. UNCHANGED <<exportVersions, lastUid, orphaned, retargeted, secrets>>
    BY <1>1 DEF environment
  <1>3. Tracked(Export, ExportVersion, exportVersions, worker)
    BY ExportParts
  <1>4. SeesNoMore(exportVersions, worker, exportVersions', worker', Export)
    BY <1>1, <1>2, <1>3, FewerFollow
  <1>5. SecretGone'
    <2> SUFFICES ASSUME worker'.pc = "removeFinalizer",
                        worker'.item.uid \notin retargeted', NEW s \in Secret,
                        SecretOwner'[s] = worker'.item.uid
                 PROVE  FALSE
      BY DEF SecretGone
    <2>1. /\ worker'.item = worker.item /\ worker.pc = "getTarget"
          /\ worker.pc # "idle"
          /\ ~IsOwnedSecret(worker.item, secrets[TargetSecret(worker.item)])
      BY <1>1 DEF Follows
    <2>2. SecretOwner[s] = worker.item.uid /\ worker.item.uid \notin retargeted
      BY <1>2, <2>1 DEF SecretOwner
    <2>3. s = TargetSecret(worker.item) /\ worker.item.uid # Absent
      BY <2>1, <2>2, TargetIsOwned
    <2> QED  BY <2>1, <2>2, <2>3 DEF SecretOwner, IsOwnedSecret
  <1> QED  BY <1>1, <1>2, <1>4, <1>5, ExportQuiet

(* A write to a Secret. *)
LEMMA ExportCalls ==
  ASSUME ExportInv, DeletePreviousTarget \/ WriteSecret \/ DeleteTarget
  PROVE  ExportInv' /\ [Ownership!Next]_(Ownership!vars)
  <1>1. /\ KnownInv' /\ Follows(worker, worker')
        /\ \/ worker.pc \in {"deletePrevious", "deleteTarget"} /\ secrets' = Deleted
           \/ worker.pc = "write" /\ secrets' = Written
        /\ worker'.pc = "removeFinalizer" =>
             worker.pc = "deleteTarget" /\ worker.item.deleting /\ secrets' = Deleted
        /\ UNCHANGED <<exportVersions, environment, orphaned>>
    BY KnownCall DEF ExportInv
  <1>2. /\ UNCHANGED <<exportVersions, lastUid, orphaned, retargeted>>
        /\ secrets \in [Secret -> SecretObject \cup {Absent}]
    BY <1>1 DEF environment, ExportInv, KnownInv, TypeOK
  <1>3. SecretGone'
    <2> SUFFICES ASSUME worker'.pc = "removeFinalizer",
                        worker'.item.uid \notin retargeted', NEW s \in Secret,
                        SecretOwner'[s] = worker'.item.uid
                 PROVE  FALSE
      BY DEF SecretGone
    <2>1. /\ worker'.item = worker.item /\ worker.pc = "deleteTarget"
          /\ secrets' = Deleted /\ worker.item.uid \notin retargeted
      BY <1>1, <1>2 DEF Follows
    <2>2. /\ TargetSecret(worker.item) \in Secret /\ worker.item.uid # Absent
          /\ SecretOwner[s] = worker.item.uid => s = TargetSecret(worker.item)
      BY <2>1, TargetIsOwned
    <2>3. SecretOwner'[s] = IF s = TargetSecret(worker.item) THEN Absent ELSE SecretOwner[s]
      BY <1>2, <2>1, <2>2 DEF SecretOwner, Deleted, Victim
    <2> QED  BY <2>1, <2>2, <2>3
  <1>4. CASE worker.pc \in {"deletePrevious", "deleteTarget"} /\ secrets' = Deleted
    <2>1. Victim \in Secret
      BY <1>4, BusyType, ObjectType DEF ExportInv, KnownInv, WorkerKnows, Victim
    <2>2. SecretOwner' = [SecretOwner EXCEPT ![Victim] = Absent]
      BY <1>2, <1>4, <2>1 DEF Deleted, SecretOwner
    <2> QED  BY <1>1, <1>2, <1>3, <2>1, <2>2, ExportLoses
  <1>5. CASE worker.pc = "write" /\ secrets' = Written
    BY <1>1, <1>2, <1>3, <1>5, ExportWrites
  <1> QED  BY <1>1, <1>4, <1>5

(* Users tamper with a Secret, delete it, or create one. *)
LEMMA ExportUser ==
  ASSUME ExportInv, NEW s \in Secret, TamperSecret(s) \/ DeleteSecret(s) \/ CreateSecret(s)
  PROVE  ExportInv' /\ [Ownership!Next]_(Ownership!vars)
  <1>1. /\ KnownInv' /\ Follows(worker, worker')
        /\ UNCHANGED <<exportVersions, worker, lastUid, retargeted, orphaned>>
    BY KnownUser DEF ExportInv
  <1>2. PICK x \in SecretObject \cup {Absent} :
          /\ secrets' = [secrets EXCEPT ![s] = x]
          /\ \/ x = Absent
             \/ x # Absent /\ x.owner = Absent /\ secrets[s] = Absent
             \/ x # Absent /\ secrets[s] # Absent /\ x.owner = secrets[s].owner
    BY KnownUser DEF ExportInv
  <1>3. secrets \in [Secret -> SecretObject \cup {Absent}]
    BY DEF ExportInv, KnownInv, TypeOK
  <1>4. SecretOwner' \in {SecretOwner, [SecretOwner EXCEPT ![s] = Absent]}
    <2>1. CASE x = Absent
      <3>1. SecretOwner' = [SecretOwner EXCEPT ![s] = Absent]
        BY <1>2, <1>3, <2>1 DEF SecretOwner
      <3> QED  BY <3>1
    <2>2. CASE x # Absent /\ x.owner = Absent /\ secrets[s] = Absent
      <3>1. SecretOwner' = [SecretOwner EXCEPT ![s] = Absent]
        BY <1>2, <1>3, <2>2 DEF SecretOwner
      <3> QED  BY <3>1
    <2>3. CASE x # Absent /\ secrets[s] # Absent /\ x.owner = secrets[s].owner
      <3>1. SecretOwner' = SecretOwner
        BY <1>2, <1>3, <2>3 DEF SecretOwner
      <3> QED  BY <3>1
    <2> QED  BY <1>2, <2>1, <2>2, <2>3
  <1>5. SecretGone'
    <2> SUFFICES ASSUME worker.pc = "removeFinalizer",
                        worker.item.spec.policy # "Orphan",
                        worker.item.uid \notin retargeted, NEW t \in Secret
                 PROVE  SecretOwner'[t] # worker.item.uid
      BY <1>1 DEF SecretGone
    <2>1. SecretOwner[t] # worker.item.uid
      BY DEF ExportInv, SecretGone
    <2>2. worker.item.uid # Absent
      BY TargetIsOwned
    <2>3. SecretOwner'[t] \in {SecretOwner[t], Absent}
      BY <1>4 DEF SecretOwner
    <2> QED  BY <2>1, <2>2, <2>3
  <1> QED  BY <1>1, <1>4, <1>5, ExportLoses

(* Reconcile starts, with the Orphan policy perhaps at its last step. *)
LEMMA ExportBegins ==
  ASSUME ExportInv, NEW e \in Export, Reconcile(e)
  PROVE  ExportInv' /\ [Ownership!Next]_(Ownership!vars)
  <1>1. /\ KnownInv'
        /\ \/ UNCHANGED worker
           \/ /\ worker.pc = "idle" /\ worker'.key = e
              /\ worker'.item = Cached(exportVersions[e])
              /\ Cached(exportVersions[e]) # Absent
              /\ worker'.pc = "removeFinalizer" => worker'.item.spec.policy = "Orphan"
        /\ UNCHANGED <<exportVersions, secrets, environment, orphaned>>
    BY KnownBegin DEF ExportInv
  <1>2. UNCHANGED <<exportVersions, lastUid, orphaned, retargeted, secrets>>
    BY <1>1 DEF environment
  <1>3. Tracked(Export, ExportVersion, exportVersions, worker)
    BY ExportParts
  <1>4. CASE UNCHANGED worker
    <2>1. Follows(worker, worker')
      BY <1>4 DEF Follows
    <2>2. SeesNoMore(exportVersions, worker, exportVersions', worker', Export)
      BY <1>2, <1>3, <2>1, FewerFollow
    <2>3. SecretGone'
      BY <1>2, <1>4 DEF ExportInv, SecretGone, SecretOwner
    <2> QED  BY <1>1, <1>2, <2>2, <2>3, ExportQuiet
  <1>5. CASE /\ worker.pc = "idle" /\ worker'.key = e
             /\ worker'.item = Cached(exportVersions[e])
             /\ Cached(exportVersions[e]) # Absent
             /\ worker'.pc = "removeFinalizer" => worker'.item.spec.policy = "Orphan"
    <2>1. SeesNoMore(exportVersions, worker, exportVersions', worker', Export)
      BY <1>2, <1>3, <1>5, FewerBegin
    <2>2. SecretGone'
      BY <1>5 DEF SecretGone
    <2> QED  BY <1>1, <1>2, <2>1, <2>2, ExportQuiet
  <1> QED  BY <1>1, <1>4, <1>5

(* Every step keeps the invariant, and is a step of the protocol or does    *)
(* not show in it.                                                          *)
LEMMA StepExport ==
  ASSUME ExportInv, [Next]_vars
  PROVE  ExportInv' /\ [Ownership!Next]_(Ownership!vars)
  <1>1. Tracked(Export, ExportVersion, exportVersions, worker) /\ KnownInv
    BY ExportParts DEF ExportInv
  <1>2. ASSUME KnownInv',
               UNCHANGED <<exportVersions, lastUid, orphaned, retargeted, secrets>>,
               UNCHANGED worker \/ worker' = IdleWorker
        PROVE  ExportInv' /\ [Ownership!Next]_(Ownership!vars)
    <2>1. Follows(worker, worker')
      BY <1>2 DEF Follows, IdleWorker
    <2>2. SeesNoMore(exportVersions, worker, exportVersions', worker', Export)
      BY <1>1, <1>2, <2>1, FewerFollow
    <2>3. SecretGone'
      <3>1. CASE UNCHANGED worker
        BY <1>2, <3>1 DEF ExportInv, SecretGone, SecretOwner
      <3>2. CASE worker' = IdleWorker
        BY <3>2, IdleKeeps
      <3> QED  BY <1>2, <3>1, <3>2
    <2> QED  BY <1>2, <2>2, <2>3, ExportQuiet
  <1>3. CASE WorkerStep
    <2>1. CASE \/ SpecError \/ MissingCluster \/ MissingConnection \/ FoundDependencies
               \/ GetPreviousTarget \/ GetTarget \/ ReuseSecret \/ ReplaceSecret
               \/ GenerateKubeconfig \/ GenerateFails
      BY <2>1, ExportLooks
    <2>2. CASE DeletePreviousTarget \/ WriteSecret \/ DeleteTarget
      BY <2>2, ExportCalls
    <2>3. CASE AddFinalizer \/ RemoveFinalizer \/ UpdateStatus
      BY <2>3, ExportAdds, ExportReports, ExportRemoves
    <2>4. CASE StatusUnchanged \/ CallFails
      <3>1. UNCHANGED <<exportVersions, lastUid, orphaned, retargeted, secrets>>
            /\ KnownInv' /\ worker' = IdleWorker
        BY <1>1, <2>4, KnownEnds DEF environment
      <3> QED  BY <1>2, <3>1
    <2> QED  BY <1>3, <2>1, <2>2, <2>3, <2>4 DEF WorkerStep, CallSucceeds
  <1>4. ASSUME NEW e \in Export, DeliverExport(e)
        PROVE  ExportInv' /\ [Ownership!Next]_(Ownership!vars)
    <2>1. /\ KnownInv' /\ Follows(worker, worker') /\ Len(exportVersions[e]) > 1
          /\ exportVersions' = Delivered(exportVersions, e)
          /\ UNCHANGED <<worker, secrets, environment, orphaned>>
      BY <1>1, <1>4, KnownDeliver
    <2>2. UNCHANGED <<worker, lastUid, orphaned, retargeted, secrets>>
      BY <2>1 DEF environment
    <2>3. SeesNoMore(exportVersions, worker, exportVersions', worker', Export)
      BY <1>1, <2>1, <2>2, FewerDeliver
    <2>4. SecretGone'
      BY <2>2 DEF ExportInv, SecretGone, SecretOwner
    <2> QED  BY <2>1, <2>2, <2>3, <2>4, ExportQuiet
  <1>5. ASSUME NEW e \in Export,
               Reconcile(e) \/ CreateExport(e) \/ UpdateExport(e) \/ DeleteExport(e)
        PROVE  ExportInv' /\ [Ownership!Next]_(Ownership!vars)
    BY <1>5, ExportBegins, ExportCreates, ExportEdits, ExportDeletion
  <1>6. CASE \/ \E e \in Export : DeliverNotice(e) \/ FireTimer(e)
             \/ \E k \in Connection : ChangeConnection(k)
             \/ ChangeCluster \/ Tick
    <2>1. /\ KnownInv' /\ UNCHANGED worker
          /\ UNCHANGED <<exportVersions, lastUid, orphaned, retargeted, secrets>>
      BY <1>1, <1>6, KnownChange
    <2> QED  BY <1>2, <2>1
  <1>7. ASSUME NEW s \in Secret, TamperSecret(s) \/ DeleteSecret(s) \/ CreateSecret(s)
        PROVE  ExportInv' /\ [Ownership!Next]_(Ownership!vars)
    BY <1>7, ExportUser
  <1>8. CASE Restart
    <2>1. /\ KnownInv' /\ worker' = IdleWorker /\ worker'.pc = "idle"
          /\ exportVersions' = Relisted(exportVersions, Export)
          /\ UNCHANGED <<lastUid, orphaned, retargeted, secrets>>
      BY <1>1, <1>8, KnownRestart DEF environment
    <2>2. SeesNoMore(exportVersions, worker, exportVersions', worker', Export)
      BY <1>1, <2>1, FewerRestart
    <2> QED  BY <2>1, <2>2, IdleKeeps, ExportQuiet
  <1>9. CASE UNCHANGED vars
    <2>1. KnownInv'
      BY <1>1, StepKnown
    <2> QED  BY <1>2, <1>9, <2>1 DEF vars
  <1> QED  BY <1>3, <1>4, <1>5, <1>6, <1>7, <1>8, <1>9 DEF Next

(* Nothing is owned when the operator starts. *)
LEMMA InitExport == Init => ExportInv /\ Ownership!Init
  <1> SUFFICES ASSUME Init PROVE ExportInv /\ Ownership!Init
    OBVIOUS
  <1>1. KnownInv
    BY InitKnown
  <1>2. /\ worker.pc = "idle" /\ exportVersions = [e \in Export |-> <<Absent>>]
        /\ lastUid = 0 /\ orphaned = {} /\ retargeted = {}
    BY DEF Init, IdleWorker
  <1>3. SecretOwner = [s \in Secret |-> Absent]
    BY DEF Init, SecretOwner
  <1>4. /\ InCustody
        /\ \A v : /\ ~HeldUid(exportVersions, Export, v)
                  /\ ~StoredUid(exportVersions, Export, v)
    <2>1. Versioned(ExportVersion) /\ Absent \in ExportVersion
      BY <1>1, VersionsType DEF KnownInv, Tracked
    <2>2. Absent \in ExportViews
      BY <2>1 DEF ExportViews
    <2> QED  BY <1>2, <2>1, <2>2, CustodyInit DEF InCustody
  <1>5. SecretGone /\ UidsIssued
    BY <1>2, <1>3, ExportAssumption DEF SecretGone, UidsIssued
  <1>6. SecretDeletedWithExport
    BY <1>3 DEF SecretDeletedWithExport, SecretOwner
  <1>7. HeldUids = {} /\ GoneUids = {} /\ Excused = {}
    BY <1>2, <1>4 DEF HeldUids, GoneUids, Held, HeldUid, Excused
  <1>8. Ownership!Init
    BY <1>3, <1>7 DEF Ownership!Init, Ownership!TypeOK
  <1> QED  BY <1>1, <1>4, <1>5, <1>6, <1>8 DEF ExportInv

(* No kubeconfig Secret loses the export that is to remove it: not by a     *)
(* stale cache, a conflict, a failed call, a crash, or what users do to     *)
(* Secrets, and not when an export is deleted and created anew under its    *)
(* name.  Users leave Secrets behind only with the Orphan policy or by      *)
(* moving the target.                                                       *)
THEOREM ExportedSecretsAreOwned == Spec => []SecretDeletedWithExport
  <1>1. ExportInv => SecretDeletedWithExport
    BY DEF ExportInv
  <1>2. ExportInv /\ [Next]_vars => ExportInv'
    BY StepExport
  <1> QED  BY <1>1, <1>2, InitExport, PTL DEF Spec

(* The OmniKubeconfigExport controller implements the ownership protocol:   *)
(* it writes a Secret only for an export that has its finalizer at that     *)
(* moment, and removes the finalizer only after the Secret or with the      *)
(* user's leave.                                                            *)
THEOREM ExportImplementsOwnership == Spec => ImplementsOwnership
  <1>1. ExportInv /\ [Next]_vars => ExportInv'
    BY StepExport
  <1>2. ExportInv /\ [Next]_vars => [Ownership!Next]_(Ownership!vars)
    BY StepExport
  <1> QED
    BY <1>1, <1>2, InitExport, PTL DEF Spec, ImplementsOwnership, Ownership!Spec

-----------------------------------------------------------------------------
(* What the status says *)

(* The Secret that Reconcile looks at is the one that the spec names, and   *)
(* nobody else has written it.  Nothing in the operator or its webhooks     *)
(* sees to that: an export that was moved is still looked for under its     *)
(* previous target as long as that Secret is there, and two exports may     *)
(* name one target.                                                         *)
ReadsItsOwn ==
  worker.pc = "getSecret" =>
    LET s == TargetSecret(worker.item)
    IN  secrets[s] # Absent =>
          /\ s = worker.item.spec.target
          /\ secrets[s].export \in {worker.key, Absent}

(* The Secret holds an unaltered kubeconfig that e has made, for the        *)
(* cluster of that name.                                                    *)
Holds(secret, e, spec, name) ==
  /\ secret # Absent /\ secret.export = e
  /\ secret.hash \in Kubeconfig /\ secret.data[spec.key] = secret.hash
  /\ secret.hash.cluster = name /\ secret.hash.profile = spec.profile

(* What a status that says Exported promises *)
Exported(e) ==
  LET o == Stored(exportVersions[e])
      secret == secrets[o.spec.target]
  IN  /\ cluster # Absent /\ Holds(secret, e, o.spec, cluster.name)
      /\ timer[e] # Absent /\ timer[e] <= secret.hash.exp

(* A request for e is due, or the event of a Secret will bring one. *)
ExportDue(e) == Due(exportVersions, worker, queue, e) \/ e \in notices

ExportTold == Told(exportVersions, worker, queue, Export)

(* The annotations of a Secret that an export has written tell of the       *)
(* kubeconfig that was written with them.                                   *)
SecretsDescribed ==
  \A s \in Secret :
    LET x == secrets[s]
    IN  x # Absent =>
          IF x.export = Absent
            THEN x.hash = Absent
            ELSE /\ x.hash \in Kubeconfig
                 /\ x.specHash[1] = x.hash.cluster /\ x.specHash[3] = x.hash.profile

(* The steps of Reconcile that export something *)
Exporting == {"getPrevious", "deletePrevious", "getSecret", "generate", "write"}

(* How far Reconcile gets, and whether it comes back, fits its copy. *)
WorkerFits ==
  /\ worker.pc \in Exporting =>
       worker.item.spec.profile \notin Invalid /\ worker.cluster # Absent
  /\ worker.pc = "write" =>
       /\ worker.data.cluster = worker.cluster.name
       /\ worker.data.profile = worker.item.spec.profile
       /\ worker.data.exp = worker.at + TTL
  /\ worker.pc = "updateStatus" =>
       IF worker.reason = "Exported"
         THEN worker.item.spec.profile \notin Invalid /\ worker.cluster # Absent
         ELSE \/ worker.again
              \/ worker.reason = "ValidationFailed" /\ worker.item.spec.profile \in Invalid

(* The Secret that is updated is the one that the spec names. *)
WorkerAims ==
  worker.pc \in {"generate", "write"} =>
    worker.secret = Absent \/ TargetSecret(worker.item) = worker.item.spec.target

(* The cluster that Reconcile has read is as it was, or another request is  *)
(* due; and Reconcile is not too slow.                                      *)
WorkerFresh ==
  worker.cluster # Absent =>
    /\ worker.at <= now /\ now <= worker.at + SlowestReconcile
    /\ worker.cluster = cluster \/ worker.key \in queue

(* What Reconcile is about to report it has found or written, and nobody    *)
(* has touched it since without an event; the delay leaves renewBefore.     *)
WorkerExported ==
  worker.pc = "updateStatus" /\ worker.reason = "Exported" =>
    \/ worker.key \in queue \cup notices
    \/ LET secret == secrets[worker.item.spec.target]
       IN  /\ Holds(secret, worker.key, worker.item.spec, worker.cluster.name)
           /\ worker.delay \in Nat
           /\ worker.at + worker.delay + RenewBefore <= secret.hash.exp

(* No copy that can be seen has a status from after the other copies: a     *)
(* status is written only when the cache is up to date.                     *)
ObservedIsSeen(m, w) ==
  \A e \in Export : \A i, j \in Views(m, w, e) :
    LET v == View(m, w, e, i)
        x == View(m, w, e, j)
    IN  v # Absent /\ x # Absent /\ x.status.reason # "None" =>
          /\ x.uid <= v.uid
          /\ x.uid = v.uid => x.status.obs <= v.gen

SaysExported(o) ==
  /\ o # Absent /\ ~o.deleting
  /\ o.status.reason = "Exported" /\ o.status.obs = o.gen

(* A status that says Exported of a spec that has become invalid since is   *)
(* that of every copy with a status for this generation: the refusal is     *)
(* never taken for written already.                                         *)
InvalidIsSeen(m, w) ==
  \A e \in Export : \A i \in Views(m, w, e) :
    LET v == View(m, w, e, i)
        o == Stored(m[e])
    IN  (/\ SaysExported(o) /\ o.spec.profile \in Invalid
         /\ v # Absent /\ v.uid = o.uid
         /\ v.status.obs = o.gen /\ v.status.reason # "None")
          => v.status = o.status

ReportIsHonest ==
  \A e \in Export : ReportsExported(e) => ExportDue(e) \/ Exported(e)

-----------------------------------------------------------------------------
(* How Reconcile moves on, field by field *)

(* Reconcile reports a reason. *)
LEMMA ReportFields ==
  ASSUME worker \in BusyWorker, NEW reason, NEW hash, NEW again, NEW delay,
         worker' = Report(reason, hash, again, delay)
  PROVE  /\ worker'.pc = "updateStatus" /\ worker'.reason = reason
         /\ worker'.again = again /\ worker'.delay = delay
         /\ worker'.key = worker.key /\ worker'.item = worker.item
         /\ worker'.cluster = worker.cluster /\ worker'.at = worker.at
  BY DEF Report, BusyWorker

(* Steps that keep the copy and what was read from the cluster and clock *)
KeepsRead ==
  /\ worker'.key = worker.key /\ worker'.item = worker.item
  /\ worker'.cluster = worker.cluster /\ worker'.at = worker.at

(* The steps that look, and what each leaves in the state of Reconcile. *)
LEMMA LookFields ==
  ASSUME KnownInv,
         \/ SpecError \/ MissingCluster \/ MissingConnection \/ FoundDependencies
         \/ GetPreviousTarget \/ GetTarget \/ ReuseSecret \/ ReplaceSecret
         \/ GenerateKubeconfig \/ GenerateFails
  PROVE  /\ worker.pc # "idle" /\ worker'.pc # "idle"
         /\ worker'.key = worker.key /\ worker'.item = worker.item
         /\ UNCHANGED <<exportVersions, queue, timer, secrets, notices, cluster, now>>
         /\ \/ /\ KeepsRead /\ worker'.pc = "updateStatus"
               /\ worker'.reason = "ValidationFailed"
               /\ worker.item.spec.profile \in Invalid
            \/ /\ KeepsRead /\ worker'.pc = "updateStatus"
               /\ worker'.reason # "Exported" /\ worker'.again
            \/ /\ worker'.pc = "getPrevious" /\ worker.item.spec.profile \notin Invalid
               /\ cluster # Absent /\ worker'.cluster = cluster /\ worker'.at = now
            \/ /\ KeepsRead /\ worker.pc = "getPrevious"
               /\ worker'.pc \in {"deletePrevious", "getSecret"}
            \/ KeepsRead /\ worker'.pc \in {"deleteTarget", "removeFinalizer"}
            \/ ReuseSecret /\ worker.pc = "getSecret" /\ KeepsRead
               /\ worker'.pc = "updateStatus" /\ worker'.reason = "Exported"
               /\ worker'.delay =
                    RequeueAfter(secrets[TargetSecret(worker.item)].hash.exp)
            \/ /\ KeepsRead /\ worker.pc = "getSecret" /\ worker'.pc = "generate"
               /\ worker'.secret = secrets[TargetSecret(worker.item)]
            \/ /\ KeepsRead /\ worker.pc = "generate" /\ worker'.pc = "write"
               /\ worker'.secret = worker.secret
               /\ worker'.data.cluster = worker.cluster.name
               /\ worker'.data.profile = worker.item.spec.profile
               /\ worker'.data.exp = worker.at + TTL
  <1> USE DEF KeepsRead
  <1>1. worker.pc # "idle"
        /\ UNCHANGED <<exportVersions, queue, timer, secrets, notices, environment>>
    BY DEF SpecError, MissingCluster, MissingConnection, FoundDependencies,
       GetPreviousTarget, GetTarget, ReuseSecret, ReplaceSecret,
       GenerateKubeconfig, GenerateFails, Advance
  <1>2. UNCHANGED <<exportVersions, queue, timer, secrets, notices, cluster, now>>
    BY <1>1 DEF environment
  <1>3. worker \in BusyWorker
    BY <1>1, BusyType DEF KnownInv
  <1>4. CASE SpecError
    <2>1. worker' = Report("ValidationFailed", Absent, FALSE, Absent)
          /\ worker.item.spec.profile \in Invalid
      BY <1>4 DEF SpecError, Advance
    <2> QED  BY <1>1, <1>2, <1>3, <2>1, ReportFields
  <1>5. CASE MissingCluster \/ MissingConnection \/ GenerateFails
    <2>1. PICK reason \in {"MissingCluster", "MissingConnection", "ExportFailed"} :
            worker' = Report(reason, Absent, TRUE, Absent)
      BY <1>5 DEF MissingCluster, MissingConnection, GenerateFails, Advance
    <2>2. /\ KeepsRead /\ worker'.pc = "updateStatus"
          /\ worker'.reason = reason /\ worker'.again
      BY <1>3, <2>1, ReportFields
    <2> QED  BY <1>1, <1>2, <2>2
  <1>6. CASE FoundDependencies
    <2>1. /\ worker.item.spec.profile \notin Invalid /\ cluster # Absent
          /\ worker' = [worker EXCEPT !.pc = "getPrevious", !.cluster = cluster, !.at = now]
      BY <1>6 DEF FoundDependencies, Advance
    <2>2. /\ worker'.pc = "getPrevious" /\ worker'.cluster = cluster /\ worker'.at = now
          /\ worker'.key = worker.key /\ worker'.item = worker.item
      BY <1>3, <2>1 DEF BusyWorker
    <2> QED  BY <1>1, <1>2, <2>1, <2>2
  <1>7. ASSUME NEW pc, NEW secret,
               \/ worker' = [worker EXCEPT !.pc = pc]
               \/ worker' = [worker EXCEPT !.pc = pc, !.secret = secret]
        PROVE  KeepsRead /\ worker'.pc = pc
    BY <1>3, <1>7 DEF BusyWorker
  <1>8. CASE GetPreviousTarget
    <2>1. /\ worker.pc = "getPrevious"
          /\ \/ worker' = [worker EXCEPT !.pc = "deletePrevious",
                                         !.secret = secrets[worker.item.status.target]]
             \/ worker' = [worker EXCEPT !.pc = "getSecret"]
      BY <1>8 DEF GetPreviousTarget, Advance
    <2>2. KeepsRead /\ worker'.pc \in {"deletePrevious", "getSecret"}
      BY <1>7, <2>1
    <2> QED  BY <1>1, <1>2, <2>1, <2>2
  <1>9. CASE GetTarget
    <2>1. \/ worker' = [worker EXCEPT !.pc = "deleteTarget",
                                      !.secret = secrets[TargetSecret(worker.item)]]
          \/ worker' = [worker EXCEPT !.pc = "removeFinalizer"]
      BY <1>9 DEF GetTarget, Advance
    <2>2. KeepsRead /\ worker'.pc \in {"deleteTarget", "removeFinalizer"}
      BY <1>7, <2>1
    <2> QED  BY <1>1, <1>2, <2>2
  <1>10. CASE ReuseSecret
    <2>1. PICK secret :
            /\ secret = secrets[TargetSecret(worker.item)] /\ worker.pc = "getSecret"
            /\ worker' = Report("Exported", secret.hash, FALSE,
                                RequeueAfter(secret.hash.exp))
      BY <1>10, Zenon DEF ReuseSecret, Advance
    <2>2. PICK hash, delay :
            /\ worker' = Report("Exported", hash, FALSE, delay)
            /\ delay = RequeueAfter(secret.hash.exp)
      BY <2>1, Zenon
    <2>3. /\ KeepsRead /\ worker'.pc = "updateStatus" /\ worker'.reason = "Exported"
          /\ worker'.delay = delay
      <3>1. worker' = Report("Exported", hash, FALSE, delay)
        BY <2>2
      <3> QED  BY <1>3, <3>1 DEF Report, BusyWorker
    <2> QED  BY <1>1, <1>2, <1>10, <2>1, <2>2, <2>3, Zenon
  <1>11. CASE ReplaceSecret
    <2>1. /\ worker.pc = "getSecret"
          /\ worker' = [worker EXCEPT !.pc = "generate",
                                      !.secret = secrets[TargetSecret(worker.item)]]
      BY <1>11 DEF ReplaceSecret, Advance
    <2>2. /\ KeepsRead /\ worker'.pc = "generate"
          /\ worker'.secret = secrets[TargetSecret(worker.item)]
      BY <1>3, <2>1 DEF BusyWorker
    <2> QED  BY <1>1, <1>2, <2>1, <2>2
  <1>12. CASE GenerateKubeconfig
    <2> DEFINE new == [cluster |-> worker.cluster.name,
                       account |-> worker.cluster.connection,
                       profile |-> worker.item.spec.profile, exp |-> worker.at + TTL]
    <2>1. worker.pc = "generate" /\ worker' = [worker EXCEPT !.pc = "write", !.data = new]
      BY <1>12 DEF GenerateKubeconfig, Advance
    <2>2. /\ new.cluster = worker.cluster.name
          /\ new.profile = worker.item.spec.profile /\ new.exp = worker.at + TTL
      OBVIOUS
    <2> HIDE DEF new
    <2>3. /\ KeepsRead /\ worker'.pc = "write" /\ worker'.secret = worker.secret
          /\ worker'.data = new
      BY <1>3, <2>1 DEF BusyWorker
    <2> QED  BY <1>1, <1>2, <2>1, <2>2, <2>3
  <1> QED
    BY <1>4, <1>5, <1>6, <1>8, <1>9, <1>10, <1>11, <1>12

(* Only the Secret s changes, and whoever has written it will hear of it. *)
Touches(s) ==
  /\ \A t \in Secret \ {s} : secrets'[t] = secrets[t]
  /\ notices \subseteq notices'
  /\ secrets[s] # Absent /\ secrets[s].export # Absent
       => secrets[s].export \in notices'

(* The owner of a Secret is among those that its events name. *)
LEMMA RequestsName ==
  ASSUME NEW objects, NEW x \in objects, x # Absent, x.export # Absent
  PROVE  x.export \in RequestsForSecret(objects)
  BY DEF RequestsForSecret

(* A Secret is deleted. *)
LEMMA DeleteTouches ==
  ASSUME TypeOK, NEW s \in Secret, DeleteSecretAt(s)
  PROVE  Touches(s) /\ secrets'[s] = Absent
  <1>1. /\ secrets \in [Secret -> SecretObject \cup {Absent}]
        /\ secrets' = [secrets EXCEPT ![s] = Absent]
        /\ notices' = notices \cup RequestsForSecret({secrets[s]})
    BY DEF TypeOK, DeleteSecretAt
  <1>2. secrets[s] # Absent /\ secrets[s].export # Absent
          => secrets[s].export \in RequestsForSecret({secrets[s]})
    BY RequestsName
  <1> QED  BY <1>1, <1>2 DEF Touches

(* The calls that write Secrets, and what each leaves. *)
LEMMA CallFields ==
  ASSUME KnownInv, DeletePreviousTarget \/ WriteSecret \/ DeleteTarget
  PROVE  /\ worker.pc # "idle" /\ worker'.pc # "idle" /\ KeepsRead
         /\ UNCHANGED <<exportVersions, queue, timer, cluster, now>>
         /\ \/ /\ worker.pc = "deletePrevious" /\ worker'.pc = "getSecret"
               /\ \E s \in Secret : Touches(s) /\ secrets'[s] = Absent
            \/ /\ worker.pc = "deleteTarget" /\ worker'.pc = "removeFinalizer"
               /\ \E s \in Secret : Touches(s) /\ secrets'[s] = Absent
            \/ /\ worker.pc = "write" /\ worker'.pc = "updateStatus"
               /\ worker'.reason = "Exported"
               /\ worker'.delay = RequeueAfter(worker.data.exp)
               /\ WrittenAt \in Secret /\ Touches(WrittenAt)
               /\ secrets'[WrittenAt] = MergedSecret
  <1> USE DEF KnownInv
  <1>1. /\ worker.pc # "idle"
        /\ UNCHANGED <<exportVersions, queue, timer, cluster, now>>
    BY DEF DeletePreviousTarget, WriteSecret, DeleteTarget, environment
  <1>2. worker \in BusyWorker /\ TargetSecret(worker.item) \in Secret
    BY <1>1, BusyType, ObjectType
  <1>3. ASSUME NEW pc, worker' = [worker EXCEPT !.pc = pc, !.secret = Absent]
        PROVE  KeepsRead /\ worker'.pc = pc
    BY <1>2, <1>3 DEF BusyWorker, KeepsRead
  <1>4. CASE DeletePreviousTarget
    <2>1. /\ worker.pc = "deletePrevious" /\ DeleteSecretAt(worker.item.status.target)
          /\ worker' = [worker EXCEPT !.pc = "getSecret", !.secret = Absent]
      BY <1>4 DEF DeletePreviousTarget
    <2>2. worker.item.status.target \in Secret
      BY <2>1 DEF WorkerKnows
    <2> QED  BY <1>1, <1>3, <2>1, <2>2, DeleteTouches
  <1>5. CASE DeleteTarget
    <2>1. /\ worker.pc = "deleteTarget" /\ DeleteSecretAt(TargetSecret(worker.item))
          /\ worker' = [worker EXCEPT !.pc = "removeFinalizer", !.secret = Absent]
      BY <1>5 DEF DeleteTarget
    <2> QED  BY <1>1, <1>2, <1>3, <2>1, DeleteTouches
  <1>6. CASE WriteSecret
    <2>1. /\ worker.pc = "write" /\ secrets' = [secrets EXCEPT ![WrittenAt] = MergedSecret]
          /\ notices' = notices \cup RequestsForSecret({secrets[WrittenAt], MergedSecret})
          /\ worker' = Report("Exported", worker.data, FALSE,
                              RequeueAfter(worker.data.exp))
      BY <1>6 DEF WriteSecret, WrittenAt
    <2>2. WrittenAt \in Secret
      BY <2>1, MergedType
    <2>3. Touches(WrittenAt) /\ secrets'[WrittenAt] = MergedSecret
      <3>1. secrets \in [Secret -> SecretObject \cup {Absent}]
        BY DEF TypeOK
      <3>2. secrets[WrittenAt] # Absent /\ secrets[WrittenAt].export # Absent =>
              secrets[WrittenAt].export
                \in RequestsForSecret({secrets[WrittenAt], MergedSecret})
        BY RequestsName
      <3> QED  BY <2>1, <2>2, <3>1, <3>2 DEF Touches
    <2>4. PICK hash, delay :
            /\ worker' = Report("Exported", hash, FALSE, delay)
            /\ delay = RequeueAfter(worker.data.exp)
      BY <2>1, Zenon
    <2>5. /\ KeepsRead /\ worker'.pc = "updateStatus" /\ worker'.reason = "Exported"
          /\ worker'.delay = delay
      <3>1. worker' = Report("Exported", hash, FALSE, delay)
        BY <2>4
      <3> QED  BY <1>2, <3>1 DEF Report, BusyWorker, KeepsRead
    <2> QED  BY <1>1, <2>1, <2>2, <2>3, <2>4, <2>5, Zenon
  <1> QED  BY <1>4, <1>5, <1>6

(* Others change a Secret. *)
LEMMA UserFields ==
  ASSUME TypeOK, NEW s \in Secret, TamperSecret(s) \/ DeleteSecret(s) \/ CreateSecret(s)
  PROVE  /\ UNCHANGED <<exportVersions, queue, timer, worker, cluster, now>>
         /\ Touches(s)
         /\ LET x == secrets'[s]
            IN  \/ x = Absent
                \/ x.export = Absent /\ x.hash = Absent
                \/ /\ secrets[s] # Absent /\ x.export = secrets[s].export
                   /\ x.hash = secrets[s].hash /\ x.specHash = secrets[s].specHash
  <1>1. UNCHANGED <<exportVersions, queue, timer, worker, cluster, now>>
    BY DEF TamperSecret, DeleteSecret, CreateSecret
  <1>2. secrets \in [Secret -> SecretObject \cup {Absent}]
    BY DEF TypeOK
  <1>3. CASE TamperSecret(s)
    <2> DEFINE d == [k \in Key |-> Tampered]
    <2>1. /\ secrets[s] # Absent
          /\ secrets' = [secrets EXCEPT ![s] = [secrets[s] EXCEPT !.data = d]]
          /\ notices' = notices \cup RequestsForSecret({secrets[s]})
      BY <1>3 DEF TamperSecret
    <2>2. secrets[s] # Absent /\ secrets[s].export # Absent
            => secrets[s].export \in RequestsForSecret({secrets[s]})
      BY RequestsName
    <2>3. secrets'[s] = [secrets[s] EXCEPT !.data = d] /\ secrets[s] \in SecretObject
      BY <1>2, <2>1
    <2> HIDE DEF d
    <2>4. /\ secrets'[s].export = secrets[s].export
          /\ secrets'[s].hash = secrets[s].hash
          /\ secrets'[s].specHash = secrets[s].specHash
      BY <2>3 DEF SecretObject
    <2> QED  BY <1>1, <1>2, <2>1, <2>2, <2>4 DEF Touches
  <1>4. CASE DeleteSecret(s)
    <2>1. DeleteSecretAt(s)
      BY <1>4 DEF DeleteSecret
    <2> QED  BY <1>1, <2>1, DeleteTouches
  <1>5. CASE CreateSecret(s)
    <2> DEFINE x == [owner |-> Absent, export |-> Absent, specHash |-> Absent,
                     hash |-> Absent, data |-> [k \in Key |-> Tampered]]
    <2>1. /\ secrets[s] = Absent /\ UNCHANGED notices
          /\ secrets' = [secrets EXCEPT ![s] = x]
      BY <1>5 DEF CreateSecret
    <2>2. x.export = Absent /\ x.hash = Absent
      OBVIOUS
    <2> HIDE DEF x
    <2> QED  BY <1>1, <1>2, <2>1, <2>2 DEF Touches
  <1> QED  BY <1>3, <1>4, <1>5

(* Everything else leaves the Secrets alone. *)
LEMMA OthersKeepSecrets ==
  ASSUME [Next]_vars, ~(DeletePreviousTarget \/ WriteSecret \/ DeleteTarget),
         ~\E s \in Secret : TamperSecret(s) \/ DeleteSecret(s) \/ CreateSecret(s)
  PROVE  UNCHANGED secrets
  <1>1. CASE WorkerStep
    BY <1>1 DEF WorkerStep, CallSucceeds, SpecError, MissingCluster, MissingConnection,
       FoundDependencies, GetPreviousTarget, GetTarget, ReuseSecret, ReplaceSecret,
       GenerateKubeconfig, GenerateFails, Advance, AddFinalizer, RemoveFinalizer,
       UpdateStatus, StatusUnchanged, CallFails
  <1>2. ASSUME NEW e \in Export,
               \/ Reconcile(e)
               \/ DeliverExport(e) \/ DeliverNotice(e) \/ FireTimer(e)
               \/ CreateExport(e) \/ UpdateExport(e) \/ DeleteExport(e)
        PROVE  UNCHANGED secrets
    BY <1>2, Zenon DEF Reconcile, ReconcileNothing, ReconcileDelete, ReconcileNew,
       ReconcileExport, Begin, DeliverExport, DeliverNotice, FireTimer, CreateExport,
       UpdateExport, DeleteExport
  <1>3. CASE (\E k \in Connection : ChangeConnection(k)) \/ ChangeCluster \/ Restart \/ Tick
    BY <1>3 DEF ChangeConnection, ChangeCluster, Restart, Tick
  <1>4. CASE UNCHANGED vars
    BY <1>4 DEF vars
  <1> QED  BY <1>1, <1>2, <1>3, <1>4 DEF Next

(* What is written is described. *)
LEMMA MergedFields ==
  ASSUME KnownInv, worker.pc = "write", WorkerFits
  PROVE  /\ MergedSecret # Absent /\ MergedSecret.export = worker.key
         /\ MergedSecret.hash = worker.data /\ worker.data \in Kubeconfig
         /\ MergedSecret.data[worker.item.spec.key] = worker.data
         /\ MergedSecret.specHash[1] = worker.data.cluster
         /\ MergedSecret.specHash[3] = worker.data.profile
  <1>1. MergedSecret \in SecretObject /\ worker.data \in Kubeconfig
    BY MergedType DEF KnownInv, WorkerKnows
  <1>2. MergedSecret # Absent
    BY <1>1, ExportAbsentAssumption
  <1>3. worker.item.spec.key \in Key
    BY BusyType, ObjectType DEF KnownInv
  <1>4. /\ MergedSecret.export = worker.key /\ MergedSecret.hash = worker.data
        /\ MergedSecret.data[worker.item.spec.key] = worker.data
        /\ MergedSecret.specHash = SpecHash(worker.item.spec, worker.cluster.name)
    BY <1>3 DEF MergedSecret
  <1>5. /\ MergedSecret.specHash[1] = worker.cluster.name
        /\ MergedSecret.specHash[3] = worker.item.spec.profile
    BY <1>4 DEF SpecHash
  <1> QED  BY <1>1, <1>2, <1>4, <1>5 DEF WorkerFits

(* Every step. *)
LEMMA StepDescribed ==
  ASSUME KnownInv, WorkerFits, SecretsDescribed, [Next]_vars
  PROVE  SecretsDescribed'
  <1>1. ASSUME NEW s \in Secret, Touches(s), secrets'[s] = Absent PROVE SecretsDescribed'
    BY <1>1 DEF SecretsDescribed, Touches
  <1>2. CASE DeletePreviousTarget \/ WriteSecret \/ DeleteTarget
    <2>1. CASE \E s \in Secret : Touches(s) /\ secrets'[s] = Absent
      BY <1>1, <2>1
    <2>2. CASE /\ worker.pc = "write" /\ WrittenAt \in Secret /\ Touches(WrittenAt)
               /\ secrets'[WrittenAt] = MergedSecret
      <3>1. PICK s \in Secret : s = WrittenAt
        BY <2>2
      <3>2. /\ MergedSecret.export = worker.key
            /\ MergedSecret.hash = worker.data /\ worker.data \in Kubeconfig
            /\ MergedSecret.specHash[1] = worker.data.cluster
            /\ MergedSecret.specHash[3] = worker.data.profile
        BY <2>2, MergedFields
      <3>3. worker.key # Absent
        BY <2>2, BusyType, KubeconfigAssumption DEF KnownInv
      <3>4. PICK x : x = MergedSecret
        OBVIOUS
      <3>5. /\ secrets'[s] = x /\ x.export # Absent /\ x.hash \in Kubeconfig
            /\ x.specHash[1] = x.hash.cluster /\ x.specHash[3] = x.hash.profile
        BY <2>2, <3>1, <3>2, <3>3, <3>4
      <3>6. Touches(s)
        BY <2>2, <3>1
      <3> QED  BY <3>5, <3>6 DEF SecretsDescribed, Touches
    <2> QED  BY <1>2, <2>1, <2>2, CallFields
  <1>3. ASSUME NEW s \in Secret, TamperSecret(s) \/ DeleteSecret(s) \/ CreateSecret(s)
        PROVE  SecretsDescribed'
    <2>1. /\ Touches(s)
          /\ LET x == secrets'[s]
             IN  \/ x = Absent
                 \/ x.export = Absent /\ x.hash = Absent
                 \/ /\ secrets[s] # Absent /\ x.export = secrets[s].export
                    /\ x.hash = secrets[s].hash /\ x.specHash = secrets[s].specHash
      BY <1>3, UserFields DEF KnownInv
    <2> QED  BY <2>1 DEF SecretsDescribed, Touches
  <1>4. CASE UNCHANGED secrets
    BY <1>4 DEF SecretsDescribed
  <1> QED  BY <1>2, <1>3, <1>4, OthersKeepSecrets


-----------------------------------------------------------------------------
(* What the copies of an export say *)

(* The state of Reconcile changes in the steps that look and call, when it  *)
(* starts and when it ends.                                                 *)
LEMMA OthersKeepWorker ==
  ASSUME KnownInv, [Next]_vars,
         ~(\/ SpecError \/ MissingCluster \/ MissingConnection \/ FoundDependencies
           \/ GetPreviousTarget \/ GetTarget \/ ReuseSecret \/ ReplaceSecret
           \/ GenerateKubeconfig \/ GenerateFails),
         ~(DeletePreviousTarget \/ WriteSecret \/ DeleteTarget)
  PROVE  \/ UNCHANGED worker
         \/ worker' = IdleWorker /\ worker'.pc = "idle" /\ worker'.cluster = Absent
         \/ /\ worker.pc = "idle" /\ worker'.cluster = Absent
            /\ worker'.pc \in {"addFinalizer", "checkSpec", "getTarget",
                               "removeFinalizer"}
  <1>1. IdleWorker.pc = "idle" /\ IdleWorker.cluster = Absent
    BY DEF IdleWorker
  <1>2. CASE WorkerStep
    <2>1. AddFinalizer \/ RemoveFinalizer \/ UpdateStatus \/ StatusUnchanged \/ CallFails
      BY <1>2 DEF WorkerStep, CallSucceeds
    <2>2. worker' = IdleWorker
      BY <2>1 DEF AddFinalizer, RemoveFinalizer, UpdateStatus, StatusUnchanged,
         CallFails, Done
    <2> QED  BY <1>1, <2>2
  <1>3. ASSUME NEW e \in Export, Reconcile(e)
        PROVE  \/ UNCHANGED worker
               \/ /\ worker.pc = "idle" /\ worker'.cluster = Absent
                  /\ worker'.pc \in {"addFinalizer", "checkSpec", "getTarget",
                                     "removeFinalizer"}
    <2>1. ASSUME NEW pc, Begin(e, pc) PROVE worker'.pc = pc /\ worker'.cluster = Absent
      BY <2>1 DEF Begin, IdleWorker
    <2> QED
      BY <1>3, <2>1 DEF Reconcile, ReconcileNothing, ReconcileDelete, ReconcileNew,
         ReconcileExport, CanReconcile
  <1>4. ASSUME NEW e \in Export,
               \/ DeliverExport(e) \/ DeliverNotice(e) \/ FireTimer(e)
               \/ CreateExport(e) \/ UpdateExport(e) \/ DeleteExport(e)
        PROVE  UNCHANGED worker
    BY <1>4 DEF DeliverExport, DeliverNotice, FireTimer, CreateExport,
       UpdateExport, DeleteExport
  <1>5. ASSUME NEW s \in Secret, TamperSecret(s) \/ DeleteSecret(s) \/ CreateSecret(s)
        PROVE  UNCHANGED worker
    BY <1>5 DEF TamperSecret, DeleteSecret, CreateSecret
  <1>6. CASE (\E k \in Connection : ChangeConnection(k)) \/ ChangeCluster \/ Tick
    BY <1>6 DEF ChangeConnection, ChangeCluster, Tick
  <1>7. CASE Restart
    BY <1>1, <1>7 DEF Restart
  <1>8. CASE UNCHANGED vars
    BY <1>8 DEF vars
  <1> QED  BY <1>2, <1>3, <1>4, <1>5, <1>6, <1>7, <1>8 DEF Next

(* How far Reconcile gets fits its copy, at every step. *)
LEMMA StepFits ==
  ASSUME KnownInv, WorkerFits, [Next]_vars
  PROVE  WorkerFits'
  <1> DEFINE Looks == \/ SpecError \/ MissingCluster \/ MissingConnection
                      \/ FoundDependencies \/ GetPreviousTarget \/ GetTarget
                      \/ ReuseSecret \/ ReplaceSecret
                      \/ GenerateKubeconfig \/ GenerateFails
             Calls == DeletePreviousTarget \/ WriteSecret \/ DeleteTarget
  <1>1. CASE Looks
    <2>1. /\ worker'.item = worker.item
          /\ \/ /\ worker'.pc = "updateStatus"
                /\ worker'.reason = "ValidationFailed"
                /\ worker.item.spec.profile \in Invalid
             \/ /\ worker'.pc = "updateStatus"
                /\ worker'.reason # "Exported" /\ worker'.again
             \/ /\ worker'.pc = "getPrevious" /\ worker.item.spec.profile \notin Invalid
                /\ cluster # Absent /\ worker'.cluster = cluster
             \/ /\ KeepsRead /\ worker.pc = "getPrevious"
                /\ worker'.pc \in {"deletePrevious", "getSecret"}
             \/ worker'.pc \in {"deleteTarget", "removeFinalizer"}
             \/ /\ worker.pc = "getSecret" /\ KeepsRead
                /\ worker'.pc = "updateStatus" /\ worker'.reason = "Exported"
             \/ /\ KeepsRead /\ worker.pc = "getSecret" /\ worker'.pc = "generate"
             \/ /\ KeepsRead /\ worker.pc = "generate" /\ worker'.pc = "write"
                /\ worker'.data.cluster = worker.cluster.name
                /\ worker'.data.profile = worker.item.spec.profile
                /\ worker'.data.exp = worker.at + TTL
      <3> HIDE DEF KeepsRead
      <3> QED  BY <1>1, LookFields
    <2> QED  BY <2>1 DEF WorkerFits, Exporting, KeepsRead
  <1>2. CASE Calls
    <2>1. /\ KeepsRead
          /\ \/ worker.pc = "deletePrevious" /\ worker'.pc = "getSecret"
             \/ worker'.pc = "removeFinalizer"
             \/ /\ worker.pc = "write" /\ worker'.pc = "updateStatus"
                /\ worker'.reason = "Exported"
      BY <1>2, CallFields
    <2> QED  BY <2>1 DEF WorkerFits, Exporting, KeepsRead
  <1>3. CASE ~Looks /\ ~Calls
    <2>1. \/ UNCHANGED worker
          \/ worker'.pc \in {"idle", "addFinalizer", "checkSpec", "getTarget",
                             "removeFinalizer"}
      BY <1>3, OthersKeepWorker
    <2> QED  BY <2>1 DEF WorkerFits, Exporting
  <1> QED  BY <1>1, <1>2, <1>3

(* Less is seen. *)
LEMMA ObservedFewer ==
  ASSUME NEW m, NEW w, NEW next, NEW u, SeesNoMore(m, w, next, u, Export),
         ObservedIsSeen(m, w), InvalidIsSeen(m, w)
  PROVE  ObservedIsSeen(next, u) /\ InvalidIsSeen(next, u)
  <1>1. ObservedIsSeen(next, u)
    BY DEF SeesNoMore, ObservedIsSeen
  <1>2. InvalidIsSeen(next, u)
    BY DEF SeesNoMore, InvalidIsSeen
  <1> QED  BY <1>1, <1>2

(* What a new version x of an export must be to the copy v. *)
Agrees(v, x) ==
  v # Absent /\ x # Absent =>
    /\ x.status.reason # "None" =>
         x.uid <= v.uid /\ (x.uid = v.uid => x.status.obs <= v.gen)
    /\ v.status.reason # "None" =>
         v.uid <= x.uid /\ (v.uid = x.uid => v.status.obs <= x.gen)
    /\ (/\ SaysExported(x) /\ x.spec.profile \in Invalid /\ v.uid = x.uid
        /\ v.status.obs = x.gen /\ v.status.reason # "None")
          => v.status = x.status

(* A version is written. *)
LEMMA ObservedAppend ==
  ASSUME NEW m, NEW w, Tracked(Export, ExportVersion, m, w),
         ObservedIsSeen(m, w), InvalidIsSeen(m, w),
         NEW k \in Export, NEW x \in ExportVersion, Agrees(x, x),
         \A i \in Views(m, w, k) : Agrees(View(m, w, k, i), x)
  PROVE  ObservedIsSeen(Appended(m, k, x), w) /\ InvalidIsSeen(Appended(m, k, x), w)
  <1> DEFINE next == Appended(m, k, x)
             n == Len(m[k]) + 1
  <1>1. /\ Views(next, w, k) = Views(m, w, k) \cup {n}
        /\ \A i \in Views(m, w, k) : i < n /\ View(next, w, k, i) = View(m, w, k, i)
        /\ View(next, w, k, n) = x
        /\ Stored(next[k]) = x
        /\ \A l \in Export \ {k} :
             /\ Views(next, w, l) = Views(m, w, l)
             /\ \A i \in Views(m, w, l) : View(next, w, l, i) = View(m, w, l, i)
             /\ Stored(next[l]) = Stored(m[l])
    BY ViewsAppend
  <1> HIDE DEF next, n
  <1>2. ObservedIsSeen(next, w)
    <2>1. \A i, j \in Views(next, w, k) :
            LET v == View(next, w, k, i)
                y == View(next, w, k, j)
            IN  v # Absent /\ y # Absent /\ y.status.reason # "None" =>
                  /\ y.uid <= v.uid
                  /\ y.uid = v.uid => y.status.obs <= v.gen
      BY <1>1 DEF ObservedIsSeen, Agrees
    <2>2. \A l \in Export \ {k} : \A i, j \in Views(next, w, l) :
            LET v == View(next, w, l, i)
                y == View(next, w, l, j)
            IN  v # Absent /\ y # Absent /\ y.status.reason # "None" =>
                  /\ y.uid <= v.uid
                  /\ y.uid = v.uid => y.status.obs <= v.gen
      BY <1>1 DEF ObservedIsSeen
    <2> QED  BY <2>1, <2>2 DEF ObservedIsSeen
  <1>3. InvalidIsSeen(next, w)
    BY <1>1 DEF InvalidIsSeen, Agrees, SaysExported
  <1> QED  BY <1>2, <1>3 DEF next

(* The fields that statuses are compared by have their types. *)
LEMMA StatusType ==
  ASSUME NEW v \in ExportVersion, v # Absent
  PROVE  /\ v \in ExportObject /\ v.uid \in Nat /\ v.gen \in Nat
         /\ v.status.obs \in Nat /\ v.status \in ExportStatus
  <1>1. v \in ExportObject /\ v.uid \in Nat /\ v.gen \in Nat
    BY ObjectType DEF ExportVersion
  <1> QED  BY <1>1 DEF ExportObject, ExportStatus

(* The stored version is continued with the status that it has. *)
LEMMA ObservedContinue ==
  ASSUME NEW m, NEW w, Tracked(Export, ExportVersion, m, w),
         ObservedIsSeen(m, w), InvalidIsSeen(m, w),
         NEW k \in Export, NEW x \in ExportObject,
         Continuation(Stored(m[k]), x) \/ Finalized(Stored(m[k]), x),
         x.status = Stored(m[k]).status
  PROVE  ObservedIsSeen(Appended(m, k, x), w) /\ InvalidIsSeen(Appended(m, k, x), w)
  <1> DEFINE o == Stored(m[k])
  <1>1. /\ Len(m[k]) \in Views(m, w, k) /\ View(m, w, k, Len(m[k])) = o
        /\ o \in ExportVersion
        /\ \A i \in Views(m, w, k) : View(m, w, k, i) \in ExportVersion
    BY ViewType
  <1>2. x \in ExportVersion /\ x # Absent
    BY ObjectType DEF ExportVersion
  <1>3. /\ x.uid = o.uid /\ x.status = o.status /\ o # Absent /\ o.gen <= x.gen
        /\ o.gen = x.gen => o.spec = x.spec /\ o.deleting = x.deleting
    <2>1. o # Absent
      BY DEF Continuation, Finalized
    <2>2. o.gen \in Nat
      BY <1>1, <2>1, StatusType
    <2> QED  BY <2>1, <2>2 DEF Continuation, Finalized
  <1>4. /\ o.uid \in Nat /\ o.gen \in Nat /\ o.status.obs \in Nat
        /\ x.uid \in Nat /\ x.gen \in Nat
    BY <1>1, <1>2, <1>3, StatusType
  <1> HIDE DEF o
  <1>5. o.status.reason # "None" => o.status.obs <= o.gen
    BY <1>1, <1>3 DEF ObservedIsSeen
  <1>6. ASSUME NEW v, v # Absent,
               v \in ExportVersion,
               o.status.reason # "None" =>
                 o.uid <= v.uid /\ (o.uid = v.uid => o.status.obs <= v.gen),
               v.status.reason # "None" =>
                 v.uid <= o.uid /\ (v.uid = o.uid => v.status.obs <= o.gen),
               (/\ SaysExported(o) /\ o.spec.profile \in Invalid /\ v.uid = o.uid
                /\ v.status.obs = o.gen /\ v.status.reason # "None")
                 => v.status = o.status
        PROVE  Agrees(v, x)
    <2>1. v.uid \in Nat /\ v.gen \in Nat /\ v.status.obs \in Nat
      BY <1>6, StatusType
    <2>2. ASSUME SaysExported(x), x.spec.profile \in Invalid, v.uid = x.uid,
                 v.status.obs = x.gen, v.status.reason # "None"
          PROVE  v.status = x.status
      <3>1. o.gen = x.gen
        BY <1>3, <1>4, <1>6, <2>1, <2>2
      <3>2. SaysExported(o) /\ o.spec.profile \in Invalid
        BY <1>3, <2>2, <3>1 DEF SaysExported
      <3> QED  BY <1>3, <1>6, <2>2, <3>1, <3>2
    <2>3. v.status.reason # "None" =>
            v.uid <= x.uid /\ (v.uid = x.uid => v.status.obs <= x.gen)
      BY <1>3, <1>4, <1>6, <2>1
    <2>4. x.status.reason # "None" =>
            x.uid <= v.uid /\ (x.uid = v.uid => x.status.obs <= v.gen)
      BY <1>3, <1>6
    <2> QED  BY <2>2, <2>3, <2>4 DEF Agrees
  <1>7. \A i \in Views(m, w, k) : Agrees(View(m, w, k, i), x)
    <2> SUFFICES ASSUME NEW i \in Views(m, w, k), View(m, w, k, i) # Absent
                 PROVE  Agrees(View(m, w, k, i), x)
      BY DEF Agrees
    <2> DEFINE v == View(m, w, k, i)
    <2>1. /\ o.status.reason # "None" =>
               o.uid <= v.uid /\ (o.uid = v.uid => o.status.obs <= v.gen)
          /\ v.status.reason # "None" =>
               v.uid <= o.uid /\ (v.uid = o.uid => v.status.obs <= o.gen)
      BY <1>1, <1>3 DEF ObservedIsSeen
    <2>2. (/\ SaysExported(o) /\ o.spec.profile \in Invalid /\ v.uid = o.uid
           /\ v.status.obs = o.gen /\ v.status.reason # "None")
            => v.status = o.status
      BY DEF InvalidIsSeen, o
    <2>3. v \in ExportVersion
      BY <1>1
    <2> HIDE DEF v
    <2>4. v # Absent
      BY DEF v
    <2>5. Agrees(v, x)
      BY <1>6, <2>1, <2>2, <2>3, <2>4
    <2> QED  BY <2>5 DEF v
  <1>8. Agrees(x, x)
    <2>1. x.status.reason # "None" => x.status.obs <= x.gen
      BY <1>3, <1>4, <1>5
    <2> QED  BY <1>4, <2>1 DEF Agrees
  <1> QED  BY <1>2, <1>7, <1>8, ObservedAppend

(* The stored version goes. *)
LEMMA ObservedVanish ==
  ASSUME NEW m, NEW w, Tracked(Export, ExportVersion, m, w),
         ObservedIsSeen(m, w), InvalidIsSeen(m, w), NEW k \in Export
  PROVE  /\ ObservedIsSeen(Appended(m, k, Absent), w)
         /\ InvalidIsSeen(Appended(m, k, Absent), w)
  BY ObservedAppend DEF Agrees, ExportVersion

(* An export is created, without a status. *)
LEMMA ObservedCreate ==
  ASSUME NEW m, NEW w, Tracked(Export, ExportVersion, m, w),
         ObservedIsSeen(m, w), InvalidIsSeen(m, w),
         NEW k \in Export, NEW x \in ExportObject, x.status.reason = "None",
         NEW last \in Nat, Lineage(m, w, Export, last), x.uid = last + 1
  PROVE  ObservedIsSeen(Appended(m, k, x), w) /\ InvalidIsSeen(Appended(m, k, x), w)
  <1>1. \A i \in Views(m, w, k) : Agrees(View(m, w, k, i), x)
    <2> SUFFICES ASSUME NEW i \in Views(m, w, k), View(m, w, k, i) # Absent
                 PROVE  Agrees(View(m, w, k, i), x)
      BY DEF Agrees
    <2>1. View(m, w, k, i).uid \in Nat
      BY ViewType
    <2>2. View(m, w, k, i).uid <= last
      BY DEF Lineage, Issued
    <2> QED  BY <2>1, <2>2 DEF Agrees, SaysExported
  <1>2. Agrees(x, x)
    BY DEF Agrees, SaysExported
  <1> QED  BY <1>1, <1>2, ObservedAppend DEF ExportVersion

(* Reconcile w reports on the version that is both cached and stored, and   *)
(* ends: what it worked with was no later, and not refused if it says       *)
(* Exported.                                                                *)
LEMMA ObservedReport ==
  ASSUME NEW m, NEW w, Tracked(Export, ExportVersion, m, w),
         ObservedIsSeen(m, w), InvalidIsSeen(m, w),
         NEW last, Lineage(m, w, Export, last),
         NEW k \in Export, Busy(w, k), NEW u, u.pc = "idle", NEW o, NEW x \in ExportObject,
         o = Stored(m[k]), o = Cached(m[k]), Continuation(o, x),
         x.gen = o.gen, x.spec = o.spec, x.status.obs = o.gen,
         x.status.reason = "Exported" => w.item.spec.profile \notin Invalid
  PROVE  ObservedIsSeen(Appended(m, k, x), u) /\ InvalidIsSeen(Appended(m, k, x), u)
  <1>1. Follows(w, u)
    BY DEF Follows
  <1>2. SeesNoMore(m, w, m, u, Export) /\ Tracked(Export, ExportVersion, m, u)
    BY <1>1, FewerFollow
  <1>3. ObservedIsSeen(m, u) /\ InvalidIsSeen(m, u)
    BY <1>2, ObservedFewer
  <1>4. x \in ExportVersion /\ x # Absent /\ o # Absent /\ x.uid = o.uid
    BY ObjectType DEF Continuation, ExportVersion
  <1>5. x.uid \in Nat /\ x.gen \in Nat
    BY <1>4, StatusType
  <1>6. ASSUME NEW i \in Views(m, u, k), View(m, u, k, i) # Absent
        PROVE  Agrees(View(m, u, k, i), x)
    <2> DEFINE v == View(m, u, k, i)
               item == w.item
    <2>1. /\ i \in Places(m[k]) /\ i \in Nat /\ 1 <= i /\ i <= Len(m[k])
          /\ v = m[k][i] /\ m[k][1] = o /\ 1 \in Places(m[k])
          /\ Len(m[k]) \in Places(m[k]) /\ m[k][Len(m[k])] = o /\ Len(m[k]) \in Nat
      <3>1. i \in Places(m[k])
        BY DEF Views, Busy
      <3>2. m \in VersionMaps(Export, ExportVersion)
        BY DEF Tracked
      <3>3. /\ i \in Nat /\ 1 <= i /\ i <= Len(m[k])
            /\ m[k][1] = o /\ 1 \in Places(m[k])
            /\ Len(m[k]) \in Places(m[k]) /\ m[k][Len(m[k])] = o /\ Len(m[k]) \in Nat
        <4>1. /\ Len(m[k]) \in Nat
              /\ 1 \in Places(m[k]) /\ Len(m[k]) \in Places(m[k])
              /\ \A j \in Places(m[k]) : j \in Nat /\ 1 <= j /\ j <= Len(m[k])
          <5> HIDE DEF v, item
          <5> QED  BY <3>2, MapEnds
        <4>2. View(m, w, k, 1) = Cached(m[k]) /\ View(m, w, k, 1) = m[k][1]
          BY ViewType DEF View
        <4>3. Stored(m[k]) = m[k][Len(m[k])]
          BY DEF Stored
        <4> QED  BY <3>1, <4>1, <4>2, <4>3
      <3> QED  BY <3>1, <3>3 DEF View
    <2>2. /\ i \in Views(m, w, k) /\ View(m, w, k, i) = v
          /\ 1 \in Views(m, w, k) /\ View(m, w, k, 1) = o
          /\ Len(m[k]) \in Views(m, w, k) /\ View(m, w, k, Len(m[k])) = o
          /\ 0 \in Views(m, w, k) /\ View(m, w, k, 0) = item
      BY <2>1 DEF Views, View
    <2>3. v \in ExportVersion /\ item \in ExportVersion /\ item # Absent /\ o \in ExportVersion
      BY <2>2, ViewType
    <2> HIDE DEF v, item
    <2>4. v # Absent
      BY <1>6 DEF v
    <2>5. /\ v.uid \in Nat /\ v.gen \in Nat /\ v.status.obs \in Nat
          /\ o.uid \in Nat /\ o.gen \in Nat
          /\ item.uid \in Nat /\ item.gen \in Nat
      BY <1>4, <2>3, <2>4, StatusType
    <2>6. Precedes(o, v) /\ Precedes(item, o)
      BY <2>1, <2>2 DEF Lineage, Ordered
    <2>7. v.status.reason # "None" =>
            /\ v.uid <= o.uid /\ (v.uid = o.uid => v.status.obs <= o.gen)
            /\ v.uid <= item.uid /\ (v.uid = item.uid => v.status.obs <= item.gen)
      BY <1>4, <2>2, <2>3, <2>4 DEF ObservedIsSeen
    <2>8. o.uid <= v.uid /\ (o.uid = v.uid => o.gen <= v.gen)
      BY <1>4, <2>4, <2>6 DEF Precedes
    <2>9. /\ item.uid <= o.uid
          /\ item.uid = o.uid =>
               item.gen <= o.gen /\ (item.gen = o.gen => item.spec = o.spec)
      BY <1>4, <2>3, <2>6 DEF Precedes
    <2>10. ASSUME x.status.reason = "Exported", x.spec.profile \in Invalid,
                  v.uid = x.uid, v.status.obs = x.gen, v.status.reason # "None"
           PROVE  FALSE
      <3>1. item.uid = o.uid /\ item.gen = o.gen
        BY <1>4, <2>5, <2>7, <2>9, <2>10
      <3>2. item.spec.profile \notin Invalid
        BY <2>10 DEF item
      <3> QED  BY <2>9, <2>10, <3>1, <3>2
    <2>11. Agrees(v, x)
      BY <1>4, <1>5, <2>5, <2>7, <2>8, <2>10 DEF Agrees, SaysExported
    <2> QED  BY <2>11 DEF v
  <1>7. \A i \in Views(m, u, k) : Agrees(View(m, u, k, i), x)
    BY <1>6 DEF Agrees
  <1>8. Agrees(x, x)
    BY <1>5 DEF Agrees
  <1> QED  BY <1>2, <1>3, <1>4, <1>7, <1>8, ObservedAppend

(* What holds whatever Secrets Reconcile looks at *)
BaseInv ==
  /\ ExportInv /\ WorkerFits /\ SecretsDescribed
  /\ ObservedIsSeen(exportVersions, worker) /\ InvalidIsSeen(exportVersions, worker)

(* UpdateStatus reports the generation that is cached and stored. *)
LEMMA ReportFacts ==
  ASSUME KnownInv, UpdateStatus
  PROVE  LET o == Stored(exportVersions[worker.key])
             x == [o EXCEPT !.status = NewStatus(o)]
         IN  /\ x \in ExportObject /\ x.gen = o.gen /\ x.spec = o.spec
             /\ x.deleting = o.deleting
             /\ x.status.obs = o.gen /\ x.status.reason = worker.reason
             /\ o = Cached(exportVersions[worker.key]) /\ worker.pc = "updateStatus"
  <1> DEFINE o == Stored(exportVersions[worker.key])
             status == NewStatus(o)
             x == [o EXCEPT !.status = status]
  <1>1. o \in ExportObject /\ x \in ExportObject
    BY StatusIsContinue
  <1>2. status.obs = o.gen /\ status.reason = worker.reason
    BY DEF NewStatus
  <1>3. o = Cached(exportVersions[worker.key]) /\ worker.pc = "updateStatus"
    BY DEF UpdateStatus
  <1> HIDE DEF status, o
  <1>4. /\ x.gen = o.gen /\ x.spec = o.spec /\ x.deleting = o.deleting
        /\ x.status = status
    BY <1>1 DEF ExportObject
  <1> QED  BY <1>1, <1>2, <1>3, <1>4 DEF o, status

(* A write that continues the stored version with its status, and one that  *)
(* removes it; Reconcile goes on or ends.                                   *)
LEMMA SeenContinues ==
  ASSUME TypeOK, Follows(worker, worker'), NEW e \in Export, NEW x \in ExportVersion,
         StoreExport(e, x),
         ObservedIsSeen(exportVersions, worker), InvalidIsSeen(exportVersions, worker),
         x # Absent =>
           /\ \/ Continuation(Stored(exportVersions[e]), x)
              \/ Finalized(Stored(exportVersions[e]), x)
           /\ x.status = Stored(exportVersions[e]).status
  PROVE  (ObservedIsSeen(exportVersions, worker) /\ InvalidIsSeen(exportVersions, worker))'
  <1>1. /\ Tracked(Export, ExportVersion, exportVersions, worker)
        /\ exportVersions' = Appended(exportVersions, e, x)
    BY VersionsType, StoreIsAppend
  <1>2. /\ SeesNoMore(exportVersions, worker, exportVersions, worker', Export)
        /\ Tracked(Export, ExportVersion, exportVersions, worker')
    BY <1>1, FewerFollow
  <1>3. ObservedIsSeen(exportVersions, worker') /\ InvalidIsSeen(exportVersions, worker')
    BY <1>2, ObservedFewer
  <1>4. CASE x = Absent
    BY <1>1, <1>2, <1>3, <1>4, ObservedVanish
  <1>5. CASE x # Absent
    <2>1. x \in ExportObject
      BY <1>5 DEF ExportVersion
    <2> QED  BY <1>1, <1>2, <1>3, <1>5, <2>1, ObservedContinue
  <1> QED  BY <1>4, <1>5

(* Every step. *)
LEMMA StepSeen ==
  ASSUME BaseInv, [Next]_vars
  PROVE  (ObservedIsSeen(exportVersions, worker) /\ InvalidIsSeen(exportVersions, worker))'
  <1> DEFINE Seen == ObservedIsSeen(exportVersions, worker)
                     /\ InvalidIsSeen(exportVersions, worker)
  <1>1. /\ ExportInv /\ KnownInv /\ TypeOK /\ Seen /\ WorkerFits
        /\ Tracked(Export, ExportVersion, exportVersions, worker)
    BY ExportParts DEF BaseInv, ExportInv
  <1>2. ASSUME SeesNoMore(exportVersions, worker, exportVersions', worker', Export)
        PROVE  Seen'
    BY <1>1, <1>2, ObservedFewer
  <1>3. ASSUME UNCHANGED exportVersions, Follows(worker, worker') PROVE Seen'
    BY <1>1, <1>2, <1>3, FewerFollow
  <1> SUFFICES Seen'
    OBVIOUS
  <1> HIDE DEF Seen
  <1>4. CASE WorkerStep
    <2>1. CASE \/ SpecError \/ MissingCluster \/ MissingConnection \/ FoundDependencies
               \/ GetPreviousTarget \/ GetTarget \/ ReuseSecret \/ ReplaceSecret
               \/ GenerateKubeconfig \/ GenerateFails
      BY <1>1, <1>3, <2>1, KnownLook
    <2>2. CASE DeletePreviousTarget \/ WriteSecret \/ DeleteTarget
      BY <1>1, <1>3, <2>2, KnownCall
    <2>3. CASE StatusUnchanged \/ CallFails
      BY <1>1, <1>3, <2>3, KnownEnds
    <2>4. CASE AddFinalizer
      <3> DEFINE x == [worker.item EXCEPT !.fins = {Finalizer}]
                 o == Stored(exportVersions[worker.key])
      <3>1. /\ worker.key \in Export /\ x \in ExportObject /\ StoreExport(worker.key, x)
            /\ Finalized(o, x) /\ x.status = o.status /\ Follows(worker, worker')
        BY <1>1, <2>4, AddIsFinalize
      <3> HIDE DEF x
      <3>2. x \in ExportVersion
        BY <3>1 DEF ExportVersion
      <3> QED  BY <1>1, <3>1, <3>2, SeenContinues DEF Seen
    <2>5. CASE RemoveFinalizer
      <3>1. /\ worker.key \in Export /\ StoreExport(worker.key, Absent)
            /\ Follows(worker, worker')
        BY <1>1, <2>5, RemoveIsVanish
      <3>2. Absent \in ExportVersion
        BY DEF ExportVersion
      <3> QED  BY <1>1, <3>1, <3>2, SeenContinues DEF Seen
    <2>6. CASE UpdateStatus
      <3> DEFINE k == worker.key
                 o == Stored(exportVersions[k])
                 x == [o EXCEPT !.status = NewStatus(o)]
      <3>1. /\ k \in Export /\ Busy(worker, k) /\ x \in ExportObject /\ StoreExport(k, x)
            /\ Continuation(o, x) /\ worker' = IdleWorker
        BY <1>1, <2>6, StatusIsContinue
      <3>2. /\ x.gen = o.gen /\ x.spec = o.spec
            /\ x.status.obs = o.gen /\ x.status.reason = worker.reason
            /\ o = Cached(exportVersions[k]) /\ worker.pc = "updateStatus"
        BY <1>1, <2>6, ReportFacts
      <3> HIDE DEF x
      <3>3. worker.reason = "Exported" => worker.item.spec.profile \notin Invalid
        BY <1>1, <3>2 DEF WorkerFits
      <3>4. Lineage(exportVersions, worker, Export, lastUid)
        BY <1>1, ExportParts DEF InCustody, Custody
      <3>5. exportVersions' = Appended(exportVersions, k, x)
        <4>1. x \in ExportVersion
          BY <3>1 DEF ExportVersion
        <4> QED  BY <1>1, <3>1, <4>1, StoreIsAppend
      <3>6. PICK u : u = worker' /\ u.pc = "idle"
        BY <3>1 DEF IdleWorker
      <3>7. PICK m, w : m = exportVersions /\ w = worker
        OBVIOUS
      <3>8. PICK key \in Export : key = k
        BY <3>1
      <3>9. /\ Tracked(Export, ExportVersion, m, w) /\ ObservedIsSeen(m, w)
            /\ InvalidIsSeen(m, w) /\ Lineage(m, w, Export, lastUid) /\ Busy(w, key)
            /\ o = Stored(m[key]) /\ o = Cached(m[key]) /\ Continuation(o, x)
            /\ x.gen = o.gen /\ x.spec = o.spec /\ x.status.obs = o.gen
            /\ x.status.reason = "Exported" => w.item.spec.profile \notin Invalid
            /\ x \in ExportObject
        BY <1>1, <3>1, <3>2, <3>3, <3>4, <3>7, <3>8 DEF Seen
      <3> HIDE DEF o
      <3>10. ObservedIsSeen(Appended(m, key, x), u) /\ InvalidIsSeen(Appended(m, key, x), u)
        BY <3>6, <3>9, ObservedReport
      <3> QED  BY <3>5, <3>6, <3>7, <3>8, <3>10 DEF Seen
    <2> QED  BY <1>4, <2>1, <2>2, <2>3, <2>4, <2>5, <2>6 DEF WorkerStep, CallSucceeds
  <1>5. ASSUME NEW e \in Export, Reconcile(e) PROVE Seen'
    <2>1. \/ UNCHANGED <<exportVersions, worker>>
          \/ /\ UNCHANGED exportVersions
             /\ worker.pc = "idle" /\ worker'.key = e
             /\ worker'.item = Cached(exportVersions[e])
             /\ Cached(exportVersions[e]) # Absent
      BY <1>1, <1>5, KnownBegin
    <2>2. CASE UNCHANGED <<exportVersions, worker>>
      BY <1>3, <2>2 DEF Follows
    <2>3. CASE /\ UNCHANGED exportVersions
               /\ worker.pc = "idle" /\ worker'.key = e
               /\ worker'.item = Cached(exportVersions[e])
               /\ Cached(exportVersions[e]) # Absent
      <3>1. SeesNoMore(exportVersions, worker, exportVersions, worker', Export)
        BY <1>1, <2>3, FewerBegin
      <3> QED  BY <1>2, <2>3, <3>1
    <2> QED  BY <2>1, <2>2, <2>3
  <1>6. ASSUME NEW e \in Export, DeliverExport(e) PROVE Seen'
    <2>1. /\ Len(exportVersions[e]) > 1 /\ UNCHANGED worker
          /\ exportVersions' = Delivered(exportVersions, e)
      BY <1>1, <1>6, KnownDeliver
    <2> QED  BY <1>1, <1>2, <2>1, FewerDeliver
  <1>7. ASSUME NEW e \in Export, CreateExport(e) PROVE Seen'
    <2>1. PICK x \in ExportObject :
            /\ StoreExport(e, x) /\ x.uid = lastUid + 1 /\ x.status.reason = "None"
            /\ UNCHANGED worker
      BY <1>1, <1>7, CreateIsNew
    <2>2. Lineage(exportVersions, worker, Export, lastUid) /\ lastUid \in Nat
      BY <1>1, ExportParts DEF InCustody, Custody
    <2>3. exportVersions' = Appended(exportVersions, e, x)
      <3>1. x \in ExportVersion
        BY DEF ExportVersion
      <3> QED  BY <1>1, <2>1, <3>1, StoreIsAppend
    <2>4. /\ ObservedIsSeen(Appended(exportVersions, e, x), worker)
          /\ InvalidIsSeen(Appended(exportVersions, e, x), worker)
      BY <1>1, <2>1, <2>2, ObservedCreate DEF Seen
    <2> QED  BY <2>1, <2>3, <2>4 DEF Seen
  <1>8. ASSUME NEW e \in Export, UpdateExport(e) PROVE Seen'
    <2>1. PICK x \in ExportObject :
            /\ StoreExport(e, x) /\ Continuation(Stored(exportVersions[e]), x)
            /\ x.status = Stored(exportVersions[e]).status /\ Follows(worker, worker')
      BY <1>1, <1>8, UpdateIsContinue
    <2>2. x \in ExportVersion
      BY DEF ExportVersion
    <2> QED  BY <1>1, <2>1, <2>2, SeenContinues DEF Seen
  <1>9. ASSUME NEW e \in Export, DeleteExport(e) PROVE Seen'
    <2> DEFINE o == Stored(exportVersions[e])
    <2>1. /\ Follows(worker, worker')
          /\ \E x \in ExportVersion :
               /\ StoreExport(e, x)
               /\ o.fins = {} => x = Absent
               /\ o.fins # {} => Continuation(o, x)
               /\ x # Absent => x.uid = o.uid /\ x.spec = o.spec /\ x.status = o.status
      BY <1>1, <1>9, DeleteIsSettle
    <2>2. PICK x \in ExportVersion :
               /\ StoreExport(e, x)
               /\ x # Absent => Continuation(o, x) /\ x.status = o.status
      BY <2>1
    <2> QED  BY <1>1, <2>1, <2>2, SeenContinues DEF Seen
  <1>10. CASE \/ \E e \in Export : DeliverNotice(e) \/ FireTimer(e)
              \/ \E k \in Connection : ChangeConnection(k)
              \/ ChangeCluster \/ Tick
    BY <1>1, <1>3, <1>10, KnownChange
  <1>11. ASSUME NEW s \in Secret, TamperSecret(s) \/ DeleteSecret(s) \/ CreateSecret(s)
         PROVE  Seen'
    <2>1. Follows(worker, worker') /\ UNCHANGED exportVersions
      BY <1>1, <1>11, KnownUser
    <2> QED  BY <1>3, <2>1
  <1>12. CASE Restart
    <2>1. /\ worker'.pc = "idle" /\ exportVersions' = Relisted(exportVersions, Export)
      BY <1>1, <1>12, KnownRestart
    <2> QED  BY <1>1, <1>2, <2>1, FewerRestart
  <1>13. CASE UNCHANGED vars
    <2>1. UNCHANGED <<exportVersions, worker>>
      BY <1>13 DEF vars
    <2> QED  BY <1>3, <2>1 DEF Follows
  <1> QED
    BY <1>4, <1>5, <1>6, <1>7, <1>8, <1>9, <1>10, <1>11, <1>12, <1>13 DEF Next, Seen

(* Every step keeps what holds whatever Secrets Reconcile looks at. *)
LEMMA StepBase == BaseInv /\ [Next]_vars => BaseInv'
  <1> SUFFICES ASSUME BaseInv, [Next]_vars PROVE BaseInv'
    OBVIOUS
  <1>1. ExportInv /\ KnownInv /\ WorkerFits /\ SecretsDescribed
    BY DEF BaseInv, ExportInv
  <1>2. ExportInv'
    BY <1>1, StepExport
  <1>3. WorkerFits'
    BY <1>1, StepFits
  <1>4. SecretsDescribed'
    BY <1>1, StepDescribed
  <1> QED  BY <1>2, <1>3, <1>4, StepSeen DEF BaseInv

(* The inductive invariant: the versions of the exports and the requests    *)
(* that are due, what Reconcile has found out and means to report, and the  *)
(* status that is stored.                                                   *)
HonestInv ==
  BaseInv /\ WorkerAims /\ ExportTold /\ WorkerFresh /\ WorkerExported /\ ReportIsHonest

(* The parts that the proofs below cite most *)
LEMMA HonestParts ==
  ASSUME HonestInv
  PROVE  /\ ExportInv /\ KnownInv /\ TypeOK /\ WorkerFits /\ SecretsDescribed
         /\ Tracked(Export, ExportVersion, exportVersions, worker)
         /\ exportVersions \in VersionMaps(Export, ExportVersion)
         /\ Told(exportVersions, worker, queue, Export)
         /\ ChangesTell(exportVersions, Export)
         /\ WorkerTold(exportVersions, worker, queue)
         /\ worker.cluster # Absent => worker.pc # "idle"
         /\ worker.pc # "idle" =>
              worker.key \in Export /\ Busy(worker, worker.key)
              /\ worker.item \in ExportObject /\ worker.item # Absent
  <1>1. ExportInv /\ KnownInv /\ TypeOK /\ WorkerFits /\ SecretsDescribed /\ ExportTold
    BY DEF HonestInv, BaseInv, ExportInv, KnownInv
  <1>2. Tracked(Export, ExportVersion, exportVersions, worker)
        /\ exportVersions \in VersionMaps(Export, ExportVersion)
    BY <1>1, VersionsType DEF Tracked
  <1>3. worker.cluster # Absent => worker.pc # "idle"
    <2> SUFFICES ASSUME worker.pc = "idle" PROVE worker.cluster = Absent
      OBVIOUS
    <2>1. worker = IdleWorker
      BY <1>1 DEF TypeOK, BusyWorker
    <2> QED  BY <2>1 DEF IdleWorker
  <1> QED  BY <1>1, <1>2, <1>3, BusyType, ObjectType DEF ExportTold, Told, Busy

(* A request that is due is pending. *)
LEMMA DueIsPending ==
  ASSUME HonestInv, NEW e \in Export, ExportDue(e)
  PROVE  Pending(e)
  <1>1. Len(exportVersions[e]) \in Nat
    BY HonestParts, MapEnds
  <1>2. Announced(exportVersions[e], 1) =>
          \E i \in 1 .. Len(exportVersions[e]) - 1 :
            EventPasses(exportVersions[e][i], exportVersions[e][i + 1])
    BY <1>1 DEF Announced, Places
  <1> QED  BY <1>2 DEF ExportDue, Due, Busy, Pending

(* What is reported as exported is there, and its rotation is scheduled. *)
LEMMA HonestExport == HonestInv => ExportIsHonest /\ RotationScheduled
  <1> SUFFICES ASSUME HonestInv PROVE ExportIsHonest /\ RotationScheduled
    OBVIOUS
  <1>1. ASSUME NEW e \in Export, ReportsExported(e), ~Pending(e) PROVE Exported(e)
    BY <1>1, DueIsPending, Zenon DEF HonestInv, ReportIsHonest
  <1>2. ExportIsHonest
    BY <1>1, KubeconfigAssumption DEF ExportIsHonest, Exported, Holds
  <1>3. RotationScheduled
    BY <1>1 DEF RotationScheduled, Exported
  <1> QED  BY <1>2, <1>3

(* The Secret that is updated is the one that the spec names, at every      *)
(* step.                                                                    *)
LEMMA StepAims ==
  ASSUME KnownInv, WorkerAims, ReadsItsOwn, [Next]_vars
  PROVE  WorkerAims'
  <1> DEFINE Looks == \/ SpecError \/ MissingCluster \/ MissingConnection
                      \/ FoundDependencies \/ GetPreviousTarget \/ GetTarget
                      \/ ReuseSecret \/ ReplaceSecret
                      \/ GenerateKubeconfig \/ GenerateFails
             Calls == DeletePreviousTarget \/ WriteSecret \/ DeleteTarget
  <1>1. CASE Looks
    <2>1. /\ worker'.item = worker.item
          /\ \/ worker'.pc \in {"updateStatus", "getPrevious", "deletePrevious",
                                "getSecret", "deleteTarget", "removeFinalizer"}
             \/ /\ worker.pc = "getSecret"
                /\ worker'.secret = secrets[TargetSecret(worker.item)]
             \/ worker.pc = "generate" /\ worker'.secret = worker.secret
      BY <1>1, LookFields
    <2> QED  BY <2>1 DEF WorkerAims, ReadsItsOwn, TargetSecret
  <1>2. CASE Calls
    <2>1. worker'.pc \in {"getSecret", "removeFinalizer", "updateStatus"}
      BY <1>2, CallFields
    <2> QED  BY <2>1 DEF WorkerAims
  <1>3. CASE ~Looks /\ ~Calls
    <2>1. \/ UNCHANGED worker
          \/ worker'.pc \in {"idle", "addFinalizer", "checkSpec", "getTarget",
                             "removeFinalizer"}
      BY <1>3, OthersKeepWorker
    <2> QED  BY <2>1 DEF WorkerAims, TargetSecret
  <1> QED  BY <1>1, <1>2, <1>3

(* The exports that Reconcile sees in the cache are the stored ones, unless *)
(* a request is due anyway.                                                 *)
LEMMA CacheWillDo ==
  ASSUME HonestInv, NEW e \in Export
  PROVE  LET c == Cached(exportVersions[e])
             o == Stored(exportVersions[e])
         IN  /\ o # Absent /\ ~Due(exportVersions, worker, queue, e) => c # Absent
             /\ ~Announced(exportVersions[e], 1) => SameContent(c, o)
             /\ Busy(worker, e) /\ e \notin queue
                  => c # Absent /\ SameContent(worker.item, c)
  <1> DEFINE c == Cached(exportVersions[e])
             o == Stored(exportVersions[e])
  <1>1. ~Announced(exportVersions[e], 1) => SameContent(c, o)
    BY HonestParts, CacheIsStored
  <1>2. ASSUME o # Absent, ~Due(exportVersions, worker, queue, e) PROVE c # Absent
    BY <1>1, <1>2 DEF SameContent, Due
  <1>3. ASSUME Busy(worker, e), e \notin queue
        PROVE  c # Absent /\ SameContent(worker.item, c)
    <2>1. SameContent(worker.item, c) /\ worker.item # Absent
      BY <1>3, HonestParts DEF WorkerTold, Busy
    <2> QED  BY <2>1 DEF SameContent
  <1> QED  BY <1>1, <1>2, <1>3

-----------------------------------------------------------------------------

(* Reconcile goes on or ends, and the queue may grow; no request is lost.   *)
LEMMA DueFollows ==
  ASSUME HonestInv, Follows(worker, worker'), queue \subseteq queue',
         UNCHANGED exportVersions,
         worker.pc # "idle" => worker'.pc # "idle" \/ worker.key \in queue'
  PROVE  /\ ExportTold'
         /\ \A e \in Export : Due(exportVersions, worker, queue, e)
                                => Due(exportVersions', worker', queue', e)
  <1>1. /\ Told(exportVersions, worker', queue', Export)
        /\ \A e \in Export :
             Due(exportVersions, worker, queue, e)
               /\ (Busy(worker, e) => Busy(worker', e) \/ e \in queue')
                 => Due(exportVersions, worker', queue', e)
    BY HonestParts, ToldFollow
  <1>2. \A e \in Export : Busy(worker, e) => Busy(worker', e) \/ e \in queue'
    BY DEF Busy, Follows
  <1> QED  BY <1>1, <1>2 DEF ExportTold

(* No stored version changes; what a status promises changes for those      *)
(* alone that are due.                                                      *)
LEMMA HonestStays ==
  ASSUME ReportIsHonest,
         \A e \in Export :
           LET o == Stored(exportVersions[e])
           IN  /\ Stored(exportVersions'[e]) = o
               /\ o # Absent /\ ExportDue(e) => ExportDue(e)'
               /\ o # Absent /\ Exported(e) =>
                    \/ ExportDue(e)'
                    \/ /\ secrets'[o.spec.target] = secrets[o.spec.target]
                       /\ cluster' = cluster /\ timer'[e] = timer[e]
  PROVE  ReportIsHonest'
  <1> SUFFICES ASSUME NEW e \in Export, ReportsExported(e)', ~ExportDue(e)'
               PROVE  Exported(e)'
    BY DEF ReportIsHonest
  <1> DEFINE o == Stored(exportVersions[e])
  <1>1. Stored(exportVersions'[e]) = o
    OBVIOUS
  <1>2. ReportsExported(e) /\ o # Absent /\ ~ExportDue(e)
    BY <1>1 DEF ReportsExported
  <1>3. Exported(e)
    BY <1>2 DEF ReportIsHonest
  <1>4. /\ secrets'[o.spec.target] = secrets[o.spec.target]
        /\ cluster' = cluster /\ timer'[e] = timer[e]
    BY <1>2, <1>3
  <1> QED  BY <1>1, <1>3, <1>4 DEF Exported

(* The export k is written.                                                 *)
LEMMA HonestWrites ==
  ASSUME ReportIsHonest, NEW k \in Export, NEW x,
         Stored(exportVersions'[k]) = x, UNCHANGED <<secrets, cluster>>,
         \A e \in Export \ {k} : /\ exportVersions'[e] = exportVersions[e]
                                 /\ timer'[e] = timer[e]
                                 /\ ExportDue(e) => ExportDue(e)',
         \/ ExportDue(k)'
         \/ ~SaysExported(x)
         \/ Exported(k)'
  PROVE  ReportIsHonest'
  <1> SUFFICES ASSUME NEW e \in Export, ReportsExported(e)', ~ExportDue(e)'
               PROVE  Exported(e)'
    BY DEF ReportIsHonest
  <1>1. CASE e = k
    <2>1. SaysExported(x)
      BY <1>1 DEF ReportsExported, SaysExported
    <2> QED  BY <1>1, <2>1
  <1>2. CASE e # k
    <2>1. /\ exportVersions'[e] = exportVersions[e] /\ timer'[e] = timer[e]
          /\ ~ExportDue(e)
      BY <1>2
    <2>2. ReportsExported(e)
      BY <2>1 DEF ReportsExported
    <2>3. Exported(e)
      BY <2>1, <2>2 DEF ReportIsHonest
    <2> QED  BY <2>1, <2>3 DEF Exported
  <1> QED  BY <1>1, <1>2

(* Whoever wrote a Secret hears of a change of it.                          *)
LEMMA TouchedIsDue ==
  ASSUME HonestInv, NEW s \in Secret, Touches(s),
         NEW e \in Export, Stored(exportVersions[e]) # Absent, Exported(e)
  PROVE  LET o == Stored(exportVersions[e])
         IN  ExportDue(e)' \/ secrets'[o.spec.target] = secrets[o.spec.target]
  <1> DEFINE t == Stored(exportVersions[e]).spec.target
  <1>1. t \in Secret
    BY HonestParts, VersionsType, ObjectType DEF ExportVersion
  <1>2. secrets[t] # Absent /\ secrets[t].export = e /\ e # Absent
    BY KubeconfigAssumption DEF Exported, Holds
  <1>3. CASE t = s
    BY <1>2, <1>3 DEF Touches, ExportDue
  <1>4. CASE t # s
    BY <1>1, <1>4 DEF Touches
  <1> QED  BY <1>3, <1>4

(* No export is written, and the cluster is the same: whoever is due stays  *)
(* due, and what a status promises changes for those alone that are.        *)
LEMMA HonestQuiet ==
  ASSUME HonestInv, BaseInv', Follows(worker, worker'), queue \subseteq queue',
         notices \subseteq notices' \cup queue', UNCHANGED <<exportVersions, cluster>>,
         worker.pc # "idle" => worker'.pc # "idle" \/ worker.key \in queue',
         \A e \in Export :
           LET o == Stored(exportVersions[e])
           IN  o # Absent /\ Exported(e) =>
                 \/ ExportDue(e)'
                 \/ /\ secrets'[o.spec.target] = secrets[o.spec.target]
                    /\ timer'[e] = timer[e],
         WorkerAims', WorkerFresh', WorkerExported'
  PROVE  HonestInv'
  <1>1. /\ ExportTold'
        /\ \A e \in Export : Due(exportVersions, worker, queue, e)
                               => Due(exportVersions', worker', queue', e)
    BY DueFollows
  <1>2. \A e \in Export : ExportDue(e) => ExportDue(e)'
    BY <1>1 DEF ExportDue, Due
  <1>3. ReportIsHonest'
    BY <1>2, HonestStays DEF HonestInv
  <1> QED  BY <1>1, <1>3 DEF HonestInv

(* An idle worker has nothing to be held to.                                *)
LEMMA IdleIsFresh ==
  ASSUME worker' = IdleWorker
  PROVE  worker'.pc = "idle" /\ WorkerAims' /\ WorkerFresh' /\ WorkerExported'
  <1>1. worker'.pc = "idle" /\ worker'.cluster = Absent
    BY DEF IdleWorker
  <1> QED  BY <1>1 DEF WorkerAims, WorkerFresh, WorkerExported

(* What Reconcile has read of the cluster and the clock stays true.         *)
LEMMA FreshStays ==
  ASSUME WorkerFresh, UNCHANGED <<cluster, now>>, queue \subseteq queue',
         worker'.cluster = worker.cluster, worker'.at = worker.at,
         worker'.key = worker.key
  PROVE  WorkerFresh'
  BY DEF WorkerFresh

(* What Reconcile is about to report stays true, or there will be an event. *)
LEMMA ExportedStays ==
  ASSUME HonestInv, UNCHANGED worker, queue \subseteq queue',
         notices \subseteq notices' \cup queue',
         UNCHANGED secrets \/ \E s \in Secret : Touches(s)
  PROVE  WorkerExported'
  <1> SUFFICES ASSUME worker.pc = "updateStatus", worker.reason = "Exported",
                      worker.key \notin queue' \cup notices'
               PROVE  LET secret == secrets'[worker.item.spec.target]
                      IN  /\ Holds(secret, worker.key, worker.item.spec,
                                   worker.cluster.name)
                          /\ worker.delay \in Nat
                          /\ worker.at + worker.delay + RenewBefore <= secret.hash.exp
    BY DEF WorkerExported
  <1> DEFINE t == worker.item.spec.target
             secret == secrets[t]
  <1>1. /\ Holds(secret, worker.key, worker.item.spec, worker.cluster.name)
        /\ worker.delay \in Nat
        /\ worker.at + worker.delay + RenewBefore <= secret.hash.exp
    BY DEF HonestInv, WorkerExported
  <1>2. secrets'[t] = secret
    <2>1. t \in Secret /\ worker.key # Absent
      BY HonestParts, ObjectType, KubeconfigAssumption
    <2>2. secret # Absent /\ secret.export = worker.key
      BY <1>1 DEF Holds
    <2>3. ASSUME NEW s \in Secret, Touches(s) PROVE secrets'[t] = secret
      <3>1. secrets[s] # Absent /\ secrets[s].export # Absent
              => secrets[s].export \in notices'
        BY <2>3 DEF Touches
      <3>2. t # s
        BY <2>1, <2>2, <3>1, Zenon
      <3> QED  BY <2>1, <2>3, <3>2 DEF Touches
    <2> QED  BY <2>3
  <1> HIDE DEF t, secret
  <1> QED  BY <1>1, <1>2 DEF t

(* A current Secret is one that holds what the export wants.                *)
LEMMA CurrentHolds ==
  ASSUME HonestInv, ReadsItsOwn, worker.pc = "getSecret",
         CurrentKubeconfigSecretState(worker.item, secrets[TargetSecret(worker.item)],
                                      worker.cluster.name),
         NEW secret, secret = secrets[TargetSecret(worker.item)]
  PROVE  /\ TargetSecret(worker.item) = worker.item.spec.target
         /\ Holds(secret, worker.key, worker.item.spec, worker.cluster.name)
         /\ RequeueAfter(secret.hash.exp) \in Nat
         /\ worker.at + RequeueAfter(secret.hash.exp) + RenewBefore <= secret.hash.exp
  <1> DEFINE item == worker.item
             name == worker.cluster.name
  <1>1. /\ worker \in BusyWorker /\ item \in ExportObject /\ item.spec.key \in Key
        /\ TargetSecret(item) \in Secret
    BY HonestParts, BusyType, ObjectType
  <1>2. /\ secret # Absent /\ secret.data[item.spec.key] # Absent
        /\ secret.specHash = <<name, item.spec.key, item.spec.profile>>
        /\ secret.hash = secret.data[item.spec.key]
        /\ ~RotationDue(secret.hash.exp)
    BY Zenon DEF CurrentKubeconfigSecretState, SpecHash
  <1>3. TargetSecret(item) = item.spec.target /\ secret.export \in {worker.key, Absent}
    BY <1>2, Zenon DEF ReadsItsOwn
  <1>4. /\ secret.export = worker.key /\ secret.hash \in Kubeconfig
        /\ secret.specHash[1] = secret.hash.cluster
        /\ secret.specHash[3] = secret.hash.profile
    <2>1. SecretsDescribed
      BY HonestParts
    <2>2. IF secret.export = Absent
            THEN secret.hash = Absent
            ELSE /\ secret.hash \in Kubeconfig
                 /\ secret.specHash[1] = secret.hash.cluster
                 /\ secret.specHash[3] = secret.hash.profile
      BY <1>1, <1>2, <2>1, Zenon DEF SecretsDescribed
    <2> QED  BY <1>2, <1>3, <2>2, Zenon
  <1>5. secret.hash.cluster = name /\ secret.hash.profile = item.spec.profile
    <2>1. ASSUME NEW h, h = <<name, item.spec.key, item.spec.profile>>
          PROVE  h[1] = name /\ h[3] = item.spec.profile
      BY <2>1
    <2> QED  BY <1>2, <1>4, <2>1, Zenon
  <1>6. Holds(secret, worker.key, item.spec, name)
    BY <1>2, <1>4, <1>5, Zenon DEF Holds
  <1>7. /\ worker.at \in Nat /\ secret.hash.exp \in Nat /\ RenewBefore \in Nat
        /\ worker.at < secret.hash.exp - RenewBefore
    <2>1. worker.at \in Nat /\ secret.hash.exp \in Nat /\ RenewBefore \in Nat
      BY <1>1, <1>4, ExportAssumption DEF BusyWorker, Kubeconfig
    <2> QED  BY <1>2, <2>1 DEF RotationDue, NextRotationTime
  <1>8. PICK exp : exp = secret.hash.exp
    OBVIOUS
  <1>9. RequeueAfter(exp) = exp - RenewBefore - worker.at
    BY <1>7, <1>8 DEF RequeueAfter, NextRotationTime
  <1> QED  BY <1>3, <1>6, <1>7, <1>8, <1>9

(* Reconcile looks at something.                                            *)
LEMMA HonestLook ==
  ASSUME HonestInv, BaseInv', WorkerAims', ReadsItsOwn,
         \/ SpecError \/ MissingCluster \/ MissingConnection \/ FoundDependencies
         \/ GetPreviousTarget \/ GetTarget \/ ReuseSecret \/ ReplaceSecret
         \/ GenerateKubeconfig \/ GenerateFails
  PROVE  HonestInv'
  <1>1. KnownInv /\ TypeOK /\ WorkerFresh
    BY HonestParts DEF HonestInv
  <1>2. Follows(worker, worker')
    BY <1>1, KnownLook
  <1>3. /\ worker.pc # "idle" /\ worker'.pc # "idle"
        /\ worker'.key = worker.key /\ worker'.item = worker.item
        /\ UNCHANGED <<exportVersions, queue, timer, secrets, notices, cluster, now>>
    BY <1>1, LookFields
  <1>4. KeepsRead \/ (worker'.cluster = cluster /\ worker'.at = now)
    BY <1>1, LookFields
  <1>5. WorkerFresh'
    <2>1. CASE KeepsRead
      BY <1>1, <1>3, <2>1, FreshStays DEF KeepsRead
    <2>2. CASE worker'.cluster = cluster /\ worker'.at = now
      <3>1. now \in Nat /\ SlowestReconcile \in Nat
        BY <1>1, ExportAssumption DEF TypeOK
      <3>2. now <= now + SlowestReconcile
        BY <3>1
      <3> QED  BY <1>3, <2>2, <3>1, <3>2 DEF WorkerFresh
    <2> QED  BY <1>4, <2>1, <2>2
  <1>6. \/ worker'.pc # "updateStatus" \/ worker'.reason # "Exported"
        \/ /\ ReuseSecret /\ worker.pc = "getSecret" /\ KeepsRead
           /\ worker'.delay = RequeueAfter(secrets[TargetSecret(worker.item)].hash.exp)
    BY <1>1, LookFields
  <1>7. WorkerExported'
    <2>1. CASE worker'.pc # "updateStatus" \/ worker'.reason # "Exported"
      BY <2>1 DEF WorkerExported
    <2>2. CASE /\ ReuseSecret /\ worker.pc = "getSecret" /\ KeepsRead
               /\ worker'.delay =
                    RequeueAfter(secrets[TargetSecret(worker.item)].hash.exp)
      <3>1. PICK secret : secret = secrets[TargetSecret(worker.item)]
        OBVIOUS
      <3>2. CurrentKubeconfigSecretState(worker.item, secrets[TargetSecret(worker.item)],
                                         worker.cluster.name)
        BY <2>2 DEF ReuseSecret
      <3>3. /\ TargetSecret(worker.item) = worker.item.spec.target
            /\ Holds(secret, worker.key, worker.item.spec, worker.cluster.name)
            /\ RequeueAfter(secret.hash.exp) \in Nat
            /\ worker.at + RequeueAfter(secret.hash.exp) + RenewBefore <= secret.hash.exp
        BY <2>2, <3>1, <3>2, CurrentHolds, Zenon
      <3>4. PICK delay : delay = RequeueAfter(secret.hash.exp)
        OBVIOUS
      <3>5. /\ secret = secrets'[worker'.item.spec.target]
            /\ Holds(secret, worker'.key, worker'.item.spec, worker'.cluster.name)
            /\ worker'.delay = delay /\ delay \in Nat
            /\ worker'.at + delay + RenewBefore <= secret.hash.exp
        BY <1>3, <2>2, <3>1, <3>3, <3>4, Zenon DEF KeepsRead
      <3> QED  BY <3>5 DEF WorkerExported
    <2> QED  BY <1>6, <2>1, <2>2
  <1> QED  BY <1>2, <1>3, <1>5, <1>7, HonestQuiet

(* Reconcile writes and deletes Secrets.                                    *)
LEMMA HonestCalls ==
  ASSUME HonestInv, BaseInv', WorkerAims', DeletePreviousTarget \/ WriteSecret \/ DeleteTarget
  PROVE  HonestInv'
  <1>1. KnownInv /\ TypeOK /\ WorkerFresh /\ WorkerFits /\ WorkerAims
    BY HonestParts DEF HonestInv
  <1>2. Follows(worker, worker')
    BY <1>1, KnownCall
  <1>3. /\ worker.pc # "idle" /\ worker'.pc # "idle" /\ KeepsRead
        /\ UNCHANGED <<exportVersions, queue, timer, cluster, now>>
    BY <1>1, CallFields
  <1>4. \/ /\ worker'.pc \in {"getSecret", "removeFinalizer"}
           /\ \E s \in Secret : Touches(s)
        \/ /\ worker.pc = "write" /\ worker'.pc = "updateStatus"
           /\ worker'.delay = RequeueAfter(worker.data.exp)
           /\ WrittenAt \in Secret /\ Touches(WrittenAt)
           /\ secrets'[WrittenAt] = MergedSecret
    BY <1>1, CallFields
  <1>5. PICK s \in Secret : Touches(s)
    BY <1>4
  <1>6. WorkerFresh'
    BY <1>1, <1>3, FreshStays DEF KeepsRead
  <1>7. WorkerExported'
    <2>1. CASE worker'.pc \in {"getSecret", "removeFinalizer"}
      BY <2>1 DEF WorkerExported
    <2>2. CASE /\ worker.pc = "write" /\ worker'.pc = "updateStatus"
               /\ worker'.delay = RequeueAfter(worker.data.exp)
               /\ secrets'[WrittenAt] = MergedSecret
      <3>1. WrittenAt = worker.item.spec.target
        BY <1>1, <2>2 DEF WorkerAims, WrittenAt
      <3>2. PICK x : x = MergedSecret
        OBVIOUS
      <3>3. /\ x # Absent /\ x.export = worker.key
            /\ x.hash = worker.data /\ worker.data \in Kubeconfig
            /\ x.data[worker.item.spec.key] = worker.data
        BY <1>1, <2>2, <3>2, MergedFields
      <3>4. /\ worker.data.cluster = worker.cluster.name
            /\ worker.data.profile = worker.item.spec.profile
            /\ worker.data.exp = worker.at + TTL
        BY <1>1, <2>2 DEF WorkerFits
      <3>5. Holds(x, worker.key, worker.item.spec, worker.cluster.name)
        BY <3>3, <3>4 DEF Holds
      <3>6. /\ worker.at \in Nat /\ TTL \in Nat /\ RenewBefore \in Nat /\ RenewBefore < TTL
        BY <1>1, <1>3, BusyType, ExportAssumption DEF BusyWorker
      <3>7. PICK exp : exp = worker.data.exp
        OBVIOUS
      <3>8. RequeueAfter(exp) = TTL - RenewBefore
        BY <3>4, <3>6, <3>7 DEF RequeueAfter, NextRotationTime
      <3>9. PICK delay : delay = RequeueAfter(exp)
        OBVIOUS
      <3>10. delay \in Nat /\ worker.at + delay + RenewBefore <= exp
        BY <3>4, <3>6, <3>7, <3>8, <3>9
      <3>11. /\ x = secrets'[worker'.item.spec.target]
             /\ Holds(x, worker'.key, worker'.item.spec, worker'.cluster.name)
             /\ worker'.delay = delay /\ x.hash.exp = exp
             /\ worker'.at + delay + RenewBefore <= exp
        BY <1>3, <2>2, <3>1, <3>2, <3>3, <3>5, <3>7, <3>9, <3>10 DEF KeepsRead
      <3> QED  BY <3>10, <3>11 DEF WorkerExported
    <2> QED  BY <1>4, <2>1, <2>2
  <1>8. notices \subseteq notices'
    BY <1>5 DEF Touches
  <1>9. \A e \in Export :
          LET o == Stored(exportVersions[e])
          IN  o # Absent /\ Exported(e) =>
                \/ ExportDue(e)'
                \/ /\ secrets'[o.spec.target] = secrets[o.spec.target]
                   /\ timer'[e] = timer[e]
    BY <1>3, <1>5, TouchedIsDue
  <1> QED  BY <1>2, <1>3, <1>6, <1>7, <1>8, <1>9, HonestQuiet

(* Others write to a Secret, the event of one arrives, a timer fires, the   *)
(* clock goes on, a connection comes or goes, or nothing happens.           *)
LEMMA HonestOthers ==
  ASSUME HonestInv, BaseInv',
         \/ \E s \in Secret : TamperSecret(s) \/ DeleteSecret(s) \/ CreateSecret(s)
         \/ \E e \in Export : DeliverNotice(e) \/ FireTimer(e)
         \/ \E k \in Connection : ChangeConnection(k)
         \/ Tick
         \/ UNCHANGED vars
  PROVE  HonestInv'
  <1>1. KnownInv /\ TypeOK /\ WorkerFresh /\ WorkerAims
    BY HonestParts DEF HonestInv
  <1>2. /\ UNCHANGED <<exportVersions, worker, cluster>>
        /\ queue \subseteq queue' /\ notices \subseteq notices' \cup queue'
        /\ UNCHANGED secrets \/ \E s \in Secret : Touches(s)
        /\ \A e \in Export : e \in queue' \/ timer'[e] = timer[e]
        /\ UNCHANGED now \/ Tick
    <2>1. ASSUME NEW s \in Secret, TamperSecret(s) \/ DeleteSecret(s) \/ CreateSecret(s)
          PROVE  /\ UNCHANGED <<exportVersions, worker, cluster, queue, timer, now>>
                 /\ Touches(s) /\ notices \subseteq notices'
      BY <1>1, <2>1, UserFields DEF Touches
    <2>2. ASSUME NEW e \in Export, DeliverNotice(e)
          PROVE  /\ UNCHANGED <<exportVersions, worker, cluster, timer, secrets, now>>
                 /\ queue \subseteq queue' /\ notices \subseteq notices' \cup queue'
      BY <2>2 DEF DeliverNotice, environment
    <2>3. ASSUME NEW e \in Export, FireTimer(e)
          PROVE  /\ UNCHANGED <<exportVersions, worker, cluster, notices, secrets, now>>
                 /\ queue \subseteq queue' /\ notices \subseteq notices' \cup queue'
                 /\ \A f \in Export : f \in queue' \/ timer'[f] = timer[f]
      <3>1. timer \in [Export -> Nat \cup {Absent}]
        BY <1>1 DEF TypeOK
      <3> QED  BY <2>3, <3>1 DEF FireTimer, environment
    <2>4. ASSUME NEW k \in Connection, ChangeConnection(k)
          PROVE  /\ UNCHANGED <<exportVersions, worker, cluster, timer, secrets, notices, now>>
                 /\ queue \subseteq queue'
      BY <2>4 DEF ChangeConnection
    <2>5. CASE Tick
      BY <2>5 DEF Tick
    <2>6. CASE UNCHANGED vars
      BY <2>6 DEF vars
    <2> QED  BY <2>1, <2>2, <2>3, <2>4, <2>5, <2>6
  <1>3. WorkerFresh'
    <2>1. CASE UNCHANGED now
      BY <1>1, <1>2, <2>1, FreshStays
    <2>2. CASE Tick
      <3> SUFFICES ASSUME worker.cluster # Absent
                   PROVE  worker.at <= now + 1 /\ now + 1 <= worker.at + SlowestReconcile
        BY <1>1, <1>2, <2>2 DEF Tick, WorkerFresh
      <3>1. now < worker.at + SlowestReconcile /\ worker.at <= now
        BY <1>1, <2>2 DEF Tick, WorkerFresh
      <3>2. worker \in BusyWorker
        BY <1>1, HonestParts, BusyType
      <3>3. now \in Nat /\ SlowestReconcile \in Nat /\ worker.at \in Nat
        BY <1>1, <3>2, ExportAssumption DEF TypeOK, BusyWorker
      <3> QED  BY <3>1, <3>3
    <2> QED  BY <1>2, <2>1, <2>2
  <1>4. WorkerAims'
    BY <1>1, <1>2 DEF WorkerAims, TargetSecret
  <1>5. WorkerExported'
    BY <1>2, ExportedStays
  <1>6. \A e \in Export :
          LET o == Stored(exportVersions[e])
          IN  o # Absent /\ Exported(e) =>
                \/ ExportDue(e)'
                \/ /\ secrets'[o.spec.target] = secrets[o.spec.target]
                   /\ timer'[e] = timer[e]
    <2>1. \A e \in Export : e \in queue' => ExportDue(e)'
      BY DEF ExportDue, Due
    <2> QED  BY <1>2, <2>1, TouchedIsDue
  <1>7. Follows(worker, worker')
    BY <1>2 DEF Follows
  <1> QED  BY <1>2, <1>3, <1>4, <1>5, <1>6, <1>7, HonestQuiet

(* Reconcile gives up, and asks for another request.                        *)
LEMMA HonestFails ==
  ASSUME HonestInv, BaseInv', CallFails
  PROVE  HonestInv'
  <1>1. /\ worker' = IdleWorker /\ Follows(worker, worker')
        /\ UNCHANGED <<exportVersions, secrets, environment, orphaned>>
    BY HonestParts, KnownEnds
  <1>2. queue \subseteq queue' /\ worker.key \in queue' /\ UNCHANGED <<timer, notices>>
    BY DEF CallFails, Done
  <1>3. UNCHANGED <<exportVersions, secrets, cluster>>
    BY <1>1 DEF environment
  <1> QED  BY <1>1, <1>2, <1>3, IdleIsFresh, HonestQuiet

(* A Reconcile that ends with Exported, of the copy that is stored still:   *)
(* the Secret is what was found or written, the cluster is the one that was *)
(* read, and the timer goes off before the kubeconfig expires.              *)
LEMMA ReportHolds ==
  ASSUME HonestInv, worker.pc = "updateStatus", worker.reason = "Exported",
         worker.key \notin queue \cup notices,
         NEW o, SameContent(worker.item, o), NEW again, Done(again, worker.delay),
         UNCHANGED <<secrets, cluster>>
  PROVE  LET secret == secrets'[o.spec.target]
         IN  /\ cluster' # Absent /\ Holds(secret, worker.key, o.spec, cluster'.name)
             /\ timer'[worker.key] # Absent /\ timer'[worker.key] <= secret.hash.exp
  <1> DEFINE spec == worker.item.spec
             secret == secrets[spec.target]
             k == worker.key
  <1>1. o.spec = spec
    BY DEF SameContent
  <1>2. /\ Holds(secret, k, spec, worker.cluster.name)
        /\ worker.delay \in Nat
        /\ worker.at + worker.delay + RenewBefore <= secret.hash.exp
    BY DEF HonestInv, WorkerExported
  <1>3. worker.cluster # Absent
    BY HonestParts DEF WorkerFits
  <1>4. worker.cluster = cluster /\ worker.at <= now /\ now <= worker.at + SlowestReconcile
    BY <1>3 DEF HonestInv, WorkerFresh
  <1>5. /\ k \in Export /\ timer \in [Export -> Nat \cup {Absent}]
        /\ worker.at \in Nat /\ now \in Nat
        /\ RenewBefore \in Nat /\ SlowestReconcile \in Nat
        /\ SlowestReconcile <= RenewBefore
    <2>1. TypeOK /\ worker \in BusyWorker
      BY HonestParts, BusyType
    <2> QED  BY <2>1, ExportAssumption DEF TypeOK, BusyWorker
  <1>6. secret.hash.exp \in Nat
    BY <1>2 DEF Holds, Kubeconfig
  <1>7. PICK due : due = now + worker.delay
    OBVIOUS
  <1>8. due \in Nat /\ due <= secret.hash.exp
    <2> HIDE DEF secret
    <2> QED  BY <1>2, <1>4, <1>5, <1>6, <1>7
  <1>9. timer'[k] = Earlier(timer[k], due)
    <2>1. worker.delay # Absent
      BY <1>2, ExportAbsentAssumption
    <2>2. timer' = [timer EXCEPT ![worker.key] = Earlier(@, now + worker.delay)]
      BY <2>1 DEF Done
    <2> QED  BY <1>5, <1>7, <2>2
  <1>10. timer'[k] # Absent /\ timer'[k] <= due
    <2>1. due # Absent
      BY <1>8, ExportAbsentAssumption
    <2> QED  BY <1>5, <1>8, <1>9, <2>1 DEF Earlier
  <1>11. timer'[k] \in Nat
    BY <1>5, <1>8, <1>9 DEF Earlier
  <1> HIDE DEF secret, spec
  <1>12. timer'[k] <= secret.hash.exp
    BY <1>6, <1>8, <1>10, <1>11
  <1> QED  BY <1>1, <1>2, <1>3, <1>4, <1>10, <1>12 DEF secret, spec

(* Reconcile leaves the status alone, because the cached one says what it   *)
(* has to say: the stored one then says it too, or a request is due.        *)
LEMMA HonestUnchanged ==
  ASSUME HonestInv, BaseInv', StatusUnchanged
  PROVE  HonestInv'
  <1>0. PICK k \in Export : k = worker.key /\ Busy(worker, k)
    <2>1. worker.pc # "idle"
      BY DEF StatusUnchanged
    <2> QED  BY <2>1, HonestParts
  <1> DEFINE c == Cached(exportVersions[k])
             o == Stored(exportVersions[k])
  <1>1. /\ worker' = IdleWorker /\ Follows(worker, worker')
        /\ UNCHANGED <<exportVersions, secrets, environment, orphaned>>
    BY HonestParts, KnownEnds
  <1>2. /\ worker.pc = "updateStatus" /\ c # Absent /\ NewStatus(c) = c.status
        /\ Done(worker.again, worker.delay)
        /\ queue \subseteq queue' /\ (worker.again => k \in queue')
        /\ UNCHANGED notices
    BY <1>0 DEF StatusUnchanged, Done
  <1>3. UNCHANGED <<exportVersions, secrets, cluster>>
    BY <1>1 DEF environment
  <1>4. /\ c \in ExportVersion /\ o \in ExportVersion
        /\ timer \in [Export -> Nat \cup {Absent}]
    BY <1>2, HonestParts, VersionsType DEF TypeOK
  <1>5. \A e \in Export \ {k} : timer'[e] = timer[e]
    BY <1>0, <1>2, <1>4 DEF Done
  <1>6. /\ Told(exportVersions, worker', queue', Export)
        /\ \A e \in Export :
             Due(exportVersions, worker, queue, e)
               /\ (Busy(worker, e) => Busy(worker', e) \/ e \in queue')
                 => Due(exportVersions, worker', queue', e)
    BY <1>1, <1>2, HonestParts, ToldFollow
  <1>7. \A e \in Export \ {k} : ExportDue(e) => ExportDue(e)'
    <2>1. \A e \in Export \ {k} : ~Busy(worker, e)
      BY <1>0 DEF Busy
    <2> QED  BY <1>2, <1>3, <1>6, <2>1 DEF ExportDue
  <1>8. ExportDue(k)' \/ ~SaysExported(o) \/ Exported(k)'
    <2> SUFFICES ASSUME ~ExportDue(k)', SaysExported(o) PROVE Exported(k)'
      OBVIOUS
    <2>1. k \notin queue' /\ k \notin notices /\ ~Announced(exportVersions[k], 1)
      BY <1>2, <1>3 DEF ExportDue, Due
    <2>2. SameContent(c, o) /\ SameContent(worker.item, c)
      BY <1>0, <1>2, <2>1, CacheWillDo
    <2>3. SameContent(worker.item, o)
      BY <2>2, SameAgain
    <2>4. ~worker.again /\ k \notin queue
      BY <1>2, <2>1
    <2>5. CASE worker.reason = "Exported"
      <3>1. LET secret == secrets'[o.spec.target]
            IN  /\ cluster' # Absent /\ Holds(secret, k, o.spec, cluster'.name)
                /\ timer'[k] # Absent /\ timer'[k] <= secret.hash.exp
        BY <1>0, <1>2, <1>3, <2>1, <2>3, <2>4, <2>5, ReportHolds
      <3> QED  BY <1>3, <3>1 DEF Exported
    <2>6. CASE worker.reason # "Exported"
      <3>1. worker.reason = "ValidationFailed" /\ worker.item.spec.profile \in Invalid
        BY <1>2, <2>4, <2>6, HonestParts DEF WorkerFits
      <3>2. c.status.obs = c.gen /\ c.status.reason = "ValidationFailed"
        BY <1>2, <3>1 DEF NewStatus
      <3>3. o # Absent /\ c.uid = o.uid /\ c.gen = o.gen
            /\ o.spec.profile \in Invalid
        BY <1>2, <2>2, <2>3, <3>1, HonestParts DEF SameContent
      <3>4. InvalidIsSeen(exportVersions, worker)
        BY DEF HonestInv, BaseInv
      <3>5. 1 \in Views(exportVersions, worker, k) /\ View(exportVersions, worker, k, 1) = c
        BY <1>4, HonestParts, ViewType
      <3>6. c.status = o.status
        <4>1. LET v == View(exportVersions, worker, k, 1)
              IN  (/\ SaysExported(o) /\ o.spec.profile \in Invalid
                   /\ v # Absent /\ v.uid = o.uid
                   /\ v.status.obs = o.gen /\ v.status.reason # "None")
                    => v.status = o.status
          BY <1>4, <3>4, <3>5 DEF InvalidIsSeen
        <4> QED  BY <1>2, <3>2, <3>3, <3>5, <4>1
      <3> QED  BY <3>2, <3>6 DEF SaysExported
    <2> QED  BY <2>5, <2>6
  <1>9. ReportIsHonest'
    <2>1. Stored(exportVersions'[k]) = o
      BY <1>3
    <2> HIDE DEF o
    <2> QED  BY <1>3, <1>4, <1>5, <1>7, <1>8, <2>1, HonestWrites DEF HonestInv
  <1> QED  BY <1>1, <1>3, <1>6, <1>9, IdleIsFresh DEF HonestInv, ExportTold

(* A write to an export, after which Reconcile goes on or ends: it must     *)
(* bring a request, unless what the status then says is true.               *)
LEMMA HonestStore ==
  ASSUME HonestInv, BaseInv', NEW k \in Export, NEW x \in ExportVersion,
         StoreExport(k, x), Signalled(Stored(exportVersions[k]), x),
         UNCHANGED <<secrets, cluster, notices>>,
         UNCHANGED <<worker, now>> \/ (worker' = IdleWorker /\ worker.key = k),
         queue \subseteq queue',
         \A e \in Export \ {k} : timer'[e] = timer[e],
         \/ k \in queue'
         \/ EventPasses(Stored(exportVersions[k]), x)
         \/ ~SaysExported(x)
         \/ k \in notices
         \/ LET secret == secrets'[x.spec.target]
            IN  /\ cluster' # Absent /\ Holds(secret, k, x.spec, cluster'.name)
                /\ timer'[k] # Absent /\ timer'[k] <= secret.hash.exp
  PROVE  HonestInv'
  <1> DEFINE next == Appended(exportVersions, k, x)
  <1>1. /\ Tracked(Export, ExportVersion, exportVersions, worker)
        /\ exportVersions' = next
    BY HonestParts, StoreIsAppend
  <1>2. /\ Told(next, worker, queue, Export)
        /\ \A e \in Export : Due(exportVersions, worker, queue, e)
                               => Due(next, worker, queue, e)
        /\ Stored(next[k]) = x
        /\ \A e \in Export \ {k} : next[e] = exportVersions[e]
    BY <1>1, HonestParts, ToldAppend
  <1>3. EventPasses(Stored(exportVersions[k]), x) => Announced(next[k], 1)
    BY <1>1, PassingIsAnnounced DEF Tracked
  <1> HIDE DEF next
  <1>4. Follows(worker, worker')
    BY DEF Follows, IdleWorker
  <1>5. /\ Told(next, worker', queue', Export)
        /\ \A e \in Export :
             Due(next, worker, queue, e)
               /\ (Busy(worker, e) => Busy(worker', e) \/ e \in queue')
                 => Due(next, worker', queue', e)
    BY <1>2, <1>4, ToldFollow
  <1>6. \A e \in Export \ {k} : ExportDue(e) => ExportDue(e)'
    <2>1. \A e \in Export \ {k} : Busy(worker, e) => Busy(worker', e)
      BY DEF Busy
    <2> QED  BY <1>1, <1>2, <1>5, <2>1 DEF ExportDue
  <1>7. \/ ExportDue(k)' \/ ~SaysExported(x) \/ Exported(k)'
    BY <1>1, <1>2, <1>3 DEF ExportDue, Due, Exported
  <1>8. ReportIsHonest'
    BY <1>1, <1>2, <1>6, <1>7, HonestWrites DEF HonestInv
  <1>9. WorkerAims' /\ WorkerFresh' /\ WorkerExported'
    <2>1. CASE UNCHANGED <<worker, now>>
      <3>1. WorkerAims' /\ WorkerFresh'
        BY <2>1, FreshStays DEF HonestInv, WorkerAims, TargetSecret
      <3>2. WorkerExported'
        BY <2>1, ExportedStays
      <3> QED  BY <3>1, <3>2
    <2>2. CASE worker' = IdleWorker
      BY <2>2, IdleIsFresh
    <2> QED  BY <2>1, <2>2
  <1> QED  BY <1>1, <1>5, <1>8, <1>9 DEF HonestInv, ExportTold

(* AddFinalizer asks for another request.                                   *)
LEMMA HonestAdds ==
  ASSUME HonestInv, BaseInv', AddFinalizer
  PROVE  HonestInv'
  <1> DEFINE x == [worker.item EXCEPT !.fins = {Finalizer}]
             o == Stored(exportVersions[worker.key])
  <1>1. /\ worker.key \in Export
        /\ x \in ExportObject /\ StoreExport(worker.key, x) /\ Finalized(o, x)
        /\ worker' = IdleWorker /\ UNCHANGED <<secrets, environment, orphaned>>
    BY HonestParts, AddIsFinalize
  <1>2. queue' = queue \cup {worker.key} /\ UNCHANGED <<timer, notices>>
    BY DEF AddFinalizer, Done
  <1> HIDE DEF x, o
  <1>3. Signalled(o, x) /\ x \in ExportVersion
    BY <1>1 DEF Finalized, Signalled, SameContent, ExportVersion
  <1>4. UNCHANGED cluster
    BY <1>1 DEF environment
  <1> QED  BY <1>1, <1>2, <1>3, <1>4, HonestStore DEF o

(* UpdateStatus reports the stored generation: it is the one that Reconcile *)
(* has exported for, or another request is due.                             *)
LEMMA HonestReports ==
  ASSUME HonestInv, BaseInv', UpdateStatus
  PROVE  HonestInv'
  <1>0. PICK k \in Export : k = worker.key /\ Busy(worker, k)
    <2>1. worker.pc # "idle"
      BY DEF UpdateStatus
    <2> QED  BY <2>1, HonestParts
  <1> DEFINE o == Stored(exportVersions[k])
             x == [o EXCEPT !.status = NewStatus(o)]
  <1>1. /\ x \in ExportObject /\ StoreExport(k, x) /\ o \in ExportObject
        /\ Continuation(o, x)
        /\ worker' = IdleWorker /\ UNCHANGED <<secrets, environment, orphaned>>
    BY <1>0, HonestParts, StatusIsContinue
  <1>2. /\ worker.pc = "updateStatus" /\ Cached(exportVersions[k]) = o
        /\ x.gen = o.gen /\ x.spec = o.spec /\ x.deleting = o.deleting
        /\ x.status.reason = worker.reason
    BY <1>0, HonestParts, ReportFacts
  <1>3. /\ Done(worker.again, worker.delay)
        /\ queue \subseteq queue' /\ (worker.again => k \in queue')
        /\ UNCHANGED notices
    BY <1>0 DEF UpdateStatus, Done
  <1>4. \A e \in Export \ {k} : timer'[e] = timer[e]
    <2>1. timer \in [Export -> Nat \cup {Absent}]
      BY HonestParts DEF TypeOK
    <2> QED  BY <1>0, <1>3, <2>1 DEF Done
  <1>5. UNCHANGED cluster
    BY <1>1 DEF environment
  <1> HIDE DEF x, o
  <1>6. o # Absent /\ x # Absent /\ x.uid = o.uid
    BY <1>1, ObjectType DEF Continuation
  <1>7. Signalled(o, x) /\ x \in ExportVersion
    BY <1>1, <1>2, <1>6 DEF Signalled, SameContent, ExportVersion
  <1>8. \/ k \in queue' \/ ~SaysExported(x) \/ k \in notices
        \/ LET secret == secrets'[x.spec.target]
           IN  /\ cluster' # Absent /\ Holds(secret, k, x.spec, cluster'.name)
               /\ timer'[k] # Absent /\ timer'[k] <= secret.hash.exp
    <2> SUFFICES ASSUME k \notin queue \cup notices, worker.reason = "Exported"
                 PROVE  LET secret == secrets'[x.spec.target]
                        IN  /\ cluster' # Absent /\ Holds(secret, k, x.spec, cluster'.name)
                            /\ timer'[k] # Absent /\ timer'[k] <= secret.hash.exp
      BY <1>2, <1>3 DEF SaysExported
    <2>1. SameContent(worker.item, o)
      BY <1>0, <1>2, CacheWillDo DEF o
    <2> QED  BY <1>0, <1>1, <1>2, <1>3, <1>5, <2>1, ReportHolds
  <1> QED
    BY <1>0, <1>1, <1>3, <1>4, <1>5, <1>7, <1>8, HonestStore DEF o

(* RemoveFinalizer leaves no export behind that reports something.          *)
LEMMA HonestRemoves ==
  ASSUME HonestInv, BaseInv', RemoveFinalizer
  PROVE  HonestInv'
  <1>1. /\ worker.key \in Export /\ StoreExport(worker.key, Absent)
        /\ worker' = IdleWorker /\ UNCHANGED <<secrets, environment>>
    BY HonestParts, RemoveIsVanish
  <1>2. UNCHANGED <<queue, timer, notices>>
    BY DEF RemoveFinalizer, Done
  <1>3. /\ Absent \in ExportVersion /\ ~SaysExported(Absent)
        /\ Signalled(Stored(exportVersions[worker.key]), Absent)
    BY DEF ExportVersion, SaysExported, Signalled, EventPasses
  <1>4. UNCHANGED cluster
    BY <1>1 DEF environment
  <1> QED  BY <1>1, <1>2, <1>3, <1>4, HonestStore

(* Users create, edit and delete: each time an event passes.                *)
LEMMA HonestUser ==
  ASSUME HonestInv, BaseInv', NEW e \in Export,
         CreateExport(e) \/ UpdateExport(e) \/ DeleteExport(e)
  PROVE  HonestInv'
  <1> DEFINE o == Stored(exportVersions[e])
  <1>1. KnownInv
    BY HonestParts
  <1>2. UNCHANGED <<worker, queue, timer, secrets, cluster, notices, now>>
    BY DEF CreateExport, UpdateExport, DeleteExport, environment
  <1>3. ASSUME NEW x \in ExportVersion, StoreExport(e, x), EventPasses(o, x)
        PROVE  HonestInv'
    <2>1. Signalled(o, x)
      BY <1>3 DEF Signalled
    <2> QED  BY <1>2, <1>3, <2>1, HonestStore
  <1>4. CASE CreateExport(e)
    <2>1. PICK x \in ExportObject : StoreExport(e, x) /\ o = Absent
      BY <1>1, <1>4, CreateIsNew
    <2>2. EventPasses(o, x) /\ x \in ExportVersion
      BY <2>1 DEF EventPasses, ExportVersion
    <2> QED  BY <1>3, <2>1, <2>2
  <1>5. CASE UpdateExport(e)
    <2>1. o \in ExportObject
      BY <1>1, <1>5, UpdateIsContinue
    <2>2. PICK spec \in Specs : StoreExport(e, [o EXCEPT !.spec = spec, !.gen = @ + 1])
      BY <1>5 DEF UpdateExport
    <2> DEFINE x == [o EXCEPT !.spec = spec, !.gen = @ + 1]
    <2>3. x \in ExportObject /\ x.gen = o.gen + 1 /\ o.gen \in Nat
      <3>1. spec \in ExportSpec
        BY ExportAssumption
      <3> QED  BY <2>1, <3>1, EditedExportType, ObjectType
    <2>4. StoreExport(e, x)
      BY <2>2
    <2> HIDE DEF x
    <2>5. EventPasses(o, x) /\ x \in ExportVersion
      BY <2>3 DEF EventPasses, ExportVersion
    <2> QED  BY <1>3, <2>4, <2>5
  <1>6. CASE DeleteExport(e)
    <2>1. o \in ExportObject
      BY <1>1, <1>6, DeleteIsSettle
    <2> DEFINE marked == [o EXCEPT !.deleting = TRUE, !.gen = @ + 1]
               x == Settle(marked)
    <2>2. StoreExport(e, x)
      BY <1>6 DEF DeleteExport
    <2>3. marked \in ExportObject /\ marked.gen = o.gen + 1 /\ o.gen \in Nat
      BY <2>1, MarkedExportType, ObjectType
    <2>4. x = Absent \/ x = marked
      BY DEF Settle
    <2> HIDE DEF x, marked
    <2>5. EventPasses(o, x) /\ x \in ExportVersion
      BY <2>3, <2>4 DEF EventPasses, ExportVersion
    <2> QED  BY <1>3, <2>2, <2>5
  <1> QED  BY <1>4, <1>5, <1>6

(* Reconcile starts.  A request that leads to nothing is one for an object  *)
(* that is gone or going, or that has not seen what is stored: then one is  *)
(* due.                                                                     *)
LEMMA HonestBegins ==
  ASSUME HonestInv, BaseInv', NEW e \in Export, Reconcile(e)
  PROVE  HonestInv'
  <1>1. KnownInv /\ Told(exportVersions, worker, queue, Export)
    BY HonestParts
  <1>2. UNCHANGED <<exportVersions, secrets, cluster>>
    BY <1>1, KnownBegin DEF environment
  <1>3. worker.pc = "idle" /\ queue' = queue \ {e} /\ UNCHANGED <<timer, notices>>
    BY DEF Reconcile, ReconcileNothing, ReconcileDelete, ReconcileNew,
           ReconcileExport, CanReconcile, Begin
  <1>4. CASE ReconcileNothing(e)
    <2>1. UNCHANGED worker
      BY <1>4 DEF ReconcileNothing
    <2>2. /\ Told(exportVersions, worker, queue \ {e}, Export)
          /\ \A f \in Export \ {e} : Due(exportVersions, worker, queue, f)
                                       => Due(exportVersions, worker, queue \ {e}, f)
      BY <1>1, <1>3, ToldNothing
    <2> DEFINE o == Stored(exportVersions[e])
               c == Cached(exportVersions[e])
    <2>3. c = Absent \/ c.deleting
      BY <1>4 DEF ReconcileNothing
    <2>4. ExportDue(e)' \/ ~SaysExported(o)
      <3>1. CASE Announced(exportVersions[e], 1)
        BY <1>2, <3>1 DEF ExportDue, Due
      <3>2. CASE ~Announced(exportVersions[e], 1)
        <4>1. SameContent(c, o)
          BY <3>2, CacheWillDo
        <4> QED  BY <2>3, <4>1 DEF SameContent, SaysExported
      <3> QED  BY <3>1, <3>2
    <2>5. \A f \in Export \ {e} : ExportDue(f) => ExportDue(f)'
      BY <1>2, <1>3, <2>1, <2>2 DEF ExportDue
    <2>6. Stored(exportVersions'[e]) = o
      BY <1>2
    <2> HIDE DEF o
    <2>7. ReportIsHonest'
      BY <1>2, <1>3, <2>4, <2>5, <2>6, HonestWrites DEF HonestInv
    <2>8. WorkerAims' /\ WorkerFresh' /\ WorkerExported'
      <3>1. worker.cluster = Absent
        BY <1>3, HonestParts
      <3> QED  BY <1>3, <2>1, <3>1 DEF WorkerAims, WorkerFresh, WorkerExported
    <2> QED  BY <1>2, <1>3, <2>1, <2>2, <2>7, <2>8 DEF HonestInv, ExportTold
  <1>5. CASE ReconcileDelete(e) \/ ReconcileNew(e) \/ ReconcileExport(e)
    <2>1. /\ worker'.pc \in {"addFinalizer", "checkSpec", "getTarget", "removeFinalizer"}
          /\ worker'.key = e /\ worker'.item = Cached(exportVersions[e])
          /\ worker'.cluster = Absent
      <3>1. ASSUME NEW pc, Begin(e, pc)
            PROVE  /\ worker'.pc = pc /\ worker'.key = e
                   /\ worker'.item = Cached(exportVersions[e])
                   /\ worker'.cluster = Absent
        BY <3>1 DEF Begin, IdleWorker
      <3>2. CASE ReconcileDelete(e)
        BY <3>1, <3>2 DEF ReconcileDelete
      <3>3. CASE ReconcileNew(e) \/ ReconcileExport(e)
        BY <3>1, <3>3 DEF ReconcileNew, ReconcileExport
      <3> QED  BY <1>5, <3>2, <3>3
    <2>2. /\ Told(exportVersions, worker', queue \ {e}, Export)
          /\ \A f \in Export : Due(exportVersions, worker, queue, f)
                                 => Due(exportVersions, worker', queue \ {e}, f)
      BY <1>1, <1>3, <2>1, ToldBegin
    <2>3. \A f \in Export : ExportDue(f) => ExportDue(f)'
      BY <1>2, <1>3, <2>2 DEF ExportDue
    <2>4. ReportIsHonest'
      BY <1>2, <1>3, <2>3, HonestStays DEF HonestInv
    <2>5. WorkerAims' /\ WorkerFresh' /\ WorkerExported'
      BY <2>1 DEF WorkerAims, WorkerFresh, WorkerExported
    <2> QED  BY <1>2, <1>3, <2>2, <2>4, <2>5 DEF HonestInv, ExportTold
  <1> QED  BY <1>4, <1>5 DEF Reconcile

(* A watch event of an export is delivered.                                 *)
LEMMA HonestDelivers ==
  ASSUME HonestInv, BaseInv', NEW e \in Export, DeliverExport(e)
  PROVE  HonestInv'
  <1>1. /\ KnownInv /\ Told(exportVersions, worker, queue, Export)
        /\ Tracked(Export, ExportVersion, exportVersions, worker)
    BY HonestParts
  <1>2. /\ Len(exportVersions[e]) > 1
        /\ exportVersions' = Delivered(exportVersions, e)
        /\ UNCHANGED <<worker, secrets, environment>>
    BY <1>1, KnownDeliver
  <1>3. UNCHANGED <<worker, secrets, timer, cluster, notices, now>>
    BY <1>2 DEF environment, DeliverExport
  <1>4. Requests(exportVersions, e, queue, queue')
    BY DEF DeliverExport, Requests
  <1> DEFINE next == Delivered(exportVersions, e)
  <1>5. /\ Told(next, worker, queue', Export)
        /\ \A f \in Export : Due(exportVersions, worker, queue, f)
                               => Due(next, worker, queue', f)
        /\ \A f \in Export : Stored(next[f]) = Stored(exportVersions[f])
    BY <1>1, <1>2, <1>4, ToldDeliver
  <1> HIDE DEF next
  <1>6. exportVersions' = next
    BY <1>2 DEF next
  <1>7. \A f \in Export : ExportDue(f) => ExportDue(f)'
    BY <1>3, <1>5, <1>6 DEF ExportDue
  <1>8. ReportIsHonest'
    BY <1>3, <1>5, <1>6, <1>7, HonestStays DEF HonestInv
  <1>9. queue \subseteq queue'
    BY <1>4 DEF Requests
  <1>10. WorkerAims' /\ WorkerFresh'
    BY <1>3, <1>9, FreshStays DEF HonestInv, WorkerAims, TargetSecret
  <1>11. WorkerExported'
    BY <1>3, <1>9, ExportedStays
  <1> QED  BY <1>3, <1>5, <1>6, <1>8, <1>10, <1>11 DEF HonestInv, ExportTold

(* The cluster changes: every export is looked at again.                    *)
LEMMA HonestCluster ==
  ASSUME HonestInv, BaseInv', ChangeCluster
  PROVE  HonestInv'
  <1>1. /\ queue' = queue \cup CachedExports
        /\ UNCHANGED <<exportVersions, worker, secrets, timer, notices, now>>
    BY DEF ChangeCluster
  <1>2. Follows(worker, worker')
    BY <1>1 DEF Follows
  <1>3. /\ ExportTold'
        /\ \A e \in Export : Due(exportVersions, worker, queue, e)
                               => Due(exportVersions', worker', queue', e)
    BY <1>1, <1>2, DueFollows
  <1>4. ASSUME NEW e \in Export, Stored(exportVersions[e]) # Absent PROVE ExportDue(e)'
    <2>1. CASE Due(exportVersions, worker, queue, e)
      BY <1>3, <2>1 DEF ExportDue
    <2>2. CASE ~Due(exportVersions, worker, queue, e)
      <3>1. e \in CachedExports
        BY <1>4, <2>2, CacheWillDo DEF CachedExports
      <3> QED  BY <1>1, <3>1 DEF ExportDue, Due
    <2> QED  BY <2>1, <2>2
  <1>5. ReportIsHonest'
    BY <1>1, <1>4 DEF ReportIsHonest, ReportsExported
  <1>6. worker.cluster # Absent => worker.key \in queue'
    <2> SUFFICES ASSUME worker.cluster # Absent, worker.key \notin queue
                 PROVE  worker.key \in CachedExports
      BY <1>1
    <2>1. worker.key \in Export /\ Busy(worker, worker.key)
      BY HonestParts
    <2> QED  BY <2>1, CacheWillDo DEF CachedExports
  <1>7. WorkerFresh'
    BY <1>1, <1>6 DEF HonestInv, WorkerFresh
  <1>8. WorkerExported' /\ WorkerAims'
    BY <1>1, ExportedStays DEF HonestInv, WorkerAims, TargetSecret
  <1> QED  BY <1>3, <1>5, <1>7, <1>8 DEF HonestInv

(* The operator restarts: the timers and the events that were on their way  *)
(* are lost, and every export that is stored is looked at.                  *)
LEMMA HonestRestarts ==
  ASSUME HonestInv, BaseInv', Restart
  PROVE  HonestInv'
  <1>1. /\ worker' = IdleWorker /\ worker'.pc = "idle"
        /\ exportVersions' = Relisted(exportVersions, Export)
    BY HonestParts, KnownRestart
  <1>2. queue' = Listed(exportVersions)
    BY DEF Restart
  <1>3. /\ Told(exportVersions', worker', queue', Export)
        /\ \A e \in Export :
             /\ Stored(exportVersions'[e]) = Stored(exportVersions[e])
             /\ Stored(exportVersions[e]) # Absent
                  => Due(exportVersions', worker', queue', e)
    BY <1>1, <1>2, HonestParts, ToldRestart
  <1>4. ReportIsHonest'
    BY <1>3 DEF ReportIsHonest, ReportsExported, ExportDue
  <1> QED  BY <1>1, <1>3, <1>4, IdleIsFresh DEF HonestInv, ExportTold

(* Every step.                                                              *)
LEMMA StepHonest == HonestInv /\ ReadsItsOwn /\ [Next]_vars => HonestInv'
  <1> SUFFICES ASSUME HonestInv, ReadsItsOwn, [Next]_vars PROVE HonestInv'
    OBVIOUS
  <1>1. BaseInv'
    BY StepBase DEF HonestInv
  <1>2. WorkerAims'
    BY HonestParts, StepAims DEF HonestInv
  <1>3. CASE WorkerStep
    <2>1. CASE \/ SpecError \/ MissingCluster \/ MissingConnection \/ FoundDependencies
               \/ GetPreviousTarget \/ GetTarget \/ ReuseSecret \/ ReplaceSecret
               \/ GenerateKubeconfig \/ GenerateFails
      BY <1>1, <1>2, <2>1, HonestLook
    <2>2. CASE DeletePreviousTarget \/ WriteSecret \/ DeleteTarget
      BY <1>1, <1>2, <2>2, HonestCalls
    <2>3. CASE AddFinalizer \/ RemoveFinalizer \/ UpdateStatus \/ StatusUnchanged
      BY <1>1, <2>3, HonestAdds, HonestRemoves, HonestReports, HonestUnchanged
    <2>4. CASE CallFails
      BY <1>1, <2>4, HonestFails
    <2> QED  BY <1>3, <2>1, <2>2, <2>3, <2>4 DEF WorkerStep, CallSucceeds
  <1>4. ASSUME NEW e \in Export,
               \/ Reconcile(e) \/ DeliverExport(e)
               \/ CreateExport(e) \/ UpdateExport(e) \/ DeleteExport(e)
        PROVE  HonestInv'
    BY <1>1, <1>4, HonestBegins, HonestDelivers, HonestUser
  <1>5. CASE \/ \E s \in Secret : TamperSecret(s) \/ DeleteSecret(s) \/ CreateSecret(s)
             \/ \E e \in Export : DeliverNotice(e) \/ FireTimer(e)
             \/ \E k \in Connection : ChangeConnection(k)
             \/ Tick
             \/ UNCHANGED vars
    BY <1>1, <1>5, HonestOthers
  <1>6. CASE ChangeCluster \/ Restart
    BY <1>1, <1>6, HonestCluster, HonestRestarts
  <1> QED  BY <1>3, <1>4, <1>5, <1>6 DEF Next

(* The initial states.                                                      *)
LEMMA InitHonest == Init => HonestInv
  <1> SUFFICES ASSUME Init PROVE HonestInv
    OBVIOUS
  <1>1. ExportInv
    BY InitExport
  <1>2. /\ worker.pc = "idle" /\ worker.cluster = Absent
        /\ exportVersions = [e \in Export |-> <<Absent>>]
        /\ secrets = [s \in Secret |-> Absent]
    BY DEF Init, IdleWorker
  <1>3. ExportTold
    BY <1>2, ToldInit DEF ExportTold
  <1>4. \A e \in Export : /\ Len(exportVersions[e]) = 1 /\ exportVersions[e][1] = Absent
                          /\ Stored(exportVersions[e]) = Absent
    <2>1. \A e \in Export : Len(exportVersions[e]) = 1 /\ exportVersions[e][1] = Absent
      BY <1>2, OneVersion
    <2>2. ASSUME NEW s, Len(s) = 1, s[1] = Absent PROVE Stored(s) = Absent
      BY <2>2 DEF Stored
    <2> QED  BY <2>1, <2>2
  <1>5. \A e \in Export : \A i \in Views(exportVersions, worker, e) :
          View(exportVersions, worker, e, i) = Absent
    BY <1>2, <1>4 DEF Views, View, Places, Busy
  <1>6. ObservedIsSeen(exportVersions, worker) /\ InvalidIsSeen(exportVersions, worker)
    BY <1>5 DEF ObservedIsSeen, InvalidIsSeen
  <1>7. WorkerFits /\ SecretsDescribed /\ WorkerAims /\ WorkerFresh /\ WorkerExported
    BY <1>2 DEF WorkerFits, Exporting, SecretsDescribed, WorkerAims, WorkerFresh,
                WorkerExported
  <1>8. ReportIsHonest
    BY <1>4 DEF ReportIsHonest, ReportsExported
  <1> QED  BY <1>1, <1>3, <1>6, <1>7, <1>8 DEF HonestInv, BaseInv

-----------------------------------------------------------------------------
(* Exports that keep to a Secret of their own *)

(* Every export, whenever there is one of that name, has the target Home. *)
HasHome(Home) ==
  \A e \in Export :
    LET o == Stored(exportVersions[e])
    IN  o # Absent => o.spec.target = Home[e]

(* No copy that can be seen says anything else. *)
AtHome(Home, m, w) ==
  \A e \in Export : \A i \in Views(m, w, e) :
    LET v == View(m, w, e, i)
    IN  v # Absent => v.spec.target = Home[e] /\ v.status.target \in {Absent, Home[e]}

(* No Secret was written anywhere else. *)
SecretsAtHome(Home) ==
  \A s \in Secret :
    secrets[s] # Absent /\ secrets[s].export # Absent => s = Home[secrets[s].export]

(* A step writes at most one version of an export: it keeps the target in   *)
(* the status, or makes it the one in the spec.                             *)
LEMMA StepVersions ==
  ASSUME KnownInv, [Next]_vars
  PROVE  \/ SeesNoMore(exportVersions, worker, exportVersions', worker', Export)
         \/ \E e \in Export, x \in ExportVersion :
              LET o == Stored(exportVersions[e])
              IN  /\ exportVersions' = Appended(exportVersions, e, x)
                  /\ Follows(worker, worker')
                  /\ x # Absent =>
                       /\ \/ x.status.target \in {Absent, x.spec.target}
                          \/ o # Absent /\ x.status = o.status
                       /\ \/ x.spec \in Specs
                          \/ o # Absent /\ x.spec = o.spec
  <1> DEFINE Fewer == SeesNoMore(exportVersions, worker, exportVersions', worker', Export)
             Writes(e, x) ==
               LET o == Stored(exportVersions[e])
               IN  /\ exportVersions' = Appended(exportVersions, e, x)
                   /\ Follows(worker, worker')
                   /\ x # Absent =>
                        /\ \/ x.status.target \in {Absent, x.spec.target}
                           \/ o # Absent /\ x.status = o.status
                        /\ \/ x.spec \in Specs
                           \/ o # Absent /\ x.spec = o.spec
             Goal == Fewer \/ \E e \in Export, x \in ExportVersion : Writes(e, x)
  <1>1. TypeOK /\ Tracked(Export, ExportVersion, exportVersions, worker)
    BY VersionsType DEF KnownInv
  <1>2. ASSUME UNCHANGED exportVersions, Follows(worker, worker') PROVE Fewer
    BY <1>1, <1>2, FewerFollow
  <1>3. ASSUME NEW e \in Export, NEW x \in ExportVersion, StoreExport(e, x),
               Follows(worker, worker'),
               x # Absent =>
                 /\ \/ x.status.target \in {Absent, x.spec.target}
                    \/ /\ Stored(exportVersions[e]) # Absent
                       /\ x.status = Stored(exportVersions[e]).status
                 /\ \/ x.spec \in Specs
                    \/ /\ Stored(exportVersions[e]) # Absent
                       /\ x.spec = Stored(exportVersions[e]).spec
        PROVE  Goal
    <2>1. exportVersions' = Appended(exportVersions, e, x)
      BY <1>1, <1>3, StoreIsAppend
    <2>2. Writes(e, x)
      BY <1>3, <2>1
    <2> QED  BY <2>2
  <1> SUFFICES Goal
    OBVIOUS
  <1> HIDE DEF Fewer, Writes
  <1>4. CASE WorkerStep
    <2>1. CASE \/ SpecError \/ MissingCluster \/ MissingConnection \/ FoundDependencies
               \/ GetPreviousTarget \/ GetTarget \/ ReuseSecret \/ ReplaceSecret
               \/ GenerateKubeconfig \/ GenerateFails
      BY <1>2, <2>1, KnownLook
    <2>2. CASE DeletePreviousTarget \/ WriteSecret \/ DeleteTarget
      BY <1>2, <2>2, KnownCall
    <2>3. CASE StatusUnchanged \/ CallFails
      BY <1>2, <2>3, KnownEnds
    <2>4. CASE AddFinalizer
      <3> DEFINE x == [worker.item EXCEPT !.fins = {Finalizer}]
                 o == Stored(exportVersions[worker.key])
      <3>1. /\ worker.key \in Export /\ x \in ExportObject /\ StoreExport(worker.key, x)
            /\ Finalized(o, x) /\ x.status = o.status /\ Follows(worker, worker')
        BY <2>4, AddIsFinalize
      <3> HIDE DEF x
      <3>2. x \in ExportVersion /\ o # Absent /\ x.spec = o.spec
        BY <3>1 DEF ExportVersion, Finalized
      <3> QED  BY <1>3, <3>1, <3>2
    <2>5. CASE RemoveFinalizer
      <3>1. /\ worker.key \in Export /\ StoreExport(worker.key, Absent)
            /\ Follows(worker, worker')
        BY <2>5, RemoveIsVanish
      <3>2. Absent \in ExportVersion
        BY DEF ExportVersion
      <3> QED  BY <1>3, <3>1, <3>2
    <2>6. CASE UpdateStatus
      <3> DEFINE o == Stored(exportVersions[worker.key])
                 x == [o EXCEPT !.status = NewStatus(o)]
      <3>1. /\ worker.key \in Export /\ x \in ExportObject /\ StoreExport(worker.key, x)
            /\ x.status.target = x.spec.target /\ Follows(worker, worker')
            /\ o \in ExportObject /\ x.spec = o.spec
        BY <2>6, StatusIsContinue
      <3> HIDE DEF x
      <3>2. x \in ExportVersion /\ o # Absent
        BY <3>1, ObjectType DEF ExportVersion
      <3> QED  BY <1>3, <3>1, <3>2
    <2> QED  BY <1>4, <2>1, <2>2, <2>3, <2>4, <2>5, <2>6 DEF WorkerStep, CallSucceeds
  <1>5. ASSUME NEW e \in Export, Reconcile(e) PROVE Goal
    <2>1. \/ UNCHANGED <<exportVersions, worker>>
          \/ /\ UNCHANGED exportVersions
             /\ worker.pc = "idle" /\ worker'.key = e
             /\ worker'.item = Cached(exportVersions[e])
             /\ Cached(exportVersions[e]) # Absent
      BY <1>5, KnownBegin
    <2>2. CASE UNCHANGED <<exportVersions, worker>>
      BY <1>2, <2>2 DEF Follows
    <2>3. CASE /\ UNCHANGED exportVersions
               /\ worker.pc = "idle" /\ worker'.key = e
               /\ worker'.item = Cached(exportVersions[e])
               /\ Cached(exportVersions[e]) # Absent
      <3>1. SeesNoMore(exportVersions, worker, exportVersions, worker', Export)
        BY <1>1, <2>3, FewerBegin
      <3> QED  BY <2>3, <3>1 DEF Fewer
    <2> QED  BY <2>1, <2>2, <2>3
  <1>6. ASSUME NEW e \in Export, DeliverExport(e) PROVE Goal
    <2>1. /\ Len(exportVersions[e]) > 1 /\ UNCHANGED worker
          /\ exportVersions' = Delivered(exportVersions, e)
      BY <1>6, KnownDeliver
    <2> QED  BY <1>1, <2>1, FewerDeliver DEF Fewer
  <1>7. ASSUME NEW e \in Export, CreateExport(e) PROVE Goal
    <2>1. PICK x \in ExportObject :
            /\ StoreExport(e, x) /\ x.status.target = Absent /\ x.spec \in Specs
            /\ Follows(worker, worker')
      BY <1>7, CreateIsNew
    <2> QED  BY <1>3, <2>1 DEF ExportVersion
  <1>8. ASSUME NEW e \in Export, UpdateExport(e) PROVE Goal
    <2>1. PICK x \in ExportObject :
            /\ StoreExport(e, x) /\ Continuation(Stored(exportVersions[e]), x)
            /\ x.status = Stored(exportVersions[e]).status /\ x.spec \in Specs
            /\ Follows(worker, worker')
      BY <1>8, UpdateIsContinue
    <2>2. Stored(exportVersions[e]) # Absent
      BY <2>1 DEF Continuation
    <2> QED  BY <1>3, <2>1, <2>2 DEF ExportVersion
  <1>9. ASSUME NEW e \in Export, DeleteExport(e) PROVE Goal
    <2> DEFINE o == Stored(exportVersions[e])
    <2>1. /\ Follows(worker, worker') /\ o \in ExportObject
          /\ \E x \in ExportVersion :
               /\ StoreExport(e, x)
               /\ o.fins = {} => x = Absent
               /\ o.fins # {} => Continuation(o, x)
               /\ x # Absent => x.uid = o.uid /\ x.spec = o.spec /\ x.status = o.status
      BY <1>9, DeleteIsSettle
    <2>2. PICK x \in ExportVersion :
               /\ StoreExport(e, x)
               /\ x # Absent => x.spec = o.spec /\ x.status = o.status
      BY <2>1
    <2>3. o # Absent
      BY <2>1, ObjectType
    <2> QED  BY <1>3, <2>1, <2>2, <2>3
  <1>10. CASE \/ \E e \in Export : DeliverNotice(e) \/ FireTimer(e)
              \/ \E k \in Connection : ChangeConnection(k)
              \/ ChangeCluster \/ Tick
    BY <1>2, <1>10, KnownChange
  <1>11. ASSUME NEW s \in Secret, TamperSecret(s) \/ DeleteSecret(s) \/ CreateSecret(s)
         PROVE  Goal
    BY <1>2, <1>11, KnownUser
  <1>12. CASE Restart
    <2>1. /\ worker'.pc = "idle" /\ exportVersions' = Relisted(exportVersions, Export)
      BY <1>12, KnownRestart
    <2> QED  BY <1>1, <2>1, FewerRestart DEF Fewer
  <1>13. CASE UNCHANGED vars
    <2>1. UNCHANGED <<exportVersions, worker>>
      BY <1>13 DEF vars
    <2> QED  BY <1>2, <2>1 DEF Follows
  <1> QED
    BY <1>4, <1>5, <1>6, <1>7, <1>8, <1>9, <1>10, <1>11, <1>12, <1>13 DEF Next

(* Every copy keeps the target, as long as those that are stored do. *)
LEMMA StepAtHome ==
  ASSUME KnownInv, NEW Home, AtHome(Home, exportVersions, worker),
         HasHome(Home)', [Next]_vars
  PROVE  AtHome(Home, exportVersions, worker)'
  <1>1. Tracked(Export, ExportVersion, exportVersions, worker)
    BY VersionsType DEF KnownInv
  <1>2. ASSUME NEW m, NEW w, NEW next, NEW u, SeesNoMore(m, w, next, u, Export),
               AtHome(Home, m, w)
        PROVE  AtHome(Home, next, u)
    BY <1>2 DEF SeesNoMore, AtHome
  <1>3. CASE SeesNoMore(exportVersions, worker, exportVersions', worker', Export)
    BY <1>2, <1>3
  <1>4. ASSUME NEW e \in Export, NEW x \in ExportVersion,
               exportVersions' = Appended(exportVersions, e, x), Follows(worker, worker'),
               x # Absent =>
                 \/ x.status.target \in {Absent, x.spec.target}
                 \/ /\ Stored(exportVersions[e]) # Absent
                    /\ x.status = Stored(exportVersions[e]).status
        PROVE  AtHome(Home, exportVersions, worker)'
    <2> DEFINE m == exportVersions
               u == worker'
               n == Len(m[e]) + 1
               next == Appended(m, e, x)
    <2>1. Tracked(Export, ExportVersion, m, u) /\ AtHome(Home, m, u)
      BY <1>1, <1>2, <1>4, FewerFollow
    <2>2. /\ Views(next, u, e) = Views(m, u, e) \cup {n}
          /\ \A i \in Views(m, u, e) : View(next, u, e, i) = View(m, u, e, i)
          /\ View(next, u, e, n) = x
          /\ Stored(next[e]) = x
          /\ \A l \in Export \ {e} :
               /\ Views(next, u, l) = Views(m, u, l)
               /\ \A i \in Views(m, u, l) : View(next, u, l, i) = View(m, u, l, i)
      BY <2>1, ViewsAppend
    <2>3. /\ Len(m[e]) \in Views(m, u, e)
          /\ View(m, u, e, Len(m[e])) = Stored(m[e])
      BY <2>1, ViewType
    <2> HIDE DEF next, n, m
    <2>4. x # Absent => x.spec.target = Home[e]
      BY <1>4, <2>2 DEF HasHome, next, m
    <2>5. x # Absent => x.status.target \in {Absent, Home[e]}
      BY <1>4, <2>1, <2>3, <2>4 DEF AtHome, m
    <2>6. AtHome(Home, next, u)
      BY <2>1, <2>2, <2>4, <2>5 DEF AtHome
    <2> QED  BY <1>4, <2>6 DEF next, m
  <1> QED  BY <1>3, <1>4, StepVersions

(* So does every Secret. *)
LEMMA StepSecretsAtHome ==
  ASSUME KnownInv, WorkerFits, NEW Home, AtHome(Home, exportVersions, worker),
         SecretsAtHome(Home), [Next]_vars
  PROVE  SecretsAtHome(Home)'
  <1>1. ASSUME NEW s \in Secret, Touches(s), secrets'[s] = Absent
        PROVE  SecretsAtHome(Home)'
    BY <1>1 DEF SecretsAtHome, Touches
  <1>2. CASE DeletePreviousTarget \/ WriteSecret \/ DeleteTarget
    <2>1. CASE \E s \in Secret : Touches(s) /\ secrets'[s] = Absent
      BY <1>1, <2>1
    <2>2. CASE /\ worker.pc = "write" /\ WrittenAt \in Secret /\ Touches(WrittenAt)
               /\ secrets'[WrittenAt] = MergedSecret
      <3>1. PICK s, x : s = WrittenAt /\ x = MergedSecret
        BY <2>2
      <3>2. PICK k \in Export : k = worker.key
        BY <2>2, BusyType DEF KnownInv
      <3>3. x.export = k
        BY <2>2, <3>1, <3>2, MergedFields
      <3>4. s = Home[k]
        <4>1. /\ 0 \in Views(exportVersions, worker, k)
              /\ View(exportVersions, worker, k, 0) = worker.item /\ worker.item # Absent
          BY <2>2, <3>2, BusyType, ObjectType DEF KnownInv, Views, View, Busy
        <4>2. /\ worker.item.spec.target = Home[k]
              /\ worker.item.status.target \in {Absent, Home[k]}
          BY <4>1 DEF AtHome
        <4> QED  BY <3>1, <4>2 DEF WrittenAt, TargetSecret
      <3>5. s \in Secret /\ Touches(s) /\ secrets'[s] = x
        BY <2>2, <3>1
      <3> QED  BY <3>3, <3>4, <3>5 DEF SecretsAtHome, Touches
    <2> QED  BY <1>2, <2>1, <2>2, CallFields
  <1>3. ASSUME NEW s \in Secret, TamperSecret(s) \/ DeleteSecret(s) \/ CreateSecret(s)
        PROVE  SecretsAtHome(Home)'
    <2>1. /\ Touches(s)
          /\ LET x == secrets'[s]
             IN  \/ x = Absent
                 \/ x.export = Absent
                 \/ secrets[s] # Absent /\ x.export = secrets[s].export
      BY <1>3, UserFields DEF KnownInv
    <2> QED  BY <2>1 DEF SecretsAtHome, Touches
  <1>4. CASE UNCHANGED secrets
    BY <1>4 DEF SecretsAtHome
  <1> QED  BY <1>2, <1>3, <1>4, OthersKeepSecrets

(* Then Reconcile looks at nothing else, if no two exports share a Secret. *)
LEMMA HomeIsRead ==
  ASSUME KnownInv, NEW Home, AtHome(Home, exportVersions, worker), SecretsAtHome(Home),
         \A e, f \in Export : Home[e] = Home[f] => e = f
  PROVE  ReadsItsOwn
  <1> DEFINE s == TargetSecret(worker.item)
  <1> SUFFICES ASSUME worker.pc = "getSecret", secrets[s] # Absent
               PROVE  s = worker.item.spec.target /\ secrets[s].export \in {worker.key, Absent}
    BY DEF ReadsItsOwn
  <1>1. /\ worker.key \in Export /\ worker.item # Absent /\ s \in Secret
        /\ secrets[s] \in SecretObject
    BY BusyType, ObjectType DEF KnownInv, TypeOK
  <1>2. /\ 0 \in Views(exportVersions, worker, worker.key)
        /\ View(exportVersions, worker, worker.key, 0) = worker.item
    BY DEF Views, View, Busy
  <1>3. /\ worker.item.spec.target = Home[worker.key]
        /\ worker.item.status.target \in {Absent, Home[worker.key]}
    BY <1>1, <1>2 DEF AtHome
  <1>4. s = Home[worker.key] /\ s = worker.item.spec.target
    BY <1>3 DEF TargetSecret
  <1>5. secrets[s].export \in Export \cup {Absent}
    BY <1>1 DEF SecretObject
  <1>6. secrets[s].export # Absent => Home[secrets[s].export] = Home[worker.key]
    <2> HIDE DEF s
    <2> QED  BY <1>1, <1>4 DEF SecretsAtHome
  <1> HIDE DEF s
  <1> QED  BY <1>1, <1>4, <1>5, <1>6

-----------------------------------------------------------------------------
(* The status is true and the rotation is scheduled *)

(* Without an assumption on who lives where: a status that says Exported of *)
(* the current generation is true, or a request is under way, and the       *)
(* rotation is scheduled before the kubeconfig expires, as long as          *)
(* Reconcile reads the Secret that the spec names and that no other export  *)
(* has written.  No edit, tampering, deletion, conflict, delay or crash can *)
(* do anything about it.                                                    *)
THEOREM ExportsAreHonest ==
  Spec /\ []ReadsItsOwn => [](ExportIsHonest /\ RotationScheduled)
  <1>1. HonestInv /\ ReadsItsOwn /\ [Next]_vars => HonestInv'
    BY StepHonest
  <1>2. HonestInv => ExportIsHonest /\ RotationScheduled
    BY HonestExport
  <1> QED  BY <1>1, <1>2, InitHonest, PTL DEF Spec

(* Exports whose target is never edited, and any number of them: if no two  *)
(* of them name one Secret, their status is true and their rotations are    *)
(* scheduled, through all their incarnations.                               *)
THEOREM SettledExportsAreHonest ==
  ASSUME NEW CONSTANT Home,
         \A e, f \in Export : Home[e] = Home[f] => e = f
  PROVE  Spec /\ []HasHome(Home) => [](ExportIsHonest /\ RotationScheduled)
  <1> DEFINE HomeInv == /\ HonestInv /\ SecretsAtHome(Home)
                        /\ AtHome(Home, exportVersions, worker)
  <1>1. Init => HomeInv
    <2> SUFFICES ASSUME Init PROVE HomeInv
      OBVIOUS
    <2>1. HonestInv /\ SecretsAtHome(Home)
      BY InitHonest DEF Init, SecretsAtHome
    <2>2. /\ worker.pc = "idle" /\ exportVersions = [e \in Export |-> <<Absent>>]
      BY DEF Init, IdleWorker
    <2>3. \A e \in Export : Len(exportVersions[e]) = 1 /\ exportVersions[e][1] = Absent
      BY <2>2, OneVersion
    <2>4. AtHome(Home, exportVersions, worker)
      BY <2>2, <2>3 DEF AtHome, Views, View, Places, Busy
    <2> QED  BY <2>1, <2>4
  <1>2. HomeInv => KnownInv /\ WorkerFits
    BY HonestParts
  <1>3. HomeInv => ReadsItsOwn
    BY <1>2, HomeIsRead
  <1>4. HomeInv /\ HasHome(Home)' /\ [Next]_vars => HomeInv'
    BY <1>2, <1>3, StepHonest, StepAtHome, StepSecretsAtHome
  <1>5. HomeInv => ExportIsHonest /\ RotationScheduled
    BY HonestExport
  <1> QED  BY <1>1, <1>4, <1>5, PTL DEF Spec

(* The same for a single export that has another target in each incarnation *)
(* but keeps it while it lives, next to the Secrets that earlier            *)
(* incarnations have left behind with the Orphan policy.                    *)
THEOREM OneExportIsHonest ==
  ASSUME \A e, f \in Export : e = f
  PROVE  Spec /\ [](retargeted = {}) => [](ExportIsHonest /\ RotationScheduled)
  <1>1. HonestInv /\ retargeted = {} => ReadsItsOwn
    <2> DEFINE s == TargetSecret(worker.item)
    <2> SUFFICES ASSUME HonestInv, retargeted = {}, worker.pc = "getSecret",
                        secrets[s] # Absent
                 PROVE  s = worker.item.spec.target
                        /\ secrets[s].export \in {worker.key, Absent}
      BY DEF ReadsItsOwn
    <2>1. ExportInv /\ worker.key \in Export /\ worker.item \in ExportObject
          /\ worker.item # Absent
      BY HonestParts
    <2>2. worker.item \in ExportViews
      BY <2>1, ExportItem
    <2>3. s = worker.item.spec.target
      BY <2>1, <2>2 DEF ExportViews, TargetSecret
    <2>4. s \in Secret /\ secrets[s] \in SecretObject
      BY <2>1, HonestParts, ObjectType DEF TypeOK
    <2>5. secrets[s].export \in Export \cup {Absent}
      BY <2>4 DEF SecretObject
    <2> QED  BY <2>1, <2>3, <2>5
  <1>2. HonestInv /\ retargeted = {} /\ [Next]_vars => HonestInv'
    BY <1>1, StepHonest
  <1>3. HonestInv => ExportIsHonest /\ RotationScheduled
    BY HonestExport
  <1> QED  BY <1>2, <1>3, InitHonest, PTL DEF Spec

-----------------------------------------------------------------------------
(* One export that may be moved, and that cleans up behind itself *)

(* Every copy has a spec that a user has submitted. *)
Submitted(m, w) ==
  \A e \in Export : \A i \in Views(m, w, e) :
    View(m, w, e, i) # Absent => View(m, w, e, i).spec \in Specs

(* Nobody but the operator has created a Secret. *)
SecretsOwned ==
  \A s \in Secret : secrets[s] # Absent => secrets[s].owner # Absent

(* When Reconcile looks for the Secret, the previous one has gone. *)
PreviousGone ==
  worker.pc = "getSecret" =>
    LET s == worker.item.status.target
    IN  \/ s \in {Absent, worker.item.spec.target}
        \/ secrets[s] = Absent

(* No step invents a spec. *)
LEMMA StepSubmitted ==
  ASSUME KnownInv, Submitted(exportVersions, worker), [Next]_vars
  PROVE  Submitted(exportVersions, worker)'
  <1>1. Tracked(Export, ExportVersion, exportVersions, worker)
    BY VersionsType DEF KnownInv
  <1>2. ASSUME NEW m, NEW w, NEW next, NEW u, SeesNoMore(m, w, next, u, Export),
               Submitted(m, w)
        PROVE  Submitted(next, u)
    BY <1>2 DEF SeesNoMore, Submitted
  <1>3. CASE SeesNoMore(exportVersions, worker, exportVersions', worker', Export)
    BY <1>2, <1>3
  <1>4. ASSUME NEW e \in Export, NEW x \in ExportVersion,
               exportVersions' = Appended(exportVersions, e, x), Follows(worker, worker'),
               x # Absent =>
                 \/ x.spec \in Specs
                 \/ /\ Stored(exportVersions[e]) # Absent
                    /\ x.spec = Stored(exportVersions[e]).spec
        PROVE  Submitted(exportVersions, worker)'
    <2> DEFINE m == exportVersions
               u == worker'
               n == Len(m[e]) + 1
               next == Appended(m, e, x)
    <2>1. Tracked(Export, ExportVersion, m, u) /\ Submitted(m, u)
      BY <1>1, <1>2, <1>4, FewerFollow
    <2>2. /\ Views(next, u, e) = Views(m, u, e) \cup {n}
          /\ \A i \in Views(m, u, e) : View(next, u, e, i) = View(m, u, e, i)
          /\ View(next, u, e, n) = x
          /\ \A l \in Export \ {e} :
               /\ Views(next, u, l) = Views(m, u, l)
               /\ \A i \in Views(m, u, l) : View(next, u, l, i) = View(m, u, l, i)
      BY <2>1, ViewsAppend
    <2>3. /\ Len(m[e]) \in Views(m, u, e)
          /\ View(m, u, e, Len(m[e])) = Stored(m[e])
      BY <2>1, ViewType
    <2> HIDE DEF next, n, m
    <2>4. x # Absent => x.spec \in Specs
      BY <1>4, <2>1, <2>3 DEF Submitted, m
    <2>5. Submitted(next, u)
      BY <2>1, <2>2, <2>4 DEF Submitted
    <2> QED  BY <1>4, <2>5 DEF next, m
  <1> QED  BY <1>3, <1>4, StepVersions

(* The Secrets that there are have been written by the operator, unless     *)
(* users create some.                                                       *)
LEMMA StepSecretsOwned ==
  ASSUME KnownInv, "CreateSecret" \notin UserOps, SecretsOwned, [Next]_vars
  PROVE  SecretsOwned'
  <1>1. ASSUME NEW s \in Secret, Touches(s), secrets'[s] = Absent
        PROVE  SecretsOwned'
    BY <1>1 DEF SecretsOwned, Touches
  <1>2. CASE DeletePreviousTarget \/ WriteSecret \/ DeleteTarget
    <2>1. CASE \E s \in Secret : Touches(s) /\ secrets'[s] = Absent
      BY <1>1, <2>1
    <2>2. CASE /\ worker.pc = "write" /\ WrittenAt \in Secret /\ Touches(WrittenAt)
               /\ secrets'[WrittenAt] = MergedSecret
      <3>1. worker.item \in ExportObject
        BY <2>2, BusyType DEF KnownInv
      <3>2. worker.item.uid # Absent
        BY <3>1, ObjectType, ExportAbsentAssumption
      <3>3. MergedSecret.owner = worker.item.uid
        BY DEF MergedSecret
      <3>4. PICK s, x : s = WrittenAt /\ x = MergedSecret
        BY <2>2
      <3>5. s \in Secret /\ Touches(s) /\ secrets'[s] = x /\ x.owner # Absent
        BY <2>2, <3>2, <3>3, <3>4
      <3> QED  BY <3>5 DEF SecretsOwned, Touches
    <2> QED  BY <1>2, <2>1, <2>2, CallFields
  <1>3. ASSUME NEW s \in Secret, TamperSecret(s) PROVE SecretsOwned'
    <2> DEFINE d == [k \in Key |-> Tampered]
    <2>1. secrets[s] # Absent /\ secrets' = [secrets EXCEPT ![s] = [secrets[s] EXCEPT !.data = d]]
      BY <1>3 DEF TamperSecret
    <2>2. secrets \in [Secret -> SecretObject \cup {Absent}]
      BY DEF KnownInv, TypeOK
    <2> HIDE DEF d
    <2>3. [secrets[s] EXCEPT !.data = d].owner = secrets[s].owner
      BY <2>1, <2>2 DEF SecretObject
    <2> QED  BY <2>1, <2>2, <2>3 DEF SecretsOwned
  <1>4. ASSUME NEW s \in Secret, DeleteSecret(s) PROVE SecretsOwned'
    <2>1. DeleteSecretAt(s)
      BY <1>4 DEF DeleteSecret
    <2> QED  BY <1>1, <2>1, DeleteTouches DEF KnownInv
  <1>5. ~\E s \in Secret : CreateSecret(s)
    BY DEF CreateSecret
  <1>6. CASE UNCHANGED secrets
    BY <1>6 DEF SecretsOwned
  <1> QED  BY <1>2, <1>3, <1>4, <1>5, <1>6, OthersKeepSecrets

(* The only Secret that the export can have left behind is that of its      *)
(* status, and it is deleted before Reconcile goes on.                      *)
LEMMA StepPreviousGone ==
  ASSUME ExportInv, Submitted(exportVersions, worker), SecretsOwned, PreviousGone,
         MaxUid = 1, \A spec \in Specs : spec.policy = "Delete",
         "CreateSecret" \notin UserOps, [Next]_vars
  PROVE  PreviousGone'
  <1> DEFINE p == worker.item.status.target
  <1>1. KnownInv /\ TypeOK
    BY DEF ExportInv, KnownInv
  <1>2. CASE GetPreviousTarget
    <2>1. /\ worker.pc = "getPrevious" /\ UNCHANGED secrets
          /\ \/ worker' = [worker EXCEPT !.pc = "deletePrevious",
                                         !.secret = secrets[worker.item.status.target]]
             \/ /\ worker' = [worker EXCEPT !.pc = "getSecret"]
                /\ ~PreviousTargetOwned(worker.item)
      BY <1>2 DEF GetPreviousTarget, Advance
    <2>2. worker \in BusyWorker
      BY <1>1, <2>1, BusyType
    <2>3. worker'.item = worker.item
          /\ (worker'.pc = "getSecret" => ~PreviousTargetOwned(worker.item))
      BY <2>1, <2>2 DEF BusyWorker
    <2>4. /\ worker.key \in Export /\ worker.item \in ExportObject /\ worker.item # Absent
          /\ worker.item.uid \in 1 .. 1 /\ lastUid \in Nat /\ lastUid <= 1
      BY <2>1, ExportItem, ExportParts
    <2>5. worker.item.spec.policy = "Delete"
      <3>1. /\ 0 \in Views(exportVersions, worker, worker.key)
            /\ View(exportVersions, worker, worker.key, 0) = worker.item
        BY <2>1 DEF Views, View, Busy
      <3> QED  BY <2>4, <3>1 DEF Submitted
    <2>6. ASSUME NEW s \in Secret, secrets[s] # Absent
          PROVE  secrets[s].owner = worker.item.uid
      <3>1. SecretOwner[s] = secrets[s].owner /\ secrets[s].owner # Absent
        BY <2>6 DEF SecretOwner, SecretsOwned
      <3>2. SecretOwner[s] \in 1 .. lastUid
        BY <3>1, ExportParts
      <3> QED  BY <2>4, <3>1, <3>2
    <2>7. p \in Secret \cup {Absent}
      BY <2>4, ObjectType
    <2>8. worker'.pc = "getSecret" =>
            p \in {Absent, worker.item.spec.target} \/ secrets[p] = Absent
      BY <2>3, <2>5, <2>6, <2>7 DEF PreviousTargetOwned, IsOwnedSecret
    <2> QED  BY <2>1, <2>3, <2>8 DEF PreviousGone
  <1>3. CASE DeletePreviousTarget
    <2>1. /\ worker.pc = "deletePrevious" /\ secrets' = [secrets EXCEPT ![p] = Absent]
          /\ worker' = [worker EXCEPT !.pc = "getSecret", !.secret = Absent]
      BY <1>3 DEF DeletePreviousTarget, DeleteSecretAt
    <2>2. worker \in BusyWorker /\ p \in Secret
      BY <1>1, <2>1, BusyType DEF KnownInv, WorkerKnows
    <2>3. worker'.item = worker.item
      BY <2>1, <2>2 DEF BusyWorker
    <2>4. secrets'[p] = Absent
      BY <1>1, <2>1, <2>2 DEF TypeOK
    <2> QED  BY <2>3, <2>4 DEF PreviousGone
  <1>4. CASE WriteSecret \/ DeleteTarget
    <2>1. worker'.pc # "getSecret"
      BY <1>1, <1>4, CallFields DEF WriteSecret, DeleteTarget
    <2> QED  BY <2>1 DEF PreviousGone
  <1>5. CASE \/ SpecError \/ MissingCluster \/ MissingConnection \/ FoundDependencies
             \/ GetTarget \/ ReuseSecret \/ ReplaceSecret
             \/ GenerateKubeconfig \/ GenerateFails
    <2>1. worker'.pc # "getSecret"
      <3>1. worker.pc # "getPrevious"
        BY <1>5 DEF SpecError, MissingCluster, MissingConnection, FoundDependencies,
           GetTarget, ReuseSecret, ReplaceSecret, GenerateKubeconfig, GenerateFails
      <3> QED  BY <1>1, <1>5, <3>1, LookFields
    <2> QED  BY <2>1 DEF PreviousGone
  <1>6. CASE /\ ~(DeletePreviousTarget \/ WriteSecret \/ DeleteTarget)
             /\ ~(\/ SpecError \/ MissingCluster \/ MissingConnection \/ FoundDependencies
                  \/ GetPreviousTarget \/ GetTarget \/ ReuseSecret \/ ReplaceSecret
                  \/ GenerateKubeconfig \/ GenerateFails)
    <2>1. UNCHANGED worker \/ worker'.pc # "getSecret"
      BY <1>1, <1>6, OthersKeepWorker
    <2>2. ASSUME NEW s \in Secret, secrets[s] = Absent PROVE secrets'[s] = Absent
      <3>1. secrets \in [Secret -> SecretObject \cup {Absent}]
        BY <1>1 DEF TypeOK
      <3>2. ASSUME NEW t \in Secret, TamperSecret(t) PROVE secrets'[s] = Absent
        BY <2>2, <3>1, <3>2 DEF TamperSecret
      <3>3. ASSUME NEW t \in Secret, DeleteSecret(t) PROVE secrets'[s] = Absent
        BY <2>2, <3>1, <3>3 DEF DeleteSecret, DeleteSecretAt
      <3>4. ~\E t \in Secret : CreateSecret(t)
        BY DEF CreateSecret
      <3> QED  BY <1>6, <2>2, <3>2, <3>3, <3>4, OthersKeepSecrets
    <2>3. worker.pc = "getSecret" => p \in Secret \cup {Absent}
      BY <1>1, BusyType, ObjectType
    <2> QED  BY <2>1, <2>2, <2>3 DEF PreviousGone
  <1> QED  BY <1>2, <1>3, <1>4, <1>5, <1>6

(* An export that is moved as often as users like: with the Delete policy,  *)
(* and where nobody else creates Secrets, the status of its one incarnation *)
(* is true.  deletePreviousTargetSecret has removed the previous Secret,    *)
(* whose name is still in the status, before Reconcile looks for it.  (With *)
(* the Orphan policy it is found, and is taken for the target.)             *)
THEOREM MovedExportIsHonest ==
  ASSUME \A e, f \in Export : e = f,
         MaxUid = 1, \A spec \in Specs : spec.policy = "Delete",
         "CreateSecret" \notin UserOps
  PROVE  Spec => [](ExportIsHonest /\ RotationScheduled)
  <1> DEFINE MovedInv == /\ HonestInv /\ SecretsOwned /\ PreviousGone
                         /\ Submitted(exportVersions, worker)
  <1>1. Init => MovedInv
    <2> SUFFICES ASSUME Init PROVE MovedInv
      OBVIOUS
    <2>1. worker.pc = "idle" /\ exportVersions = [e \in Export |-> <<Absent>>]
      BY DEF Init, IdleWorker
    <2>2. HonestInv /\ SecretsOwned /\ PreviousGone
      BY <2>1, InitHonest DEF Init, SecretsOwned, PreviousGone
    <2>3. \A e \in Export : Len(exportVersions[e]) = 1 /\ exportVersions[e][1] = Absent
      BY <2>1, OneVersion
    <2>4. Submitted(exportVersions, worker)
      BY <2>1, <2>3 DEF Submitted, Views, View, Places, Busy
    <2> QED  BY <2>2, <2>4
  <1>2. MovedInv => ReadsItsOwn
    <2> DEFINE s == TargetSecret(worker.item)
    <2> SUFFICES ASSUME HonestInv, PreviousGone, worker.pc = "getSecret",
                        secrets[s] # Absent
                 PROVE  s = worker.item.spec.target
                        /\ secrets[s].export \in {worker.key, Absent}
      BY DEF ReadsItsOwn
    <2>1. worker.key \in Export /\ worker.item \in ExportObject
      BY HonestParts
    <2>2. s = worker.item.spec.target
      BY DEF PreviousGone, TargetSecret
    <2>3. s \in Secret /\ secrets[s] \in SecretObject
      BY <2>1, HonestParts, ObjectType DEF TypeOK
    <2>4. secrets[s].export \in Export \cup {Absent}
      BY <2>3 DEF SecretObject
    <2> QED  BY <2>1, <2>2, <2>4
  <1>3. MovedInv /\ [Next]_vars => MovedInv'
    BY <1>2, HonestParts, StepHonest, StepSubmitted, StepSecretsOwned, StepPreviousGone
  <1>4. MovedInv => ExportIsHonest /\ RotationScheduled
    BY HonestExport
  <1> QED  BY <1>1, <1>3, <1>4, PTL DEF Spec

=============================================================================
