------------------------- MODULE HelmReleaseProofs --------------------------
(***************************************************************************)
(* Proofs about HelmRelease, for every set of releases, kubeconfigs, names *)
(* and specs, any failures and user operations, and every bound.  The      *)
(* lineage of the objects is that of ObjectVersionsProofs; what is         *)
(* particular to this controller is that Helm's history is the only record *)
(* of what was installed, and that a rollback brings an older record back. *)
(***************************************************************************)
EXTENDS HelmRelease, ObjectVersionsProofs

-----------------------------------------------------------------------------
(* Types, and what Reconcile knows at each of its steps *)

(* Helm installs for an object that was not being deleted and uninstalls    *)
(* for one that was; all but ensureFinalizer work on one with a finalizer.  *)
WorkerKnows ==
  worker.pc # "idle" =>
    /\ worker.pc \in {"addFinalizer", "checkSpec", "runHelm", "finish"}
         => ~worker.item.deleting
    /\ worker.pc \in {"uninstall", "removeFinalizer"} => worker.item.deleting
    /\ worker.pc # "addFinalizer" => worker.item.fins # {}
    /\ worker.reason = "Uninstalled" => worker.item.deleting

KnownInv == TypeOK /\ WorkerKnows

(* The parts of an object have their types. *)
LEMMA ObjectType ==
  ASSUME NEW o \in ReleaseObject
  PROVE  /\ o # Absent /\ o.uid \in Nat /\ o.gen \in Nat /\ o.spec \in ReleaseSpec
         /\ o.spec.kubeconfig \in Kubeconfig /\ o.spec.chart \in Chart
         /\ PlaceOf(o.spec) \in Place
         /\ o.deleting \in BOOLEAN /\ o.fins \in SUBSET {Finalizer}
  BY ReleaseAbsentAssumption DEF ReleaseObject, ReleaseSpec, Place, PlaceOf

(* A worker that is not idle has an object. *)
LEMMA BusyType ==
  ASSUME TypeOK, worker.pc # "idle"
  PROVE  worker \in BusyWorker /\ worker.key \in Release /\ worker.item \in ReleaseObject
  BY DEF TypeOK, IdleWorker, BusyWorker

(* The versions are those of the lineage. *)
LEMMA VersionsType ==
  ASSUME TypeOK
  PROVE  /\ Tracked(Release, ReleaseVersion, releaseVersions, worker)
         /\ Absent \in ReleaseVersion
         /\ \A r \in Release : /\ Cached(releaseVersions[r]) \in ReleaseVersion
                            /\ Stored(releaseVersions[r]) \in ReleaseVersion
  <1>1. releaseVersions \in VersionMaps(Release, ReleaseVersion)
    BY DEF TypeOK, VersionMaps
  <1>2. Versioned(ReleaseVersion)
    BY ObjectType DEF Versioned, ReleaseVersion
  <1>3. worker.pc # "idle" =>
          worker.key \in Release /\ worker.item \in ReleaseVersion /\ worker.item # Absent
    BY BusyType, ObjectType DEF ReleaseVersion
  <1>4. Tracked(Release, ReleaseVersion, releaseVersions, worker)
    BY <1>1, <1>2, <1>3 DEF Tracked
  <1> QED  BY <1>1, <1>4, MapEnds DEF ReleaseVersion

(* A store of a version is a write of the lineage. *)
LEMMA StoreIsAppend ==
  ASSUME TypeOK, NEW r \in Release, NEW x \in ReleaseVersion, StoreRelease(r, x)
  PROVE  /\ releaseVersions' = Appended(releaseVersions, r, x)
         /\ releaseVersions' \in [Release -> Seq(ReleaseVersion)]
         /\ \A z \in Release : releaseVersions'[z] # <<>>
  <1>1. releaseVersions' = Appended(releaseVersions, r, x)
    BY DEF StoreRelease, Appended
  <1>2. releaseVersions \in VersionMaps(Release, ReleaseVersion)
    BY DEF TypeOK, VersionMaps
  <1>3. Appended(releaseVersions, r, x) \in VersionMaps(Release, ReleaseVersion)
    BY <1>2, MapAppend
  <1> QED  BY <1>1, <1>3 DEF VersionMaps

(* The initial states. *)
LEMMA InitKnown == Init => KnownInv
  <1> SUFFICES ASSUME Init PROVE KnownInv
    OBVIOUS
  <1>1. /\ releaseVersions \in [Release -> Seq(ReleaseVersion)]
        /\ \A r \in Release : releaseVersions[r] # <<>>
    <2>1. <<Absent>> \in Seq(ReleaseVersion) /\ <<Absent>> # <<>>
      BY OneVersion DEF ReleaseVersion
    <2> QED  BY <2>1 DEF Init
  <1>2. worker = IdleWorker /\ worker.pc = "idle"
    BY DEF Init, IdleWorker
  <1>3. kubeconfigs \in [Kubeconfig -> KubeconfigValue]
    BY DEF Init, KubeconfigValue
  <1>4. helm \in [Place -> Revision \cup {Absent}]
    BY DEF Init
  <1> QED
    BY <1>1, <1>2, <1>3, <1>4 DEF Init, KnownInv, TypeOK, WorkerKnows

(* Reconcile starts. *)
LEMMA KnownBegin ==
  ASSUME KnownInv, NEW r \in Release, Reconcile(r)
  PROVE  /\ KnownInv'
         /\ \/ UNCHANGED worker
            \/ /\ worker.pc = "idle" /\ worker'.key = r
               /\ worker'.item = Cached(releaseVersions[r])
               /\ Cached(releaseVersions[r]) # Absent
               /\ worker'.pc = "removeFinalizer" => worker'.item.spec.policy = "Orphan"
         /\ UNCHANGED <<releaseVersions, environment, helm, orphaned>>
  <1> DEFINE item == Cached(releaseVersions[r])
  <1> USE DEF KnownInv
  <1>1. item \in ReleaseVersion
    BY VersionsType
  <1>2. CASE ReconcileNothing(r)
    <2>1. /\ UNCHANGED <<releaseVersions, worker, environment, helm, orphaned>>
          /\ queue' \subseteq Release
      BY <1>2 DEF ReconcileNothing, TypeOK
    <2> QED  BY <2>1 DEF TypeOK, WorkerKnows, environment
  <1>3. ASSUME NEW pc \in {"addFinalizer", "checkSpec", "getKubeconfig",
                           "removeFinalizer"},
               CanReconcile(r), item # Absent, Begin(r, pc),
               pc # "addFinalizer" => item.fins # {},
               pc \in {"addFinalizer", "checkSpec"} => ~item.deleting,
               pc \in {"getKubeconfig", "removeFinalizer"} => item.deleting,
               pc = "removeFinalizer" => item.spec.policy = "Orphan"
        PROVE  /\ KnownInv'
               /\ worker.pc = "idle" /\ worker'.key = r
               /\ worker'.item = item
               /\ worker'.pc = "removeFinalizer" => item.spec.policy = "Orphan"
               /\ UNCHANGED <<releaseVersions, environment, helm, orphaned>>
    <2>1. item \in ReleaseObject
      BY <1>1, <1>3 DEF ReleaseVersion
    <2>2. worker' = [pc |-> pc, key |-> r, item |-> item, before |-> Absent,
                     reason |-> "None", again |-> FALSE]
      BY <1>3 DEF Begin, IdleWorker
    <2>3. worker' \in BusyWorker
      BY <2>1, <2>2 DEF BusyWorker, Reason
    <2>4. WorkerKnows'
      BY <1>3, <2>2 DEF WorkerKnows
    <2>5. /\ UNCHANGED <<releaseVersions, environment, helm, orphaned>>
          /\ queue' \subseteq Release
      BY <1>3 DEF Begin, TypeOK
    <2>6. TypeOK'
      BY <2>3, <2>5 DEF TypeOK, environment
    <2> QED  BY <1>3, <2>2, <2>4, <2>5, <2>6 DEF CanReconcile
  <1>4. CASE ReconcileDelete(r)
    <2>1. CASE item.spec.policy = "Orphan"
      BY <1>3, <1>4, <2>1 DEF ReconcileDelete
    <2>2. CASE item.spec.policy # "Orphan"
      BY <1>3, <1>4, <2>2 DEF ReconcileDelete
    <2> QED  BY <2>1, <2>2
  <1>5. CASE ReconcileNew(r)
    BY <1>3, <1>5 DEF ReconcileNew
  <1>6. CASE ReconcileRelease(r)
    BY <1>3, <1>6 DEF ReconcileRelease
  <1> QED  BY <1>2, <1>4, <1>5, <1>6 DEF Reconcile

(* Reconcile has something to report. *)
LEMMA KnownReport ==
  ASSUME TypeOK, WorkerKnows, worker.pc \notin {"idle", "addFinalizer"},
         NEW reason \in Reason, NEW again \in BOOLEAN,
         worker' = Report(reason, again),
         reason = "Uninstalled" => worker.item.deleting
  PROVE  /\ worker' \in BusyWorker /\ WorkerKnows'
         /\ Follows(worker, worker') /\ worker'.pc = "updateStatus"
         /\ worker'.reason = reason
  <1>1. worker \in BusyWorker
    BY BusyType
  <1>2. /\ worker' \in BusyWorker
        /\ worker'.pc = "updateStatus" /\ worker'.key = worker.key
        /\ worker'.item = worker.item /\ worker'.reason = reason
    BY <1>1 DEF Report, BusyWorker
  <1> QED  BY <1>2 DEF WorkerKnows, Follows

(* A step of Reconcile that only looks: nothing but its own state changes,  *)
(* its copy stays, and neither Helm nor the finalizer is next without a     *)
(* kubeconfig.                                                              *)
LEMMA KnownLook ==
  ASSUME KnownInv,
         \/ SpecError \/ MissingCluster \/ FoundCluster
         \/ NoKubeconfig \/ FoundKubeconfig \/ UpgradeRefused \/ HelmUnavailable
  PROVE  /\ KnownInv' /\ Follows(worker, worker')
         /\ worker'.pc \notin {"finish", "removeFinalizer"}
         /\ worker'.pc = "updateStatus" => worker'.reason # "Uninstalled"
         /\ UNCHANGED <<releaseVersions, queue, environment, helm, orphaned>>
  <1> USE DEF KnownInv
  <1>1. {"ValidationFailed", "MissingCluster", "MissingSecret", "ReconcileFailed"}
          \subseteq Reason \ {"Uninstalled"}
    BY DEF Reason
  <1>2. /\ worker.pc \notin {"idle", "addFinalizer"}
        /\ UNCHANGED <<releaseVersions, queue, environment, helm, orphaned>>
    BY DEF SpecError, MissingCluster, FoundCluster, NoKubeconfig, FoundKubeconfig,
       UpgradeRefused, HelmUnavailable, Advance
  <1>3. worker \in BusyWorker /\ worker.item.deleting \in BOOLEAN
    BY <1>2, BusyType, ObjectType
  <1>4. ASSUME worker' \in BusyWorker PROVE TypeOK'
    BY <1>2, <1>4 DEF TypeOK, environment
  <1>5. CASE \E reason \in Reason \ {"Uninstalled"}, again \in BOOLEAN :
               worker' = Report(reason, again)
    BY <1>2, <1>4, <1>5, KnownReport
  <1>6. CASE SpecError \/ MissingCluster \/ UpgradeRefused \/ HelmUnavailable
    BY <1>1, <1>5, <1>6
       DEF SpecError, MissingCluster, UpgradeRefused, HelmUnavailable, Advance
  <1>7. CASE NoKubeconfig
    BY <1>1, <1>5, <1>7 DEF NoKubeconfig, Advance
  <1>8. ASSUME NEW pc \in {"getKubeconfig", "uninstall", "runHelm"},
               worker' = [worker EXCEPT !.pc = pc],
               pc = "uninstall" => worker.item.deleting,
               pc = "runHelm" => ~worker.item.deleting
        PROVE  /\ KnownInv' /\ Follows(worker, worker') /\ worker'.pc = pc
    <2>1. /\ worker' \in BusyWorker /\ worker'.pc = pc
          /\ worker'.key = worker.key /\ worker'.item = worker.item
          /\ worker'.reason = worker.reason
      BY <1>3, <1>8 DEF BusyWorker
    <2> QED  BY <1>2, <1>4, <1>8, <2>1 DEF WorkerKnows, Follows
  <1>9. CASE FoundCluster
    BY <1>2, <1>8, <1>9 DEF FoundCluster, Advance
  <1>10. CASE FoundKubeconfig
    <2>1. CASE worker.item.deleting
      BY <1>2, <1>8, <1>10, <2>1 DEF FoundKubeconfig, Advance
    <2>2. CASE ~worker.item.deleting
      BY <1>2, <1>8, <1>10, <2>2 DEF FoundKubeconfig, Advance
    <2> QED  BY <2>1, <2>2
  <1> QED  BY <1>6, <1>7, <1>9, <1>10

(* What Helm is asked to do: the history changes at the place of the copy   *)
(* that Reconcile holds and nowhere else.                                   *)
LEMMA KnownHelm ==
  ASSUME KnownInv,
         InstallOrUpgrade \/ FinishHelm \/ HelmFails \/ Uninstall \/ UninstallFails
  PROVE  /\ KnownInv' /\ Follows(worker, worker')
         /\ \/ /\ worker.pc = "runHelm" /\ helm' = Recorded("pending")
               /\ worker'.pc = "finish" /\ worker'.before = helm[ItemPlace]
               /\ worker'.item = worker.item
            \/ /\ worker.pc = "finish" /\ worker'.pc = "updateStatus"
               /\ worker'.reason # "Uninstalled"
               /\ helm' \in {Recorded("deployed"), Recorded("failed"), RolledBack, helm}
            \/ /\ worker.pc = "uninstall" /\ worker'.pc = "updateStatus"
               /\ helm' \in {helm, Removed}
               /\ worker'.reason = "Uninstalled" => helm' = Removed
         /\ UNCHANGED <<releaseVersions, queue, environment, orphaned>>
  <1> USE DEF KnownInv
  <1>1. /\ worker.pc \in {"runHelm", "finish", "uninstall"}
        /\ UNCHANGED <<releaseVersions, queue, environment, orphaned>>
    BY DEF InstallOrUpgrade, FinishHelm, HelmFails, Uninstall, UninstallFails
  <1>2. /\ worker \in BusyWorker /\ worker.item \in ReleaseObject
        /\ worker.item.uid \in Nat /\ worker.item.spec.chart \in Chart
        /\ ItemPlace \in Place /\ worker.before \in Revision \cup {Absent}
    BY <1>1, BusyType, ObjectType DEF BusyWorker, ItemPlace
  <1>3. helm \in [Place -> Revision \cup {Absent}]
    BY DEF TypeOK
  <1>4. ASSUME NEW state \in {"pending", "deployed", "failed"}
        PROVE  Recorded(state) \in [Place -> Revision \cup {Absent}]
    BY <1>2, <1>3 DEF Recorded, Revision
  <1>5. /\ RolledBack \in [Place -> Revision \cup {Absent}]
        /\ Removed \in [Place -> Revision \cup {Absent}]
    BY <1>2, <1>3 DEF RolledBack, Removed
  <1>6. ASSUME worker' \in BusyWorker, helm' \in [Place -> Revision \cup {Absent}]
        PROVE  TypeOK'
    BY <1>1, <1>6 DEF TypeOK, environment
  <1>7. {"Installed", "ReconcileFailed", "Uninstalled"} \subseteq Reason
    BY DEF Reason
  <1>8. CASE InstallOrUpgrade
    <2>1. /\ worker.pc = "runHelm" /\ helm' = Recorded("pending")
          /\ worker' = [worker EXCEPT !.pc = "finish", !.before = helm[ItemPlace]]
      BY <1>8 DEF InstallOrUpgrade
    <2>2. helm[ItemPlace] \in Revision \cup {Absent}
      BY <1>2, <1>3
    <2>3. /\ worker' \in BusyWorker /\ worker'.pc = "finish"
          /\ worker'.key = worker.key /\ worker'.item = worker.item
          /\ worker'.reason = worker.reason /\ worker'.before = helm[ItemPlace]
      BY <1>2, <2>1, <2>2 DEF BusyWorker
    <2>4. WorkerKnows' /\ Follows(worker, worker')
      BY <2>1, <2>3 DEF WorkerKnows, Follows
    <2> QED  BY <1>1, <1>4, <1>6, <2>1, <2>3, <2>4
  <1>9. CASE FinishHelm
    <2>1. /\ worker.pc = "finish" /\ helm' = Recorded("deployed")
          /\ worker' = Report("Installed", FALSE)
      BY <1>9 DEF FinishHelm
    <2> QED  BY <1>1, <1>4, <1>6, <1>7, <2>1, KnownReport
  <1>10. CASE HelmFails
    <2>1. /\ worker.pc = "finish" /\ helm' \in {Recorded("failed"), RolledBack, helm}
          /\ worker' = Report("ReconcileFailed", TRUE)
      BY <1>10 DEF HelmFails
    <2> QED  BY <1>1, <1>3, <1>4, <1>5, <1>6, <1>7, <2>1, KnownReport
  <1>11. CASE Uninstall
    <2>1. /\ worker.pc = "uninstall" /\ helm' = Removed
          /\ worker' = Report("Uninstalled", FALSE)
      BY <1>11 DEF Uninstall
    <2>2. worker.item.deleting
      BY <2>1 DEF WorkerKnows
    <2> QED  BY <1>1, <1>5, <1>6, <1>7, <2>1, <2>2, KnownReport
  <1>12. CASE UninstallFails
    <2>1. /\ worker.pc = "uninstall" /\ helm' \in {helm, Removed}
          /\ worker' = Report("ReconcileFailed", TRUE)
      BY <1>12 DEF UninstallFails
    <2> QED  BY <1>1, <1>3, <1>5, <1>6, <1>7, <2>1, KnownReport
  <1> QED  BY <1>8, <1>9, <1>10, <1>11, <1>12

-----------------------------------------------------------------------------
(* The writes to a release *)

(* Reconcile ends. *)
LEMMA DoneType ==
  ASSUME TypeOK, worker.pc # "idle", NEW again \in BOOLEAN, Done(again)
  PROVE  /\ worker' = IdleWorker /\ worker'.pc = "idle" /\ Follows(worker, worker')
         /\ queue' \subseteq Release
         /\ WorkerKnows'
  <1>1. worker.key \in Release /\ queue \subseteq Release
    BY BusyType DEF TypeOK
  <1>2. worker' = IdleWorker /\ worker'.pc = "idle"
    BY DEF Done, IdleWorker
  <1>3. queue' \subseteq Release
    BY <1>1 DEF Done
  <1> QED  BY <1>2, <1>3 DEF Follows, WorkerKnows

(* AddFinalizer gives the stored version its finalizer. *)
LEMMA AddIsFinalize ==
  ASSUME KnownInv, AddFinalizer
  PROVE  LET x == [worker.item EXCEPT !.fins = {Finalizer}]
             o == Stored(releaseVersions[worker.key])
         IN  /\ worker.key \in Release /\ Busy(worker, worker.key) /\ worker.item = o
             /\ x \in ReleaseObject /\ StoreRelease(worker.key, x) /\ Finalized(o, x)
             /\ x.status = o.status
             /\ KnownInv' /\ worker' = IdleWorker /\ Follows(worker, worker')
             /\ UNCHANGED <<environment, helm, orphaned>>
  <1> DEFINE x == [worker.item EXCEPT !.fins = {Finalizer}]
             o == Stored(releaseVersions[worker.key])
  <1> USE DEF KnownInv
  <1>1. /\ worker.pc = "addFinalizer" /\ worker.item = o /\ StoreRelease(worker.key, x)
        /\ Done(TRUE) /\ UNCHANGED <<environment, helm, orphaned>>
    BY DEF AddFinalizer
  <1>2. worker.key \in Release /\ worker.item \in ReleaseObject /\ worker.item # Absent
    BY <1>1, BusyType, ObjectType
  <1>3. /\ x \in ReleaseObject /\ x.uid = worker.item.uid /\ x.gen = worker.item.gen
        /\ x.spec = worker.item.spec /\ x.deleting = worker.item.deleting
        /\ x.fins = {Finalizer} /\ x.status = worker.item.status
    BY <1>2 DEF ReleaseObject
  <1> HIDE DEF x
  <1>4. x # Absent /\ x \in ReleaseVersion
    BY <1>3, ObjectType DEF ReleaseVersion
  <1>5. TypeOK'
    BY <1>1, <1>2, <1>4, StoreIsAppend, DoneType DEF TypeOK, environment
  <1>6. Finalized(o, x)
    BY <1>1, <1>2, <1>3, <1>4 DEF Finalized
  <1> QED
    BY <1>1, <1>2, <1>3, <1>5, <1>6, DoneType DEF Busy, x

(* UpdateStatus continues the stored version with a new status; that of an  *)
(* uninstall is followed by the removal of the finalizer.                   *)
LEMMA StatusIsContinue ==
  ASSUME KnownInv, UpdateStatus
  PROVE  LET o == Stored(releaseVersions[worker.key])
             status == [obs |-> o.gen, reason |-> worker.reason]
             x == [o EXCEPT !.status = status]
         IN  /\ worker.key \in Release /\ Busy(worker, worker.key)
             /\ x \in ReleaseObject /\ StoreRelease(worker.key, x) /\ Continuation(o, x)
             /\ o \in ReleaseObject /\ x.spec = o.spec
             /\ x.deleting = o.deleting /\ x.fins = o.fins
             /\ KnownInv' /\ Follows(worker, worker')
             /\ \/ worker' = IdleWorker
                \/ /\ worker.pc = "updateStatus" /\ worker.reason = "Uninstalled"
                   /\ worker'.pc = "removeFinalizer" /\ worker'.item = worker.item
             /\ UNCHANGED <<environment, helm, orphaned>>
  <1> DEFINE o == Stored(releaseVersions[worker.key])
             status == [obs |-> o.gen, reason |-> worker.reason]
             x == [o EXCEPT !.status = status]
  <1> USE DEF KnownInv
  <1>1. /\ worker.pc = "updateStatus" /\ o # Absent /\ StoreRelease(worker.key, x)
        /\ UNCHANGED <<environment, helm, orphaned>>
    BY DEF UpdateStatus, WriteStatus
  <1>2. /\ worker \in BusyWorker /\ worker.key \in Release
        /\ worker.item \in ReleaseObject
        /\ worker.reason \in Reason /\ worker.again \in BOOLEAN
    BY <1>1, BusyType DEF BusyWorker
  <1>3. o \in ReleaseObject
    BY <1>1, <1>2, VersionsType DEF ReleaseVersion
  <1>4. o.gen \in Nat /\ status \in [obs : Nat, reason : Reason]
    BY <1>2, <1>3, ObjectType
  <1> HIDE DEF o, status
  <1>5. /\ x \in ReleaseObject /\ x.uid = o.uid /\ x.gen = o.gen
        /\ x.spec = o.spec /\ x.deleting = o.deleting
        /\ x.fins = o.fins /\ x.status = status
    BY <1>3, <1>4 DEF ReleaseObject
  <1> HIDE DEF x
  <1>6. x # Absent /\ x \in ReleaseVersion
    BY <1>5, ObjectType DEF ReleaseVersion
  <1>7. Continuation(o, x)
    BY <1>1, <1>4, <1>5, <1>6 DEF Continuation
  <1>8. ASSUME queue' \subseteq Release, worker' = IdleWorker \/ worker' \in BusyWorker
        PROVE  TypeOK'
    BY <1>1, <1>2, <1>6, <1>8, StoreIsAppend DEF TypeOK, environment
  <1>9. CASE worker.reason = "Uninstalled"
    <2>1. worker' = [worker EXCEPT !.pc = "removeFinalizer"] /\ UNCHANGED queue
      BY <1>9 DEF UpdateStatus
    <2>2. /\ worker' \in BusyWorker /\ worker'.pc = "removeFinalizer"
          /\ worker'.key = worker.key /\ worker'.item = worker.item
          /\ worker'.reason = worker.reason
      BY <1>2, <2>1 DEF BusyWorker
    <2>3. WorkerKnows' /\ Follows(worker, worker')
      BY <1>1, <1>9, <2>2 DEF WorkerKnows, Follows
    <2>4. queue' \subseteq Release
      BY <2>1 DEF TypeOK
    <2>5. KnownInv'
      BY <1>8, <2>2, <2>3, <2>4
    <2> QED
      BY <1>1, <1>2, <1>3, <1>5, <1>7, <1>9, <2>2, <2>3, <2>5 DEF Busy, x, o, status
  <1>10. CASE worker.reason # "Uninstalled"
    <2>1. Done(worker.again)
      BY <1>10 DEF UpdateStatus
    <2>2. worker' = IdleWorker /\ Follows(worker, worker') /\ queue' \subseteq Release
          /\ WorkerKnows'
      BY <1>1, <1>2, <2>1, DoneType
    <2>3. KnownInv'
      BY <1>8, <2>2
    <2> QED
      BY <1>1, <1>2, <1>3, <1>5, <1>7, <2>2, <2>3 DEF Busy, x, o, status
  <1> QED  BY <1>9, <1>10

(* RemoveFinalizer takes the finalizer from the stored version, whichever   *)
(* incarnation that is by now.                                              *)
LEMMA RemoveIsSettle ==
  ASSUME KnownInv, RemoveFinalizer
  PROVE  LET o == Stored(releaseVersions[worker.key])
             x == Settle([o EXCEPT !.fins = {}])
         IN  /\ worker.key \in Release /\ Busy(worker, worker.key)
             /\ worker.item \in ReleaseObject /\ worker.item.deleting
             /\ o \in ReleaseObject /\ x \in ReleaseVersion /\ StoreRelease(worker.key, x)
             /\ o.deleting => x = Absent
             /\ ~o.deleting /\ o.fins = {} => Continuation(o, x)
             /\ x # Absent => x.uid = o.uid /\ x.spec = o.spec /\ x.status = o.status
             /\ KnownInv' /\ worker' = IdleWorker /\ Follows(worker, worker')
             /\ orphaned' = IF worker.item.spec.policy = "Orphan"
                              THEN orphaned \cup {worker.item.uid} ELSE orphaned
             /\ UNCHANGED <<environment, helm>>
  <1> DEFINE o == Stored(releaseVersions[worker.key])
             e == [o EXCEPT !.fins = {}]
             x == Settle(e)
  <1> USE DEF KnownInv
  <1>1. /\ worker.pc = "removeFinalizer" /\ o # Absent /\ StoreRelease(worker.key, x)
        /\ Done(FALSE) /\ UNCHANGED <<environment, helm>>
        /\ orphaned' = IF worker.item.spec.policy = "Orphan"
                         THEN orphaned \cup {worker.item.uid} ELSE orphaned
    BY DEF RemoveFinalizer
  <1>2. /\ worker.key \in Release /\ worker.item \in ReleaseObject
        /\ worker.item.uid \in Nat /\ worker.item.deleting
    BY <1>1, BusyType, ObjectType DEF WorkerKnows
  <1>3. o \in ReleaseObject
    BY <1>1, <1>2, VersionsType DEF ReleaseVersion
  <1> HIDE DEF o
  <1>4. /\ e \in ReleaseObject /\ e.uid = o.uid /\ e.gen = o.gen
        /\ e.spec = o.spec /\ e.deleting = o.deleting
        /\ e.fins = {} /\ e.status = o.status
    BY <1>3 DEF ReleaseObject
  <1> HIDE DEF e
  <1>5. /\ x \in ReleaseVersion
        /\ o.deleting => x = Absent
        /\ ~o.deleting => x = e
    BY <1>4 DEF Settle, ReleaseVersion
  <1>6. x # Absent => x.uid = o.uid /\ x.spec = o.spec /\ x.status = o.status
    <2>1. o.deleting \in BOOLEAN
      BY <1>3, ObjectType
    <2>2. CASE o.deleting
      BY <1>5, <2>2
    <2>3. CASE ~o.deleting
      BY <1>4, <1>5, <2>3
    <2> QED  BY <2>1, <2>2, <2>3
  <1>7. ~o.deleting /\ o.fins = {} => Continuation(o, x)
    <2>1. o.gen \in Nat /\ e # Absent
      BY <1>3, <1>4, ObjectType
    <2> QED  BY <1>1, <1>4, <1>5, <2>1 DEF Continuation
  <1> HIDE DEF x
  <1>8. worker' = IdleWorker /\ Follows(worker, worker') /\ queue' \subseteq Release
        /\ WorkerKnows'
    BY <1>1, DoneType
  <1>9. orphaned' \subseteq Nat
    BY <1>1, <1>2 DEF TypeOK
  <1>10. TypeOK'
    BY <1>1, <1>2, <1>5, <1>8, <1>9, StoreIsAppend DEF TypeOK, environment
  <1> QED
    BY <1>1, <1>2, <1>3, <1>5, <1>6, <1>7, <1>8, <1>10 DEF Busy, x, e, o

(* A conflict or a failed read ends Reconcile, and so does an object that   *)
(* has gone already.                                                        *)
LEMMA KnownCallFails ==
  ASSUME KnownInv, CallFails \/ ReadFails \/ NothingToRelease
  PROVE  /\ KnownInv' /\ worker' = IdleWorker /\ Follows(worker, worker')
         /\ UNCHANGED <<releaseVersions, environment, helm, orphaned>>
  <1> USE DEF KnownInv
  <1>1. /\ worker.pc # "idle" /\ (Done(TRUE) \/ Done(FALSE))
        /\ UNCHANGED <<releaseVersions, environment, helm, orphaned>>
    BY DEF CallFails, ReadFails, NothingToRelease
  <1>2. /\ worker' = IdleWorker /\ Follows(worker, worker')
        /\ queue' \subseteq Release /\ WorkerKnows'
    BY <1>1, DoneType
  <1>3. TypeOK'
    BY <1>1, <1>2 DEF TypeOK, environment
  <1> QED  BY <1>1, <1>2, <1>3

(* What users and other controllers change besides leaves Reconcile alone. *)
LEMMA KnownStays ==
  ASSUME KnownInv, UNCHANGED worker, TypeOK'
  PROVE  KnownInv' /\ Follows(worker, worker')
  BY DEF KnownInv, WorkerKnows, Follows

(* A new release. *)
LEMMA CreateIsNew ==
  ASSUME KnownInv, NEW r \in Release, CreateRelease(r)
  PROVE  \E x \in ReleaseObject :
           /\ StoreRelease(r, x) /\ Stored(releaseVersions[r]) = Absent
           /\ x # Absent /\ x.uid = lastUid + 1 /\ x.fins = {}
           /\ lastUid < MaxUid /\ lastUid' = lastUid + 1
           /\ KnownInv' /\ Follows(worker, worker')
           /\ UNCHANGED <<worker, helm, orphaned, retargeted>>
           /\ ~x.deleting
  <1> USE DEF KnownInv
  <1>1. PICK spec \in Specs : StoreRelease(r, NewRelease(lastUid + 1, spec))
    BY DEF CreateRelease
  <1> DEFINE x == NewRelease(lastUid + 1, spec)
  <1>2. /\ x \in ReleaseObject /\ x.uid = lastUid + 1 /\ x.fins = {}
        /\ ~x.deleting
    BY ReleaseAssumption DEF NewRelease, ReleaseObject, Reason, TypeOK
  <1> HIDE DEF x
  <1>3. x # Absent /\ x \in ReleaseVersion
    BY <1>2, ObjectType DEF ReleaseVersion
  <1>4. /\ Stored(releaseVersions[r]) = Absent /\ lastUid < MaxUid
        /\ lastUid' = lastUid + 1
        /\ UNCHANGED <<queue, worker, kubeconfigs, notices, clusterExists, changes,
                       retargeted, helm, orphaned>>
    BY DEF CreateRelease
  <1>5. StoreRelease(r, x)
    BY <1>1 DEF x
  <1>6. TypeOK'
    BY <1>3, <1>4, <1>5, StoreIsAppend DEF TypeOK
  <1> QED  BY <1>2, <1>3, <1>4, <1>5, <1>6, KnownStays

(* An edit. *)
LEMMA EditedType ==
  ASSUME NEW o \in ReleaseObject, NEW s \in ReleaseSpec
  PROVE  LET e == [o EXCEPT !.spec = s, !.gen = @ + 1]
         IN  /\ e \in ReleaseObject /\ e.uid = o.uid /\ e.spec = s /\ e.fins = o.fins
             /\ e.deleting = o.deleting /\ e.gen = o.gen + 1 /\ e.status = o.status
  <1> DEFINE n == [o EXCEPT !.spec = s]
  <1>1. /\ n \in ReleaseObject /\ n.uid = o.uid /\ n.fins = o.fins /\ n.spec = s
        /\ n.deleting = o.deleting /\ n.gen = o.gen /\ n.status = o.status
    BY DEF ReleaseObject
  <1>2. n.gen + 1 \in Nat
    BY <1>1, ObjectType
  <1>3. [o EXCEPT !.spec = s, !.gen = @ + 1] = [n EXCEPT !.gen = n.gen + 1]
    OBVIOUS
  <1> HIDE DEF n
  <1>4. LET e == [n EXCEPT !.gen = n.gen + 1]
        IN  /\ e \in ReleaseObject /\ e.uid = n.uid /\ e.spec = n.spec
            /\ e.fins = n.fins /\ e.deleting = n.deleting
            /\ e.gen = n.gen + 1 /\ e.status = n.status
    BY <1>1, <1>2 DEF ReleaseObject
  <1> QED  BY <1>1, <1>3, <1>4

(* A delete request. *)
LEMMA MarkedType ==
  ASSUME NEW o \in ReleaseObject
  PROVE  LET e == [o EXCEPT !.deleting = TRUE, !.gen = @ + 1]
         IN  /\ e \in ReleaseObject /\ e.uid = o.uid /\ e.spec = o.spec /\ e.fins = o.fins
             /\ e.deleting /\ e.gen = o.gen + 1 /\ e.status = o.status
  <1> DEFINE n == [o EXCEPT !.deleting = TRUE]
  <1>1. /\ n \in ReleaseObject /\ n.uid = o.uid /\ n.fins = o.fins /\ n.spec = o.spec
        /\ n.deleting /\ n.gen = o.gen /\ n.status = o.status
    BY DEF ReleaseObject
  <1>2. n.gen + 1 \in Nat
    BY <1>1, ObjectType
  <1>3. [o EXCEPT !.deleting = TRUE, !.gen = @ + 1] = [n EXCEPT !.gen = n.gen + 1]
    OBVIOUS
  <1> HIDE DEF n
  <1>4. LET e == [n EXCEPT !.gen = n.gen + 1]
        IN  /\ e \in ReleaseObject /\ e.uid = n.uid /\ e.spec = n.spec
            /\ e.fins = n.fins /\ e.deleting = n.deleting
            /\ e.gen = n.gen + 1 /\ e.status = n.status
    BY <1>1, <1>2 DEF ReleaseObject
  <1> QED  BY <1>1, <1>3, <1>4

(* A user edits the stored version. *)
LEMMA UpdateIsContinue ==
  ASSUME KnownInv, NEW r \in Release, UpdateRelease(r)
  PROVE  LET o == Stored(releaseVersions[r])
         IN  /\ o \in ReleaseObject
             /\ \E x \in ReleaseObject :
                  /\ StoreRelease(r, x) /\ Continuation(o, x) /\ x.status = o.status
                  /\ retargeted' = IF PlaceOf(x.spec) # PlaceOf(o.spec)
                                     THEN retargeted \cup {o.uid} ELSE retargeted
                  /\ x.deleting = o.deleting
             /\ KnownInv' /\ Follows(worker, worker')
             /\ UNCHANGED <<worker, lastUid, helm, orphaned>>
  <1> DEFINE o == Stored(releaseVersions[r])
  <1> USE DEF KnownInv
  <1>1. o \in ReleaseObject /\ o # Absent
    <2>1. o # Absent
      BY DEF UpdateRelease
    <2> QED  BY <2>1, VersionsType DEF ReleaseVersion
  <1>2. PICK spec \in Specs \ {o.spec} :
          /\ StoreRelease(r, [o EXCEPT !.spec = spec, !.gen = @ + 1])
          /\ retargeted' = IF PlaceOf(spec) # PlaceOf(o.spec)
                             THEN retargeted \cup {o.uid} ELSE retargeted
    BY DEF UpdateRelease
  <1>3. UNCHANGED <<queue, worker, kubeconfigs, notices, clusterExists, lastUid,
                    changes, helm, orphaned>>
    BY DEF UpdateRelease
  <1>4. o.uid \in Nat /\ o.gen \in Nat
    BY <1>1, ObjectType
  <1> HIDE DEF o
  <1>5. spec \in ReleaseSpec
    BY ReleaseAssumption
  <1> DEFINE x == [o EXCEPT !.spec = spec, !.gen = @ + 1]
  <1>6. /\ x \in ReleaseObject /\ x.uid = o.uid /\ x.spec = spec /\ x.fins = o.fins
        /\ x.deleting = o.deleting /\ x.gen = o.gen + 1 /\ x.status = o.status
    BY <1>1, <1>5, EditedType
  <1>7. StoreRelease(r, x)
    BY <1>2
  <1> HIDE DEF x
  <1>8. x # Absent /\ x \in ReleaseVersion
    BY <1>6, ObjectType DEF ReleaseVersion
  <1>9. Continuation(o, x)
    BY <1>1, <1>4, <1>6, <1>8 DEF Continuation
  <1>10. retargeted' \subseteq Nat
    BY <1>2, <1>4 DEF TypeOK
  <1>11. TypeOK'
    BY <1>3, <1>7, <1>8, <1>10, StoreIsAppend DEF TypeOK
  <1>12. KnownInv' /\ Follows(worker, worker')
    BY <1>3, <1>11, KnownStays
  <1> QED  BY <1>1, <1>2, <1>3, <1>6, <1>7, <1>9, <1>12 DEF o

(* A delete request marks a release that has its finalizer, and removes one    *)
(* that has none.                                                           *)
LEMMA DeleteIsSettle ==
  ASSUME KnownInv, NEW r \in Release, DeleteRelease(r)
  PROVE  LET o == Stored(releaseVersions[r])
         IN  /\ o \in ReleaseObject
             /\ \E x \in ReleaseVersion :
                  /\ StoreRelease(r, x)
                  /\ o.fins = {} => x = Absent
                  /\ o.fins # {} => Continuation(o, x)
                  /\ x # Absent => x.uid = o.uid /\ x.spec = o.spec /\ x.status = o.status
             /\ KnownInv' /\ Follows(worker, worker')
             /\ UNCHANGED <<worker, environment, helm, orphaned>>
  <1> DEFINE o == Stored(releaseVersions[r])
             e == [o EXCEPT !.deleting = TRUE, !.gen = @ + 1]
             x == Settle(e)
  <1> USE DEF KnownInv
  <1>1. o \in ReleaseObject /\ o # Absent /\ ~o.deleting
    <2>1. o # Absent /\ ~o.deleting
      BY DEF DeleteRelease
    <2> QED  BY <2>1, VersionsType DEF ReleaseVersion
  <1>2. /\ StoreRelease(r, x)
        /\ UNCHANGED <<queue, worker, environment, helm, orphaned>>
    BY DEF DeleteRelease
  <1>3. o.uid \in Nat /\ o.gen \in Nat
    BY <1>1, ObjectType
  <1> HIDE DEF o
  <1>4. /\ e \in ReleaseObject /\ e.uid = o.uid /\ e.spec = o.spec /\ e.fins = o.fins
        /\ e.deleting /\ e.gen = o.gen + 1 /\ e.status = o.status
    BY <1>1, MarkedType
  <1> HIDE DEF e
  <1>5. e # Absent
    BY <1>4, ObjectType
  <1>6. /\ o.fins = {} => x = Absent
        /\ o.fins # {} => x = e
        /\ x \in ReleaseVersion
    BY <1>4 DEF Settle, ReleaseVersion
  <1> HIDE DEF x
  <1>7. o.fins # {} => Continuation(o, x)
    BY <1>1, <1>3, <1>4, <1>5, <1>6 DEF Continuation
  <1>8. x # Absent => x.uid = o.uid /\ x.spec = o.spec /\ x.status = o.status
    BY <1>4, <1>6
  <1>9. TypeOK'
    BY <1>2, <1>6, StoreIsAppend DEF TypeOK, environment
  <1>10. KnownInv' /\ Follows(worker, worker')
    BY <1>2, <1>9, KnownStays
  <1> QED  BY <1>1, <1>2, <1>6, <1>7, <1>8, <1>10 DEF o

(* A watch event of a release is delivered. *)
LEMMA KnownDeliver ==
  ASSUME KnownInv, NEW r \in Release, DeliverRelease(r)
  PROVE  /\ KnownInv' /\ Follows(worker, worker')
         /\ Len(releaseVersions[r]) > 1
         /\ releaseVersions' = Delivered(releaseVersions, r)
         /\ UNCHANGED <<worker, environment, helm, orphaned>>
  <1> USE DEF KnownInv
  <1>1. /\ Len(releaseVersions[r]) > 1
        /\ releaseVersions' = Delivered(releaseVersions, r)
        /\ UNCHANGED <<worker, environment, helm, orphaned>>
        /\ queue' \subseteq Release
    BY DEF DeliverRelease, Delivered, TypeOK
  <1>2. releaseVersions \in VersionMaps(Release, ReleaseVersion)
    BY DEF TypeOK, VersionMaps
  <1>3. Delivered(releaseVersions, r) \in VersionMaps(Release, ReleaseVersion)
    BY <1>1, <1>2, MapTail
  <1>4. TypeOK'
    BY <1>1, <1>3 DEF TypeOK, VersionMaps, environment
  <1> QED  BY <1>1, <1>4, KnownStays

(* Secrets and the cluster change, and their events are delivered. *)
LEMMA KnownChange ==
  ASSUME KnownInv,
         \/ \E secret \in Kubeconfig : DeliverNotice(secret) \/ ChangeKubeconfig(secret)
         \/ ChangeCluster
  PROVE  /\ KnownInv' /\ Follows(worker, worker')
         /\ UNCHANGED <<releaseVersions, worker, lastUid, retargeted, helm, orphaned>>
  <1> USE DEF KnownInv
  <1>1. UNCHANGED <<releaseVersions, worker, lastUid, retargeted, helm, orphaned>>
    BY DEF DeliverNotice, ChangeKubeconfig, ChangeCluster
  <1>2. CachedReleases \subseteq Release
    BY DEF CachedReleases
  <1>3. ASSUME NEW secret \in Kubeconfig, DeliverNotice(secret) PROVE KnownInv'
    <2>1. RequestsForSecret(secret) \subseteq Release
      BY <1>2 DEF RequestsForSecret
    <2>2. TypeOK'
      BY <1>1, <1>3, <2>1 DEF DeliverNotice, TypeOK
    <2> QED  BY <1>1, <2>2, KnownStays
  <1>4. ASSUME NEW secret \in Kubeconfig, ChangeKubeconfig(secret) PROVE KnownInv'
    <2>1. PICK value \in KubeconfigValue :
            kubeconfigs' = [kubeconfigs EXCEPT ![secret] = value]
      BY <1>4 DEF ChangeKubeconfig
    <2>2. /\ notices' = notices \cup {secret} /\ changes' = changes + 1
          /\ UNCHANGED <<queue, clusterExists>>
      BY <1>4 DEF ChangeKubeconfig, CountChange
    <2>3. TypeOK'
      BY <1>1, <2>1, <2>2 DEF TypeOK
    <2> QED  BY <1>1, <2>3, KnownStays
  <1>5. CASE ChangeCluster
    <2>1. TypeOK'
      BY <1>1, <1>2, <1>5 DEF ChangeCluster, CountChange, TypeOK
    <2> QED  BY <1>1, <2>1, KnownStays
  <1> QED  BY <1>1, <1>3, <1>4, <1>5 DEF Follows

(* The operator restarts. *)
LEMMA KnownRestart ==
  ASSUME KnownInv, Restart
  PROVE  /\ KnownInv' /\ worker' = IdleWorker /\ Follows(worker, worker')
         /\ worker'.pc = "idle"
         /\ releaseVersions' = Relisted(releaseVersions, Release)
         /\ UNCHANGED <<lastUid, retargeted, helm, orphaned>>
  <1> USE DEF KnownInv
  <1>1. /\ worker' = IdleWorker /\ releaseVersions' = Relisted(releaseVersions, Release)
        /\ notices' = {} /\ queue' = Listed(releaseVersions)
        /\ UNCHANGED <<kubeconfigs, clusterExists, lastUid, changes, retargeted,
                       helm, orphaned>>
    BY DEF Restart, Relisted
  <1>2. worker'.pc = "idle"
    BY <1>1 DEF IdleWorker
  <1>3. releaseVersions \in VersionMaps(Release, ReleaseVersion)
    BY DEF TypeOK, VersionMaps
  <1>4. releaseVersions' \in VersionMaps(Release, ReleaseVersion)
    BY <1>1, <1>3, MapRestart
  <1>5. queue' \subseteq Release
    BY <1>1 DEF Listed, TypeOK
  <1>6. TypeOK'
    BY <1>1, <1>4, <1>5 DEF TypeOK, VersionMaps
  <1> QED
    BY <1>1, <1>2, <1>6 DEF WorkerKnows, Follows

(* Every step. *)
LEMMA StepKnown == KnownInv /\ [Next]_vars => KnownInv'
  <1> SUFFICES ASSUME KnownInv, [Next]_vars PROVE KnownInv'
    OBVIOUS
  <1>1. CASE WorkerStep
    <2>1. CASE \/ SpecError \/ MissingCluster \/ FoundCluster
               \/ NoKubeconfig \/ FoundKubeconfig \/ UpgradeRefused \/ HelmUnavailable
      BY <2>1, KnownLook
    <2>2. CASE InstallOrUpgrade \/ FinishHelm \/ HelmFails \/ Uninstall \/ UninstallFails
      BY <2>2, KnownHelm
    <2>3. CASE AddFinalizer \/ UpdateStatus \/ RemoveFinalizer
      BY <2>3, AddIsFinalize, StatusIsContinue, RemoveIsSettle
    <2>4. CASE CallFails \/ ReadFails \/ NothingToRelease
      BY <2>4, KnownCallFails
    <2> QED
      BY <1>1, <2>1, <2>2, <2>3, <2>4 DEF WorkerStep, Outage, CallSucceeds
  <1>2. ASSUME NEW r \in Release, Reconcile(r) \/ DeliverRelease(r) PROVE KnownInv'
    BY <1>2, KnownBegin, KnownDeliver
  <1>3. ASSUME NEW r \in Release, CreateRelease(r) PROVE KnownInv'
    BY <1>3, CreateIsNew
  <1>4. ASSUME NEW r \in Release, UpdateRelease(r) PROVE KnownInv'
    BY <1>4, UpdateIsContinue
  <1>5. ASSUME NEW r \in Release, DeleteRelease(r) PROVE KnownInv'
    BY <1>5, DeleteIsSettle
  <1>6. CASE \/ \E secret \in Kubeconfig :
                  DeliverNotice(secret) \/ ChangeKubeconfig(secret)
             \/ ChangeCluster
    BY <1>6, KnownChange
  <1>7. CASE Restart
    BY <1>7, KnownRestart
  <1>8. CASE UNCHANGED vars
    BY <1>8 DEF vars, KnownInv, TypeOK, WorkerKnows
  <1> QED
    BY <1>1, <1>2, <1>3, <1>4, <1>5, <1>6, <1>7, <1>8 DEF Next

(* Every variable of the release controller keeps its type, whatever fails  *)
(* and whatever users do.                                                   *)
THEOREM ReleaseTypeCorrect == Spec => []TypeOK
  <1>1. KnownInv => TypeOK
    BY DEF KnownInv
  <1> QED  BY <1>1, InitKnown, StepKnown, PTL DEF Spec

-----------------------------------------------------------------------------
(* Who looks after the Helm releases *)

TargetOf == [s \in ReleaseSpec |-> PlaceOf(s)]

(* The API server keeps no deleting object without a finalizer. *)
ReleaseViews ==
  {v \in ReleaseVersion : v # Absent => (v.deleting => v.fins # {})}

(* Who asked for the last revision at each place *)
HelmOwner ==
  [p \in Place |-> IF helm[p] = Absent THEN Absent ELSE helm[p].by]

(* Who asked for the revision that a rollback of the running operation      *)
(* would bring back                                                         *)
RollbackOwner ==
  [p \in Place |->
     IF worker.pc = "finish" /\ p = ItemPlace /\ worker.before # Absent
       THEN worker.before.by ELSE Absent]

(* The objects that were told to leave something behind *)
Excused == orphaned \cup retargeted

(* Whoever owns something at one of the places is stored with its finalizer *)
(* or excused, and its uid was issued.                                       *)
OwnersLive(owner) ==
  \A p \in Place : owner[p] # Absent =>
    /\ owner[p] \in 0 .. lastUid
    /\ HeldUid(releaseVersions, Release, owner[p]) \/ owner[p] \in Excused

(* What is installed and what a rollback would bring back is where the      *)
(* objects that asked for it say, unless they were moved.                   *)
InCustody ==
  /\ Custody(releaseVersions, worker, Release, lastUid, TargetOf, retargeted, Place,
             HelmOwner, ReleaseViews)
  /\ Custody(releaseVersions, worker, Release, lastUid, TargetOf, retargeted, Place,
             RollbackOwner, ReleaseViews)

(* Before the finalizer goes, so does the Helm release; in between its      *)
(* uninstallation is reported.                                              *)
ReleaseGone ==
  (/\ \/ worker.pc = "removeFinalizer" /\ worker.item.spec.policy # "Orphan"
      \/ worker.pc = "updateStatus" /\ worker.reason = "Uninstalled"
   /\ worker.item.uid \notin retargeted)
    => \A p \in Place : HelmOwner[p] # worker.item.uid

ReleaseInv ==
  /\ KnownInv /\ InCustody /\ ReleaseGone
  /\ OwnersLive(HelmOwner) /\ OwnersLive(RollbackOwner)

(* What the invariant says about the lineage. *)
LEMMA ReleaseParts ==
  ASSUME ReleaseInv
  PROVE  /\ TypeOK /\ lastUid \in Nat
         /\ Tracked(Release, ReleaseVersion, releaseVersions, worker)
         /\ Absent \notin Nat /\ Absent \in ReleaseVersion /\ Absent \in ReleaseViews
         /\ Custody(releaseVersions, worker, Release, lastUid, TargetOf, retargeted,
                    Place, HelmOwner, ReleaseViews)
         /\ Custody(releaseVersions, worker, Release, lastUid, TargetOf, retargeted,
                    Place, RollbackOwner, ReleaseViews)
  <1>1. TypeOK /\ lastUid \in Nat /\ Absent \notin Nat
    BY ReleaseAbsentAssumption DEF ReleaseInv, KnownInv, TypeOK
  <1>2. Tracked(Release, ReleaseVersion, releaseVersions, worker) /\ Absent \in ReleaseVersion
    BY <1>1, VersionsType
  <1>3. Absent \in ReleaseViews
    BY <1>2 DEF ReleaseViews
  <1> QED  BY <1>1, <1>2, <1>3 DEF ReleaseInv, InCustody

(* Nobody sees anything new, and Helm releases only go. *)
LEMMA ReleaseQuiet ==
  ASSUME ReleaseInv, KnownInv', ReleaseGone',
         SeesNoMore(releaseVersions, worker, releaseVersions', worker', Release),
         \A p \in Place : HelmOwner'[p] \in {HelmOwner[p], Absent},
         \A p \in Place : RollbackOwner'[p] \in {RollbackOwner[p], Absent},
         UNCHANGED <<lastUid, orphaned, retargeted>>
  PROVE  ReleaseInv'
  <1>1. /\ Tracked(Release, ReleaseVersion, releaseVersions, worker) /\ lastUid \in Nat
        /\ Absent \notin Nat
        /\ Custody(releaseVersions, worker, Release, lastUid, TargetOf, retargeted,
                   Place, HelmOwner, ReleaseViews)
        /\ Custody(releaseVersions, worker, Release, lastUid, TargetOf, retargeted,
                   Place, RollbackOwner, ReleaseViews)
    BY ReleaseParts
  <1>2. retargeted \subseteq retargeted /\ ReleaseViews \subseteq ReleaseViews
    OBVIOUS
  <1>3. ASSUME NEW owner, NEW owner2,
               Custody(releaseVersions, worker, Release, lastUid, TargetOf, retargeted,
                       Place, owner, ReleaseViews),
               \A p \in Place : owner2[p] \in {owner[p], Absent}
        PROVE  /\ Custody(releaseVersions', worker', Release, lastUid, TargetOf,
                          retargeted, Place, owner2, ReleaseViews)
               /\ \A v : HeldUid(releaseVersions', Release, v)
                           <=> HeldUid(releaseVersions, Release, v)
    BY <1>1, <1>2, <1>3, CustodyFewer
  <1>4. /\ Custody(releaseVersions', worker', Release, lastUid, TargetOf, retargeted,
                   Place, HelmOwner', ReleaseViews)
        /\ \A v : HeldUid(releaseVersions', Release, v)
                    <=> HeldUid(releaseVersions, Release, v)
    BY <1>1, <1>3
  <1>5. Custody(releaseVersions', worker', Release, lastUid, TargetOf, retargeted,
                Place, RollbackOwner', ReleaseViews)
    BY <1>1, <1>3
  <1>6. InCustody'
    BY <1>4, <1>5 DEF InCustody, ReleaseViews
  <1>7. OwnersLive(HelmOwner)' /\ OwnersLive(RollbackOwner)'
    BY <1>4 DEF ReleaseInv, OwnersLive, Excused
  <1> QED  BY <1>6, <1>7 DEF ReleaseInv

(* What two sets of owners have made is where their copies say, so what     *)
(* some of the one and some of the other have made is there too.            *)
LEMMA CustodyMix ==
  ASSUME NEW Key, NEW m, NEW w, NEW last, NEW T, NEW moved, NEW P, NEW S,
         NEW owner, NEW other, NEW mixed,
         \A p \in P : mixed[p] \in {owner[p], other[p]},
         Custody(m, w, Key, last, T, moved, P, owner, S),
         Custody(m, w, Key, last, T, moved, P, other, S)
  PROVE  Custody(m, w, Key, last, T, moved, P, mixed, S)
  <1>1. MadeAtTarget(m, w, Key, T, moved, P, mixed)
    BY DEF Custody, MadeAtTarget
  <1> QED  BY <1>1 DEF Custody

(* What the copy that Reconcile holds says. *)
LEMMA ReleaseItem ==
  ASSUME ReleaseInv, worker.pc # "idle"
  PROVE  LET o == Stored(releaseVersions[worker.key])
         IN  /\ worker.key \in Release /\ Busy(worker, worker.key)
             /\ worker.item \in ReleaseObject /\ worker.item # Absent
             /\ o \in ReleaseViews
             /\ worker.item.uid \in Nat /\ worker.item.uid <= lastUid
             /\ Precedes(worker.item, o)
             /\ Active(worker.item) => HeldUid(releaseVersions, Release, worker.item.uid)
             /\ worker.item.uid \notin retargeted =>
                  \A p \in Place : HelmOwner[p] = worker.item.uid => p = ItemPlace
             /\ TargetOf[worker.item.spec] = ItemPlace /\ ItemPlace \in Place
  <1> DEFINE o == Stored(releaseVersions[worker.key])
  <1>1. /\ Tracked(Release, ReleaseVersion, releaseVersions, worker) /\ TypeOK
        /\ Custody(releaseVersions, worker, Release, lastUid, TargetOf, retargeted,
                   Place, HelmOwner, ReleaseViews)
    BY ReleaseParts
  <1>2. worker.key \in Release /\ worker.item \in ReleaseObject
    BY <1>1, BusyType
  <1>3. /\ worker.item # Absent /\ worker.item.spec \in ReleaseSpec
        /\ worker.item.uid \in Nat /\ ItemPlace \in Place
    BY <1>2, ObjectType DEF ItemPlace
  <1>4. Busy(worker, worker.key)
    BY DEF Busy
  <1>5. /\ o \in ReleaseViews /\ worker.item.uid <= lastUid
        /\ Precedes(worker.item, o)
        /\ Active(worker.item) => HeldUid(releaseVersions, Release, worker.item.uid)
        /\ worker.item.uid \notin retargeted =>
             \A p \in Place : HelmOwner[p] = worker.item.uid
                                => p = TargetOf[worker.item.spec]
    BY <1>1, <1>2, <1>4, CustodyItem
  <1>6. TargetOf[worker.item.spec] = ItemPlace
    BY <1>3 DEF TargetOf, ItemPlace
  <1> QED  BY <1>2, <1>3, <1>4, <1>5, <1>6

(* What is stored. *)
LEMMA ReleaseStored ==
  ASSUME ReleaseInv, NEW r \in Release
  PROVE  /\ Stored(releaseVersions[r]) \in ReleaseViews
         /\ Stored(releaseVersions[r]) # Absent => Stored(releaseVersions[r]).uid <= lastUid
  <1>1. /\ Tracked(Release, ReleaseVersion, releaseVersions, worker)
        /\ Custody(releaseVersions, worker, Release, lastUid, TargetOf, retargeted,
                   Place, HelmOwner, ReleaseViews)
    BY ReleaseParts
  <1>2. /\ Len(releaseVersions[r]) \in Views(releaseVersions, worker, r)
        /\ View(releaseVersions, worker, r, Len(releaseVersions[r]))
             = Stored(releaseVersions[r])
    BY <1>1, ViewType
  <1>3. Stored(releaseVersions[r]) \in ReleaseViews
    BY <1>1, <1>2 DEF Custody, ViewsIn
  <1>4. Stored(releaseVersions[r]) # Absent => Stored(releaseVersions[r]).uid <= lastUid
    BY <1>1, <1>2 DEF Custody, Lineage, Issued
  <1> QED  BY <1>3, <1>4

(* What the operations on the history do to the owners. *)
LEMMA OwnersOfHelm ==
  ASSUME ReleaseInv, worker.pc # "idle"
  PROVE  /\ \A state \in {"pending", "deployed", "failed"} : helm' = Recorded(state) =>
              HelmOwner' = [HelmOwner EXCEPT ![ItemPlace] = worker.item.uid]
         /\ helm' = Removed => HelmOwner' = [HelmOwner EXCEPT ![ItemPlace] = Absent]
         /\ worker.pc = "finish" /\ helm' = RolledBack =>
              HelmOwner' = [HelmOwner EXCEPT ![ItemPlace] = RollbackOwner[ItemPlace]]
         /\ helm' = helm => HelmOwner' = HelmOwner
  <1>1. helm \in [Place -> Revision \cup {Absent}]
    BY DEF ReleaseInv, KnownInv, TypeOK
  <1>2. /\ worker.item \in ReleaseObject /\ worker.item.uid \in Nat
        /\ worker.item.spec.chart \in Chart /\ ItemPlace \in Place
    BY BusyType, ObjectType DEF ReleaseInv, KnownInv, ItemPlace
  <1> DEFINE q == ItemPlace
  <1>3. q \in Place
    BY <1>2
  <1> HIDE DEF q
  <1>4. ASSUME NEW f, helm' = [helm EXCEPT ![q] = f]
        PROVE  HelmOwner' = [HelmOwner EXCEPT ![q] = IF f = Absent THEN Absent ELSE f.by]
    BY <1>1, <1>3, <1>4 DEF HelmOwner
  <1>5. ASSUME NEW state \in {"pending", "deployed", "failed"}, helm' = Recorded(state)
        PROVE  HelmOwner' = [HelmOwner EXCEPT ![q] = worker.item.uid]
    <2> DEFINE f == [by |-> worker.item.uid, chart |-> worker.item.spec.chart,
                     state |-> state]
    <2>1. f.by = worker.item.uid /\ f # Absent
      BY <1>2, ReleaseAbsentAssumption DEF Revision
    <2>2. helm' = [helm EXCEPT ![q] = f]
      BY <1>5 DEF Recorded, q
    <2> HIDE DEF f
    <2> QED  BY <1>4, <2>1, <2>2
  <1>6. ASSUME helm' = Removed PROVE HelmOwner' = [HelmOwner EXCEPT ![q] = Absent]
    <2>1. helm' = [helm EXCEPT ![q] = Absent]
      BY <1>6 DEF Removed, q
    <2> QED  BY <1>4, <2>1
  <1>7. ASSUME worker.pc = "finish", helm' = RolledBack
        PROVE  HelmOwner' = [HelmOwner EXCEPT ![q] = RollbackOwner[q]]
    <2>1. helm' = [helm EXCEPT ![q] = worker.before]
      BY <1>7 DEF RolledBack, q
    <2>2. RollbackOwner[q] = IF worker.before = Absent THEN Absent ELSE worker.before.by
      BY <1>3, <1>7 DEF RollbackOwner, q
    <2> QED  BY <1>4, <2>1, <2>2
  <1>8. helm' = helm => HelmOwner' = HelmOwner
    BY DEF HelmOwner
  <1> QED  BY <1>5, <1>6, <1>7, <1>8 DEF q

(* A step of Helm: what it records was asked for by an object that is held  *)
(* at that moment; what a rollback brings back was recorded before, and its *)
(* owner cannot have been let go meanwhile.                                 *)
LEMMA ReleaseHelm ==
  ASSUME ReleaseInv,
         InstallOrUpgrade \/ FinishHelm \/ HelmFails \/ Uninstall \/ UninstallFails
  PROVE  ReleaseInv'
  <1>1. /\ KnownInv' /\ Follows(worker, worker')
        /\ \/ /\ worker.pc = "runHelm" /\ helm' = Recorded("pending")
              /\ worker'.pc = "finish" /\ worker'.before = helm[ItemPlace]
              /\ worker'.item = worker.item
           \/ /\ worker.pc = "finish" /\ worker'.pc = "updateStatus"
              /\ worker'.reason # "Uninstalled"
              /\ helm' \in {Recorded("deployed"), Recorded("failed"), RolledBack, helm}
           \/ /\ worker.pc = "uninstall" /\ worker'.pc = "updateStatus"
              /\ helm' \in {helm, Removed}
              /\ worker'.reason = "Uninstalled" => helm' = Removed
        /\ UNCHANGED <<releaseVersions, queue, environment, orphaned>>
    BY KnownHelm DEF ReleaseInv
  <1>2. /\ UNCHANGED <<releaseVersions, lastUid, retargeted, Excused, ReleaseViews>>
        /\ worker.pc # "idle"
    BY <1>1 DEF environment, Excused, ReleaseViews
  <1>3. /\ Tracked(Release, ReleaseVersion, releaseVersions, worker) /\ lastUid \in Nat
        /\ Absent \notin Nat
        /\ Custody(releaseVersions, worker, Release, lastUid, TargetOf, retargeted,
                   Place, HelmOwner, ReleaseViews)
        /\ Custody(releaseVersions, worker, Release, lastUid, TargetOf, retargeted,
                   Place, RollbackOwner, ReleaseViews)
    BY ReleaseParts
  <1>4. /\ worker.key \in Release /\ Busy(worker, worker.key) /\ worker.item # Absent
        /\ worker.item.uid \in Nat /\ worker.item.uid <= lastUid
        /\ Active(worker.item) => HeldUid(releaseVersions, Release, worker.item.uid)
        /\ worker.item.uid \notin retargeted =>
             \A p \in Place : HelmOwner[p] = worker.item.uid => p = ItemPlace
        /\ TargetOf[worker.item.spec] = ItemPlace /\ ItemPlace \in Place
    BY <1>2, ReleaseItem
  <1>5. SeesNoMore(releaseVersions, worker, releaseVersions, worker', Release)
    BY <1>1, <1>3, FewerFollow
  <1>6. ASSUME NEW owner, NEW owner2, \A p \in Place : owner2[p] \in {owner[p], Absent},
               Custody(releaseVersions, worker, Release, lastUid, TargetOf, retargeted,
                       Place, owner, ReleaseViews)
        PROVE  Custody(releaseVersions, worker', Release, lastUid, TargetOf, retargeted,
                       Place, owner2, ReleaseViews)
    <2>1. retargeted \subseteq retargeted /\ ReleaseViews \subseteq ReleaseViews
      OBVIOUS
    <2> QED  BY <1>3, <1>5, <1>6, <2>1, CustodyFewer
  <1>7. ASSUME Custody(releaseVersions, worker', Release, lastUid, TargetOf, retargeted,
                       Place, HelmOwner', ReleaseViews),
               Custody(releaseVersions, worker', Release, lastUid, TargetOf, retargeted,
                       Place, RollbackOwner', ReleaseViews),
               OwnersLive(HelmOwner)', OwnersLive(RollbackOwner)', ReleaseGone'
        PROVE  ReleaseInv'
    BY <1>1, <1>2, <1>7 DEF ReleaseInv, InCustody
  <1>8. ASSUME NEW state \in {"pending", "deployed", "failed"}, helm' = Recorded(state),
               ~worker.item.deleting, worker.item.fins # {}
        PROVE  /\ Custody(releaseVersions, worker', Release, lastUid, TargetOf,
                          retargeted, Place, HelmOwner', ReleaseViews)
               /\ OwnersLive(HelmOwner)'
    <2>1. \A p \in Place :
            HelmOwner'[p] = IF p = ItemPlace THEN worker.item.uid ELSE HelmOwner[p]
      <3>1. HelmOwner' = [HelmOwner EXCEPT ![ItemPlace] = worker.item.uid]
        BY <1>2, <1>8, OwnersOfHelm
      <3> QED  BY <1>4, <3>1 DEF HelmOwner
    <2>2. \A p \in Place : \/ HelmOwner'[p] = HelmOwner[p]
                           \/ /\ HelmOwner'[p] = worker.item.uid
                              /\ worker.item.uid \notin retargeted
                                   => p = TargetOf[worker.item.spec]
      BY <1>4, <2>1
    <2>3. Custody(releaseVersions, worker', Release, lastUid, TargetOf, retargeted,
                  Place, HelmOwner', ReleaseViews)
      BY <1>1, <1>3, <1>4, <2>2, CustodyMake
    <2>4. HeldUid(releaseVersions, Release, worker.item.uid)
      BY <1>4, <1>8 DEF Active
    <2>5. worker.item.uid \in 0 .. lastUid
      BY <1>3, <1>4
    <2>6. OwnersLive(HelmOwner)'
      BY <1>2, <2>1, <2>4, <2>5 DEF ReleaseInv, OwnersLive
    <2> QED  BY <2>3, <2>6
  <1>9. CASE /\ worker.pc = "runHelm" /\ helm' = Recorded("pending")
             /\ worker'.pc = "finish" /\ worker'.before = helm[ItemPlace]
             /\ worker'.item = worker.item
    <2>1. \A p \in Place : RollbackOwner'[p] \in {HelmOwner[p], Absent}
      BY <1>9 DEF RollbackOwner, HelmOwner, ItemPlace
    <2>2. OwnersLive(RollbackOwner)'
      BY <1>2, <2>1 DEF ReleaseInv, OwnersLive
    <2>3. ReleaseGone'
      BY <1>9 DEF ReleaseGone
    <2>4. ~worker.item.deleting /\ worker.item.fins # {}
      BY <1>9 DEF ReleaseInv, KnownInv, WorkerKnows
    <2>5. Custody(releaseVersions, worker', Release, lastUid, TargetOf, retargeted,
                  Place, RollbackOwner', ReleaseViews)
      BY <1>3, <1>6, <2>1
    <2> QED  BY <1>7, <1>8, <1>9, <2>2, <2>3, <2>4, <2>5
  <1>10. ASSUME worker'.pc # "finish"
         PROVE  /\ Custody(releaseVersions, worker', Release, lastUid, TargetOf,
                           retargeted, Place, RollbackOwner', ReleaseViews)
                /\ OwnersLive(RollbackOwner)'
    <2>1. \A p \in Place : RollbackOwner'[p] = Absent
      BY <1>10 DEF RollbackOwner
    <2>2. OwnersLive(RollbackOwner)'
      BY <2>1 DEF OwnersLive
    <2> QED  BY <1>3, <1>6, <2>1, <2>2
  <1>11. CASE /\ worker.pc = "finish" /\ worker'.pc = "updateStatus"
              /\ worker'.reason # "Uninstalled"
              /\ helm' \in {Recorded("deployed"), Recorded("failed"), RolledBack, helm}
    <2>1. ReleaseGone'
      BY <1>11 DEF ReleaseGone
    <2>2. ~worker.item.deleting /\ worker.item.fins # {}
      BY <1>11 DEF ReleaseInv, KnownInv, WorkerKnows
    <2>3. CASE helm' = Recorded("deployed") \/ helm' = Recorded("failed")
      BY <1>7, <1>8, <1>10, <1>11, <2>1, <2>2, <2>3
    <2>4. CASE helm' = RolledBack \/ helm' = helm
      <3>1. \A p \in Place : HelmOwner'[p] \in {HelmOwner[p], RollbackOwner[p]}
        <4>1. CASE helm' = helm
          BY <1>2, <4>1, OwnersOfHelm
        <4>2. CASE helm' = RolledBack
          <5>1. HelmOwner' = [HelmOwner EXCEPT ![ItemPlace] = RollbackOwner[ItemPlace]]
            BY <1>2, <1>11, <4>2, OwnersOfHelm
          <5> QED  BY <1>4, <5>1 DEF HelmOwner
        <4> QED  BY <2>4, <4>1, <4>2
      <3>2. Custody(releaseVersions, worker, Release, lastUid, TargetOf, retargeted,
                    Place, HelmOwner', ReleaseViews)
        BY <1>3, <3>1, CustodyMix
      <3>3. Custody(releaseVersions, worker', Release, lastUid, TargetOf, retargeted,
                    Place, HelmOwner', ReleaseViews)
        BY <1>6, <3>2
      <3>4. OwnersLive(HelmOwner)'
        BY <1>2, <3>1 DEF ReleaseInv, OwnersLive
      <3> QED  BY <1>7, <1>10, <1>11, <2>1, <3>3, <3>4
    <2> QED  BY <1>11, <2>3, <2>4
  <1>12. CASE /\ worker.pc = "uninstall" /\ worker'.pc = "updateStatus"
              /\ helm' \in {helm, Removed}
              /\ worker'.reason = "Uninstalled" => helm' = Removed
    <2>1. \A p \in Place : HelmOwner'[p] \in {HelmOwner[p], Absent}
      BY <1>2, <1>4, <1>12, OwnersOfHelm DEF HelmOwner
    <2>2. Custody(releaseVersions, worker', Release, lastUid, TargetOf, retargeted,
                  Place, HelmOwner', ReleaseViews)
      BY <1>3, <1>6, <2>1
    <2>3. OwnersLive(HelmOwner)'
      BY <1>2, <2>1 DEF ReleaseInv, OwnersLive
    <2>4. ReleaseGone'
      <3> SUFFICES ASSUME worker'.reason = "Uninstalled",
                          worker'.item.uid \notin retargeted', NEW p \in Place,
                          HelmOwner'[p] = worker'.item.uid
                   PROVE  FALSE
        BY <1>12 DEF ReleaseGone
      <3>1. worker'.item = worker.item /\ worker.item.uid # Absent
        BY <1>1, <1>3, <1>4, <1>12 DEF Follows
      <3>2. HelmOwner' = [HelmOwner EXCEPT ![ItemPlace] = Absent]
        BY <1>2, <1>12, OwnersOfHelm
      <3>3. p # ItemPlace /\ HelmOwner[p] = worker.item.uid
        BY <1>4, <3>1, <3>2 DEF HelmOwner
      <3> QED  BY <1>2, <1>4, <3>1, <3>3
    <2> QED  BY <1>7, <1>10, <1>12, <2>2, <2>3, <2>4
  <1> QED  BY <1>1, <1>9, <1>11, <1>12

(* A step of Reconcile that changes no object and no history. *)
LEMMA ReleaseLooks ==
  ASSUME ReleaseInv, KnownInv', ReleaseGone', worker'.pc # "finish",
         SeesNoMore(releaseVersions, worker, releaseVersions', worker', Release),
         UNCHANGED <<lastUid, orphaned, retargeted, helm>>
  PROVE  ReleaseInv'
  <1>1. \A p \in Place : /\ HelmOwner'[p] \in {HelmOwner[p], Absent}
                         /\ RollbackOwner'[p] \in {RollbackOwner[p], Absent}
    BY DEF HelmOwner, RollbackOwner
  <1> QED  BY <1>1, ReleaseQuiet

(* A step that leaves Reconcile alone, changes no history and shows nothing *)
(* new.                                                                     *)
LEMMA ReleaseStays ==
  ASSUME ReleaseInv, KnownInv', UNCHANGED worker,
         SeesNoMore(releaseVersions, worker, releaseVersions', worker', Release),
         UNCHANGED <<lastUid, orphaned, retargeted, helm>>
  PROVE  ReleaseInv'
  <1>1. /\ HelmOwner' = HelmOwner /\ RollbackOwner' = RollbackOwner
        /\ ReleaseGone'
    BY DEF HelmOwner, RollbackOwner, ItemPlace, ReleaseInv, ReleaseGone
  <1> QED  BY <1>1, ReleaseQuiet

(* What a write to an object leaves alone. *)
LEMMA WriteKeeps ==
  ASSUME ReleaseInv, UNCHANGED helm,
         worker' = worker \/ (worker.pc # "finish" /\ worker'.pc # "finish")
  PROVE  HelmOwner' = HelmOwner /\ RollbackOwner' = RollbackOwner
  BY DEF HelmOwner, RollbackOwner, ItemPlace

(* The finalizer is added. *)
LEMMA ReleaseAdds ==
  ASSUME ReleaseInv, AddFinalizer
  PROVE  ReleaseInv'
  <1> DEFINE x == [worker.item EXCEPT !.fins = {Finalizer}]
             r == worker.key
             o == Stored(releaseVersions[r])
  <1>1. /\ r \in Release /\ Busy(worker, r) /\ worker.item = o
        /\ x \in ReleaseObject /\ StoreRelease(r, x) /\ Finalized(o, x)
        /\ KnownInv' /\ worker' = IdleWorker /\ Follows(worker, worker')
        /\ UNCHANGED <<environment, helm, orphaned>>
    BY AddIsFinalize DEF ReleaseInv
  <1>2. /\ UNCHANGED <<lastUid, orphaned, retargeted, helm, Excused>>
        /\ worker.pc = "addFinalizer" /\ worker'.pc = "idle"
    BY <1>1 DEF environment, AddFinalizer, IdleWorker, Excused
  <1>3. /\ HelmOwner' = HelmOwner /\ RollbackOwner' = RollbackOwner
        /\ ReleaseGone' /\ ReleaseViews' = ReleaseViews
    BY <1>2, WriteKeeps DEF ReleaseGone, ReleaseViews
  <1>4. /\ Tracked(Release, ReleaseVersion, releaseVersions, worker) /\ lastUid \in Nat
        /\ Absent \notin Nat
        /\ Custody(releaseVersions, worker, Release, lastUid, TargetOf, retargeted,
                   Place, HelmOwner, ReleaseViews)
        /\ Custody(releaseVersions, worker, Release, lastUid, TargetOf, retargeted,
                   Place, RollbackOwner, ReleaseViews)
    BY ReleaseParts
  <1> HIDE DEF x, r, o
  <1>5. x \in ReleaseVersion /\ releaseVersions' = Appended(releaseVersions, r, x)
    <2>1. x \in ReleaseVersion
      BY <1>1 DEF ReleaseVersion
    <2> QED  BY <1>1, <2>1, StoreIsAppend DEF ReleaseInv, KnownInv
  <1>6. x \in ReleaseViews
    BY <1>1, <1>5 DEF ReleaseViews, Finalized
  <1>7. ASSUME NEW owner,
               Custody(releaseVersions, worker, Release, lastUid, TargetOf, retargeted,
                       Place, owner, ReleaseViews)
        PROVE  /\ Custody(releaseVersions', worker', Release, lastUid, TargetOf,
                          retargeted, Place, owner, ReleaseViews)
               /\ \A v : HeldUid(releaseVersions', Release, v)
                           <=> HeldUid(releaseVersions, Release, v) \/ v = x.uid
    BY <1>1, <1>4, <1>5, <1>6, <1>7, CustodyFinalize DEF o
  <1>8. InCustody'
    BY <1>2, <1>3, <1>4, <1>7 DEF InCustody
  <1>9. OwnersLive(HelmOwner)' /\ OwnersLive(RollbackOwner)'
    BY <1>2, <1>3, <1>4, <1>7 DEF ReleaseInv, OwnersLive
  <1> QED  BY <1>1, <1>3, <1>8, <1>9 DEF ReleaseInv

(* The bundle of facts about the versions, at a step that continues a       *)
(* stored release and may move it.                                          *)
LEMMA ReleaseCustodyContinues ==
  ASSUME Tracked(Release, ReleaseVersion, releaseVersions, worker),
         Follows(worker, worker'), NEW r \in Release, NEW x \in ReleaseVersion,
         Continuation(Stored(releaseVersions[r]), x), lastUid \in Nat, Absent \notin Nat,
         NEW moved, retargeted \subseteq moved, x \in ReleaseViews,
         x.uid \notin moved =>
           TargetOf[x.spec] = TargetOf[Stored(releaseVersions[r]).spec],
         NEW owner,
         Custody(releaseVersions, worker, Release, lastUid, TargetOf, retargeted, Place,
                 owner, ReleaseViews)
  PROVE  /\ Custody(Appended(releaseVersions, r, x), worker', Release, lastUid, TargetOf,
                    moved, Place, owner, ReleaseViews)
         /\ \A v : HeldUid(Appended(releaseVersions, r, x), Release, v)
                     <=> HeldUid(releaseVersions, Release, v)
  <1>1. ReleaseViews \subseteq ReleaseViews
    OBVIOUS
  <1> QED  BY <1>1, CustodyContinue

(* The stored version is continued. *)
LEMMA ReleaseContinues ==
  ASSUME ReleaseInv, KnownInv', ReleaseGone', Follows(worker, worker'),
         NEW r \in Release, NEW x \in ReleaseObject, StoreRelease(r, x), NEW o,
         o = Stored(releaseVersions[r]), o \in ReleaseObject, Continuation(o, x),
         retargeted \subseteq retargeted', orphaned \subseteq orphaned',
         o.uid \notin retargeted' => PlaceOf(x.spec) = PlaceOf(o.spec),
         x.deleting => x.fins # {},
         worker' = worker \/ (worker.pc # "finish" /\ worker'.pc # "finish"),
         UNCHANGED <<lastUid, helm>>
  PROVE  ReleaseInv'
  <1>1. /\ Tracked(Release, ReleaseVersion, releaseVersions, worker) /\ lastUid \in Nat
        /\ Absent \notin Nat
        /\ Custody(releaseVersions, worker, Release, lastUid, TargetOf, retargeted,
                   Place, HelmOwner, ReleaseViews)
        /\ Custody(releaseVersions, worker, Release, lastUid, TargetOf, retargeted,
                   Place, RollbackOwner, ReleaseViews)
    BY ReleaseParts
  <1>2. x \in ReleaseVersion /\ releaseVersions' = Appended(releaseVersions, r, x)
    <2>1. x \in ReleaseVersion
      BY DEF ReleaseVersion
    <2> QED  BY <2>1, StoreIsAppend DEF ReleaseInv, KnownInv
  <1>3. x \in ReleaseViews /\ ReleaseViews' = ReleaseViews
    BY <1>2 DEF ReleaseViews
  <1>4. x.uid \notin retargeted' =>
          TargetOf[x.spec] = TargetOf[Stored(releaseVersions[r]).spec]
    <2>1. x.spec \in ReleaseSpec /\ o.spec \in ReleaseSpec /\ x.uid = o.uid
      BY ObjectType DEF Continuation
    <2> QED  BY <2>1 DEF TargetOf
  <1>5. HelmOwner' = HelmOwner /\ RollbackOwner' = RollbackOwner
    BY WriteKeeps
  <1>6. ASSUME NEW moved, retargeted \subseteq moved, NEW owner,
               x.uid \notin moved =>
                 TargetOf[x.spec] = TargetOf[Stored(releaseVersions[r]).spec],
               Custody(releaseVersions, worker, Release, lastUid, TargetOf, retargeted,
                       Place, owner, ReleaseViews)
        PROVE  /\ Custody(Appended(releaseVersions, r, x), worker', Release, lastUid,
                          TargetOf, moved, Place, owner, ReleaseViews)
               /\ \A v : HeldUid(Appended(releaseVersions, r, x), Release, v)
                           <=> HeldUid(releaseVersions, Release, v)
    BY <1>1, <1>2, <1>3, <1>6, ReleaseCustodyContinues
  <1>7. ASSUME NEW owner,
               Custody(releaseVersions, worker, Release, lastUid, TargetOf, retargeted,
                       Place, owner, ReleaseViews)
        PROVE  /\ Custody(releaseVersions', worker', Release, lastUid, TargetOf,
                          retargeted', Place, owner, ReleaseViews)
               /\ \A v : HeldUid(releaseVersions', Release, v)
                           <=> HeldUid(releaseVersions, Release, v)
    BY <1>2, <1>4, <1>6, <1>7
  <1>8. InCustody'
    BY <1>1, <1>3, <1>5, <1>7 DEF InCustody
  <1>9. Excused \subseteq Excused'
    BY DEF Excused
  <1>10. OwnersLive(HelmOwner)' /\ OwnersLive(RollbackOwner)'
    BY <1>1, <1>5, <1>7, <1>9 DEF ReleaseInv, OwnersLive
  <1> QED  BY <1>8, <1>10 DEF ReleaseInv

(* A status is written. *)
LEMMA ReleaseReports ==
  ASSUME ReleaseInv, UpdateStatus
  PROVE  ReleaseInv'
  <1> DEFINE r == worker.key
             o == Stored(releaseVersions[r])
             x == [o EXCEPT !.status = [obs |-> o.gen, reason |-> worker.reason]]
  <1>1. /\ r \in Release /\ Busy(worker, r)
        /\ x \in ReleaseObject /\ StoreRelease(r, x) /\ Continuation(o, x)
        /\ o \in ReleaseObject /\ x.spec = o.spec
        /\ x.deleting = o.deleting /\ x.fins = o.fins
        /\ KnownInv' /\ Follows(worker, worker')
        /\ \/ worker' = IdleWorker
           \/ /\ worker.pc = "updateStatus" /\ worker.reason = "Uninstalled"
              /\ worker'.pc = "removeFinalizer" /\ worker'.item = worker.item
        /\ UNCHANGED <<environment, helm, orphaned>>
    BY StatusIsContinue DEF ReleaseInv
  <1>2. /\ UNCHANGED <<lastUid, orphaned, retargeted, helm>>
        /\ worker.pc = "updateStatus" /\ worker'.pc # "finish"
    BY <1>1 DEF environment, UpdateStatus, IdleWorker
  <1>3. ReleaseGone'
    <2>1. CASE worker' = IdleWorker
      BY <2>1 DEF ReleaseGone, IdleWorker
    <2>2. CASE /\ worker.pc = "updateStatus" /\ worker.reason = "Uninstalled"
               /\ worker'.pc = "removeFinalizer" /\ worker'.item = worker.item
      BY <1>2, <2>2 DEF ReleaseInv, ReleaseGone, HelmOwner
    <2> QED  BY <1>1, <2>1, <2>2
  <1>4. x.deleting => x.fins # {}
    <2>1. o \in ReleaseViews /\ o # Absent
      BY <1>1, ObjectType, ReleaseStored
    <2> QED  BY <1>1, <2>1 DEF ReleaseViews
  <1> HIDE DEF x, o, r
  <1> QED  BY <1>1, <1>2, <1>3, <1>4, ReleaseContinues DEF o

(* The stored version goes away: one without a finalizer, or one that the   *)
(* Reconcile lets go that has seen to its Helm release.                     *)
LEMMA ReleaseVanishes ==
  ASSUME ReleaseInv, KnownInv', ReleaseGone', Follows(worker, worker'),
         NEW r \in Release, StoreRelease(r, Absent), NEW o,
         o = Stored(releaseVersions[r]), o \in ReleaseObject,
         \/ o.fins = {} /\ orphaned' = orphaned /\ worker' = worker
         \/ /\ Busy(worker, r) /\ worker.item.deleting /\ worker.item.uid = o.uid
            /\ worker.pc = "removeFinalizer" /\ worker'.pc = "idle"
            /\ orphaned' = IF worker.item.spec.policy = "Orphan"
                             THEN orphaned \cup {worker.item.uid} ELSE orphaned,
         UNCHANGED <<lastUid, retargeted, helm>>
  PROVE  ReleaseInv'
  <1>1. /\ Tracked(Release, ReleaseVersion, releaseVersions, worker) /\ lastUid \in Nat
        /\ Absent \notin Nat /\ Absent \in ReleaseVersion /\ Absent \in ReleaseViews
        /\ Custody(releaseVersions, worker, Release, lastUid, TargetOf, retargeted,
                   Place, HelmOwner, ReleaseViews)
        /\ Custody(releaseVersions, worker, Release, lastUid, TargetOf, retargeted,
                   Place, RollbackOwner, ReleaseViews)
    BY ReleaseParts
  <1>2. releaseVersions' = Appended(releaseVersions, r, Absent) /\ o # Absent
    BY <1>1, StoreIsAppend, ObjectType DEF ReleaseInv, KnownInv
  <1>3. /\ HelmOwner' = HelmOwner /\ RollbackOwner' = RollbackOwner
        /\ ReleaseViews' = ReleaseViews /\ Excused \subseteq Excused'
    BY WriteKeeps DEF ReleaseViews, Excused
  <1>4. ASSUME NEW owner,
               Custody(releaseVersions, worker, Release, lastUid, TargetOf, retargeted,
                       Place, owner, ReleaseViews)
        PROVE  /\ Custody(releaseVersions', worker', Release, lastUid, TargetOf,
                          retargeted, Place, owner, ReleaseViews)
               /\ \A v : HeldUid(releaseVersions', Release, v)
                           <=> HeldUid(releaseVersions, Release, v) /\ v # o.uid
    <2>1. /\ Stored(releaseVersions[r]) # Absent
          /\ \/ Stored(releaseVersions[r]).fins = {}
             \/ /\ Busy(worker, r) /\ worker.item.deleting
                /\ worker.item.uid = Stored(releaseVersions[r]).uid
      BY <1>2
    <2> QED  BY <1>1, <1>2, <1>4, <2>1, CustodyVanish
  <1>5. InCustody'
    BY <1>1, <1>3, <1>4 DEF InCustody
  <1>6. ASSUME NEW owner, OwnersLive(owner),
               \A p \in Place : owner[p] = o.uid /\ HeldUid(releaseVersions, Release, o.uid)
                                  => o.uid \in Excused'
        PROVE  \A p \in Place : owner[p] # Absent =>
                 /\ owner[p] \in 0 .. lastUid
                 /\ HeldUid(releaseVersions', Release, owner[p]) \/ owner[p] \in Excused'
    BY <1>1, <1>3, <1>4, <1>6 DEF OwnersLive
  <1>7. CASE o.fins = {}
    <2>1. ~HeldUid(releaseVersions, Release, o.uid)
      <3>1. ASSUME NEW z \in Release, Stored(releaseVersions[z]) # Absent,
                   Stored(releaseVersions[z]).uid = o.uid
            PROVE  Stored(releaseVersions[z]).fins = {}
        <4>1. CASE z = r
          BY <1>7, <4>1
        <4>2. CASE z # r
          <5>1. /\ Len(releaseVersions[z]) \in Views(releaseVersions, worker, z)
                /\ View(releaseVersions, worker, z, Len(releaseVersions[z]))
                     = Stored(releaseVersions[z])
            BY <1>1, ViewType
          <5>2. Lineage(releaseVersions, worker, Release, lastUid)
            BY <1>1 DEF Custody
          <5>3. Stored(releaseVersions[r]).uid # Stored(releaseVersions[z]).uid
            BY <1>1, <1>2, <3>1, <4>2, <5>1, <5>2, ViewDistinct
          <5> QED  BY <3>1, <5>3
        <4> QED  BY <4>1, <4>2
      <3> QED  BY <3>1 DEF HeldUid
    <2>2. OwnersLive(HelmOwner)' /\ OwnersLive(RollbackOwner)'
      BY <1>3, <1>6, <2>1 DEF ReleaseInv, OwnersLive
    <2> QED  BY <1>5, <2>2 DEF ReleaseInv
  <1>8. CASE /\ Busy(worker, r) /\ worker.item.deleting /\ worker.item.uid = o.uid
             /\ worker.pc = "removeFinalizer" /\ worker'.pc = "idle"
             /\ orphaned' = IF worker.item.spec.policy = "Orphan"
                              THEN orphaned \cup {worker.item.uid} ELSE orphaned
    <2>1. ASSUME NEW p \in Place, HelmOwner[p] = o.uid PROVE o.uid \in Excused'
      <3>1. CASE worker.item.spec.policy = "Orphan"
        BY <1>8, <3>1 DEF Excused
      <3>2. CASE worker.item.spec.policy # "Orphan"
        BY <1>8, <2>1, <3>2 DEF Excused, ReleaseInv, ReleaseGone
      <3> QED  BY <3>1, <3>2
    <2>2. \A p \in Place : RollbackOwner[p] = Absent
      BY <1>8 DEF RollbackOwner
    <2>3. o.uid # Absent
      BY <1>1, ObjectType
    <2>4. OwnersLive(HelmOwner)' /\ OwnersLive(RollbackOwner)'
      BY <1>3, <1>6, <2>1, <2>2, <2>3 DEF ReleaseInv, OwnersLive
    <2> QED  BY <1>5, <2>4 DEF ReleaseInv
  <1> QED  BY <1>7, <1>8

(* The finalizer is removed. *)
LEMMA ReleaseRemoves ==
  ASSUME ReleaseInv, RemoveFinalizer
  PROVE  ReleaseInv'
  <1> DEFINE r == worker.key
             o == Stored(releaseVersions[r])
             x == Settle([o EXCEPT !.fins = {}])
  <1>1. /\ r \in Release /\ Busy(worker, r)
        /\ worker.item \in ReleaseObject /\ worker.item.deleting
        /\ o \in ReleaseObject /\ x \in ReleaseVersion /\ StoreRelease(r, x)
        /\ o.deleting => x = Absent
        /\ ~o.deleting /\ o.fins = {} => Continuation(o, x)
        /\ x # Absent => x.uid = o.uid /\ x.spec = o.spec /\ x.status = o.status
        /\ KnownInv' /\ worker' = IdleWorker /\ Follows(worker, worker')
        /\ orphaned' = IF worker.item.spec.policy = "Orphan"
                         THEN orphaned \cup {worker.item.uid} ELSE orphaned
        /\ UNCHANGED <<environment, helm>>
    BY RemoveIsSettle DEF ReleaseInv
  <1>2. /\ UNCHANGED <<lastUid, retargeted, helm>> /\ orphaned \subseteq orphaned'
        /\ worker'.pc = "idle"
    BY <1>1 DEF environment, IdleWorker
  <1>3. ReleaseGone'
    BY <1>2 DEF ReleaseGone
  <1>4. /\ worker.pc = "removeFinalizer" /\ worker.item # Absent /\ o # Absent
        /\ Precedes(worker.item, o) /\ o \in ReleaseViews
    BY <1>1, ReleaseItem, ReleaseStored, ObjectType DEF RemoveFinalizer
  <1> HIDE DEF x, r, o
  <1>5. CASE worker.item.uid = o.uid
    <2>1. x = Absent
      BY <1>1, <1>4, <1>5 DEF Precedes
    <2> QED  BY <1>1, <1>2, <1>3, <1>4, <1>5, <2>1, ReleaseVanishes DEF o
  <1>6. CASE worker.item.uid # o.uid
    <2>1. o.fins = {} /\ ~o.deleting
      BY <1>4, <1>6 DEF Precedes, ReleaseViews
    <2>2. Continuation(o, x) /\ x # Absent /\ x \in ReleaseObject
      BY <1>1, <2>1 DEF Continuation, ReleaseVersion
    <2>3. ~x.deleting
      <3>1. x = [o EXCEPT !.fins = {}]
        BY <2>2 DEF x, Settle
      <3> QED  BY <1>1, <2>1, <3>1 DEF ReleaseObject
    <2>4. PlaceOf(x.spec) = PlaceOf(o.spec)
      BY <1>1, <2>2
    <2> QED  BY <1>1, <1>2, <1>3, <1>4, <2>2, <2>3, <2>4, ReleaseContinues DEF o
  <1> QED  BY <1>5, <1>6

(* A user creates a release. *)
LEMMA ReleaseCreates ==
  ASSUME ReleaseInv, NEW r \in Release, CreateRelease(r)
  PROVE  ReleaseInv'
  <1>1. PICK x \in ReleaseObject :
          /\ StoreRelease(r, x) /\ Stored(releaseVersions[r]) = Absent
          /\ x # Absent /\ x.uid = lastUid + 1 /\ x.fins = {}
          /\ lastUid < MaxUid /\ lastUid' = lastUid + 1
          /\ KnownInv' /\ Follows(worker, worker')
          /\ UNCHANGED <<worker, helm, orphaned, retargeted>>
          /\ ~x.deleting
    BY CreateIsNew DEF ReleaseInv
  <1>2. /\ Tracked(Release, ReleaseVersion, releaseVersions, worker) /\ lastUid \in Nat
        /\ Absent \notin Nat
        /\ Custody(releaseVersions, worker, Release, lastUid, TargetOf, retargeted,
                   Place, HelmOwner, ReleaseViews)
        /\ Custody(releaseVersions, worker, Release, lastUid, TargetOf, retargeted,
                   Place, RollbackOwner, ReleaseViews)
    BY ReleaseParts
  <1>3. /\ HelmOwner' = HelmOwner /\ RollbackOwner' = RollbackOwner
        /\ Excused' = Excused /\ ReleaseViews' = ReleaseViews
    BY <1>1, WriteKeeps DEF Excused, ReleaseViews
  <1>4. x \in ReleaseVersion /\ releaseVersions' = Appended(releaseVersions, r, x)
    <2>1. x \in ReleaseVersion
      BY DEF ReleaseVersion
    <2> QED  BY <1>1, <2>1, StoreIsAppend DEF ReleaseInv, KnownInv
  <1>5. x \in ReleaseViews
    BY <1>1, <1>4 DEF ReleaseViews
  <1>6. lastUid + 1 \notin 0 .. lastUid /\ lastUid + 1 # Absent
    BY <1>2
  <1>7. ASSUME NEW owner, \A p \in Place : owner[p] # lastUid + 1,
               Custody(releaseVersions, worker, Release, lastUid, TargetOf, retargeted,
                       Place, owner, ReleaseViews)
        PROVE  /\ Custody(releaseVersions', worker, Release, lastUid + 1, TargetOf,
                          retargeted, Place, owner, ReleaseViews)
               /\ \A v : HeldUid(releaseVersions', Release, v)
                           <=> HeldUid(releaseVersions, Release, v)
    BY <1>1, <1>2, <1>4, <1>5, <1>7, CustodyCreate
  <1>8. \A p \in Place : HelmOwner[p] # lastUid + 1 /\ RollbackOwner[p] # lastUid + 1
    BY <1>6 DEF ReleaseInv, OwnersLive
  <1>9. InCustody'
    BY <1>1, <1>2, <1>3, <1>7, <1>8 DEF InCustody
  <1>10. OwnersLive(HelmOwner)' /\ OwnersLive(RollbackOwner)'
    <2>1. 0 .. lastUid \subseteq 0 .. lastUid'
      BY <1>1, <1>2
    <2>2. \A v : HeldUid(releaseVersions', Release, v) <=> HeldUid(releaseVersions, Release, v)
      BY <1>2, <1>7, <1>8
    <2> QED  BY <1>3, <2>1, <2>2 DEF ReleaseInv, OwnersLive
  <1>11. ReleaseGone'
    BY <1>1, <1>3 DEF ReleaseInv, ReleaseGone
  <1> QED  BY <1>1, <1>9, <1>10, <1>11 DEF ReleaseInv

(* A user edits a release. *)
LEMMA ReleaseEdits ==
  ASSUME ReleaseInv, NEW r \in Release, UpdateRelease(r)
  PROVE  ReleaseInv'
  <1> DEFINE o == Stored(releaseVersions[r])
  <1>1. /\ o \in ReleaseObject
        /\ KnownInv' /\ Follows(worker, worker')
        /\ UNCHANGED <<worker, lastUid, helm, orphaned>>
    BY UpdateIsContinue DEF ReleaseInv
  <1>2. PICK x \in ReleaseObject :
          /\ StoreRelease(r, x) /\ Continuation(o, x)
          /\ retargeted' = IF PlaceOf(x.spec) # PlaceOf(o.spec)
                             THEN retargeted \cup {o.uid} ELSE retargeted
          /\ x.deleting = o.deleting
    BY UpdateIsContinue DEF ReleaseInv
  <1>3. o # Absent /\ o \in ReleaseViews
    BY <1>1, ObjectType, ReleaseStored
  <1> HIDE DEF o
  <1>4. /\ retargeted \subseteq retargeted'
        /\ o.uid \notin retargeted' => PlaceOf(x.spec) = PlaceOf(o.spec)
    BY <1>2
  <1>5. x.deleting => x.fins # {}
    BY <1>2, <1>3 DEF ReleaseViews, Continuation
  <1>6. ReleaseGone'
    BY <1>1, <1>4 DEF ReleaseInv, ReleaseGone, HelmOwner
  <1> QED
    BY <1>1, <1>2, <1>4, <1>5, <1>6, ReleaseContinues DEF o

(* A user deletes a release. *)
LEMMA ReleaseDeletion ==
  ASSUME ReleaseInv, NEW r \in Release, DeleteRelease(r)
  PROVE  ReleaseInv'
  <1> DEFINE o == Stored(releaseVersions[r])
  <1>1. /\ o \in ReleaseObject
        /\ KnownInv' /\ Follows(worker, worker')
        /\ UNCHANGED <<worker, environment, helm, orphaned>>
    BY DeleteIsSettle DEF ReleaseInv
  <1>2. PICK x \in ReleaseVersion :
          /\ StoreRelease(r, x)
          /\ o.fins = {} => x = Absent
          /\ o.fins # {} => Continuation(o, x)
          /\ x # Absent => x.uid = o.uid /\ x.spec = o.spec /\ x.status = o.status
    BY DeleteIsSettle DEF ReleaseInv
  <1> HIDE DEF o
  <1>3. UNCHANGED <<lastUid, orphaned, retargeted, helm>>
    BY <1>1 DEF environment
  <1>4. ReleaseGone'
    BY <1>1, <1>3 DEF ReleaseInv, ReleaseGone, HelmOwner
  <1>5. CASE o.fins = {}
    BY <1>1, <1>2, <1>3, <1>4, <1>5, ReleaseVanishes DEF o
  <1>6. CASE o.fins # {}
    <2>1. x # Absent /\ x \in ReleaseObject /\ Continuation(o, x) /\ x.fins # {}
      BY <1>2, <1>6 DEF Continuation, ReleaseVersion
    <2>2. PlaceOf(x.spec) = PlaceOf(o.spec)
      BY <1>2, <2>1
    <2>3. retargeted \subseteq retargeted' /\ orphaned \subseteq orphaned'
      BY <1>3
    <2> QED  BY <1>1, <1>2, <1>3, <1>4, <2>1, <2>2, <2>3, ReleaseContinues DEF o
  <1> QED  BY <1>5, <1>6

(* Where Reconcile starts. *)
LEMMA BeginsAt ==
  ASSUME NEW r \in Release, Reconcile(r), worker.pc = "idle"
  PROVE  worker'.pc \in {"idle", "addFinalizer", "checkSpec", "getKubeconfig",
                         "removeFinalizer"}
  <1>1. ASSUME NEW pc, Begin(r, pc) PROVE worker'.pc = pc
    BY <1>1 DEF Begin, IdleWorker
  <1>2. CASE ReconcileNothing(r)
    BY <1>2 DEF ReconcileNothing
  <1>3. CASE ReconcileDelete(r)
    BY <1>1, <1>3 DEF ReconcileDelete
  <1>4. CASE ReconcileNew(r) \/ ReconcileRelease(r)
    BY <1>1, <1>4 DEF ReconcileNew, ReconcileRelease
  <1> QED  BY <1>2, <1>3, <1>4 DEF Reconcile

(* Reconcile starts, with the Orphan policy perhaps at its last step. *)
LEMMA ReleaseBegins ==
  ASSUME ReleaseInv, NEW r \in Release, Reconcile(r)
  PROVE  ReleaseInv'
  <1>1. /\ KnownInv'
        /\ \/ UNCHANGED worker
           \/ /\ worker.pc = "idle" /\ worker'.key = r
              /\ worker'.item = Cached(releaseVersions[r])
              /\ Cached(releaseVersions[r]) # Absent
              /\ worker'.pc = "removeFinalizer" => worker'.item.spec.policy = "Orphan"
        /\ UNCHANGED <<releaseVersions, environment, helm, orphaned>>
    BY KnownBegin DEF ReleaseInv
  <1>2. UNCHANGED <<releaseVersions, lastUid, orphaned, retargeted, helm>>
    BY <1>1 DEF environment
  <1>3. Tracked(Release, ReleaseVersion, releaseVersions, worker)
    BY ReleaseParts
  <1>4. CASE UNCHANGED worker
    <2>1. SeesNoMore(releaseVersions, worker, releaseVersions', worker', Release)
      <3>1. Follows(worker, worker')
        BY <1>4 DEF Follows
      <3> QED  BY <1>2, <1>3, <3>1, FewerFollow
    <2> QED  BY <1>1, <1>2, <1>4, <2>1, ReleaseStays
  <1>5. CASE /\ worker.pc = "idle" /\ worker'.key = r
             /\ worker'.item = Cached(releaseVersions[r])
             /\ Cached(releaseVersions[r]) # Absent
             /\ worker'.pc = "removeFinalizer" => worker'.item.spec.policy = "Orphan"
    <2>1. SeesNoMore(releaseVersions, worker, releaseVersions', worker', Release)
      BY <1>2, <1>3, <1>5, FewerBegin
    <2>2. worker'.pc \in {"idle", "addFinalizer", "checkSpec", "getKubeconfig",
                          "removeFinalizer"}
      BY <1>5, BeginsAt
    <2>3. ReleaseGone'
      BY <1>5, <2>2 DEF ReleaseGone
    <2> QED  BY <1>1, <1>2, <2>1, <2>2, <2>3, ReleaseLooks
  <1> QED  BY <1>1, <1>4, <1>5

(* Every step keeps the invariant. *)
LEMMA StepRelease ==
  ASSUME ReleaseInv, [Next]_vars
  PROVE  ReleaseInv'
  <1>1. Tracked(Release, ReleaseVersion, releaseVersions, worker) /\ KnownInv
    BY ReleaseParts DEF ReleaseInv
  <1>2. ASSUME KnownInv', Follows(worker, worker'),
               UNCHANGED <<releaseVersions, lastUid, orphaned, retargeted, helm>>,
               worker'.pc \notin {"finish", "removeFinalizer"},
               worker'.pc = "updateStatus" => worker'.reason # "Uninstalled"
        PROVE  ReleaseInv'
    <2>1. SeesNoMore(releaseVersions, worker, releaseVersions', worker', Release)
      BY <1>1, <1>2, FewerFollow
    <2>2. ReleaseGone'
      BY <1>2 DEF ReleaseGone
    <2> QED  BY <1>2, <2>1, <2>2, ReleaseLooks
  <1>3. ASSUME KnownInv', UNCHANGED worker,
               UNCHANGED <<releaseVersions, lastUid, orphaned, retargeted, helm>>
        PROVE  ReleaseInv'
    <2>1. Follows(worker, worker')
      BY <1>3 DEF Follows
    <2>2. SeesNoMore(releaseVersions, worker, releaseVersions', worker', Release)
      BY <1>1, <1>3, <2>1, FewerFollow
    <2> QED  BY <1>3, <2>2, ReleaseStays
  <1>4. CASE WorkerStep
    <2>1. CASE \/ SpecError \/ MissingCluster \/ FoundCluster
               \/ NoKubeconfig \/ FoundKubeconfig \/ UpgradeRefused \/ HelmUnavailable
      BY <1>1, <1>2, <2>1, KnownLook DEF environment
    <2>2. CASE InstallOrUpgrade \/ FinishHelm \/ HelmFails \/ Uninstall \/ UninstallFails
      BY <2>2, ReleaseHelm
    <2>3. CASE AddFinalizer \/ UpdateStatus \/ RemoveFinalizer
      BY <2>3, ReleaseAdds, ReleaseReports, ReleaseRemoves
    <2>4. CASE CallFails \/ ReadFails \/ NothingToRelease
      <3>1. /\ KnownInv' /\ worker' = IdleWorker /\ Follows(worker, worker')
            /\ UNCHANGED <<releaseVersions, environment, helm, orphaned>>
        BY <1>1, <2>4, KnownCallFails
      <3>2. /\ worker'.pc = "idle"
            /\ UNCHANGED <<releaseVersions, lastUid, orphaned, retargeted, helm>>
        BY <3>1 DEF IdleWorker, environment
      <3> QED  BY <1>2, <3>1, <3>2
    <2> QED
      BY <1>4, <2>1, <2>2, <2>3, <2>4 DEF WorkerStep, Outage, CallSucceeds
  <1>5. ASSUME NEW r \in Release, DeliverRelease(r) PROVE ReleaseInv'
    <2>1. /\ KnownInv' /\ Len(releaseVersions[r]) > 1
          /\ releaseVersions' = Delivered(releaseVersions, r)
          /\ UNCHANGED <<worker, environment, helm, orphaned>>
      BY <1>1, <1>5, KnownDeliver
    <2>2. UNCHANGED <<worker, lastUid, orphaned, retargeted, helm>>
      BY <2>1 DEF environment
    <2>3. SeesNoMore(releaseVersions, worker, releaseVersions', worker', Release)
      BY <1>1, <2>1, <2>2, FewerDeliver
    <2> QED  BY <2>1, <2>2, <2>3, ReleaseStays
  <1>6. ASSUME NEW r \in Release,
               Reconcile(r) \/ CreateRelease(r) \/ UpdateRelease(r) \/ DeleteRelease(r)
        PROVE  ReleaseInv'
    BY <1>6, ReleaseBegins, ReleaseCreates, ReleaseEdits, ReleaseDeletion
  <1>7. CASE \/ \E secret \in Kubeconfig :
                  DeliverNotice(secret) \/ ChangeKubeconfig(secret)
             \/ ChangeCluster
    BY <1>1, <1>3, <1>7, KnownChange
  <1>8. CASE Restart
    <2>1. /\ KnownInv' /\ worker'.pc = "idle"
          /\ releaseVersions' = Relisted(releaseVersions, Release)
          /\ UNCHANGED <<lastUid, orphaned, retargeted, helm>>
      BY <1>1, <1>8, KnownRestart
    <2>2. SeesNoMore(releaseVersions, worker, releaseVersions', worker', Release)
      BY <1>1, <2>1, FewerRestart
    <2>3. ReleaseGone'
      BY <2>1 DEF ReleaseGone
    <2> QED  BY <2>1, <2>2, <2>3, ReleaseLooks
  <1>9. CASE UNCHANGED vars
    <2>1. KnownInv'
      BY <1>1, StepKnown
    <2> QED  BY <1>3, <1>9, <2>1 DEF vars
  <1> QED  BY <1>4, <1>5, <1>6, <1>7, <1>8, <1>9 DEF Next

(* Nothing is installed when the operator starts. *)
LEMMA InitRelease == Init => ReleaseInv
  <1> SUFFICES ASSUME Init PROVE ReleaseInv
    OBVIOUS
  <1>1. KnownInv
    BY InitKnown
  <1>2. worker.pc = "idle" /\ releaseVersions = [r \in Release |-> <<Absent>>]
    BY DEF Init, IdleWorker
  <1>3. \A p \in Place : HelmOwner[p] = Absent /\ RollbackOwner[p] = Absent
    BY <1>2 DEF Init, HelmOwner, RollbackOwner
  <1>4. InCustody
    <2>1. Versioned(ReleaseVersion) /\ Absent \in ReleaseVersion
      BY <1>1, VersionsType DEF KnownInv, Tracked
    <2>2. Absent \in ReleaseViews
      BY <2>1 DEF ReleaseViews
    <2> QED  BY <1>2, <2>1, <2>2, CustodyInit DEF InCustody
  <1>5. ReleaseGone /\ OwnersLive(HelmOwner) /\ OwnersLive(RollbackOwner)
    BY <1>2, <1>3 DEF ReleaseGone, OwnersLive
  <1> QED  BY <1>1, <1>4, <1>5 DEF ReleaseInv

(* No Helm release, finished, failed or pending, loses the object that is   *)
(* to uninstall it: not by a stale cache, a conflict, an outage or a crash  *)
(* in the middle of an upgrade, and not by a rollback, which may give a     *)
(* release back to another object than the one that was being reconciled.   *)
(* Users leave releases behind only with the Orphan policy or by editing    *)
(* the kubeconfig Secret, namespace or name.                                *)
THEOREM ReleasesAreOwned == Spec => []ReleaseHasOwner
  <1>1. ReleaseInv => ReleaseHasOwner
    <2> SUFFICES ASSUME ReleaseInv, NEW p \in Place, helm[p] # Absent
                 PROVE  \/ Held(helm[p].by)
                        \/ helm[p].by \in orphaned
                        \/ helm[p].by \in retargeted
      BY DEF ReleaseHasOwner
    <2>1. HelmOwner[p] = helm[p].by
      BY DEF HelmOwner
    <2>2. HelmOwner[p] # Absent
      <3>1. helm[p] \in Revision
        BY DEF ReleaseInv, KnownInv, TypeOK
      <3> QED  BY <2>1, <3>1, ReleaseAbsentAssumption DEF Revision
    <2>3. HeldUid(releaseVersions, Release, HelmOwner[p]) \/ HelmOwner[p] \in Excused
      BY <2>2 DEF ReleaseInv, OwnersLive
    <2> QED  BY <2>1, <2>3 DEF Held, HeldUid, Excused
  <1>2. ReleaseInv /\ [Next]_vars => ReleaseInv'
    BY StepRelease
  <1> QED  BY <1>1, <1>2, InitRelease, PTL DEF Spec



-----------------------------------------------------------------------------
(* The status is honest.  Reconcile reports the generation that is stored   *)
(* by then as released, although it has worked from an older copy and       *)
(* although nothing watches Helm: if the copy was out of date another       *)
(* request must be due, which no crash or event that is dropped may lose.   *)

(* While Reconcile calls Helm for one release, no other stored one has that *)
(* place: nothing in the operator or its webhooks sees to that.             *)
PlacesApart ==
  worker.pc \in {"runHelm", "finish", "uninstall"} =>
    \A r \in Release \ {worker.key} :
      LET o == Stored(releaseVersions[r])
      IN  o # Absent => PlaceOf(o.spec) # ItemPlace

Installed(o) ==
  helm[PlaceOf(o.spec)] =
    [by |-> o.uid, chart |-> o.spec.chart, state |-> "deployed"]

RequestDue(r) == Due(releaseVersions, worker, queue, r)

ReleaseTold == Told(releaseVersions, worker, queue, Release)

(* What Reconcile is about to report it has done. *)
WorkerInstalled ==
  worker.pc = "updateStatus" /\ worker.reason = "Installed" => Installed(worker.item)

ReportIsHonest ==
  \A r \in Release :
    ReportsReleased(r) => RequestDue(r) \/ Installed(Stored(releaseVersions[r]))

HonestInv == KnownInv /\ ReleaseTold /\ WorkerInstalled /\ ReportIsHonest

(* A request that is due is pending. *)
LEMMA HonestRelease == HonestInv => ReleaseIsHonest
  <1> SUFFICES ASSUME HonestInv, NEW r \in Release, ReportsReleased(r), ~Pending(r)
               PROVE  Installed(Stored(releaseVersions[r]))
    BY DEF ReleaseIsHonest, Installed
  <1>1. ~RequestDue(r)
    <2>1. Len(releaseVersions[r]) \in Nat
      BY VersionsType, MapEnds DEF HonestInv, KnownInv, Tracked
    <2>2. ~Announced(releaseVersions[r], 1)
      BY <2>1 DEF Pending, Announced, Places
    <2> QED  BY <2>2 DEF RequestDue, Due, Busy, Pending
  <1> QED  BY <1>1 DEF HonestInv, ReportIsHonest

(* No stored version changes; Helm changes for those alone that are due. *)
LEMMA HonestStays ==
  ASSUME ReportIsHonest,
         \A r \in Release :
           /\ Stored(releaseVersions'[r]) = Stored(releaseVersions[r])
           /\ RequestDue(r) => RequestDue(r)'
           /\ LET o == Stored(releaseVersions[r])
              IN  o # Absent => \/ RequestDue(r)'
                                \/ helm'[PlaceOf(o.spec)] = helm[PlaceOf(o.spec)]
  PROVE  ReportIsHonest'
  <1> SUFFICES ASSUME NEW r \in Release, ReportsReleased(r)', ~RequestDue(r)'
               PROVE  Installed(Stored(releaseVersions[r]))'
    BY DEF ReportIsHonest
  <1> DEFINE o == Stored(releaseVersions[r])
  <1>1. Stored(releaseVersions'[r]) = o
    OBVIOUS
  <1>2. ReportsReleased(r) /\ o # Absent /\ ~RequestDue(r)
    BY <1>1 DEF ReportsReleased
  <1>3. Installed(o) /\ helm'[PlaceOf(o.spec)] = helm[PlaceOf(o.spec)]
    BY <1>2 DEF ReportIsHonest
  <1> QED  BY <1>1, <1>3 DEF Installed

(* The release k is written. *)
LEMMA HonestWrites ==
  ASSUME ReportIsHonest, NEW k \in Release, NEW x,
         Stored(releaseVersions'[k]) = x, UNCHANGED helm,
         \A r \in Release \ {k} : /\ releaseVersions'[r] = releaseVersions[r]
                                  /\ RequestDue(r) => RequestDue(r)',
         \/ RequestDue(k)'
         \/ x = Absent
         \/ x.deleting
         \/ x.status.reason # "Installed"
         \/ Installed(x)
  PROVE  ReportIsHonest'
  <1> SUFFICES ASSUME NEW r \in Release, ReportsReleased(r)', ~RequestDue(r)'
               PROVE  Installed(Stored(releaseVersions[r]))'
    BY DEF ReportIsHonest
  <1>1. CASE r = k
    <2>1. x # Absent /\ ~x.deleting /\ x.status.reason = "Installed"
      BY <1>1 DEF ReportsReleased
    <2>2. Installed(x)
      BY <1>1, <2>1
    <2> QED  BY <1>1, <2>2 DEF Installed
  <1>2. CASE r # k
    <2>1. releaseVersions'[r] = releaseVersions[r] /\ ~RequestDue(r)
      BY <1>2
    <2>2. ReportsReleased(r)
      BY <2>1 DEF ReportsReleased
    <2>3. Installed(Stored(releaseVersions[r]))
      BY <2>1, <2>2 DEF ReportIsHonest
    <2> QED  BY <2>1, <2>3 DEF Installed
  <1> QED  BY <1>1, <1>2

(* Nothing changes but Reconcile, which goes on or ends, and the queue,     *)
(* which may grow.                                                          *)
LEMMA HonestQuiet ==
  ASSUME HonestInv, KnownInv', Follows(worker, worker'), queue \subseteq queue',
         UNCHANGED <<releaseVersions, helm>>,
         worker.pc # "idle" => worker'.pc # "idle" \/ worker.key \in queue',
         worker'.pc = "updateStatus" /\ worker'.reason = "Installed" => UNCHANGED worker
  PROVE  HonestInv'
  <1>1. /\ Told(releaseVersions, worker', queue', Release)
        /\ \A r \in Release :
             Due(releaseVersions, worker, queue, r)
               /\ (Busy(worker, r) => Busy(worker', r) \/ r \in queue')
                 => Due(releaseVersions, worker', queue', r)
    BY ToldFollow DEF HonestInv, ReleaseTold
  <1>2. \A r \in Release : Busy(worker, r) => Busy(worker', r) \/ r \in queue'
    BY DEF Busy, Follows
  <1>3. ReportIsHonest'
    BY <1>1, <1>2, HonestStays DEF HonestInv, RequestDue
  <1>4. WorkerInstalled'
    BY DEF HonestInv, WorkerInstalled, Installed
  <1> QED  BY <1>1, <1>3, <1>4 DEF HonestInv, ReleaseTold

(* Reconcile looks at something, and reports no success. *)
LEMMA HonestLook ==
  ASSUME HonestInv,
         \/ SpecError \/ MissingCluster \/ FoundCluster
         \/ NoKubeconfig \/ FoundKubeconfig \/ UpgradeRefused \/ HelmUnavailable
  PROVE  HonestInv'
  <1>1. KnownInv /\ TypeOK
    BY DEF HonestInv, KnownInv
  <1>2. /\ KnownInv' /\ Follows(worker, worker')
        /\ UNCHANGED <<releaseVersions, queue, environment, helm, orphaned>>
    BY <1>1, KnownLook
  <1>3. worker.pc # "idle"
    BY DEF SpecError, MissingCluster, FoundCluster, NoKubeconfig, FoundKubeconfig,
           UpgradeRefused, HelmUnavailable
  <1>4. worker \in BusyWorker
    BY <1>1, <1>3, BusyType
  <1>5. ASSUME NEW reason, reason # "Installed", NEW again, worker' = Report(reason, again)
        PROVE  worker'.pc # "idle" /\ worker'.reason # "Installed"
    BY <1>4, <1>5 DEF Report, BusyWorker
  <1>6. ASSUME NEW pc, pc \notin {"idle", "updateStatus"},
               worker' = [worker EXCEPT !.pc = pc]
        PROVE  worker'.pc \notin {"idle", "updateStatus"}
    BY <1>4, <1>6 DEF BusyWorker
  <1>7. CASE SpecError \/ MissingCluster \/ UpgradeRefused \/ HelmUnavailable
    <2>1. worker'.pc # "idle" /\ worker'.reason # "Installed"
      BY <1>5, <1>7
         DEF SpecError, MissingCluster, UpgradeRefused, HelmUnavailable, Advance
    <2> QED  BY <1>2, <2>1, HonestQuiet
  <1>8. CASE NoKubeconfig
    <2>1. worker'.pc # "idle" /\ worker'.reason # "Installed"
      BY <1>5, <1>8 DEF NoKubeconfig, Advance
    <2> QED  BY <1>2, <2>1, HonestQuiet
  <1>9. CASE FoundCluster \/ FoundKubeconfig
    <2>1. worker'.pc \notin {"idle", "updateStatus"}
      BY <1>6, <1>9 DEF FoundCluster, FoundKubeconfig, Advance
    <2> QED  BY <1>2, <2>1, HonestQuiet
  <1> QED  BY <1>7, <1>8, <1>9

(* Helm works at the place of the copy that Reconcile holds: no other       *)
(* release is reported from there, and this one is being worked on.         *)
LEMMA HonestHelm ==
  ASSUME HonestInv, PlacesApart,
         InstallOrUpgrade \/ FinishHelm \/ HelmFails \/ Uninstall \/ UninstallFails
  PROVE  HonestInv'
  <1>1. KnownInv /\ TypeOK
    BY DEF HonestInv, KnownInv
  <1>2. /\ KnownInv' /\ Follows(worker, worker')
        /\ UNCHANGED <<releaseVersions, queue, environment, orphaned>>
        /\ \/ helm' \in {Recorded("pending"), Recorded("deployed"), Recorded("failed")}
           \/ helm' \in {RolledBack, Removed, helm}
        /\ worker.pc \in {"runHelm", "finish", "uninstall"} /\ worker'.pc # "idle"
    BY <1>1, KnownHelm
  <1>3. /\ worker \in BusyWorker /\ worker.key \in Release
        /\ worker.item \in ReleaseObject /\ ItemPlace \in Place
    BY <1>1, <1>2, BusyType, ObjectType DEF ItemPlace
  <1>4. \A p \in Place : p # ItemPlace => helm'[p] = helm[p]
    <2>1. helm \in [Place -> Revision \cup {Absent}]
      BY <1>1 DEF TypeOK
    <2>2. ASSUME NEW v, NEW p \in Place, p # ItemPlace
          PROVE  [helm EXCEPT ![ItemPlace] = v][p] = helm[p]
      BY <2>1, <2>2
    <2> QED  BY <1>2, <2>2 DEF Recorded, RolledBack, Removed
  <1>5. /\ Told(releaseVersions, worker', queue', Release)
        /\ \A r \in Release :
             Due(releaseVersions, worker, queue, r)
               /\ (Busy(worker, r) => Busy(worker', r) \/ r \in queue')
                 => Due(releaseVersions, worker', queue', r)
    BY <1>2, ToldFollow DEF HonestInv, ReleaseTold
  <1>6. \A r \in Release : Busy(worker, r) => Busy(worker', r)
    BY <1>2 DEF Busy, Follows
  <1>7. ASSUME NEW r \in Release, r # worker.key, Stored(releaseVersions[r]) # Absent
        PROVE  LET o == Stored(releaseVersions[r])
               IN  helm'[PlaceOf(o.spec)] = helm[PlaceOf(o.spec)]
    <2> DEFINE o == Stored(releaseVersions[r])
    <2>1. o \in ReleaseObject
      BY <1>1, <1>7, VersionsType DEF ReleaseVersion
    <2>2. PlaceOf(o.spec) \in Place /\ PlaceOf(o.spec) # ItemPlace
      BY <1>2, <1>7, <2>1, ObjectType DEF PlacesApart
    <2> QED  BY <1>4, <2>2
  <1>8. \A r \in Release :
          LET o == Stored(releaseVersions[r])
          IN  o # Absent => \/ Due(releaseVersions, worker', queue', r)
                            \/ helm'[PlaceOf(o.spec)] = helm[PlaceOf(o.spec)]
    <2> SUFFICES ASSUME NEW r \in Release, Stored(releaseVersions[r]) # Absent
                 PROVE  LET o == Stored(releaseVersions[r])
                        IN  \/ Due(releaseVersions, worker', queue', r)
                            \/ helm'[PlaceOf(o.spec)] = helm[PlaceOf(o.spec)]
      OBVIOUS
    <2>1. CASE r = worker.key
      <3>1. Busy(worker', r)
        BY <1>2, <2>1 DEF Busy, Follows
      <3> QED  BY <3>1 DEF Due
    <2>2. CASE r # worker.key
      BY <1>7, <2>2
    <2> QED  BY <2>1, <2>2
  <1>9. ReportIsHonest'
    BY <1>2, <1>5, <1>6, <1>8, HonestStays DEF HonestInv, RequestDue
  <1>10. WorkerInstalled'
    <2>1. CASE FinishHelm
      <3>1. helm' = Recorded("deployed") /\ worker'.item = worker.item
        BY <1>2, <2>1 DEF FinishHelm, Follows
      <3>2. helm'[ItemPlace] = [by |-> worker.item.uid,
                                chart |-> worker.item.spec.chart, state |-> "deployed"]
        <4>1. helm \in [Place -> Revision \cup {Absent}]
          BY <1>1 DEF TypeOK
        <4> QED  BY <1>3, <3>1, <4>1 DEF Recorded
      <3> QED  BY <3>1, <3>2 DEF WorkerInstalled, Installed, ItemPlace
    <2>2. CASE InstallOrUpgrade
      <3>1. worker'.pc = "finish"
        BY <1>3, <2>2 DEF InstallOrUpgrade, BusyWorker
      <3> QED  BY <3>1 DEF WorkerInstalled
    <2>3. CASE HelmFails \/ Uninstall \/ UninstallFails
      <3>1. worker'.reason \in {"ReconcileFailed", "Uninstalled"}
        BY <1>3, <2>3 DEF HelmFails, Uninstall, UninstallFails, Report, BusyWorker
      <3> QED  BY <3>1 DEF WorkerInstalled
    <2> QED  BY <2>1, <2>2, <2>3
  <1> QED  BY <1>2, <1>5, <1>9, <1>10 DEF HonestInv, ReleaseTold


(* A write to a release, after which Reconcile goes on or ends: it must     *)
(* bring a request, unless it changes nothing that Reconcile works from.    *)
LEMMA HonestStore ==
  ASSUME HonestInv, KnownInv', NEW k \in Release, NEW x \in ReleaseVersion,
         StoreRelease(k, x), Signalled(Stored(releaseVersions[k]), x), UNCHANGED helm,
         Follows(worker, worker'), queue \subseteq queue',
         worker.pc # "idle" /\ worker.key # k => worker'.pc # "idle",
         worker'.pc = "updateStatus" /\ worker'.reason = "Installed" => UNCHANGED worker,
         \/ k \in queue' \/ Busy(worker', k)
         \/ EventPasses(Stored(releaseVersions[k]), x)
         \/ x = Absent
         \/ x.deleting
         \/ x.status.reason # "Installed"
         \/ Installed(x)
  PROVE  HonestInv'
  <1> DEFINE next == Appended(releaseVersions, k, x)
  <1>1. /\ Tracked(Release, ReleaseVersion, releaseVersions, worker)
        /\ releaseVersions' = next
    BY VersionsType, StoreIsAppend DEF HonestInv, KnownInv
  <1>2. /\ Told(next, worker, queue, Release)
        /\ \A r \in Release : Due(releaseVersions, worker, queue, r)
                                => Due(next, worker, queue, r)
        /\ EventPasses(Stored(releaseVersions[k]), x) => Due(next, worker, queue, k)
        /\ Stored(next[k]) = x
        /\ \A r \in Release \ {k} : next[r] = releaseVersions[r]
    BY <1>1, ToldAppend DEF HonestInv, ReleaseTold
  <1> HIDE DEF next
  <1>3. /\ Told(next, worker', queue', Release)
        /\ \A r \in Release :
             Due(next, worker, queue, r)
               /\ (Busy(worker, r) => Busy(worker', r) \/ r \in queue')
                 => Due(next, worker', queue', r)
    BY <1>2, ToldFollow
  <1>4. \A r \in Release \ {k} : RequestDue(r) => RequestDue(r)'
    <2>1. \A r \in Release \ {k} : Busy(worker, r) => Busy(worker', r)
      BY DEF Busy, Follows
    <2> QED  BY <1>1, <1>2, <1>3, <2>1 DEF RequestDue
  <1>5. \/ RequestDue(k)' \/ x = Absent \/ x.deleting
        \/ x.status.reason # "Installed" \/ Installed(x)
    <2>1. CASE k \in queue' \/ Busy(worker', k)
      <3>1. Due(next, worker', queue', k)
        BY <2>1 DEF Due
      <3> QED  BY <1>1, <3>1 DEF RequestDue
    <2>2. CASE EventPasses(Stored(releaseVersions[k]), x)
      <3>1. Due(next, worker', queue', k)
        <4>1. Due(next, worker, queue, k)
          BY <1>2, <2>2
        <4>2. Busy(worker, k) /\ ~Busy(worker', k) /\ k \notin queue'
                => Announced(next[k], 1)
          BY <1>1, <2>2, PassingIsAnnounced DEF Tracked, next
        <4> QED  BY <1>3, <4>1, <4>2 DEF Due
      <3> QED  BY <1>1, <3>1 DEF RequestDue
    <2> QED  BY <2>1, <2>2
  <1>6. ReportIsHonest'
    BY <1>1, <1>2, <1>4, <1>5, HonestWrites DEF HonestInv
  <1>7. WorkerInstalled'
    BY DEF HonestInv, WorkerInstalled, Installed
  <1> QED  BY <1>1, <1>3, <1>6, <1>7 DEF HonestInv, ReleaseTold

(* AddFinalizer asks for another request. *)
LEMMA HonestAdds ==
  ASSUME HonestInv, AddFinalizer
  PROVE  HonestInv'
  <1> DEFINE x == [worker.item EXCEPT !.fins = {Finalizer}]
             o == Stored(releaseVersions[worker.key])
  <1>1. /\ worker.key \in Release /\ Busy(worker, worker.key)
        /\ x \in ReleaseObject /\ StoreRelease(worker.key, x) /\ Finalized(o, x)
        /\ KnownInv' /\ worker' = IdleWorker /\ Follows(worker, worker')
        /\ UNCHANGED <<environment, helm, orphaned>>
    BY AddIsFinalize DEF HonestInv
  <1>2. queue' = queue \cup {worker.key}
    BY DEF AddFinalizer, Done
  <1> HIDE DEF x, o
  <1>3. Signalled(o, x) /\ x \in ReleaseVersion
    BY <1>1 DEF Finalized, Signalled, SameContent, ReleaseVersion
  <1>4. worker'.pc = "idle"
    BY <1>1 DEF IdleWorker
  <1> QED  BY <1>1, <1>2, <1>3, <1>4, HonestStore DEF o

(* UpdateStatus reports the stored generation: it is the one that Reconcile *)
(* has released, or another request is due.                                 *)
LEMMA HonestReports ==
  ASSUME HonestInv, UpdateStatus
  PROVE  HonestInv'
  <1> DEFINE k == worker.key
             o == Stored(releaseVersions[k])
             status == [obs |-> o.gen, reason |-> worker.reason]
             x == [o EXCEPT !.status = status]
  <1>1. /\ k \in Release /\ Busy(worker, k)
        /\ x \in ReleaseObject /\ StoreRelease(k, x) /\ Continuation(o, x)
        /\ o \in ReleaseObject /\ x.spec = o.spec
        /\ x.deleting = o.deleting
        /\ KnownInv' /\ Follows(worker, worker')
        /\ \/ worker' = IdleWorker
           \/ worker.reason = "Uninstalled" /\ worker'.pc = "removeFinalizer"
        /\ UNCHANGED <<environment, helm, orphaned>>
    BY StatusIsContinue DEF HonestInv
  <1>2. worker.pc = "updateStatus" /\ Cached(releaseVersions[k]) = o
    BY DEF UpdateStatus, WriteStatus
  <1>3. queue \subseteq queue'
    BY DEF UpdateStatus, Done
  <1>4. x.uid = o.uid /\ x.gen = o.gen /\ x.status.reason = worker.reason
    BY <1>1 DEF ReleaseObject
  <1>5. o # Absent /\ x # Absent /\ x \in ReleaseVersion
    BY <1>1, ObjectType DEF ReleaseVersion
  <1> HIDE DEF x, o, status
  <1>6. Signalled(o, x)
    BY <1>1, <1>4, <1>5 DEF Signalled, SameContent
  <1>7. \/ k \in queue' \/ x.status.reason # "Installed" \/ Installed(x)
    <2> SUFFICES ASSUME k \notin queue', x.status.reason = "Installed"
                 PROVE  Installed(x)
      OBVIOUS
    <2>1. SameContent(worker.item, o)
      BY <1>2, <1>3 DEF HonestInv, ReleaseTold, Told, WorkerTold
    <2>2. Installed(worker.item)
      BY <1>2, <1>4 DEF HonestInv, WorkerInstalled
    <2>3. worker.item.uid = x.uid /\ worker.item.spec = x.spec
      BY <1>1, <1>4, <2>1 DEF SameContent
    <2> QED  BY <2>2, <2>3 DEF Installed
  <1>8. worker'.pc \in {"idle", "removeFinalizer"}
    BY <1>1 DEF IdleWorker
  <1> QED  BY <1>1, <1>3, <1>5, <1>6, <1>7, <1>8, HonestStore DEF o

(* RemoveFinalizer leaves no release behind that reports something, or      *)
(* another request is due: the object has been created again.               *)
LEMMA HonestRemoves ==
  ASSUME HonestInv, RemoveFinalizer
  PROVE  HonestInv'
  <1> DEFINE k == worker.key
             o == Stored(releaseVersions[k])
             e == [o EXCEPT !.fins = {}]
             x == Settle(e)
  <1>1. /\ k \in Release /\ Busy(worker, k)
        /\ worker.item \in ReleaseObject /\ worker.item.deleting
        /\ o \in ReleaseObject /\ x \in ReleaseVersion /\ StoreRelease(k, x)
        /\ o.deleting => x = Absent
        /\ KnownInv' /\ worker' = IdleWorker /\ Follows(worker, worker')
        /\ UNCHANGED <<environment, helm>>
    BY RemoveIsSettle DEF HonestInv
  <1>2. /\ worker.pc = "removeFinalizer" /\ Cached(releaseVersions[k]) = o
        /\ queue' = queue
    BY DEF RemoveFinalizer, Done
  <1>3. /\ e \in ReleaseObject /\ e.uid = o.uid /\ e.gen = o.gen
        /\ e.spec = o.spec /\ e.deleting = o.deleting
    BY <1>1 DEF ReleaseObject
  <1>4. o # Absent /\ e # Absent
    BY <1>1, <1>3, ObjectType
  <1>5. x = Absent \/ x = e
    BY DEF Settle
  <1> HIDE DEF x, e, o
  <1>6. Signalled(o, x)
    BY <1>3, <1>4, <1>5 DEF Signalled, SameContent, EventPasses
  <1>7. k \in queue' \/ x = Absent
    <2>1. k \in queue \/ SameContent(worker.item, o)
      BY <1>2 DEF HonestInv, ReleaseTold, Told, WorkerTold
    <2>2. SameContent(worker.item, o) => o.deleting
      BY <1>1 DEF SameContent
    <2> QED  BY <1>1, <1>2, <2>1, <2>2
  <1>8. worker'.pc = "idle"
    BY <1>1 DEF IdleWorker
  <1> QED  BY <1>1, <1>2, <1>6, <1>7, <1>8, HonestStore DEF o

(* Reconcile gives up, or finds that the object has gone: then the event of *)
(* that has brought another request.                                        *)
LEMMA HonestEnds ==
  ASSUME HonestInv, CallFails \/ ReadFails \/ NothingToRelease
  PROVE  HonestInv'
  <1>1. /\ KnownInv /\ KnownInv' /\ worker' = IdleWorker /\ Follows(worker, worker')
        /\ UNCHANGED <<releaseVersions, environment, helm, orphaned>>
    BY KnownCallFails DEF HonestInv
  <1>2. worker'.pc = "idle" /\ worker.pc # "idle"
    BY <1>1 DEF IdleWorker, CallFails, ReadFails, NothingToRelease
  <1>3. queue \subseteq queue' /\ worker.key \in queue'
    <2>1. CASE CallFails \/ ReadFails
      BY <2>1 DEF CallFails, ReadFails, Done
    <2>2. CASE NothingToRelease
      <3>1. Cached(releaseVersions[worker.key]) = Absent /\ queue' = queue
        BY <2>2 DEF NothingToRelease, Done
      <3>2. worker.item # Absent
        BY <1>1, <1>2, BusyType, ObjectType DEF KnownInv
      <3>3. ~SameContent(worker.item, Absent)
        BY <3>2 DEF SameContent
      <3> QED  BY <1>2, <3>1, <3>3 DEF HonestInv, ReleaseTold, Told, WorkerTold
    <2> QED  BY <2>1, <2>2
  <1> QED  BY <1>1, <1>2, <1>3, HonestQuiet

(* Users create, edit and delete: each time an event passes. *)
LEMMA HonestUser ==
  ASSUME HonestInv, NEW r \in Release,
         CreateRelease(r) \/ UpdateRelease(r) \/ DeleteRelease(r)
  PROVE  HonestInv'
  <1> DEFINE o == Stored(releaseVersions[r])
  <1>1. KnownInv
    BY DEF HonestInv
  <1>2. ASSUME NEW x \in ReleaseVersion, StoreRelease(r, x), EventPasses(o, x),
               KnownInv', UNCHANGED <<worker, queue, helm>>
        PROVE  HonestInv'
    <2>1. Follows(worker, worker')
      BY <1>2 DEF Follows
    <2>2. Signalled(o, x)
      BY <1>2 DEF Signalled
    <2> QED  BY <1>2, <2>1, <2>2, HonestStore
  <1>3. CASE CreateRelease(r)
    <2>1. PICK x \in ReleaseObject :
            /\ StoreRelease(r, x) /\ o = Absent /\ KnownInv'
            /\ UNCHANGED <<worker, helm, orphaned, retargeted>>
      BY <1>1, <1>3, CreateIsNew
    <2>2. UNCHANGED queue
      BY <1>3 DEF CreateRelease
    <2>3. EventPasses(o, x) /\ x \in ReleaseVersion
      BY <2>1 DEF EventPasses, ReleaseVersion
    <2> QED  BY <1>2, <2>1, <2>2, <2>3
  <1>4. CASE UpdateRelease(r)
    <2>1. o \in ReleaseObject /\ KnownInv' /\ UNCHANGED <<worker, lastUid, helm, orphaned>>
      BY <1>1, <1>4, UpdateIsContinue
    <2>2. PICK spec \in Specs : StoreRelease(r, [o EXCEPT !.spec = spec, !.gen = @ + 1])
      BY <1>4 DEF UpdateRelease
    <2>3. UNCHANGED queue
      BY <1>4 DEF UpdateRelease
    <2> DEFINE x == [o EXCEPT !.spec = spec, !.gen = @ + 1]
    <2>4. x \in ReleaseObject /\ x.gen = o.gen + 1 /\ o.gen \in Nat
      <3>1. spec \in ReleaseSpec
        BY ReleaseAssumption
      <3> QED  BY <2>1, <3>1, EditedType, ObjectType
    <2>5. StoreRelease(r, x)
      BY <2>2
    <2> HIDE DEF x
    <2>6. EventPasses(o, x) /\ x \in ReleaseVersion
      BY <2>4 DEF EventPasses, ReleaseVersion
    <2> QED  BY <1>2, <2>1, <2>3, <2>5, <2>6
  <1>5. CASE DeleteRelease(r)
    <2>1. o \in ReleaseObject /\ KnownInv' /\ UNCHANGED <<worker, environment, helm, orphaned>>
      BY <1>1, <1>5, DeleteIsSettle
    <2> DEFINE e == [o EXCEPT !.deleting = TRUE, !.gen = @ + 1]
               x == Settle(e)
    <2>2. StoreRelease(r, x) /\ UNCHANGED queue
      BY <1>5 DEF DeleteRelease
    <2>3. e \in ReleaseObject /\ e.gen = o.gen + 1 /\ o.gen \in Nat
      BY <2>1, MarkedType, ObjectType
    <2>4. x = Absent \/ x = e
      BY DEF Settle
    <2> HIDE DEF x, e
    <2>5. EventPasses(o, x) /\ x \in ReleaseVersion
      BY <2>3, <2>4 DEF EventPasses, ReleaseVersion
    <2> QED  BY <1>2, <2>1, <2>2, <2>5
  <1> QED  BY <1>3, <1>4, <1>5

(* Reconcile starts.  A request that leads to nothing is one for an object  *)
(* that is gone, or that has not seen what is stored: then one is due.      *)
LEMMA HonestBegins ==
  ASSUME HonestInv, NEW r \in Release, Reconcile(r)
  PROVE  HonestInv'
  <1>1. KnownInv /\ Told(releaseVersions, worker, queue, Release)
    BY DEF HonestInv, ReleaseTold
  <1>2. KnownInv' /\ UNCHANGED <<releaseVersions, environment, helm, orphaned>>
    BY <1>1, KnownBegin
  <1>3. worker.pc = "idle" /\ queue' = queue \ {r}
    BY DEF Reconcile, ReconcileNothing, ReconcileDelete, ReconcileNew,
           ReconcileRelease, CanReconcile, Begin
  <1>4. CASE ReconcileNothing(r)
    <2>1. UNCHANGED worker
      BY <1>4 DEF ReconcileNothing
    <2>2. /\ Told(releaseVersions, worker, queue \ {r}, Release)
          /\ \A j \in Release \ {r} : Due(releaseVersions, worker, queue, j)
                                        => Due(releaseVersions, worker, queue \ {r}, j)
      BY <1>1, <1>3, ToldNothing
    <2> DEFINE o == Stored(releaseVersions[r])
               c == Cached(releaseVersions[r])
    <2>3. c = Absent \/ c.deleting
      BY <1>4 DEF ReconcileNothing
    <2>4. RequestDue(r)' \/ o = Absent \/ o.deleting
      <3>1. CASE Announced(releaseVersions[r], 1)
        BY <1>2, <3>1 DEF RequestDue, Due
      <3>2. CASE ~Announced(releaseVersions[r], 1)
        <4>1. SameContent(c, o)
          BY <1>1, <3>2, VersionsType, CacheIsStored DEF KnownInv, Tracked, Told
        <4> QED  BY <2>3, <4>1 DEF SameContent
      <3> QED  BY <3>1, <3>2
    <2>5. ReportIsHonest'
      BY <1>2, <1>3, <2>1, <2>2, <2>4, HonestWrites DEF HonestInv, RequestDue
    <2>6. WorkerInstalled'
      BY <1>2, <2>1 DEF HonestInv, WorkerInstalled, Installed
    <2> QED  BY <1>2, <1>3, <2>1, <2>2, <2>5, <2>6 DEF HonestInv, ReleaseTold
  <1>5. CASE ReconcileDelete(r) \/ ReconcileNew(r) \/ ReconcileRelease(r)
    <2>1. /\ worker'.pc \notin {"idle", "updateStatus"} /\ worker'.key = r
          /\ worker'.item = Cached(releaseVersions[r])
      <3>1. ASSUME NEW pc, pc \notin {"idle", "updateStatus"}, Begin(r, pc)
            PROVE  /\ worker'.pc \notin {"idle", "updateStatus"} /\ worker'.key = r
                   /\ worker'.item = Cached(releaseVersions[r])
        BY <3>1 DEF Begin, IdleWorker
      <3> QED  BY <1>5, <3>1 DEF ReconcileDelete, ReconcileNew, ReconcileRelease
    <2>2. /\ Told(releaseVersions, worker', queue \ {r}, Release)
          /\ \A j \in Release : Due(releaseVersions, worker, queue, j)
                                  => Due(releaseVersions, worker', queue \ {r}, j)
      BY <1>1, <1>3, <2>1, ToldBegin
    <2>3. ReportIsHonest'
      BY <1>2, <1>3, <2>2, HonestStays DEF HonestInv, RequestDue
    <2>4. WorkerInstalled'
      BY <2>1 DEF WorkerInstalled
    <2> QED  BY <1>2, <1>3, <2>2, <2>3, <2>4 DEF HonestInv, ReleaseTold
  <1> QED  BY <1>4, <1>5 DEF Reconcile

(* A watch event is delivered. *)
LEMMA HonestDelivers ==
  ASSUME HonestInv, NEW r \in Release, DeliverRelease(r)
  PROVE  HonestInv'
  <1>1. KnownInv /\ Told(releaseVersions, worker, queue, Release)
    BY DEF HonestInv, ReleaseTold
  <1>2. /\ KnownInv' /\ Len(releaseVersions[r]) > 1
        /\ releaseVersions' = Delivered(releaseVersions, r)
        /\ UNCHANGED <<worker, environment, helm, orphaned>>
    BY <1>1, KnownDeliver
  <1>3. Requests(releaseVersions, r, queue, queue')
    BY DEF DeliverRelease, Requests
  <1>4. Tracked(Release, ReleaseVersion, releaseVersions, worker)
    BY <1>1, VersionsType DEF KnownInv
  <1> DEFINE next == Delivered(releaseVersions, r)
  <1>5. /\ Told(next, worker, queue', Release)
        /\ \A j \in Release : Due(releaseVersions, worker, queue, j)
                                => Due(next, worker, queue', j)
        /\ \A j \in Release : Stored(next[j]) = Stored(releaseVersions[j])
    BY <1>1, <1>2, <1>3, <1>4, ToldDeliver
  <1> HIDE DEF next
  <1>6. ReportIsHonest'
    BY <1>2, <1>5, HonestStays DEF HonestInv, RequestDue, next
  <1>7. WorkerInstalled'
    BY <1>2 DEF HonestInv, WorkerInstalled, Installed
  <1> QED  BY <1>2, <1>5, <1>6, <1>7 DEF HonestInv, ReleaseTold, next

(* The operator restarts, perhaps in the middle of an upgrade. *)
LEMMA HonestRestarts ==
  ASSUME HonestInv, Restart
  PROVE  HonestInv'
  <1>1. KnownInv
    BY DEF HonestInv
  <1>2. /\ KnownInv' /\ worker'.pc = "idle"
        /\ releaseVersions' = Relisted(releaseVersions, Release)
        /\ UNCHANGED <<lastUid, retargeted, helm, orphaned>>
    BY <1>1, KnownRestart
  <1>3. queue' = Listed(releaseVersions)
    BY DEF Restart
  <1>4. releaseVersions \in VersionMaps(Release, ReleaseVersion)
    BY <1>1, VersionsType DEF KnownInv, Tracked
  <1>5. /\ Told(releaseVersions', worker', queue', Release)
        /\ \A r \in Release :
             /\ Stored(releaseVersions'[r]) = Stored(releaseVersions[r])
             /\ Stored(releaseVersions[r]) # Absent
                  => Due(releaseVersions', worker', queue', r)
    BY <1>2, <1>3, <1>4, ToldRestart
  <1>6. ReportIsHonest'
    BY <1>5 DEF ReportIsHonest, ReportsReleased, RequestDue
  <1>7. WorkerInstalled'
    BY <1>2 DEF WorkerInstalled
  <1> QED  BY <1>2, <1>5, <1>6, <1>7 DEF HonestInv, ReleaseTold

(* Every step. *)
LEMMA StepHonest == HonestInv /\ PlacesApart /\ [Next]_vars => HonestInv'
  <1> SUFFICES ASSUME HonestInv, PlacesApart, [Next]_vars PROVE HonestInv'
    OBVIOUS
  <1>1. CASE WorkerStep
    <2>1. CASE \/ SpecError \/ MissingCluster \/ FoundCluster
               \/ NoKubeconfig \/ FoundKubeconfig \/ UpgradeRefused \/ HelmUnavailable
      BY <2>1, HonestLook
    <2>2. CASE InstallOrUpgrade \/ FinishHelm \/ HelmFails \/ Uninstall \/ UninstallFails
      BY <2>2, HonestHelm
    <2>3. CASE AddFinalizer \/ UpdateStatus \/ RemoveFinalizer
      BY <2>3, HonestAdds, HonestReports, HonestRemoves
    <2>4. CASE CallFails \/ ReadFails \/ NothingToRelease
      BY <2>4, HonestEnds
    <2> QED
      BY <1>1, <2>1, <2>2, <2>3, <2>4 DEF WorkerStep, Outage, CallSucceeds
  <1>2. ASSUME NEW r \in Release,
               \/ Reconcile(r) \/ DeliverRelease(r)
               \/ CreateRelease(r) \/ UpdateRelease(r) \/ DeleteRelease(r)
        PROVE  HonestInv'
    BY <1>2, HonestBegins, HonestDelivers, HonestUser
  <1>3. ASSUME UNCHANGED <<releaseVersions, worker, helm>>, queue \subseteq queue', KnownInv'
        PROVE  HonestInv'
    <2>1. Follows(worker, worker')
      BY <1>3 DEF Follows
    <2> QED  BY <1>3, <2>1, HonestQuiet
  <1>4. CASE \/ \E secret \in Kubeconfig :
                  DeliverNotice(secret) \/ ChangeKubeconfig(secret)
             \/ ChangeCluster
    <2>1. KnownInv' /\ UNCHANGED <<releaseVersions, worker, helm>>
      BY <1>4, KnownChange DEF HonestInv
    <2>2. queue \subseteq queue'
      BY <1>4 DEF DeliverNotice, ChangeKubeconfig, ChangeCluster
    <2> QED  BY <1>3, <2>1, <2>2
  <1>5. CASE Restart
    BY <1>5, HonestRestarts
  <1>6. CASE UNCHANGED vars
    <2>1. KnownInv'
      BY StepKnown DEF HonestInv
    <2> QED  BY <1>3, <1>6, <2>1 DEF vars
  <1> QED  BY <1>1, <1>2, <1>4, <1>5, <1>6 DEF Next

(* The initial states. *)
LEMMA InitHonest == Init => HonestInv
  <1> SUFFICES ASSUME Init PROVE HonestInv
    OBVIOUS
  <1>1. KnownInv
    BY InitKnown
  <1>2. worker.pc = "idle" /\ releaseVersions = [r \in Release |-> <<Absent>>]
    BY DEF Init, IdleWorker
  <1>3. ReleaseTold
    BY <1>2, ToldInit DEF ReleaseTold
  <1>4. \A r \in Release : Stored(releaseVersions[r]) = Absent
    <2>1. \A r \in Release : Len(releaseVersions[r]) = 1 /\ releaseVersions[r][1] = Absent
      BY <1>2, OneVersion
    <2>2. ASSUME NEW s, Len(s) = 1, s[1] = Absent PROVE Stored(s) = Absent
      BY <2>2 DEF Stored
    <2> QED  BY <2>1, <2>2
  <1> QED
    BY <1>1, <1>2, <1>3, <1>4
       DEF HonestInv, WorkerInstalled, ReportIsHonest, ReportsReleased

(* As long as no two releases share a place while Helm works there,         *)
(* Ready=True for the current generation is never a lie for good, whatever  *)
(* users edit, whichever events are dropped or late, and wherever Helm      *)
(* fails or the operator crashes: Helm has deployed that generation's chart *)
(* for this very object, or another request is under way.                   *)
THEOREM ReleasesAreInstalled == Spec /\ []PlacesApart => []ReleaseIsHonest
  <1>1. HonestInv /\ PlacesApart /\ [Next]_vars => HonestInv'
    BY StepHonest
  <1>2. HonestInv => ReleaseIsHonest
    BY HonestRelease
  <1> QED  BY <1>1, <1>2, InitHonest, PTL DEF Spec

(* With one OmniHelmRelease there is nobody to share a place with. *)
THEOREM OneReleaseIsInstalled ==
  ASSUME \A r, s \in Release : r = s
  PROVE  Spec => []ReleaseIsHonest
  <1>1. HonestInv => PlacesApart
    <2> SUFFICES ASSUME HonestInv, worker.pc # "idle", NEW r \in Release \ {worker.key}
                 PROVE  FALSE
      BY DEF PlacesApart
    <2>1. worker.key \in Release
      BY BusyType DEF HonestInv, KnownInv
    <2> QED  BY <2>1
  <1>2. HonestInv /\ [Next]_vars => HonestInv'
    BY <1>1, StepHonest
  <1>3. HonestInv => ReleaseIsHonest
    BY HonestRelease
  <1> QED  BY <1>2, <1>3, InitHonest, PTL DEF Spec

=============================================================================
