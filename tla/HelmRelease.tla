----------------------------- MODULE HelmRelease -----------------------------
(***************************************************************************)
(* OmniHelmRelease: the reconciler of                                      *)
(* internal/controller/omnihelmrelease_controller.go and the client of     *)
(* internal/helmrelease/client.go, which install, upgrade and uninstall a  *)
(* Helm release in a workload cluster.                                     *)
(*                                                                         *)
(* The object is read from the informer cache and written with the check   *)
(* of the resourceVersion (ObjectVersions).  The kubeconfig Secret is read *)
(* from the API server; it stands for the workload cluster it opens.  Helm *)
(* keeps the history of a release in that cluster, where nothing watches   *)
(* it; the operator has no other memory of what it installed.              *)
(***************************************************************************)
EXTENDS Integers, ObjectVersions

CONSTANTS
  Release,      \* names of OmniHelmRelease objects, all of one OmniCluster
  Kubeconfig,   \* names of kubeconfig Secrets, one workload cluster each
  Name,         \* namespaces and names of Helm releases
  Chart,        \* chart, version, values and options
  Invalid,      \* the charts that helmReleaseSpecError refuses
  Specs,        \* the specs that users submit
  UserOps,      \* what users do, and whether the operator restarts
  Failures,     \* which calls may fail: reads, and Helm
  MaxUid,       \* bound on the number of objects created
  MaxGen,       \* bound on spec edits of one object
  MaxChanges,   \* bound on changes of kubeconfig Secrets and of the cluster
  MaxLag        \* bound on watch events on their way for one object

ReleaseSpec ==
  [kubeconfig : Kubeconfig, name : Name, chart : Chart,
   policy : {"Uninstall", "Orphan"}]

ASSUME ReleaseAssumption ==
  /\ Specs \subseteq ReleaseSpec
  /\ Invalid \subseteq Chart
  /\ UserOps \subseteq {"CreateRelease", "UpdateRelease", "DeleteRelease",
                        "ChangeKubeconfig", "ChangeCluster", "Restart"}
  /\ Failures \subseteq {"Read", "Helm"}
  /\ {MaxUid, MaxGen, MaxChanges, MaxLag} \subseteq Nat /\ MaxLag > 0

Finalizer == "finalizer"

(* Reasons of the conditions Released and Ready; "Installed" stands for     *)
(* HelmInstalled and HelmUpgraded, the ones that make them True.            *)
Reason == {"None", "ValidationFailed", "MissingCluster", "MissingSecret",
           "ReconcileFailed", "Installed", "Uninstalled"}

ReleaseObject ==
  [uid : Nat, gen : Nat, spec : ReleaseSpec, fins : SUBSET {Finalizer},
   deleting : BOOLEAN, status : [obs : Nat, reason : Reason]]

ReleaseVersion == ReleaseObject \cup {Absent}

(* Where a Helm release lives *)
Place == Kubeconfig \X Name

(* The last revision in the history of a Helm release, and who asked for it *)
Revision ==
  [by : Nat, chart : Chart, state : {"pending", "deployed", "failed"}]

ASSUME ReleaseAbsentAssumption == Absent \notin ReleaseObject \cup Revision \cup Nat

(* No Secret or no such key, data that does not load, or a kubeconfig *)
KubeconfigValue == {Absent, "malformed", "usable"}

VARIABLES
  releaseVersions,  \* [Release -> Seq(ReleaseVersion)]
  queue,            \* the workqueue
  worker,           \* the one running Reconcile call
  kubeconfigs,      \* [Kubeconfig -> KubeconfigValue]
  notices,          \* kubeconfig Secrets with a watch event on its way
  clusterExists,    \* whether the OmniCluster is in the cache
  helm,             \* [Place -> Revision \cup {Absent}]
  lastUid,
  changes,          \* the number of changes so far, for MaxChanges
  orphaned,         \* history: uids released with the Orphan policy
  retargeted        \* history: uids whose place was edited

vars == <<releaseVersions, queue, worker, kubeconfigs, notices, clusterExists,
          helm, lastUid, changes, orphaned, retargeted>>

(* What Reconcile never writes *)
environment ==
  <<kubeconfigs, notices, clusterExists, lastUid, changes, retargeted>>

-----------------------------------------------------------------------------
(* Helpers *)

PlaceOf(spec) == <<spec.kubeconfig, spec.name>>

CachedReleases == {r \in Release : Cached(releaseVersions[r]) # Absent}

(* helmReleaseRequestsForSecret *)
RequestsForSecret(secret) ==
  {r \in CachedReleases : Cached(releaseVersions[r]).spec.kubeconfig = secret}

IdleWorker ==
  [pc |-> "idle", key |-> Absent, item |-> Absent, before |-> Absent,
   reason |-> "None", again |-> FALSE]

Init ==
  /\ releaseVersions = [r \in Release |-> <<Absent>>]
  /\ queue = {}
  /\ worker = IdleWorker
  /\ kubeconfigs \in [Kubeconfig -> {Absent, "usable"}]
  /\ notices = {}
  /\ clusterExists \in BOOLEAN
  /\ helm = [p \in Place |-> Absent]
  /\ lastUid = 0 /\ changes = 0
  /\ orphaned = {} /\ retargeted = {}

-----------------------------------------------------------------------------
(* How Reconcile moves on and how it returns *)

StoreRelease(r, object) ==
  /\ Len(releaseVersions[r]) <= MaxLag
  /\ releaseVersions' = [releaseVersions EXCEPT ![r] = Append(@, object)]

(* Mutant: the key is read after the worker's state has been reset. *)
DoneMutant(again) ==
  /\ worker' = IdleWorker
  /\ queue' = IF again THEN queue \cup {worker'.key} ELSE queue

(* Reconcile returns; an error, Requeue or the retry interval put the key   *)
(* back.  A success asks for nothing.                                       *)
Done(again) ==
  /\ worker' = IdleWorker
  /\ queue' = IF again THEN queue \cup {worker.key} ELSE queue

Begin(r, pc) ==
  /\ worker' = [IdleWorker EXCEPT !.pc = pc, !.key = r,
                                  !.item = Cached(releaseVersions[r])]
  /\ queue' = queue \ {r}
  /\ UNCHANGED <<releaseVersions, environment, helm, orphaned>>

(* Reconcile goes on; nothing but its own state changes. *)
Advance(next) ==
  /\ worker' = next
  /\ UNCHANGED <<releaseVersions, queue, environment, helm, orphaned>>

(* The status update that comes next, and whether Reconcile then asks for   *)
(* another request.                                                         *)
Report(reason, again) ==
  [worker EXCEPT !.pc = "updateStatus", !.reason = reason, !.again = again]

-----------------------------------------------------------------------------
(* Reconcile: what the cached copy leads to *)

CanReconcile(r) == worker.pc = "idle" /\ r \in queue

ReconcileNothing(r) ==
  /\ CanReconcile(r)
  /\ LET item == Cached(releaseVersions[r])
     IN  item # Absent => item.deleting /\ item.fins = {}
  /\ queue' = queue \ {r}
  /\ UNCHANGED <<releaseVersions, worker, environment, helm, orphaned>>

(* reconcileDelete *)
ReconcileDelete(r) ==
  /\ CanReconcile(r)
  /\ LET item == Cached(releaseVersions[r])
     IN  /\ item # Absent /\ item.deleting /\ item.fins # {}
         /\ Begin(r, IF item.spec.policy = "Orphan" THEN "removeFinalizer"
                                                    ELSE "getKubeconfig")

(* ensureFinalizer *)
ReconcileNew(r) ==
  /\ CanReconcile(r)
  /\ LET item == Cached(releaseVersions[r])
     IN  item # Absent /\ ~item.deleting /\ item.fins = {}
  /\ Begin(r, "addFinalizer")

ReconcileRelease(r) ==
  /\ CanReconcile(r)
  /\ LET item == Cached(releaseVersions[r])
     IN  item # Absent /\ ~item.deleting /\ item.fins # {}
  /\ Begin(r, "checkSpec")

Reconcile(r) ==
  \/ ReconcileNothing(r) \/ ReconcileDelete(r)
  \/ ReconcileNew(r) \/ ReconcileRelease(r)

SpecError ==
  /\ worker.pc = "checkSpec"
  /\ worker.item.spec.chart \in Invalid
  /\ Advance(Report("ValidationFailed", FALSE))

MissingCluster ==
  /\ worker.pc = "checkSpec"
  /\ worker.item.spec.chart \notin Invalid
  /\ ~clusterExists
  /\ Advance(Report("MissingCluster", TRUE))

FoundCluster ==
  /\ worker.pc = "checkSpec"
  /\ worker.item.spec.chart \notin Invalid
  /\ clusterExists
  /\ Advance([worker EXCEPT !.pc = "getKubeconfig"])

(* kubeconfig, on the way to a release or to a deletion *)
NoKubeconfig ==
  /\ worker.pc = "getKubeconfig"
  /\ LET value == kubeconfigs[worker.item.spec.kubeconfig]
     IN  /\ value # "usable"
         /\ Advance(Report(IF value = Absent THEN "MissingSecret"
                                             ELSE "ValidationFailed", TRUE))

FoundKubeconfig ==
  /\ worker.pc = "getKubeconfig"
  /\ kubeconfigs[worker.item.spec.kubeconfig] = "usable"
  /\ Advance([worker EXCEPT !.pc =
       IF worker.item.deleting THEN "uninstall" ELSE "runHelm"])

(* An error of the API server other than NotFound is returned. *)
ReadFails ==
  /\ "Read" \in Failures
  /\ \/ worker.pc = "checkSpec" /\ worker.item.spec.chart \notin Invalid
     \/ worker.pc = "getKubeconfig"
  /\ Done(TRUE)
  /\ UNCHANGED <<releaseVersions, environment, helm, orphaned>>

-----------------------------------------------------------------------------
(* helmrelease.Client and what Helm does *)

ItemPlace == PlaceOf(worker.item.spec)

(* The history of the place ends with a revision of this item. *)
Recorded(state) ==
  [helm EXCEPT ![ItemPlace] = [by |-> worker.item.uid,
                               chart |-> worker.item.spec.chart, state |-> state]]

RolledBack == [helm EXCEPT ![ItemPlace] = worker.before]

Removed == [helm EXCEPT ![ItemPlace] = Absent]

IsPending(revision) == revision # Absent /\ revision.state = "pending"

(* Without a history install, else upgrade: Helm records a pending revision *)
(* and sets to work.                                                        *)
InstallOrUpgrade ==
  /\ worker.pc = "runHelm"
  /\ ~IsPending(helm[ItemPlace])
  /\ helm' = Recorded("pending")
  /\ worker' = [worker EXCEPT !.pc = "finish", !.before = helm[ItemPlace]]
  /\ UNCHANGED <<releaseVersions, queue, environment, orphaned>>

(* Helm refuses to upgrade a release with an operation in progress. *)
UpgradeRefused ==
  /\ worker.pc = "runHelm"
  /\ IsPending(helm[ItemPlace])
  /\ Advance(Report("ReconcileFailed", TRUE))

(* The chart or the history cannot be read. *)
HelmUnavailable ==
  /\ "Helm" \in Failures
  /\ worker.pc = "runHelm"
  /\ Advance(Report("ReconcileFailed", TRUE))

FinishHelm ==
  /\ worker.pc = "finish"
  /\ helm' = Recorded("deployed")
  /\ worker' = Report("Installed", FALSE)
  /\ UNCHANGED <<releaseVersions, queue, environment, orphaned>>

(* Mutant: the error of Helm is dropped. *)
HelmFailsMutant ==
  /\ "Helm" \in Failures
  /\ worker.pc = "finish"
  /\ helm' \in {Recorded("failed"), RolledBack, helm}
  /\ worker' = Report("Installed", FALSE)
  /\ UNCHANGED <<releaseVersions, queue, environment, orphaned>>

(* The operation fails and is recorded as failed, or is rolled back (with   *)
(* spec.atomic), or the workload cluster is out of reach for either.        *)
HelmFails ==
  /\ "Helm" \in Failures
  /\ worker.pc = "finish"
  /\ helm' \in {Recorded("failed"), RolledBack, helm}
  /\ worker' = Report("ReconcileFailed", TRUE)
  /\ UNCHANGED <<releaseVersions, queue, environment, orphaned>>

(* A release that is not there counts as uninstalled. *)
Uninstall ==
  /\ worker.pc = "uninstall"
  /\ helm' = Removed
  /\ worker' = Report("Uninstalled", FALSE)
  /\ UNCHANGED <<releaseVersions, queue, environment, orphaned>>

(* Mutant: the error is only logged. *)
UninstallFailsMutant ==
  /\ "Helm" \in Failures
  /\ worker.pc = "uninstall"
  /\ helm' \in {helm, Removed}
  /\ worker' = Report("Uninstalled", FALSE)
  /\ UNCHANGED <<releaseVersions, queue, environment, orphaned>>

(* Helm returns an error, before or after the release is gone. *)
UninstallFails ==
  /\ "Helm" \in Failures
  /\ worker.pc = "uninstall"
  /\ helm' \in {helm, Removed}
  /\ worker' = Report("ReconcileFailed", TRUE)
  /\ UNCHANGED <<releaseVersions, queue, environment, orphaned>>

-----------------------------------------------------------------------------
(* Writes to the object itself *)

(* Mutant: Reconcile relies on the watch event of its own update. *)
AddFinalizerMutant ==
  /\ worker.pc = "addFinalizer"
  /\ worker.item = Stored(releaseVersions[worker.key])
  /\ StoreRelease(worker.key, [worker.item EXCEPT !.fins = {Finalizer}])
  /\ Done(FALSE)
  /\ UNCHANGED <<environment, helm, orphaned>>

AddFinalizer ==
  /\ worker.pc = "addFinalizer"
  /\ worker.item = Stored(releaseVersions[worker.key])
  /\ StoreRelease(worker.key, [worker.item EXCEPT !.fins = {Finalizer}])
  /\ Done(TRUE)
  /\ UNCHANGED <<environment, helm, orphaned>>

(* updateHelmReleaseStatus: the generation is that of the latest object.    *)
(* The time of the attempt makes every status new, so it is always written. *)
WriteStatus ==
  LET latest == Cached(releaseVersions[worker.key])
  IN  /\ latest # Absent
      /\ latest = Stored(releaseVersions[worker.key])
      /\ StoreRelease(worker.key,
           [latest EXCEPT !.status = [obs |-> latest.gen, reason |-> worker.reason]])

(* The status of an uninstall is written before the finalizer is removed. *)
UpdateStatus ==
  /\ worker.pc = "updateStatus"
  /\ WriteStatus
  /\ IF worker.reason = "Uninstalled"
       THEN /\ worker' = [worker EXCEPT !.pc = "removeFinalizer"]
            /\ UNCHANGED queue
       ELSE Done(worker.again)
  /\ UNCHANGED <<environment, helm, orphaned>>

(* removeFinalizer reads the object afresh. *)
RemoveFinalizer ==
  /\ worker.pc = "removeFinalizer"
  /\ LET latest == Cached(releaseVersions[worker.key])
     IN  /\ latest # Absent
         /\ latest = Stored(releaseVersions[worker.key])
         /\ StoreRelease(worker.key, Settle([latest EXCEPT !.fins = {}]))
  /\ orphaned' = IF worker.item.spec.policy = "Orphan"
                   THEN orphaned \cup {worker.item.uid} ELSE orphaned
  /\ Done(FALSE)
  /\ UNCHANGED <<environment, helm>>

(* The object has gone already. *)
NothingToRelease ==
  /\ worker.pc = "removeFinalizer"
  /\ Cached(releaseVersions[worker.key]) = Absent
  /\ Done(FALSE)
  /\ UNCHANGED <<releaseVersions, environment, helm, orphaned>>

(* Mutant: the error is logged and not returned. *)
CallFailsMutant ==
  /\ worker.pc \in {"addFinalizer", "updateStatus", "removeFinalizer"}
  /\ Done(FALSE)
  /\ UNCHANGED <<releaseVersions, environment, helm, orphaned>>

(* A conflict or another error of the API server *)
CallFails ==
  /\ worker.pc \in {"addFinalizer", "updateStatus", "removeFinalizer"}
  /\ Done(TRUE)
  /\ UNCHANGED <<releaseVersions, environment, helm, orphaned>>

CallSucceeds ==
  AddFinalizer \/ UpdateStatus \/ RemoveFinalizer \/ NothingToRelease

Outage == ReadFails \/ HelmUnavailable \/ HelmFails \/ UninstallFails

WorkerStep ==
  \/ SpecError \/ MissingCluster \/ FoundCluster
  \/ NoKubeconfig \/ FoundKubeconfig
  \/ InstallOrUpgrade \/ UpgradeRefused \/ FinishHelm \/ Uninstall
  \/ Outage \/ CallSucceeds \/ CallFails

-----------------------------------------------------------------------------
(* Watch events *)

DeliverRelease(r) ==
  /\ Len(releaseVersions[r]) > 1
  /\ releaseVersions' = [releaseVersions EXCEPT ![r] = Tail(@)]
  /\ queue' = IF EventPasses(releaseVersions[r][1], releaseVersions[r][2])
                THEN queue \cup {r} ELSE queue
  /\ UNCHANGED <<worker, environment, helm, orphaned>>

DeliverNotice(secret) ==
  /\ secret \in notices
  /\ notices' = notices \ {secret}
  /\ queue' = queue \cup RequestsForSecret(secret)
  /\ UNCHANGED <<releaseVersions, worker, kubeconfigs, clusterExists, helm,
                 lastUid, changes, orphaned, retargeted>>

-----------------------------------------------------------------------------
(* Users, the other controllers, and crashes *)

NewRelease(uid, spec) ==
  [uid |-> uid, gen |-> 1, spec |-> spec, fins |-> {}, deleting |-> FALSE,
   status |-> [obs |-> 0, reason |-> "None"]]

CreateRelease(r) ==
  /\ "CreateRelease" \in UserOps
  /\ lastUid < MaxUid
  /\ Stored(releaseVersions[r]) = Absent
  /\ \E spec \in Specs : StoreRelease(r, NewRelease(lastUid + 1, spec))
  /\ lastUid' = lastUid + 1
  /\ UNCHANGED <<queue, worker, kubeconfigs, notices, clusterExists, helm,
                 changes, orphaned, retargeted>>

(* The webhook lets every field change. *)
UpdateRelease(r) ==
  /\ "UpdateRelease" \in UserOps
  /\ LET object == Stored(releaseVersions[r])
     IN  /\ object # Absent
         /\ object.gen < MaxGen
         /\ \E spec \in Specs \ {object.spec} :
              /\ StoreRelease(r, [object EXCEPT !.spec = spec, !.gen = @ + 1])
              /\ retargeted' = IF PlaceOf(spec) # PlaceOf(object.spec)
                                 THEN retargeted \cup {object.uid}
                                 ELSE retargeted
  /\ UNCHANGED <<queue, worker, kubeconfigs, notices, clusterExists, helm,
                 lastUid, changes, orphaned>>

DeleteRelease(r) ==
  /\ "DeleteRelease" \in UserOps
  /\ LET object == Stored(releaseVersions[r])
     IN  /\ object # Absent
         /\ ~object.deleting
         /\ StoreRelease(r, Settle([object EXCEPT !.deleting = TRUE, !.gen = @ + 1]))
  /\ UNCHANGED <<queue, worker, environment, helm, orphaned>>

CountChange == changes < MaxChanges /\ changes' = changes + 1

(* The export rotates, loses or regains its Secret. *)
ChangeKubeconfig(secret) ==
  /\ "ChangeKubeconfig" \in UserOps
  /\ CountChange
  /\ \E value \in KubeconfigValue \ {kubeconfigs[secret]} :
       kubeconfigs' = [kubeconfigs EXCEPT ![secret] = value]
  /\ notices' = notices \cup {secret}
  /\ UNCHANGED <<releaseVersions, queue, worker, clusterExists, helm, lastUid,
                 orphaned, retargeted>>

(* helmReleaseRequestsForCluster *)
ChangeCluster ==
  /\ "ChangeCluster" \in UserOps
  /\ CountChange
  /\ clusterExists' = ~clusterExists
  /\ queue' = queue \cup CachedReleases
  /\ UNCHANGED <<releaseVersions, worker, kubeconfigs, notices, helm, lastUid,
                 orphaned, retargeted>>

(* The operator restarts, perhaps in the middle of a Helm operation; the    *)
(* initial list brings a request for every object.                          *)
Restart ==
  /\ "Restart" \in UserOps
  /\ releaseVersions' = [r \in Release |-> <<Stored(releaseVersions[r])>>]
  /\ queue' = Listed(releaseVersions)
  /\ worker' = IdleWorker
  /\ notices' = {}
  /\ UNCHANGED <<kubeconfigs, clusterExists, helm, lastUid, changes, orphaned,
                 retargeted>>

Next ==
  \/ WorkerStep
  \/ \E r \in Release :
       \/ Reconcile(r) \/ DeliverRelease(r)
       \/ CreateRelease(r) \/ UpdateRelease(r) \/ DeleteRelease(r)
  \/ \E secret \in Kubeconfig : DeliverNotice(secret) \/ ChangeKubeconfig(secret)
  \/ ChangeCluster \/ Restart

Spec == Init /\ [][Next]_vars

(* The informers deliver and the worker goes on; crashes and outages come   *)
(* to an end: from then on a call fails only when it must.  (A step of the  *)
(* worker may look like a restart, a refused upgrade like an outage.)  The  *)
(* informer is not for ever slower than the retries of removeFinalizer,     *)
(* which follows a status update of its own.                                *)
Fairness ==
  /\ \A r \in Release :
       /\ WF_vars(DeliverRelease(r)) /\ SF_vars(Reconcile(r))
       /\ SF_vars(worker.pc = "removeFinalizer" /\ DeliverRelease(r))
  /\ \A secret \in Kubeconfig : WF_vars(DeliverNotice(secret))
  /\ WF_vars(WorkerStep)
  /\ <>[][Outage => UpgradeRefused]_vars
  /\ <>[][CallFails => ~ENABLED CallSucceeds]_vars
  /\ <>[][Restart => WorkerStep]_vars

FairSpec == Spec /\ Fairness

-----------------------------------------------------------------------------
(* Properties *)

BusyWorker ==
  [pc : {"addFinalizer", "checkSpec", "getKubeconfig", "runHelm", "finish",
         "uninstall", "updateStatus", "removeFinalizer"},
   key : Release, item : ReleaseObject, before : Revision \cup {Absent},
   reason : Reason, again : BOOLEAN]

(* Every variable keeps its type; in particular the workqueue only holds    *)
(* names of objects, and a running Reconcile has its object.                *)
TypeOK ==
  /\ releaseVersions \in [Release -> Seq(ReleaseVersion)]
  /\ \A r \in Release : releaseVersions[r] # <<>>
  /\ queue \subseteq Release
  /\ worker = IdleWorker \/ worker \in BusyWorker
  /\ kubeconfigs \in [Kubeconfig -> KubeconfigValue]
  /\ notices \subseteq Kubeconfig
  /\ clusterExists \in BOOLEAN
  /\ helm \in [Place -> Revision \cup {Absent}]
  /\ lastUid \in Nat /\ changes \in Nat
  /\ orphaned \subseteq Nat /\ retargeted \subseteq Nat

(* A request for r is on the queue, being worked on, or on its way there. *)
Pending(r) ==
  \/ r \in queue \/ worker.key = r
  \/ \E i \in 1 .. Len(releaseVersions[r]) - 1 :
       EventPasses(releaseVersions[r][i], releaseVersions[r][i + 1])

(* The status says Ready for the current generation. *)
ReportsReleased(r) ==
  LET object == Stored(releaseVersions[r])
  IN  /\ object # Absent /\ ~object.deleting
      /\ object.status.reason = "Installed" /\ object.status.obs = object.gen

(* Ready=True for the current generation means that Helm has deployed the   *)
(* chart of that generation at its place, unless a request is under way:    *)
(* the status is written with the latest generation by a Reconcile that may *)
(* have worked on an older one, and no order of edits, failures and crashes *)
(* in the middle of an upgrade makes it a lie for good.                     *)
ReleaseIsHonest ==
  \A r \in Release :
    LET object == Stored(releaseVersions[r])
    IN  ReportsReleased(r) =>
          \/ Pending(r)
          \/ helm[PlaceOf(object.spec)] =
               [by |-> object.uid, chart |-> object.spec.chart,
                state |-> "deployed"]

(* The incarnation is stored and still has its finalizer. *)
Held(uid) ==
  \E r \in Release :
    LET object == Stored(releaseVersions[r])
    IN  object # Absent /\ object.uid = uid /\ object.fins # {}

(* No Helm release, finished or not, is left in a workload cluster without  *)
(* an object that will uninstall it, unless the object was released with    *)
(* the Orphan policy or its kubeconfig Secret, release name or namespace    *)
(* was edited while it lived.                                               *)
ReleaseHasOwner ==
  \A p \in Place :
    helm[p] # Absent =>
      \/ Held(helm[p].by)
      \/ helm[p].by \in orphaned
      \/ helm[p].by \in retargeted

(* A crash or an outage has left an operation in progress that nobody is    *)
(* working on.                                                              *)
Abandoned(p) == IsPending(helm[p]) /\ worker.pc # "finish"

(* Nothing keeps a release from being installed. *)
Releasable(r) ==
  LET object == Stored(releaseVersions[r])
  IN  /\ object # Absent /\ ~object.deleting
      /\ object.spec.chart \notin Invalid
      /\ clusterExists
      /\ kubeconfigs[object.spec.kubeconfig] = "usable"
      /\ ~Abandoned(PlaceOf(object.spec))

(* A release that stays valid, with everything it refers to there and no    *)
(* abandoned operation, is reported as released at its current generation   *)
(* in the end, although a success asks for no further request.              *)
ReleaseCompletes ==
  \A r \in Release : []<>(Releasable(r) => ReportsReleased(r))

(* r is being deleted, and what its deletion needs is there. *)
Deletable(r) ==
  LET object == Stored(releaseVersions[r])
  IN  /\ object # Absent /\ object.deleting
      /\ \/ object.spec.policy = "Orphan"
         \/ kubeconfigs[object.spec.kubeconfig] = "usable"

(* A deleted release goes away if it has a kubeconfig or the Orphan policy, *)
(* also after a crash in the middle of an install or of the uninstall.      *)
ReleaseDeletionCompletes ==
  \A r \in Release : []<>~Deletable(r)

=============================================================================
