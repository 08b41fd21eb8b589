----------------------------- MODULE SecretSync -----------------------------
(***************************************************************************)
(* OmniSecretSync: the reconciler of                                       *)
(* internal/controller/omnisecretsync_controller.go and the client of      *)
(* internal/secretsync/secretsync.go, which copy a Secret of the           *)
(* management cluster into a workload cluster, follow it, and remove the   *)
(* copy with the OmniSecretSync.                                           *)
(*                                                                         *)
(* The object is read from the informer cache and written with the check   *)
(* of the resourceVersion (ObjectVersions).  The source Secrets and the    *)
(* kubeconfig Secret are read from the API server; their watch events only *)
(* name the syncs to look at.  The destination is immutable (the webhook   *)
(* refuses an edit of kubeconfigSecretRef), so there is one workload       *)
(* cluster.  Nothing watches it: its Secrets are written by the sync, and  *)
(* others may have been there before.                                      *)
(***************************************************************************)
EXTENDS Integers, ObjectVersions

CONSTANTS
  Sync,         \* names of OmniSecretSync objects, all of one cluster
  Source,       \* names of source Secrets
  Data,         \* type and data of a source Secret
  Namespace,    \* namespaces of the workload cluster
  Name,         \* names of Secrets in the workload cluster
  Form,         \* spec.type, labels and annotations
  Invalid,      \* the forms that secretSyncSpecError refuses
  RemoteName,   \* names of the remote cluster, for its label
  Specs,        \* the specs that users submit
  InitialNamespaces, \* the namespaces that exist at the start
  InitialSecrets,  \* the sources and the kubeconfig there may be at the start
  Foreign,      \* targets where somebody else's Secret was there first
  UserOps,      \* what users do, and whether the operator restarts
  Failures,     \* whether calls to the workload cluster may fail
  MaxUid,       \* bound on the number of syncs created
  MaxGen,       \* bound on spec edits of one sync
  MaxChanges,   \* bound on changes of Secrets and of the cluster
  MaxLag        \* bound on watch events on their way for one sync

Target == [namespace : Namespace, name : Name]

SyncSpec ==
  [target : Target, source : Source, form : Form, createNamespace : BOOLEAN,
   policy : {"Delete", "Orphan"}]

ASSUME SyncAssumption ==
  /\ Specs \subseteq SyncSpec
  /\ Invalid \subseteq Form
  /\ InitialNamespaces \subseteq Namespace
  /\ \A initial \in InitialSecrets :
       /\ initial.sources \in [Source -> Data \cup {Absent}]
       /\ initial.kubeconfig \in {Absent, "malformed", "usable"}
  /\ Foreign \subseteq Target
  /\ \A t \in Foreign : t.namespace \in InitialNamespaces
  /\ UserOps \subseteq {"CreateSync", "UpdateSync", "DeleteSync", "ChangeSource",
                        "ChangeKubeconfig", "ChangeCluster", "Restart"}
  /\ Failures \subseteq {"Workload"}
  /\ {MaxUid, MaxGen, MaxChanges, MaxLag} \subseteq Nat /\ MaxLag > 0

Finalizer == "finalizer"

Reason == {"None", "ValidationFailed", "MissingCluster", "MissingSecret",
           "DeleteFailed", "SyncFailed", "Synced"}

SyncObject ==
  [uid : Nat, gen : Nat, spec : SyncSpec, fins : SUBSET {Finalizer},
   deleting : BOOLEAN,
   status : [obs : Nat, target : Target \cup {Absent}, reason : Reason]]

SyncVersion == SyncObject \cup {Absent}

(* A Secret of the workload cluster; one that is not ours has no owner. *)
WorkloadSecret ==
  [owner : Nat, cluster : RemoteName, form : Form, data : Data]
    \cup {[owner |-> Absent]}

ASSUME SyncAbsentAssumption ==
  Absent \notin SyncObject \cup WorkloadSecret \cup Target \cup Nat

(* The kubeconfig Secret: no Secret or no such key, data that does not      *)
(* load, or a kubeconfig.                                                   *)
KubeconfigValue == {Absent, "malformed", "usable"}

VARIABLES
  syncVersions,  \* [Sync -> Seq(SyncVersion)]
  queue,         \* the workqueue
  worker,        \* the one running Reconcile call
  sources,       \* [Source -> Data \cup {Absent}]
  kubeconfig,    \* the value of the kubeconfig Secret
  notices,       \* Secrets with a watch event on its way
  cluster,       \* the remote name in the cached OmniCluster, or Absent
  namespaces,    \* the namespaces of the workload cluster
  workload,      \* [Target -> WorkloadSecret \cup {Absent}]
  lastUid,
  changes,       \* the number of changes so far, for MaxChanges
  orphaned,      \* history: uids released with the Orphan policy
  retargeted     \* history: uids whose targetSecretRef was edited

vars == <<syncVersions, queue, worker, sources, kubeconfig, notices, cluster,
          namespaces, workload, lastUid, changes, orphaned, retargeted>>

(* What Reconcile never writes *)
environment ==
  <<sources, kubeconfig, notices, cluster, lastUid, changes, retargeted>>

remote == <<namespaces, workload>>

-----------------------------------------------------------------------------
(* Helpers *)

IsOwnedSecret(item, secret) == secret # Absent /\ secret.owner = item.uid

(* The target of the deletion: the one in the status, once there is one. *)
DeletedTarget(item) ==
  IF item.status.target # Absent THEN item.status.target ELSE item.spec.target

(* deletePreviousTargetSecret: whether there is something to look at *)
HasPreviousTarget(item) ==
  /\ item.spec.policy = "Delete"
  /\ item.status.target # Absent
  /\ item.status.target # item.spec.target

CachedSyncs == {y \in Sync : Cached(syncVersions[y]) # Absent}

(* Mutant: only the kubeconfig Secret is followed. *)
RequestsForSecretMutant(secret) ==
  {y \in CachedSyncs : secret = "kubeconfig"}

(* secretSyncRequestsForSecret *)
RequestsForSecret(secret) ==
  {y \in CachedSyncs :
     secret \in {"kubeconfig", Cached(syncVersions[y]).spec.source}}

IdleWorker ==
  [pc |-> "idle", key |-> Absent, item |-> Absent, cluster |-> Absent,
   data |-> Absent, victim |-> Absent, found |-> Absent, reason |-> "None",
   again |-> FALSE]

Init ==
  /\ syncVersions = [y \in Sync |-> <<Absent>>]
  /\ queue = {}
  /\ worker = IdleWorker
  /\ \E initial \in InitialSecrets :
       sources = initial.sources /\ kubeconfig = initial.kubeconfig
  /\ notices = {}
  /\ cluster \in RemoteName
  /\ namespaces = InitialNamespaces
  /\ workload = [t \in Target |-> IF t \in Foreign THEN [owner |-> Absent]
                                                   ELSE Absent]
  /\ lastUid = 0 /\ changes = 0
  /\ orphaned = {} /\ retargeted = {}

-----------------------------------------------------------------------------
(* How Reconcile moves on and how it returns *)

StoreSync(y, object) ==
  /\ Len(syncVersions[y]) <= MaxLag
  /\ syncVersions' = [syncVersions EXCEPT ![y] = Append(@, object)]

(* Mutant: the key is read after the worker's state has been reset. *)
DoneMutant(again) ==
  /\ worker' = IdleWorker
  /\ queue' = IF again THEN queue \cup {worker'.key} ELSE queue

(* Reconcile returns; an error, Requeue or the retry interval put the key   *)
(* back.  A success asks for nothing.                                       *)
Done(again) ==
  /\ worker' = IdleWorker
  /\ queue' = IF again THEN queue \cup {worker.key} ELSE queue

Begin(y, pc) ==
  /\ worker' = [IdleWorker EXCEPT !.pc = pc, !.key = y,
                                  !.item = Cached(syncVersions[y])]
  /\ queue' = queue \ {y}
  /\ UNCHANGED <<syncVersions, environment, remote, orphaned>>

(* Reconcile goes on; nothing but its own state changes. *)
Advance(next) ==
  /\ worker' = next
  /\ UNCHANGED <<syncVersions, queue, environment, remote, orphaned>>

(* The status update that ends this Reconcile *)
Report(reason, again) ==
  [worker EXCEPT !.pc = "updateStatus", !.reason = reason, !.again = again]

-----------------------------------------------------------------------------
(* Reconcile: what the cached copy of the sync leads to *)

CanReconcile(y) == worker.pc = "idle" /\ y \in queue

ReconcileNothing(y) ==
  /\ CanReconcile(y)
  /\ LET item == Cached(syncVersions[y])
     IN  item # Absent => item.deleting /\ item.fins = {}
  /\ queue' = queue \ {y}
  /\ UNCHANGED <<syncVersions, worker, environment, remote, orphaned>>

(* reconcileDelete *)
ReconcileDelete(y) ==
  /\ CanReconcile(y)
  /\ LET item == Cached(syncVersions[y])
     IN  /\ item # Absent /\ item.deleting /\ item.fins # {}
         /\ Begin(y, IF item.spec.policy = "Orphan" THEN "removeFinalizer"
                                                    ELSE "getKubeconfig")

(* ensureFinalizer *)
ReconcileNew(y) ==
  /\ CanReconcile(y)
  /\ LET item == Cached(syncVersions[y])
     IN  item # Absent /\ ~item.deleting /\ item.fins = {}
  /\ Begin(y, "addFinalizer")

ReconcileSync(y) ==
  /\ CanReconcile(y)
  /\ LET item == Cached(syncVersions[y])
     IN  item # Absent /\ ~item.deleting /\ item.fins # {}
  /\ Begin(y, "getCluster")

Reconcile(y) ==
  ReconcileNothing(y) \/ ReconcileDelete(y) \/ ReconcileNew(y) \/ ReconcileSync(y)

SpecError ==
  /\ worker.pc = "getCluster"
  /\ worker.item.spec.form \in Invalid
  /\ Advance(Report("ValidationFailed", FALSE))

MissingCluster ==
  /\ worker.pc = "getCluster"
  /\ worker.item.spec.form \notin Invalid
  /\ cluster = Absent
  /\ Advance(Report("MissingCluster", TRUE))

FoundCluster ==
  /\ worker.pc = "getCluster"
  /\ worker.item.spec.form \notin Invalid
  /\ cluster # Absent
  /\ Advance([worker EXCEPT !.pc = "getSource", !.cluster = cluster])

(* sourceSecret *)
MissingSource ==
  /\ worker.pc = "getSource"
  /\ sources[worker.item.spec.source] = Absent
  /\ Advance(Report("MissingSecret", TRUE))

FoundSource ==
  /\ worker.pc = "getSource"
  /\ sources[worker.item.spec.source] # Absent
  /\ Advance([worker EXCEPT !.pc = "getKubeconfig",
                            !.data = sources[worker.item.spec.source]])

(* kubeconfig, on the way to a sync or to a deletion *)
NoKubeconfig ==
  /\ worker.pc = "getKubeconfig"
  /\ kubeconfig # "usable"
  /\ Advance(Report(IF kubeconfig = Absent THEN "MissingSecret"
                                           ELSE "ValidationFailed", TRUE))

FoundKubeconfig ==
  /\ worker.pc = "getKubeconfig"
  /\ kubeconfig = "usable"
  /\ Advance(
       IF worker.item.deleting
         THEN [worker EXCEPT !.pc = "checkOwned",
                             !.victim = DeletedTarget(worker.item)]
       ELSE IF HasPreviousTarget(worker.item)
         THEN [worker EXCEPT !.pc = "checkOwned",
                             !.victim = worker.item.status.target]
       ELSE [worker EXCEPT !.pc = "ensureNamespace"])

-----------------------------------------------------------------------------
(* secretsync.Client.Delete, of the previous target or of the target *)

AfterDelete ==
  IF worker.item.deleting THEN "removeFinalizer" ELSE "ensureNamespace"

(* Mutant: the owner is not looked at. *)
CheckOwnedMutant ==
  /\ worker.pc = "checkOwned"
  /\ Advance([worker EXCEPT !.pc =
       IF workload[worker.victim] # Absent THEN "delete" ELSE AfterDelete])

(* It is deleted only if it is there and ours. *)
CheckOwned ==
  /\ worker.pc = "checkOwned"
  /\ Advance([worker EXCEPT !.pc =
       IF IsOwnedSecret(worker.item, workload[worker.victim])
         THEN "delete" ELSE AfterDelete])

Deleted == [workload EXCEPT ![worker.victim] = Absent]

DeleteSecret ==
  /\ worker.pc = "delete"
  /\ workload' = Deleted
  /\ worker' = [worker EXCEPT !.pc = AfterDelete]
  /\ UNCHANGED <<syncVersions, queue, environment, namespaces, orphaned>>

(* Mutant: the error is only logged. *)
DeleteFailsMutant ==
  /\ "Workload" \in Failures
  /\ worker.pc \in {"checkOwned", "delete"}
  /\ workload' \in {workload} \cup (IF worker.pc = "delete" THEN {Deleted} ELSE {})
  /\ worker' = [worker EXCEPT !.pc = AfterDelete]
  /\ UNCHANGED <<syncVersions, queue, environment, namespaces, orphaned>>

(* A call fails; the Secret may be gone all the same. *)
DeleteFails ==
  /\ "Workload" \in Failures
  /\ worker.pc \in {"checkOwned", "delete"}
  /\ workload' \in {workload} \cup (IF worker.pc = "delete" THEN {Deleted} ELSE {})
  /\ worker' = Report("DeleteFailed", TRUE)
  /\ UNCHANGED <<syncVersions, queue, environment, namespaces, orphaned>>

-----------------------------------------------------------------------------
(* secretsync.Client.Sync *)

EnsureNamespace ==
  /\ worker.pc = "ensureNamespace"
  /\ namespaces' = IF worker.item.spec.createNamespace
                     THEN namespaces \cup {worker.item.spec.target.namespace}
                     ELSE namespaces
  /\ worker' = [worker EXCEPT !.pc = "getTarget"]
  /\ UNCHANGED <<syncVersions, queue, environment, workload, orphaned>>

GetTarget ==
  /\ worker.pc = "getTarget"
  /\ Advance([worker EXCEPT !.pc = "write",
                            !.found = workload[worker.item.spec.target]])

DesiredSecret ==
  [owner |-> worker.item.uid, cluster |-> worker.cluster,
   form |-> worker.item.spec.form, data |-> worker.data]

Written == [workload EXCEPT ![worker.item.spec.target] = DesiredSecret]

(* Create, which needs the namespace, or Update of the Secret that was      *)
(* found, somebody else's too; nothing is sent when it is equal already.    *)
CanWrite ==
  /\ worker.pc = "write"
  /\ workload[worker.item.spec.target] = worker.found
  /\ worker.item.spec.target.namespace \in namespaces

WriteTarget ==
  /\ CanWrite
  /\ workload' = Written
  /\ worker' = Report("Synced", FALSE)
  /\ UNCHANGED <<syncVersions, queue, environment, namespaces, orphaned>>

(* A call fails, a write perhaps after it was carried out. *)
SyncFails ==
  /\ \/ worker.pc \in {"ensureNamespace", "getTarget", "write"}
        /\ "Workload" \in Failures
     \/ worker.pc = "write" /\ ~CanWrite
  /\ workload' \in {workload} \cup (IF CanWrite THEN {Written} ELSE {})
  /\ worker' = Report("SyncFailed", TRUE)
  /\ UNCHANGED <<syncVersions, queue, environment, namespaces, orphaned>>

-----------------------------------------------------------------------------
(* Writes to the sync itself *)

(* Mutant: Reconcile relies on the watch event of its own update. *)
AddFinalizerMutant ==
  /\ worker.pc = "addFinalizer"
  /\ worker.item = Stored(syncVersions[worker.key])
  /\ StoreSync(worker.key, [worker.item EXCEPT !.fins = {Finalizer}])
  /\ Done(FALSE)
  /\ UNCHANGED <<environment, remote, orphaned>>

AddFinalizer ==
  /\ worker.pc = "addFinalizer"
  /\ worker.item = Stored(syncVersions[worker.key])
  /\ StoreSync(worker.key, [worker.item EXCEPT !.fins = {Finalizer}])
  /\ Done(TRUE)
  /\ UNCHANGED <<environment, remote, orphaned>>

(* updateSecretSyncStatus: the generation is that of the latest object; the *)
(* target too, unless a sync has a result to tell.                          *)
NewStatus(latest) ==
  [obs |-> latest.gen, reason |-> worker.reason,
   target |-> IF worker.reason = "Synced" THEN worker.item.spec.target
                                          ELSE latest.spec.target]

(* The time of the attempt makes every status new, so it is always written. *)
UpdateStatus ==
  /\ worker.pc = "updateStatus"
  /\ LET latest == Cached(syncVersions[worker.key])
     IN  /\ latest # Absent
         /\ latest = Stored(syncVersions[worker.key])
         /\ StoreSync(worker.key, [latest EXCEPT !.status = NewStatus(latest)])
  /\ Done(worker.again)
  /\ UNCHANGED <<environment, remote, orphaned>>

(* removeFinalizer reads the sync afresh ... *)
RemoveFinalizer ==
  /\ worker.pc = "removeFinalizer"
  /\ LET latest == Cached(syncVersions[worker.key])
     IN  /\ latest # Absent
         /\ latest = Stored(syncVersions[worker.key])
         /\ StoreSync(worker.key, Settle([latest EXCEPT !.fins = {}]))
  /\ orphaned' = IF worker.item.spec.policy = "Orphan"
                   THEN orphaned \cup {worker.item.uid} ELSE orphaned
  /\ Done(FALSE)
  /\ UNCHANGED <<environment, remote>>

(* Mutant: the error is logged and not returned. *)
CallFailsMutant ==
  /\ worker.pc \in {"addFinalizer", "updateStatus", "removeFinalizer"}
  /\ Done(FALSE)
  /\ UNCHANGED <<syncVersions, environment, remote, orphaned>>

(* A conflict or another error of the API server *)
CallFails ==
  /\ worker.pc \in {"addFinalizer", "updateStatus", "removeFinalizer"}
  /\ Done(TRUE)
  /\ UNCHANGED <<syncVersions, environment, remote, orphaned>>

CallSucceeds == AddFinalizer \/ UpdateStatus \/ RemoveFinalizer

WorkloadFails == DeleteFails \/ SyncFails

WorkerStep ==
  \/ SpecError \/ MissingCluster \/ FoundCluster
  \/ MissingSource \/ FoundSource \/ NoKubeconfig \/ FoundKubeconfig
  \/ CheckOwned \/ DeleteSecret
  \/ EnsureNamespace \/ GetTarget \/ WriteTarget
  \/ WorkloadFails \/ CallSucceeds \/ CallFails

-----------------------------------------------------------------------------
(* Watch events *)

DeliverSync(y) ==
  /\ Len(syncVersions[y]) > 1
  /\ syncVersions' = [syncVersions EXCEPT ![y] = Tail(@)]
  /\ queue' = IF EventPasses(syncVersions[y][1], syncVersions[y][2])
                THEN queue \cup {y} ELSE queue
  /\ UNCHANGED <<worker, environment, remote, orphaned>>

DeliverNotice(secret) ==
  /\ secret \in notices
  /\ notices' = notices \ {secret}
  /\ queue' = queue \cup RequestsForSecret(secret)
  /\ UNCHANGED <<syncVersions, worker, sources, kubeconfig, cluster, lastUid,
                 changes, retargeted, remote, orphaned>>

-----------------------------------------------------------------------------
(* Users, the other controllers, and crashes *)

NewSync(uid, spec) ==
  [uid |-> uid, gen |-> 1, spec |-> spec, fins |-> {}, deleting |-> FALSE,
   status |-> [obs |-> 0, target |-> Absent, reason |-> "None"]]

CreateSync(y) ==
  /\ "CreateSync" \in UserOps
  /\ lastUid < MaxUid
  /\ Stored(syncVersions[y]) = Absent
  /\ \E spec \in Specs : StoreSync(y, NewSync(lastUid + 1, spec))
  /\ lastUid' = lastUid + 1
  /\ UNCHANGED <<queue, worker, sources, kubeconfig, notices, cluster, changes,
                 retargeted, remote, orphaned>>

UpdateSync(y) ==
  /\ "UpdateSync" \in UserOps
  /\ LET object == Stored(syncVersions[y])
     IN  /\ object # Absent
         /\ object.gen < MaxGen
         /\ \E spec \in Specs \ {object.spec} :
              /\ StoreSync(y, [object EXCEPT !.spec = spec, !.gen = @ + 1])
              /\ retargeted' = IF spec.target # object.spec.target
                                 THEN retargeted \cup {object.uid}
                                 ELSE retargeted
  /\ UNCHANGED <<queue, worker, sources, kubeconfig, notices, cluster, lastUid,
                 changes, remote, orphaned>>

DeleteSync(y) ==
  /\ "DeleteSync" \in UserOps
  /\ LET object == Stored(syncVersions[y])
     IN  /\ object # Absent
         /\ ~object.deleting
         /\ StoreSync(y, Settle([object EXCEPT !.deleting = TRUE, !.gen = @ + 1]))
  /\ UNCHANGED <<queue, worker, environment, remote, orphaned>>

CountChange == changes < MaxChanges /\ changes' = changes + 1

ChangeSource(s) ==
  /\ "ChangeSource" \in UserOps
  /\ CountChange
  /\ \E d \in (Data \cup {Absent}) \ {sources[s]} :
       sources' = [sources EXCEPT ![s] = d]
  /\ notices' = notices \cup {s}
  /\ UNCHANGED <<syncVersions, queue, worker, kubeconfig, cluster, lastUid,
                 retargeted, remote, orphaned>>

(* The export rotates, loses or regains its Secret. *)
ChangeKubeconfig ==
  /\ "ChangeKubeconfig" \in UserOps
  /\ CountChange
  /\ kubeconfig' \in KubeconfigValue \ {kubeconfig}
  /\ notices' = notices \cup {"kubeconfig"}
  /\ UNCHANGED <<syncVersions, queue, worker, sources, cluster, lastUid,
                 retargeted, remote, orphaned>>

(* secretSyncRequestsForCluster *)
ChangeCluster ==
  /\ "ChangeCluster" \in UserOps
  /\ CountChange
  /\ cluster' \in (RemoteName \cup {Absent}) \ {cluster}
  /\ queue' = queue \cup CachedSyncs
  /\ UNCHANGED <<syncVersions, worker, sources, kubeconfig, notices, lastUid,
                 retargeted, remote, orphaned>>

(* The operator restarts: the Reconcile call is lost, and the initial list  *)
(* brings a request for every sync.                                         *)
Restart ==
  /\ "Restart" \in UserOps
  /\ syncVersions' = [y \in Sync |-> <<Stored(syncVersions[y])>>]
  /\ queue' = Listed(syncVersions)
  /\ worker' = IdleWorker
  /\ notices' = {}
  /\ UNCHANGED <<sources, kubeconfig, cluster, lastUid, changes, retargeted,
                 remote, orphaned>>

Next ==
  \/ WorkerStep
  \/ \E y \in Sync :
       \/ Reconcile(y) \/ DeliverSync(y)
       \/ CreateSync(y) \/ UpdateSync(y) \/ DeleteSync(y)
  \/ \E secret \in Source \cup {"kubeconfig"} : DeliverNotice(secret)
  \/ \E s \in Source : ChangeSource(s)
  \/ ChangeKubeconfig \/ ChangeCluster \/ Restart

Spec == Init /\ [][Next]_vars

(* The informers deliver and the worker goes on; crashes and outages come   *)
(* to an end: from then on a call fails only when it must.  (A step of the  *)
(* worker may look like a restart.)                                         *)
Fairness ==
  /\ \A y \in Sync : WF_vars(DeliverSync(y)) /\ SF_vars(Reconcile(y))
  /\ \A secret \in Source \cup {"kubeconfig"} : WF_vars(DeliverNotice(secret))
  /\ WF_vars(WorkerStep)
  /\ <>[][/\ WorkloadFails => worker.pc = "write" /\ ~CanWrite
          /\ CallFails => ~ENABLED CallSucceeds
          /\ Restart => WorkerStep]_vars

FairSpec == Spec /\ Fairness

-----------------------------------------------------------------------------
(* Properties *)

BusyWorker ==
  [pc : {"addFinalizer", "getCluster", "getSource", "getKubeconfig",
         "checkOwned", "delete", "ensureNamespace", "getTarget", "write",
         "updateStatus", "removeFinalizer"},
   key : Sync, item : SyncObject, cluster : RemoteName \cup {Absent},
   data : Data \cup {Absent}, victim : Target \cup {Absent},
   found : WorkloadSecret \cup {Absent}, reason : Reason, again : BOOLEAN]

(* Every variable keeps its type; in particular the copy in the workload    *)
(* cluster never holds data that no source had.                             *)
TypeOK ==
  /\ syncVersions \in [Sync -> Seq(SyncVersion)]
  /\ \A y \in Sync : syncVersions[y] # <<>>
  /\ queue \subseteq Sync
  /\ worker = IdleWorker \/ worker \in BusyWorker
  /\ sources \in [Source -> Data \cup {Absent}]
  /\ kubeconfig \in KubeconfigValue
  /\ notices \subseteq Source \cup {"kubeconfig"}
  /\ cluster \in RemoteName \cup {Absent}
  /\ namespaces \subseteq Namespace
  /\ workload \in [Target -> WorkloadSecret \cup {Absent}]
  /\ lastUid \in Nat /\ changes \in Nat
  /\ orphaned \subseteq Nat /\ retargeted \subseteq Nat

(* A request for y is on the queue, being worked on, or on its way there. *)
Pending(y) ==
  \/ y \in queue \/ worker.key = y
  \/ \E i \in 1 .. Len(syncVersions[y]) - 1 :
       EventPasses(syncVersions[y][i], syncVersions[y][i + 1])
  \/ Stored(syncVersions[y]).spec.source \in notices \/ "kubeconfig" \in notices

(* The status says Synced for the current generation. *)
ReportsSynced(y) ==
  LET object == Stored(syncVersions[y])
  IN  /\ object # Absent /\ ~object.deleting
      /\ object.status.reason = "Synced" /\ object.status.obs = object.gen

(* Synced=True for the current generation means that the target in the      *)
(* workload cluster is the desired copy of the source as it is now, unless  *)
(* a request is under way: no order of edits, source changes, conflicts and *)
(* failures leaves a stale copy that is reported as synced.                 *)
SyncIsHonest ==
  \A y \in Sync :
    LET object == Stored(syncVersions[y])
    IN  ReportsSynced(y) =>
          \/ Pending(y)
          \/ workload[object.spec.target] =
               [owner |-> object.uid, cluster |-> cluster,
                form |-> object.spec.form, data |-> sources[object.spec.source]]

(* The incarnation is stored and still has its finalizer. *)
Held(uid) ==
  \E y \in Sync :
    LET object == Stored(syncVersions[y])
    IN  object # Absent /\ object.uid = uid /\ object.fins # {}

(* No copy is left in the workload cluster without a sync that will remove  *)
(* it, unless the sync was released with the Orphan policy or its target    *)
(* was edited while it lived.                                               *)
CopyHasOwner ==
  \A t \in Target :
    (workload[t] # Absent /\ workload[t].owner # Absent) =>
      \/ Held(workload[t].owner)
      \/ workload[t].owner \in orphaned
      \/ workload[t].owner \in retargeted

(* The operator never deletes a Secret of the workload cluster that this    *)
(* very incarnation of the sync has not written, as previous target or in   *)
(* the deletion.                                                            *)
DeletesOnlyOwnSecrets ==
  [][\A t \in Target :
       (workload[t] # Absent /\ workload'[t] = Absent)
         => workload[t].owner = worker.item.uid]_vars

(* Nothing keeps a sync from being written. *)
Syncable(y) ==
  LET object == Stored(syncVersions[y])
  IN  /\ object # Absent /\ ~object.deleting
      /\ object.spec.form \notin Invalid
      /\ cluster # Absent /\ kubeconfig = "usable"
      /\ sources[object.spec.source] # Absent
      /\ \/ object.spec.createNamespace
         \/ object.spec.target.namespace \in namespaces

(* A sync that stays valid, with everything it refers to there, is reported *)
(* as synced at its current generation in the end, although a success asks  *)
(* for no further request: it is never stuck short of that for ever.        *)
SyncCompletes ==
  \A y \in Sync : []<>(Syncable(y) => ReportsSynced(y))

(* y is being deleted, and what its deletion needs is there. *)
Deletable(y) ==
  LET object == Stored(syncVersions[y])
  IN  /\ object # Absent /\ object.deleting
      /\ object.spec.policy = "Orphan" \/ kubeconfig = "usable"

(* A deleted sync goes away if it has a kubeconfig or the Orphan policy. *)
SyncDeletionCompletes ==
  \A y \in Sync : []<>~Deletable(y)

-----------------------------------------------------------------------------
(* Refinement *)

(* The uids that are not stored and never will be again *)
GoneUids ==
  {u \in 1 .. lastUid :
     \A y \in Sync : LET object == Stored(syncVersions[y])
                   IN  object # Absent => object.uid # u}

HeldUids == {u \in 1 .. MaxUid : Held(u)}

(* Who owns what is at each target *)
SecretOwner ==
  [t \in Target |-> IF workload[t] = Absent THEN Absent ELSE workload[t].owner]

Excused == orphaned \cup retargeted

Ownership == INSTANCE FinalizerOwnership WITH
  Owner <- 1 .. MaxUid,
  Place <- Target,
  Nobody <- Absent,
  held <- HeldUids,
  gone <- GoneUids,
  owner <- SecretOwner,
  excused <- Excused

(* The sync controller implements the ownership protocol: no step, however  *)
(* stale what it read, writes a copy for a sync that is without its         *)
(* finalizer at that moment, and the finalizer goes only after the copy or  *)
(* with the user's leave.                                                   *)
ImplementsOwnership == Ownership!Spec

=============================================================================
