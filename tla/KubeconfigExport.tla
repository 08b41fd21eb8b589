-------------------------- MODULE KubeconfigExport --------------------------
(***************************************************************************)
(* OmniKubeconfigExport: the reconciler of                                 *)
(* internal/controller/omnikubeconfigexport_controller.go, which asks Omni *)
(* for a service-account kubeconfig, keeps it in a Secret, rotates it      *)
(* before it expires and removes the Secret again.                         *)
(*                                                                         *)
(* Exports are read from the informer cache and written with the check of  *)
(* the resourceVersion (ObjectVersions).  Secrets are read from the API    *)
(* server directly (SecretReader), so they have one current value; their   *)
(* watch only tells which export to look at again.  The cluster and the    *)
(* connections are the cached ones: the reconciler sees nothing else.      *)
(***************************************************************************)
EXTENDS Integers, ObjectVersions

CONSTANTS
  Export,       \* names of OmniKubeconfigExport objects, all of one cluster
  Secret,       \* namespaced names of Secrets
  Key,          \* data keys of Secrets
  Profile,      \* user, groups, TTL and context namespace of a kubeconfig
  Invalid,      \* the profiles that kubeconfigExportSpecError refuses
  RemoteName,   \* names of the remote cluster
  Connection,   \* names of OmniConnections
  Specs,        \* the export specs that users submit
  UserOps,      \* what users do, and whether the operator restarts
  Failures,     \* the calls that may fail
  TTL,          \* spec.ttl and spec.renewBefore, in ticks of the clock
  RenewBefore,
  SlowestReconcile, \* ticks that one Reconcile may take after it read the clock
  Tampered,     \* data in a Secret that the operator did not write
  MaxTime,      \* bound on the clock
  MaxUid,       \* bound on the number of exports created
  MaxGen,       \* bound on spec edits of one export
  MaxChanges,   \* bound on changes of Secrets, cluster and connections by others
  MaxLag        \* bound on watch events on their way for one export

ExportSpec ==
  [target : Secret, key : Key, profile : Profile, policy : {"Delete", "Orphan"}]

(* renewBefore must be less than ttl, as kubeconfigExportSpecError demands. *)
ASSUME ExportAssumption ==
  /\ TTL \in Nat /\ RenewBefore \in Nat /\ RenewBefore < TTL
  /\ SlowestReconcile \in 0 .. RenewBefore
  /\ Specs \subseteq ExportSpec
  /\ Invalid \subseteq Profile
  /\ UserOps \subseteq {"CreateExport", "UpdateExport", "DeleteExport",
                        "TamperSecret", "DeleteSecret", "CreateSecret",
                        "ChangeCluster", "ChangeConnection", "Restart"}
  /\ Failures \subseteq {"Kubeconfig", "Validate"}
  /\ {MaxTime, MaxUid, MaxGen, MaxChanges, MaxLag} \subseteq Nat /\ MaxLag > 0

Finalizer == "finalizer"

(* A generated kubeconfig: for whom, from which account, until when.  Two   *)
(* of them are equal exactly when their SHA-256 hashes are.                 *)
Kubeconfig ==
  [cluster : RemoteName, account : Connection, profile : Profile, exp : Nat]

(* A Secret: its owner label and annotation, the annotations that describe  *)
(* the kubeconfig (with its expiration), and its data.                      *)
SecretObject ==
  [owner : Nat \cup {Absent}, export : Export \cup {Absent},
   specHash : (RemoteName \X Key \X Profile) \cup {Absent},
   hash : Kubeconfig \cup {Absent},
   data : [Key -> Kubeconfig \cup {Tampered, Absent}]]

Reason == {"None", "ValidationFailed", "MissingCluster", "MissingConnection",
           "ExportFailed", "Exported"}

ExportStatus ==
  [obs : Nat, target : Secret \cup {Absent}, key : Key \cup {Absent},
   reason : Reason, hash : Kubeconfig \cup {Absent}]

ExportObject ==
  [uid : Nat, gen : Nat, spec : ExportSpec, fins : SUBSET {Finalizer},
   deleting : BOOLEAN, status : ExportStatus]

ExportVersion == ExportObject \cup {Absent}

ASSUME ExportAbsentAssumption ==
  Absent \notin ExportObject \cup SecretObject \cup Secret \cup Nat

(* A kubeconfig is told from no kubeconfig and from other data. *)
ASSUME KubeconfigAssumption ==
  /\ Absent \notin Export \cup Kubeconfig
  /\ Tampered \notin Kubeconfig

ClusterObject == [name : RemoteName, connection : Connection]

VARIABLES
  exportVersions,  \* [Export -> Seq(ExportVersion)]
  queue,           \* the workqueue
  timer,           \* when AddAfter will put an export on the queue, or Absent
  worker,          \* the one running Reconcile call
  secrets,         \* [Secret -> SecretObject \cup {Absent}]
  notices,         \* exports named by watch events of Secrets on their way
  cluster,         \* the cached OmniCluster, or Absent
  connections,     \* the cached OmniConnections
  now,
  lastUid,
  changes,         \* the number of changes so far, for MaxChanges
  orphaned,        \* history: uids released with the Orphan policy
  retargeted       \* history: uids whose targetSecretRef was edited

vars == <<exportVersions, queue, timer, worker, secrets, notices, cluster,
          connections, now, lastUid, changes, orphaned, retargeted>>

(* What Reconcile never writes *)
environment == <<cluster, connections, now, lastUid, changes, retargeted>>

-----------------------------------------------------------------------------
(* kubeconfigexport.go and the helpers of the reconciler *)

(* The fields that kubeconfigexport.SpecHash covers *)
SpecHash(spec, clusterName) == <<clusterName, spec.key, spec.profile>>

IsOwnedSecret(item, secret) == secret # Absent /\ secret.owner = item.uid

NextRotationTime(exp) == exp - RenewBefore

(* For the time that this Reconcile has read from the clock *)
RotationDue(exp) == worker.at >= NextRotationTime(exp)

(* Mutant: renewBefore is forgotten. *)
RequeueAfterMutant(exp) == exp - worker.at

(* requeueAfter: a delay, and no request at all when it is not positive *)
RequeueAfter(exp) ==
  IF worker.at < NextRotationTime(exp) THEN NextRotationTime(exp) - worker.at
                                       ELSE Absent

(* targetSecret: the status, once there is one, goes before the spec *)
TargetSecret(item) ==
  IF item.status.target # Absent THEN item.status.target ELSE item.spec.target

(* Mutant: the hash annotation is not compared with the data. *)
CurrentKubeconfigSecretStateMutant(item, secret, clusterName) ==
  /\ secret # Absent
  /\ secret.hash # Absent
  /\ secret.specHash = SpecHash(item.spec, clusterName)
  /\ ~RotationDue(secret.hash.exp)

(* currentKubeconfigSecretState *)
CurrentKubeconfigSecretState(item, secret, clusterName) ==
  /\ secret # Absent
  /\ secret.data[item.spec.key] # Absent
  /\ secret.specHash = SpecHash(item.spec, clusterName)
  /\ secret.hash = secret.data[item.spec.key]
  /\ ~RotationDue(secret.hash.exp)

(* deletePreviousTargetSecret: whether there is a Secret to delete *)
PreviousTargetOwned(item) ==
  /\ item.spec.policy = "Delete"
  /\ item.status.target # Absent
  /\ item.status.target # item.spec.target
  /\ IsOwnedSecret(item, secrets[item.status.target])

(* kubeconfigExportRequestsForSecret, for the Secrets of one watch event *)
RequestsForSecret(objects) == {s.export : s \in objects \ {Absent}} \ {Absent}

(* AddAfter keeps one entry for each key, the earlier one. *)
Earlier(set, time) == IF set # Absent /\ set <= time THEN set ELSE time

IdleWorker ==
  [pc |-> "idle", key |-> Absent, item |-> Absent, cluster |-> Absent,
   at |-> 0, secret |-> Absent, data |-> Absent, reason |-> "None",
   hash |-> Absent, again |-> FALSE, delay |-> Absent]

Init ==
  /\ exportVersions = [e \in Export |-> <<Absent>>]
  /\ queue = {}
  /\ timer = [e \in Export |-> Absent]
  /\ worker = IdleWorker
  /\ secrets = [s \in Secret |-> Absent]
  /\ notices = {}
  /\ cluster \in ClusterObject
  /\ connections = Connection
  /\ now = 0
  /\ lastUid = 0 /\ changes = 0
  /\ orphaned = {} /\ retargeted = {}

-----------------------------------------------------------------------------
(* How Reconcile moves on and how it returns *)

StoreExport(e, object) ==
  /\ Len(exportVersions[e]) <= MaxLag
  /\ exportVersions' = [exportVersions EXCEPT ![e] = Append(@, object)]

(* Mutant: the key is read after the worker's state has been reset. *)
DoneMutant(again, delay) ==
  /\ worker' = IdleWorker
  /\ queue' = IF again THEN queue \cup {worker'.key} ELSE queue
  /\ timer' = IF delay = Absent THEN timer
              ELSE [timer EXCEPT ![worker.key] = Earlier(@, now + delay)]

(* Reconcile returns: an error, Requeue or a retry interval put the key     *)
(* back (these delays are left out); after a successful export the key      *)
(* comes back when the delay has passed, counted from now.                  *)
Done(again, delay) ==
  /\ worker' = IdleWorker
  /\ queue' = IF again THEN queue \cup {worker.key} ELSE queue
  /\ timer' = IF delay = Absent THEN timer
              ELSE [timer EXCEPT ![worker.key] = Earlier(@, now + delay)]

Begin(e, pc) ==
  /\ worker' = [IdleWorker EXCEPT !.pc = pc, !.key = e,
                                  !.item = Cached(exportVersions[e])]
  /\ queue' = queue \ {e}
  /\ UNCHANGED <<exportVersions, timer, secrets, notices, environment, orphaned>>

(* Reconcile goes on; nothing but its own state changes. *)
Advance(next) ==
  /\ worker' = next
  /\ UNCHANGED <<exportVersions, queue, timer, secrets, notices, environment,
                 orphaned>>

(* The status update that ends this Reconcile, and what comes after it. *)
Report(reason, hash, again, delay) ==
  [worker EXCEPT !.pc = "updateStatus", !.reason = reason, !.hash = hash,
                 !.again = again, !.delay = delay]

-----------------------------------------------------------------------------
(* Reconcile: what the cached copy of the export leads to *)

CanReconcile(e) == worker.pc = "idle" /\ e \in queue

ReconcileNothing(e) ==
  /\ CanReconcile(e)
  /\ LET item == Cached(exportVersions[e])
     IN  item # Absent => item.deleting /\ item.fins = {}
  /\ queue' = queue \ {e}
  /\ UNCHANGED <<exportVersions, timer, worker, secrets, notices, environment,
                 orphaned>>

(* reconcileDelete *)
ReconcileDelete(e) ==
  /\ CanReconcile(e)
  /\ LET item == Cached(exportVersions[e])
     IN  /\ item # Absent /\ item.deleting /\ item.fins # {}
         /\ Begin(e, IF item.spec.policy = "Delete" THEN "getTarget"
                                                    ELSE "removeFinalizer")

(* ensureFinalizer *)
ReconcileNew(e) ==
  /\ CanReconcile(e)
  /\ LET item == Cached(exportVersions[e])
     IN  item # Absent /\ ~item.deleting /\ item.fins = {}
  /\ Begin(e, "addFinalizer")

ReconcileExport(e) ==
  /\ CanReconcile(e)
  /\ LET item == Cached(exportVersions[e])
     IN  item # Absent /\ ~item.deleting /\ item.fins # {}
  /\ Begin(e, "checkSpec")

SpecError ==
  /\ worker.pc = "checkSpec"
  /\ worker.item.spec.profile \in Invalid
  /\ Advance(Report("ValidationFailed", Absent, FALSE, Absent))

MissingCluster ==
  /\ worker.pc = "checkSpec"
  /\ worker.item.spec.profile \notin Invalid
  /\ cluster = Absent
  /\ Advance(Report("MissingCluster", Absent, TRUE, Absent))

MissingConnection ==
  /\ worker.pc = "checkSpec"
  /\ worker.item.spec.profile \notin Invalid
  /\ cluster # Absent
  /\ cluster.connection \notin connections
  /\ Advance(Report("MissingConnection", Absent, TRUE, Absent))

(* The cluster and its connection are there; the clock is read. *)
FoundDependencies ==
  /\ worker.pc = "checkSpec"
  /\ worker.item.spec.profile \notin Invalid
  /\ cluster # Absent
  /\ cluster.connection \in connections
  /\ Advance([worker EXCEPT !.pc = "getPrevious", !.cluster = cluster, !.at = now])

(* The Secret that was read stays at hand until it is deleted. *)
GetPreviousTarget ==
  /\ worker.pc = "getPrevious"
  /\ Advance(IF PreviousTargetOwned(worker.item)
       THEN [worker EXCEPT !.pc = "deletePrevious",
                           !.secret = secrets[worker.item.status.target]]
       ELSE [worker EXCEPT !.pc = "getSecret"])

(* Delete carries no precondition: whatever has the name now is deleted. *)
DeleteSecretAt(s) ==
  /\ secrets' = [secrets EXCEPT ![s] = Absent]
  /\ notices' = notices \cup RequestsForSecret({secrets[s]})

DeletePreviousTarget ==
  /\ worker.pc = "deletePrevious"
  /\ secrets[worker.item.status.target] # Absent
  /\ DeleteSecretAt(worker.item.status.target)
  /\ worker' = [worker EXCEPT !.pc = "getSecret", !.secret = Absent]
  /\ UNCHANGED <<exportVersions, queue, timer, environment, orphaned>>

(* The Secret is current and its kubeconfig is not refused. *)
ReuseSecret ==
  /\ worker.pc = "getSecret"
  /\ LET secret == secrets[TargetSecret(worker.item)]
     IN  /\ CurrentKubeconfigSecretState(worker.item, secret, worker.cluster.name)
         /\ Advance(Report("Exported", secret.hash, FALSE,
                           RequeueAfter(secret.hash.exp)))

(* It is missing, not current, or the workload cluster refuses it. *)
ReplaceSecret ==
  /\ worker.pc = "getSecret"
  /\ LET secret == secrets[TargetSecret(worker.item)]
     IN  /\ \/ ~CurrentKubeconfigSecretState(worker.item, secret, worker.cluster.name)
            \/ "Validate" \in Failures
         /\ Advance([worker EXCEPT !.pc = "generate", !.secret = secret])

(* generateKubeconfig *)
GenerateKubeconfig ==
  /\ worker.pc = "generate"
  /\ Advance([worker EXCEPT !.pc = "write", !.data =
       [cluster |-> worker.cluster.name, account |-> worker.cluster.connection,
        profile |-> worker.item.spec.profile, exp |-> worker.at + TTL]])

GenerateFails ==
  /\ "Kubeconfig" \in Failures
  /\ worker.pc = "generate"
  /\ Advance(Report("ExportFailed", Absent, TRUE, Absent))

(* Only the key that the status names is dropped, and only when the name of *)
(* the Secret is unchanged.                                                 *)
DroppedKeys(item) ==
  IF item.status.target = item.spec.target /\ item.status.key # item.spec.key
    THEN {item.status.key} ELSE {}

(* The Secret with our labels, annotations and data merged into it. *)
MergedSecret ==
  LET item == worker.item
      old == IF worker.secret = Absent THEN [k \in Key |-> Absent]
                                       ELSE worker.secret.data
  IN  [owner |-> item.uid, export |-> worker.key,
       specHash |-> SpecHash(item.spec, worker.cluster.name),
       hash |-> worker.data,
       data |-> [k \in Key |-> IF k = item.spec.key THEN worker.data
                               ELSE IF k \in DroppedKeys(item) THEN Absent
                               ELSE old[k]]]

(* Update of the Secret that was read, or Create of one named by the spec. *)
WriteSecret ==
  /\ worker.pc = "write"
  /\ LET s == IF worker.secret # Absent THEN TargetSecret(worker.item)
                                        ELSE worker.item.spec.target
     IN  /\ secrets[s] = worker.secret
         /\ secrets' = [secrets EXCEPT ![s] = MergedSecret]
         /\ notices' = notices \cup RequestsForSecret({secrets[s], MergedSecret})
  /\ worker' = Report("Exported", worker.data, FALSE,
                      RequeueAfter(worker.data.exp))
  /\ UNCHANGED <<exportVersions, queue, timer, environment, orphaned>>

-----------------------------------------------------------------------------
(* Writes to the export itself *)

(* Mutant: Reconcile relies on the watch event of its own update. *)
AddFinalizerMutant ==
  /\ worker.pc = "addFinalizer"
  /\ worker.item = Stored(exportVersions[worker.key])
  /\ StoreExport(worker.key, [worker.item EXCEPT !.fins = {Finalizer}])
  /\ Done(FALSE, Absent)
  /\ UNCHANGED <<secrets, notices, environment, orphaned>>

AddFinalizer ==
  /\ worker.pc = "addFinalizer"
  /\ worker.item = Stored(exportVersions[worker.key])
  /\ StoreExport(worker.key, [worker.item EXCEPT !.fins = {Finalizer}])
  /\ Done(TRUE, Absent)
  /\ UNCHANGED <<secrets, notices, environment, orphaned>>

(* updateKubeconfigExportStatus: the generation and the target are those of *)
(* the latest export, whatever spec this Reconcile worked with.             *)
NewStatus(latest) ==
  [obs |-> latest.gen, target |-> latest.spec.target, key |-> latest.spec.key,
   reason |-> worker.reason, hash |-> worker.hash]

UpdateStatus ==
  /\ worker.pc = "updateStatus"
  /\ LET latest == Cached(exportVersions[worker.key])
     IN  /\ latest # Absent
         /\ NewStatus(latest) # latest.status
         /\ latest = Stored(exportVersions[worker.key])
         /\ StoreExport(worker.key, [latest EXCEPT !.status = NewStatus(latest)])
  /\ Done(worker.again, worker.delay)
  /\ UNCHANGED <<secrets, notices, environment, orphaned>>

(* Nothing to write: the cached status says it already. *)
StatusUnchanged ==
  /\ worker.pc = "updateStatus"
  /\ LET latest == Cached(exportVersions[worker.key])
     IN  latest # Absent /\ NewStatus(latest) = latest.status
  /\ Done(worker.again, worker.delay)
  /\ UNCHANGED <<exportVersions, secrets, notices, environment, orphaned>>

(* Mutant: the Secret is looked for under the name in the status only. *)
GetTargetMutant ==
  /\ worker.pc = "getTarget"
  /\ Advance(
       IF /\ worker.item.status.target # Absent
          /\ IsOwnedSecret(worker.item, secrets[worker.item.status.target])
         THEN [worker EXCEPT !.pc = "deleteTarget",
                             !.secret = secrets[worker.item.status.target]]
         ELSE [worker EXCEPT !.pc = "removeFinalizer"])

(* Mutant: the owner is not looked at. *)
GetTargetUncheckedMutant ==
  /\ worker.pc = "getTarget"
  /\ LET secret == secrets[TargetSecret(worker.item)]
     IN  Advance(IF secret # Absent
           THEN [worker EXCEPT !.pc = "deleteTarget", !.secret = secret]
           ELSE [worker EXCEPT !.pc = "removeFinalizer"])

GetTarget ==
  /\ worker.pc = "getTarget"
  /\ LET secret == secrets[TargetSecret(worker.item)]
     IN  Advance(IF IsOwnedSecret(worker.item, secret)
           THEN [worker EXCEPT !.pc = "deleteTarget", !.secret = secret]
           ELSE [worker EXCEPT !.pc = "removeFinalizer"])

DeleteTarget ==
  /\ worker.pc = "deleteTarget"
  /\ DeleteSecretAt(TargetSecret(worker.item))
  /\ worker' = [worker EXCEPT !.pc = "removeFinalizer", !.secret = Absent]
  /\ UNCHANGED <<exportVersions, queue, timer, environment, orphaned>>

RemoveFinalizer ==
  /\ worker.pc = "removeFinalizer"
  /\ worker.item = Stored(exportVersions[worker.key])
  /\ StoreExport(worker.key, Settle([worker.item EXCEPT !.fins = {}]))
  /\ orphaned' = IF worker.item.spec.policy = "Orphan"
                   THEN orphaned \cup {worker.item.uid} ELSE orphaned
  /\ Done(FALSE, Absent)
  /\ UNCHANGED <<secrets, notices, environment>>

(* Mutant: the error is logged and not returned. *)
CallFailsMutant ==
  /\ worker.pc \in {"addFinalizer", "deletePrevious", "write", "updateStatus",
                    "deleteTarget", "removeFinalizer"}
  /\ Done(FALSE, Absent)
  /\ UNCHANGED <<exportVersions, secrets, notices, environment, orphaned>>

(* A conflict, AlreadyExists, NotFound or another error of the API server. *)
CallFails ==
  /\ worker.pc \in {"addFinalizer", "deletePrevious", "write", "updateStatus",
                    "deleteTarget", "removeFinalizer"}
  /\ Done(TRUE, Absent)
  /\ UNCHANGED <<exportVersions, secrets, notices, environment, orphaned>>

Reconcile(e) ==
  ReconcileNothing(e) \/ ReconcileDelete(e) \/ ReconcileNew(e) \/ ReconcileExport(e)

(* The calls to the API server that CallFails stands against *)
CallSucceeds ==
  \/ AddFinalizer \/ RemoveFinalizer
  \/ UpdateStatus \/ StatusUnchanged
  \/ DeletePreviousTarget \/ WriteSecret \/ DeleteTarget

WorkerStep ==
  \/ SpecError \/ MissingCluster \/ MissingConnection \/ FoundDependencies
  \/ GetPreviousTarget \/ GetTarget \/ ReuseSecret \/ ReplaceSecret
  \/ GenerateKubeconfig \/ GenerateFails
  \/ CallSucceeds \/ CallFails

-----------------------------------------------------------------------------
(* Watch events, timers and the clock *)

DeliverExport(e) ==
  /\ Len(exportVersions[e]) > 1
  /\ exportVersions' = [exportVersions EXCEPT ![e] = Tail(@)]
  /\ queue' = IF EventPasses(exportVersions[e][1], exportVersions[e][2])
                THEN queue \cup {e} ELSE queue
  /\ UNCHANGED <<timer, worker, secrets, notices, environment, orphaned>>

DeliverNotice(e) ==
  /\ e \in notices
  /\ notices' = notices \ {e}
  /\ queue' = queue \cup {e}
  /\ UNCHANGED <<exportVersions, timer, worker, secrets, environment, orphaned>>

FireTimer(e) ==
  /\ timer[e] # Absent
  /\ timer[e] <= now
  /\ timer' = [timer EXCEPT ![e] = Absent]
  /\ queue' = queue \cup {e}
  /\ UNCHANGED <<exportVersions, worker, secrets, notices, environment, orphaned>>

Tick ==
  /\ now < MaxTime
  /\ worker.cluster # Absent => now < worker.at + SlowestReconcile
  /\ now' = now + 1
  /\ UNCHANGED <<exportVersions, queue, timer, worker, secrets, notices,
                 cluster, connections, lastUid, changes, orphaned, retargeted>>

-----------------------------------------------------------------------------
(* Users, the other controllers, and crashes *)

NewExport(uid, spec) ==
  [uid |-> uid, gen |-> 1, spec |-> spec, fins |-> {}, deleting |-> FALSE,
   status |-> [obs |-> 0, target |-> Absent, key |-> Absent, reason |-> "None",
               hash |-> Absent]]

CreateExport(e) ==
  /\ "CreateExport" \in UserOps
  /\ lastUid < MaxUid
  /\ Stored(exportVersions[e]) = Absent
  /\ \E spec \in Specs : StoreExport(e, NewExport(lastUid + 1, spec))
  /\ lastUid' = lastUid + 1
  /\ UNCHANGED <<queue, timer, worker, secrets, notices, cluster, connections,
                 now, changes, orphaned, retargeted>>

UpdateExport(e) ==
  /\ "UpdateExport" \in UserOps
  /\ LET object == Stored(exportVersions[e])
     IN  /\ object # Absent
         /\ object.gen < MaxGen
         /\ \E spec \in Specs \ {object.spec} :
              /\ StoreExport(e, [object EXCEPT !.spec = spec, !.gen = @ + 1])
              /\ retargeted' = IF spec.target # object.spec.target
                                 THEN retargeted \cup {object.uid}
                                 ELSE retargeted
  /\ UNCHANGED <<queue, timer, worker, secrets, notices, cluster, connections,
                 now, lastUid, changes, orphaned>>

DeleteExport(e) ==
  /\ "DeleteExport" \in UserOps
  /\ LET object == Stored(exportVersions[e])
     IN  /\ object # Absent
         /\ ~object.deleting
         /\ StoreExport(e, Settle([object EXCEPT !.deleting = TRUE, !.gen = @ + 1]))
  /\ UNCHANGED <<queue, timer, worker, secrets, notices, environment, orphaned>>

CountChange == changes < MaxChanges /\ changes' = changes + 1

(* Somebody else writes to a Secret ... *)
TamperSecret(s) ==
  /\ "TamperSecret" \in UserOps
  /\ CountChange
  /\ secrets[s] # Absent
  /\ secrets' = [secrets EXCEPT ![s].data = [k \in Key |-> Tampered]]
  /\ notices' = notices \cup RequestsForSecret({secrets[s]})
  /\ UNCHANGED <<exportVersions, queue, timer, worker, cluster, connections,
                 now, lastUid, orphaned, retargeted>>

(* ... deletes one ... *)
DeleteSecret(s) ==
  /\ "DeleteSecret" \in UserOps
  /\ CountChange
  /\ secrets[s] # Absent
  /\ DeleteSecretAt(s)
  /\ UNCHANGED <<exportVersions, queue, timer, worker, cluster, connections,
                 now, lastUid, orphaned, retargeted>>

(* ... or creates one of their own. *)
CreateSecret(s) ==
  /\ "CreateSecret" \in UserOps
  /\ CountChange
  /\ secrets[s] = Absent
  /\ secrets' = [secrets EXCEPT ![s] =
       [owner |-> Absent, export |-> Absent, specHash |-> Absent,
        hash |-> Absent, data |-> [k \in Key |-> Tampered]]]
  /\ UNCHANGED <<exportVersions, queue, timer, worker, notices, cluster,
                 connections, now, lastUid, orphaned, retargeted>>

(* kubeconfigExportRequestsForCluster: the cached exports of the cluster *)
CachedExports == {e \in Export : Cached(exportVersions[e]) # Absent}

ChangeCluster ==
  /\ "ChangeCluster" \in UserOps
  /\ CountChange
  /\ cluster' \in (ClusterObject \cup {Absent}) \ {cluster}
  /\ queue' = queue \cup CachedExports
  /\ UNCHANGED <<exportVersions, timer, worker, secrets, notices, connections,
                 now, lastUid, orphaned, retargeted>>

(* A connection comes or goes; kubeconfigExportRequestsForConnection finds  *)
(* the exports through the cached cluster.                                  *)
ChangeConnection(k) ==
  /\ "ChangeConnection" \in UserOps
  /\ CountChange
  /\ connections' = IF k \in connections THEN connections \ {k}
                                         ELSE connections \cup {k}
  /\ queue' = IF cluster # Absent /\ cluster.connection = k
                THEN queue \cup CachedExports ELSE queue
  /\ UNCHANGED <<exportVersions, timer, worker, secrets, notices, cluster, now,
                 lastUid, orphaned, retargeted>>

(* The operator restarts: timers and the Reconcile call are lost; the       *)
(* initial list brings a request for every export.                          *)
Restart ==
  /\ "Restart" \in UserOps
  /\ exportVersions' = [e \in Export |-> <<Stored(exportVersions[e])>>]
  /\ queue' = Listed(exportVersions)
  /\ timer' = [e \in Export |-> Absent]
  /\ worker' = IdleWorker
  /\ notices' = {}
  /\ UNCHANGED <<secrets, environment, orphaned>>

Next ==
  \/ WorkerStep
  \/ \E e \in Export :
       \/ Reconcile(e)
       \/ DeliverExport(e) \/ DeliverNotice(e) \/ FireTimer(e)
       \/ CreateExport(e) \/ UpdateExport(e) \/ DeleteExport(e)
  \/ \E s \in Secret : TamperSecret(s) \/ DeleteSecret(s) \/ CreateSecret(s)
  \/ \E k \in Connection : ChangeConnection(k)
  \/ ChangeCluster \/ Restart \/ Tick

Spec == Init /\ [][Next]_vars

(* The informers deliver, timers fire, the worker goes on.  Crashes and     *)
(* outages come to an end: from then on a call fails only when it must, on  *)
(* a conflict for example.  (A step of the worker may look like a restart.) *)
Fairness ==
  /\ \A e \in Export :
       /\ WF_vars(DeliverExport(e)) /\ WF_vars(DeliverNotice(e))
       /\ WF_vars(FireTimer(e)) /\ SF_vars(Reconcile(e))
  /\ WF_vars(WorkerStep) /\ WF_vars(Tick)
  /\ <>[][~GenerateFails]_vars
  /\ <>[][CallFails => ~ENABLED CallSucceeds]_vars
  /\ <>[][Restart => WorkerStep]_vars

FairSpec == Spec /\ Fairness

-----------------------------------------------------------------------------
(* Properties *)

BusyWorker ==
  [pc : {"addFinalizer", "checkSpec", "getPrevious", "deletePrevious",
         "getSecret", "generate", "write", "updateStatus", "getTarget",
         "deleteTarget", "removeFinalizer"},
   key : Export, item : ExportObject, cluster : ClusterObject \cup {Absent},
   at : Nat, secret : SecretObject \cup {Absent},
   data : Kubeconfig \cup {Absent}, reason : Reason,
   hash : Kubeconfig \cup {Absent}, again : BOOLEAN, delay : Nat \cup {Absent}]

(* Every variable keeps its type; in particular a Secret that the operator  *)
(* has written holds kubeconfigs, and the due time of a timer is a time.    *)
TypeOK ==
  /\ exportVersions \in [Export -> Seq(ExportVersion)]
  /\ \A e \in Export : exportVersions[e] # <<>>
  /\ queue \subseteq Export /\ notices \subseteq Export
  /\ timer \in [Export -> Nat \cup {Absent}]
  /\ worker = IdleWorker \/ worker \in BusyWorker
  /\ secrets \in [Secret -> SecretObject \cup {Absent}]
  /\ cluster \in ClusterObject \cup {Absent} /\ connections \subseteq Connection
  /\ now \in Nat /\ lastUid \in Nat /\ changes \in Nat
  /\ orphaned \subseteq Nat /\ retargeted \subseteq Nat

(* A request for e is on the queue, being worked on, or on its way there. *)
Pending(e) ==
  \/ e \in queue \/ e \in notices \/ worker.key = e
  \/ \E i \in 1 .. Len(exportVersions[e]) - 1 :
       EventPasses(exportVersions[e][i], exportVersions[e][i + 1])

(* The status says Exported for the current generation. *)
ReportsExported(e) ==
  LET object == Stored(exportVersions[e])
  IN  /\ object # Absent /\ ~object.deleting
      /\ object.status.reason = "Exported" /\ object.status.obs = object.gen

(* Exported=True for the current generation means that the target Secret    *)
(* holds, under the requested key, an unaltered kubeconfig for the profile  *)
(* in the spec and for the remote cluster of today, unless a request is     *)
(* under way: no edit, tampering, deletion or conflict makes the status a   *)
(* lie for good.                                                            *)
ExportIsHonest ==
  \A e \in Export :
    LET object == Stored(exportVersions[e])
        secret == secrets[object.spec.target]
        kubeconfig == secret.data[object.spec.key]
    IN  ReportsExported(e) =>
          \/ Pending(e)
          \/ /\ secret # Absent
             /\ kubeconfig \notin {Absent, Tampered}
             /\ kubeconfig = secret.hash
             /\ kubeconfig.cluster = cluster.name
             /\ kubeconfig.profile = object.spec.profile

(* While an export is reported, its rotation is never forgotten: a request  *)
(* is under way, or the timer goes off before the kubeconfig expires, if    *)
(* Reconcile takes no longer than renewBefore.                              *)
RotationScheduled ==
  \A e \in Export :
    LET object == Stored(exportVersions[e])
        secret == secrets[object.spec.target]
    IN  ReportsExported(e) =>
          \/ Pending(e)
          \/ /\ timer[e] # Absent
             /\ secret # Absent => timer[e] <= secret.hash.exp

(* The incarnation is stored and still has its finalizer. *)
Held(uid) ==
  \E e \in Export :
    LET object == Stored(exportVersions[e])
    IN  object # Absent /\ object.uid = uid /\ object.fins # {}

(* A Secret that an export owns has that export, with its finalizer, to     *)
(* look after it, unless it was released with the Orphan policy or the      *)
(* target of the export was edited while it lived.                          *)
SecretDeletedWithExport ==
  \A s \in Secret :
    (secrets[s] # Absent /\ secrets[s].owner # Absent) =>
      \/ Held(secrets[s].owner)
      \/ secrets[s].owner \in orphaned
      \/ secrets[s].owner \in retargeted

(* The operator deletes a Secret only when the one that it has read there   *)
(* belonged to the export, and what goes is never the Secret of another     *)
(* export.  Between the look and the Delete, which carries no precondition, *)
(* others can have put a Secret of their own in the place, which then goes: *)
(* that is all that the race of reconcileDelete can cost.                   *)
DeletesOnlyOwnSecrets ==
  [][\A s \in Secret :
       (WorkerStep /\ secrets[s] # Absent /\ secrets'[s] = Absent)
         => /\ IsOwnedSecret(worker.item, worker.secret)
            /\ \/ IsOwnedSecret(worker.item, secrets[s])
               \/ secrets[s].owner = Absent]_vars

(* Nothing keeps an export from being written. *)
Exportable(e) ==
  LET object == Stored(exportVersions[e])
  IN  /\ object # Absent /\ ~object.deleting
      /\ object.spec.profile \notin Invalid
      /\ cluster # Absent /\ cluster.connection \in connections

(* An export that stays valid, with its cluster and connection there, is    *)
(* reported as exported at its current generation in the end.  A status     *)
(* update that a stale cached status suppresses is made up for no later     *)
(* than at the next rotation: the timer is then set, and only the bounded   *)
(* clock keeps it from going off.                                           *)
ExportCompletes ==
  \A e \in Export :
    Exportable(e) ~>
      \/ ~Exportable(e)
      \/ ReportsExported(e)
      \/ timer[e] # Absent /\ timer[e] > MaxTime

(* A deleted export goes away. *)
ExportDeletionCompletes ==
  \A e \in Export :
    (/\ Stored(exportVersions[e]) # Absent
     /\ Stored(exportVersions[e]).deleting)
      ~> Stored(exportVersions[e]) = Absent

-----------------------------------------------------------------------------
(* Refinement *)

(* The uids that are not stored and never will be again *)
GoneUids ==
  {u \in 1 .. lastUid :
     \A e \in Export : LET object == Stored(exportVersions[e])
                   IN  object # Absent => object.uid # u}

HeldUids == {u \in 1 .. MaxUid : Held(u)}

(* Who owns each Secret *)
SecretOwner ==
  [s \in Secret |-> IF secrets[s] = Absent THEN Absent ELSE secrets[s].owner]

Excused == orphaned \cup retargeted

Ownership == INSTANCE FinalizerOwnership WITH
  Owner <- 1 .. MaxUid,
  Place <- Secret,
  Nobody <- Absent,
  held <- HeldUids,
  gone <- GoneUids,
  owner <- SecretOwner,
  excused <- Excused

(* The export controller implements the ownership protocol: no step,        *)
(* however stale what it read, writes a Secret for an export that is        *)
(* without its finalizer at that moment, and the finalizer goes only after  *)
(* the Secret or with the user's leave.                                     *)
ImplementsOwnership == Ownership!Spec

=============================================================================
