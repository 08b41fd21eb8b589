-------------------------- MODULE ClusterLifecycle --------------------------
(***************************************************************************)
(* The life of an OmniCluster and of the OmniConnection it needs: the two  *)
(* reconcilers of internal/controller/omnicluster_controller.go and        *)
(* omniconnection_controller.go, the informer caches they read, the API    *)
(* server they write, the remote Omni accounts, the users who edit the     *)
(* objects, and restarts of the operator.                                  *)
(*                                                                         *)
(* Each object is a sequence of versions.  The head is the version the     *)
(* informer cache holds, the last one is the version the API server        *)
(* stores, and those between are watch events that are still on their way. *)
(* A version is the object or Absent.  Every read of a reconciler is a     *)
(* read of the cache; every write is checked against the stored version,   *)
(* as the API server checks the resourceVersion.                           *)
(***************************************************************************)
EXTENDS Integers, ObjectVersions

CONSTANTS
  Cluster,       \* names of OmniCluster objects, also their default remote names
  Connection,    \* names of OmniConnection objects, one Omni account each
  NameOverride,  \* values of spec.clusterName
  Unset,         \* spec.clusterName left empty
  Specs,         \* the cluster specs that users submit
  UserOps,       \* the operations that users perform and whether we restart
  Failures,      \* the calls that may fail
  MaxUid,        \* bound on the number of objects created
  MaxGen,        \* bound on spec edits of one object
  MaxLag,        \* bound on watch events on their way for one cluster
  MaxConnectionLag, \* the same for one connection
  InitialFinalizers \* sets of finalizers that objects may have at the start,
                    \* left by an earlier run or by the legacy release

ASSUME BoundsAssumption ==
  /\ MaxUid \in Nat /\ MaxGen \in Nat
  /\ MaxLag \in Nat \ {0} /\ MaxConnectionLag \in Nat \ {0}

Remote == Cluster \cup NameOverride

ClusterSpec ==
  [connectionRef : Connection, clusterName : NameOverride \cup {Unset},
   orphan : BOOLEAN, suspend : BOOLEAN]

ASSUME SpecsAssumption == Specs \subseteq ClusterSpec

ASSUME UnsetAssumption == Unset \notin NameOverride

Operation == {"CreateCluster", "UpdateCluster", "DeleteCluster",
              "CreateConnection", "DeleteConnection", "TouchChild", "Restart"}

ASSUME UserOpsAssumption == UserOps \subseteq Operation

Call == {"Render", "SyncTemplate", "StatusCluster", "DeleteRemote"}

ASSUME FailuresAssumption == Failures \subseteq Call

(* The two finalizer names that the operator recognises. *)
Finalizer == "finalizer"
LegacyFinalizer == "legacy"
Finalizers == {Finalizer, LegacyFinalizer}

ASSUME InitialFinalizersAssumption == InitialFinalizers \subseteq SUBSET Finalizers

(* Reasons of the Ready condition; "None" before the first status write. *)
Reason == {"None", "Suspended", "MissingConnection", "MissingTemplate",
           "ValidationFailed", "SyncFailed", "StatusFailed", "Synced",
           "DeleteFailed"}

ClusterObject ==
  [uid : Nat, gen : Nat, spec : ClusterSpec, fins : SUBSET Finalizers,
   deleting : BOOLEAN, status : [obs : Nat, reason : Reason]]

ConnectionObject ==
  [uid : Nat, fins : SUBSET Finalizers, deleting : BOOLEAN]

ASSUME AbsentAssumption ==
  Absent \notin ClusterObject /\ Absent \notin ConnectionObject

(* A version of an object: the object, or that there is none. *)
ClusterVersion == ClusterObject \cup {Absent}
ConnectionVersion == ConnectionObject \cup {Absent}

(* A remote cluster: who synced it last, and from which generation. *)
RemoteCluster == [by : Cluster \X Nat, gen : Nat]

ASSUME AbsentRemoteAssumption ==
  Absent \notin RemoteCluster /\ Absent \notin Cluster \X Nat

VARIABLES
  clusterVersions,     \* [Cluster -> Seq(ClusterVersion)]
  connectionVersions,  \* [Connection -> Seq(ConnectionVersion)]
  clusterQueue,        \* workqueue of the omnicluster controller
  connectionQueue,     \* workqueue of the omniconnection controller
  clusterWorker,       \* its one running Reconcile call
  connectionWorker,    \* likewise
  omni,                \* the remote clusters, by <<connection, remote name>>
  lastUid,             \* the last uid the API server handed out
  orphaned,            \* history: incarnations released in orphan mode
  retargeted,          \* history: incarnations whose remote target was edited
  keepRemote           \* history: incarnations deleted in orphan mode, and not
                       \* edited out of it since

vars == <<clusterVersions, connectionVersions, clusterQueue, connectionQueue,
          clusterWorker, connectionWorker, omni, lastUid, orphaned,
          retargeted, keepRemote>>

history == <<orphaned, retargeted, keepRemote>>

-----------------------------------------------------------------------------
(* Objects *)

(* Reconcile's test for either of its finalizers; the mutant leaves it out. *)
HasFinalizerMutant(object) == TRUE

HasFinalizer(object) ==
  Finalizer \in object.fins \/ LegacyFinalizer \in object.fins

(* omnitemplate.ClusterName *)
ClusterName(c, spec) ==
  IF spec.clusterName # Unset THEN spec.clusterName ELSE c

(* Where SyncTemplate and DeleteCluster go: an account and a remote name. *)
Target(c, spec) == <<spec.connectionRef, ClusterName(c, spec)>>

(* The predicate for connections, whose spec is not modelled. *)
ConnectionEventPasses(old, new) ==
  old = Absent \/ new = Absent \/ old.deleting # new.deleting

(* requestForClusterConnection, for the objects of one event *)
RequestForClusterConnection(objects) ==
  {o.spec.connectionRef : o \in objects \ {Absent}}

(* clustersForConnection: the cached clusters that name k *)
ClustersForConnection(k) ==
  {c \in Cluster : /\ Cached(clusterVersions[c]) # Absent
                   /\ Cached(clusterVersions[c]).spec.connectionRef = k}

-----------------------------------------------------------------------------
(* Initial state: the operator has just started and its caches are filled. *)

IdleClusterWorker ==
  [pc |-> "idle", key |-> Absent, item |-> Absent,
   reason |-> "None", observes |-> FALSE]

IdleConnectionWorker == [pc |-> "idle", key |-> Absent, item |-> Absent]

NewCluster(uid, spec, fins) ==
  [uid |-> uid, gen |-> 1, spec |-> spec, fins |-> fins, deleting |-> FALSE,
   status |-> [obs |-> 0, reason |-> "None"]]

NewConnection(uid, fins) == [uid |-> uid, fins |-> fins, deleting |-> FALSE]

Init ==
  /\ clusterVersions \in
       [Cluster -> {<<Absent>>} \cup
          {<<NewCluster(0, s, f)>> : s \in Specs, f \in InitialFinalizers}]
  /\ connectionVersions \in
       [Connection -> {<<Absent>>} \cup
          {<<NewConnection(0, f)>> : f \in InitialFinalizers}]
  /\ clusterQueue = Listed(clusterVersions)
  /\ connectionQueue = Listed(connectionVersions)
  /\ clusterWorker = IdleClusterWorker
  /\ connectionWorker = IdleConnectionWorker
  /\ omni = [t \in Connection \X Remote |-> Absent]
  /\ lastUid = 0
  /\ orphaned = {} /\ retargeted = {} /\ keepRemote = {}

-----------------------------------------------------------------------------
(* Writes *)

(* The API server stores a new version of a cluster. *)
StoreCluster(c, object) ==
  /\ Len(clusterVersions[c]) <= MaxLag
  /\ clusterVersions' =
       [clusterVersions EXCEPT ![c] = Append(@, object)]

StoreConnection(k, object) ==
  /\ Len(connectionVersions[k]) <= MaxConnectionLag
  /\ connectionVersions' =
       [connectionVersions EXCEPT ![k] = Append(@, object)]

(* Mutant: the key is read after the worker's state has been reset. *)
ClusterDoneMutant(requeue) ==
  /\ clusterWorker' = IdleClusterWorker
  /\ clusterQueue' =
       IF requeue THEN clusterQueue \cup {clusterWorker'.key} ELSE clusterQueue

(* Mutant: an error is not followed by a requeue. *)
ConnectionDoneMutant(requeue) ==
  connectionWorker' = IdleConnectionWorker /\ UNCHANGED connectionQueue

(* Reconcile returns; the key comes back when it asked for that, by        *)
(* Requeue, RequeueAfter or an error.  The delays are left out.             *)
ClusterDone(requeue) ==
  /\ clusterWorker' = IdleClusterWorker
  /\ clusterQueue' =
       IF requeue THEN clusterQueue \cup {clusterWorker.key} ELSE clusterQueue

ConnectionDone(requeue) ==
  /\ connectionWorker' = IdleConnectionWorker
  /\ connectionQueue' =
       IF requeue THEN connectionQueue \cup {connectionWorker.key}
                  ELSE connectionQueue

-----------------------------------------------------------------------------
(* OmniClusterReconciler.Reconcile *)

(* The worker takes c from the queue; its copy of c leads to step pc. *)
BeginCluster(c, pc, reason) ==
  /\ clusterWorker' =
       [pc |-> pc, key |-> c, item |-> Cached(clusterVersions[c]),
        reason |-> reason, observes |-> TRUE]
  /\ clusterQueue' = clusterQueue \ {c}
  /\ UNCHANGED <<clusterVersions, connectionVersions, connectionQueue,
                 connectionWorker, omni, lastUid, history>>

CanReconcile(c) == clusterWorker.pc = "idle" /\ c \in clusterQueue

(* Nothing to do: not found, or deleting without our finalizer. *)
ReconcileNothing(c) ==
  /\ CanReconcile(c)
  /\ LET item == Cached(clusterVersions[c])
     IN  item # Absent => item.deleting /\ ~HasFinalizer(item)
  /\ clusterQueue' = clusterQueue \ {c}
  /\ UNCHANGED <<clusterVersions, connectionVersions, connectionQueue,
                 clusterWorker, connectionWorker, omni, lastUid, history>>

ReconcileDeleteOrphan(c) ==
  /\ CanReconcile(c)
  /\ LET item == Cached(clusterVersions[c])
     IN  item # Absent /\ item.deleting /\ HasFinalizer(item) /\ item.spec.orphan
  /\ BeginCluster(c, "removeFinalizers", "None")

(* Mutant: the delete policy is not looked at. *)
ReconcileDeleteMutant(c) ==
  /\ CanReconcile(c)
  /\ LET item == Cached(clusterVersions[c])
     IN  item # Absent /\ item.deleting /\ HasFinalizer(item)
  /\ BeginCluster(c, "getConnection", "None")

ReconcileDelete(c) ==
  /\ CanReconcile(c)
  /\ LET item == Cached(clusterVersions[c])
     IN  item # Absent /\ item.deleting /\ HasFinalizer(item) /\ ~item.spec.orphan
  /\ BeginCluster(c, "getConnection", "None")

ReconcileNew(c) ==
  /\ CanReconcile(c)
  /\ LET item == Cached(clusterVersions[c])
     IN  item # Absent /\ ~item.deleting /\ ~HasFinalizer(item)
  /\ BeginCluster(c, "addFinalizer", "None")

ReconcileSuspended(c) ==
  /\ CanReconcile(c)
  /\ LET item == Cached(clusterVersions[c])
     IN  item # Absent /\ ~item.deleting /\ HasFinalizer(item) /\ item.spec.suspend
  /\ BeginCluster(c, "updateStatus", "Suspended")

ReconcileSync(c) ==
  /\ CanReconcile(c)
  /\ LET item == Cached(clusterVersions[c])
     IN  item # Absent /\ ~item.deleting /\ HasFinalizer(item) /\ ~item.spec.suspend
  /\ BeginCluster(c, "getConnection", "None")

(* The worker is at step pc and goes on to step next. *)
AdvanceCluster(next, reason, observes) ==
  /\ clusterWorker' = [clusterWorker EXCEPT !.pc = next, !.reason = reason,
                                            !.observes = observes]
  /\ UNCHANGED <<clusterVersions, connectionVersions, clusterQueue,
                 connectionQueue, connectionWorker, lastUid, history>>

CachedConnection == Cached(connectionVersions[clusterWorker.item.spec.connectionRef])

(* Get of the connection fails; markClusterFailed comes next. *)
MissingConnection ==
  /\ clusterWorker.pc = "getConnection"
  /\ CachedConnection = Absent
  /\ UNCHANGED omni
  /\ AdvanceCluster("updateStatus",
       IF clusterWorker.item.deleting THEN "DeleteFailed" ELSE "MissingConnection",
       TRUE)

(* Get of the connection succeeds on the way to DeleteCluster. *)
FoundConnectionForDelete ==
  /\ clusterWorker.pc = "getConnection"
  /\ CachedConnection # Absent
  /\ clusterWorker.item.deleting
  /\ UNCHANGED omni
  /\ AdvanceCluster("deleteRemote", "None", TRUE)

(* templateInputs, Render and Validate all succeed. *)
RenderSucceeds ==
  /\ clusterWorker.pc = "getConnection"
  /\ CachedConnection # Absent
  /\ ~clusterWorker.item.deleting
  /\ UNCHANGED omni
  /\ AdvanceCluster("sync", "None", TRUE)

(* One of them fails, as the child documents decide. *)
RenderFails ==
  /\ "Render" \in Failures
  /\ clusterWorker.pc = "getConnection"
  /\ CachedConnection # Absent
  /\ ~clusterWorker.item.deleting
  /\ UNCHANGED omni
  /\ \E reason \in {"MissingTemplate", "ValidationFailed"} :
       AdvanceCluster("updateStatus", reason, TRUE)

-----------------------------------------------------------------------------
(* The calls to Omni *)

ItemTarget == Target(clusterWorker.key, clusterWorker.item.spec)
Incarnation == <<clusterWorker.key, clusterWorker.item.uid>>

(* What SyncTemplate leaves in the account. *)
Applied ==
  [omni EXCEPT ![ItemTarget] =
     [by |-> Incarnation, gen |-> clusterWorker.item.gen]]

(* SyncTemplate succeeds; StatusCluster then succeeds or fails. *)
SyncTemplateSucceeds ==
  /\ clusterWorker.pc = "sync"
  /\ omni' = Applied
  /\ \E reason \in {"Synced", "StatusFailed"} :
       /\ reason = "StatusFailed" => "StatusCluster" \in Failures
       /\ AdvanceCluster("updateStatus", reason, TRUE)

(* Mutant: the error of SyncTemplate is dropped. *)
SyncTemplateFailsMutant ==
  /\ "SyncTemplate" \in Failures
  /\ clusterWorker.pc = "sync"
  /\ omni' \in {omni, Applied}
  /\ AdvanceCluster("updateStatus", "Synced", TRUE)

(* SyncTemplate returns an error, before or after Omni took the template. *)
SyncTemplateFails ==
  /\ "SyncTemplate" \in Failures
  /\ clusterWorker.pc = "sync"
  /\ omni' \in {omni, Applied}
  /\ AdvanceCluster("updateStatus", "SyncFailed", TRUE)

DeleteRemoteSucceeds ==
  /\ clusterWorker.pc = "deleteRemote"
  /\ omni' = [omni EXCEPT ![ItemTarget] = Absent]
  /\ AdvanceCluster("removeFinalizers", "None", TRUE)

(* Mutant: the error is logged and the finalizers are removed all the same. *)
DeleteRemoteFailsMutant ==
  /\ "DeleteRemote" \in Failures
  /\ clusterWorker.pc = "deleteRemote"
  /\ omni' \in {omni, [omni EXCEPT ![ItemTarget] = Absent]}
  /\ AdvanceCluster("removeFinalizers", "None", TRUE)

(* DeleteCluster returns an error, before or after the remote is gone.  The *)
(* status update that follows leaves observedGeneration alone.              *)
DeleteRemoteFails ==
  /\ "DeleteRemote" \in Failures
  /\ clusterWorker.pc = "deleteRemote"
  /\ omni' \in {omni, [omni EXCEPT ![ItemTarget] = Absent]}
  /\ AdvanceCluster("updateStatus", "DeleteFailed", FALSE)

-----------------------------------------------------------------------------
(* The cluster worker's writes to the API server *)

(* Mutant: the generation comes from the object that is being written. *)
NewStatusMutant(latest) ==
  [obs |-> latest.gen, reason |-> clusterWorker.reason]

(* updateClusterStatus: what mutate makes of the latest status. *)
NewStatus(latest) ==
  [obs |-> IF clusterWorker.observes THEN clusterWorker.item.gen
                                     ELSE latest.status.obs,
   reason |-> clusterWorker.reason]

(* The retry loop of updateClusterStatus gets its read of the cache and its *)
(* write in before the object changes again.                                *)
UpdateClusterStatus ==
  /\ clusterWorker.pc = "updateStatus"
  /\ LET c == clusterWorker.key
         latest == Cached(clusterVersions[c])
     IN  /\ latest # Absent
         /\ latest = Stored(clusterVersions[c])
         /\ StoreCluster(c, [latest EXCEPT !.status = NewStatus(latest)])
  /\ ClusterDone(TRUE)
  /\ UNCHANGED <<connectionVersions, connectionQueue, connectionWorker, omni,
                 lastUid, history>>

(* Mutant: Reconcile relies on the watch event of its own update. *)
AddClusterFinalizerMutant ==
  /\ clusterWorker.pc = "addFinalizer"
  /\ clusterWorker.item = Stored(clusterVersions[clusterWorker.key])
  /\ StoreCluster(clusterWorker.key,
                  [clusterWorker.item EXCEPT !.fins = @ \cup {Finalizer}])
  /\ ClusterDone(FALSE)
  /\ UNCHANGED <<connectionVersions, connectionQueue, connectionWorker, omni,
                 lastUid, history>>

(* Update with the resourceVersion of the copy that Reconcile started from. *)
AddClusterFinalizer ==
  /\ clusterWorker.pc = "addFinalizer"
  /\ LET c == clusterWorker.key
         item == clusterWorker.item
     IN  /\ item = Stored(clusterVersions[c])
         /\ StoreCluster(c, [item EXCEPT !.fins = @ \cup {Finalizer}])
  /\ ClusterDone(TRUE)
  /\ UNCHANGED <<connectionVersions, connectionQueue, connectionWorker, omni,
                 lastUid, history>>

RemoveClusterFinalizers ==
  /\ clusterWorker.pc = "removeFinalizers"
  /\ LET c == clusterWorker.key
         item == clusterWorker.item
     IN  /\ item = Stored(clusterVersions[c])
         /\ StoreCluster(c, Settle([item EXCEPT !.fins = @ \ Finalizers]))
         /\ orphaned' =
              IF item.spec.orphan THEN orphaned \cup {Incarnation} ELSE orphaned
  /\ ClusterDone(FALSE)
  /\ UNCHANGED <<connectionVersions, connectionQueue, connectionWorker, omni,
                 lastUid, retargeted, keepRemote>>

(* Mutant: a conflict is taken for success. *)
ClusterWriteFailsMutant ==
  /\ clusterWorker.pc \in {"addFinalizer", "removeFinalizers", "updateStatus"}
  /\ ClusterDone(FALSE)
  /\ UNCHANGED <<clusterVersions, connectionVersions, connectionQueue,
                 connectionWorker, omni, lastUid, history>>

(* A conflict, a missing object or any other error of the API server. *)
ClusterWriteFails ==
  /\ clusterWorker.pc \in {"addFinalizer", "removeFinalizers", "updateStatus"}
  /\ ClusterDone(TRUE)
  /\ UNCHANGED <<clusterVersions, connectionVersions, connectionQueue,
                 connectionWorker, omni, lastUid, history>>

ReconcileCluster(c) ==
  \/ ReconcileNothing(c)
  \/ ReconcileDeleteOrphan(c)
  \/ ReconcileDelete(c)
  \/ ReconcileNew(c)
  \/ ReconcileSuspended(c)
  \/ ReconcileSync(c)

ClusterWorkerStep ==
  \/ MissingConnection
  \/ FoundConnectionForDelete
  \/ RenderSucceeds
  \/ RenderFails
  \/ SyncTemplateSucceeds
  \/ SyncTemplateFails
  \/ DeleteRemoteSucceeds
  \/ DeleteRemoteFails
  \/ UpdateClusterStatus
  \/ AddClusterFinalizer
  \/ RemoveClusterFinalizers
  \/ ClusterWriteFails

-----------------------------------------------------------------------------
(* OmniConnectionReconciler.Reconcile *)

BeginConnection(k, pc) ==
  /\ connectionWorker' =
       [pc |-> pc, key |-> k, item |-> Cached(connectionVersions[k])]
  /\ connectionQueue' = connectionQueue \ {k}
  /\ UNCHANGED <<clusterVersions, connectionVersions, clusterQueue,
                 clusterWorker, omni, lastUid, history>>

CanReconcileConnection(k) ==
  connectionWorker.pc = "idle" /\ k \in connectionQueue

ReconcileConnectionNothing(k) ==
  /\ CanReconcileConnection(k)
  /\ LET item == Cached(connectionVersions[k])
     IN  item # Absent => item.deleting /\ ~HasFinalizer(item)
  /\ connectionQueue' = connectionQueue \ {k}
  /\ UNCHANGED <<clusterVersions, connectionVersions, clusterQueue,
                 clusterWorker, connectionWorker, omni, lastUid, history>>

ReconcileConnectionDelete(k) ==
  /\ CanReconcileConnection(k)
  /\ LET item == Cached(connectionVersions[k])
     IN  item # Absent /\ item.deleting /\ HasFinalizer(item)
  /\ BeginConnection(k, "listReferences")

ReconcileConnectionNew(k) ==
  /\ CanReconcileConnection(k)
  /\ LET item == Cached(connectionVersions[k])
     IN  item # Absent /\ ~item.deleting /\ ~HasFinalizer(item)
  /\ BeginConnection(k, "addFinalizer")

(* Ping changes nothing; its outcome goes into the status. *)
ReconcileConnectionPing(k) ==
  /\ CanReconcileConnection(k)
  /\ LET item == Cached(connectionVersions[k])
     IN  item # Absent /\ ~item.deleting /\ HasFinalizer(item)
  /\ BeginConnection(k, "updateStatus")

(* Mutant: a cluster that is being deleted does not count. *)
ReferencingClustersMutant(k) ==
  {c \in ClustersForConnection(k) : ~Cached(clusterVersions[c]).deleting}

(* referencingClusterNames, from the cache of clusters *)
ReferencingClusters(k) ==
  {c \in Cluster : /\ Cached(clusterVersions[c]) # Absent
                   /\ Cached(clusterVersions[c]).spec.connectionRef = k}

ListReferences ==
  /\ connectionWorker.pc = "listReferences"
  /\ connectionWorker' =
       [connectionWorker EXCEPT !.pc =
          IF ReferencingClusters(connectionWorker.key) = {}
            THEN "removeFinalizers" ELSE "updateStatus"]
  /\ UNCHANGED <<clusterVersions, connectionVersions, clusterQueue,
                 connectionQueue, clusterWorker, omni, lastUid, history>>

(* updateConnectionStatus: the conditions are left out, the version is not. *)
UpdateConnectionStatus ==
  /\ connectionWorker.pc = "updateStatus"
  /\ LET k == connectionWorker.key
         latest == Cached(connectionVersions[k])
     IN  /\ latest # Absent
         /\ latest = Stored(connectionVersions[k])
         /\ StoreConnection(k, latest)
  /\ ConnectionDone(TRUE)
  /\ UNCHANGED <<clusterVersions, clusterQueue, clusterWorker, omni, lastUid,
                 history>>

AddConnectionFinalizer ==
  /\ connectionWorker.pc = "addFinalizer"
  /\ LET k == connectionWorker.key
         item == connectionWorker.item
     IN  /\ item = Stored(connectionVersions[k])
         /\ StoreConnection(k, [item EXCEPT !.fins = @ \cup {Finalizer}])
  /\ ConnectionDone(TRUE)
  /\ UNCHANGED <<clusterVersions, clusterQueue, clusterWorker, omni, lastUid,
                 history>>

(* removeFinalizers reads the connection afresh from the cache ... *)
RemoveConnectionFinalizers ==
  /\ connectionWorker.pc = "removeFinalizers"
  /\ LET k == connectionWorker.key
         latest == Cached(connectionVersions[k])
     IN  /\ latest # Absent
         /\ latest = Stored(connectionVersions[k])
         /\ StoreConnection(k, Settle([latest EXCEPT !.fins = @ \ Finalizers]))
  /\ ConnectionDone(FALSE)
  /\ UNCHANGED <<clusterVersions, clusterQueue, clusterWorker, omni, lastUid,
                 history>>

(* ... and is content when it is gone. *)
ConnectionAlreadyGone ==
  /\ connectionWorker.pc = "removeFinalizers"
  /\ Cached(connectionVersions[connectionWorker.key]) = Absent
  /\ ConnectionDone(FALSE)
  /\ UNCHANGED <<clusterVersions, connectionVersions, clusterQueue,
                 clusterWorker, omni, lastUid, history>>

ConnectionWriteFails ==
  /\ connectionWorker.pc \in {"addFinalizer", "removeFinalizers", "updateStatus"}
  /\ ConnectionDone(TRUE)
  /\ UNCHANGED <<clusterVersions, connectionVersions, clusterQueue,
                 clusterWorker, omni, lastUid, history>>

ReconcileConnection(k) ==
  \/ ReconcileConnectionNothing(k)
  \/ ReconcileConnectionDelete(k)
  \/ ReconcileConnectionNew(k)
  \/ ReconcileConnectionPing(k)

ConnectionWorkerStep ==
  \/ ListReferences
  \/ UpdateConnectionStatus
  \/ AddConnectionFinalizer
  \/ RemoveConnectionFinalizers
  \/ ConnectionAlreadyGone
  \/ ConnectionWriteFails

-----------------------------------------------------------------------------
(* The informers: a watch event reaches the cache and the event handlers. *)

DeliverCluster(c) ==
  /\ Len(clusterVersions[c]) > 1
  /\ clusterVersions' = [clusterVersions EXCEPT ![c] = Tail(@)]
  /\ LET old == clusterVersions[c][1]
         new == clusterVersions[c][2]
     IN  IF EventPasses(old, new)
           THEN /\ clusterQueue' = clusterQueue \cup {c}
                /\ connectionQueue' = connectionQueue
                     \cup RequestForClusterConnection({old, new})
           ELSE UNCHANGED <<clusterQueue, connectionQueue>>
  /\ UNCHANGED <<connectionVersions, clusterWorker, connectionWorker, omni,
                 lastUid, history>>

DeliverConnection(k) ==
  /\ Len(connectionVersions[k]) > 1
  /\ connectionVersions' = [connectionVersions EXCEPT ![k] = Tail(@)]
  /\ IF ConnectionEventPasses(connectionVersions[k][1], connectionVersions[k][2])
       THEN /\ connectionQueue' = connectionQueue \cup {k}
            /\ clusterQueue' = clusterQueue \cup ClustersForConnection(k)
       ELSE UNCHANGED <<clusterQueue, connectionQueue>>
  /\ UNCHANGED <<clusterVersions, clusterWorker, connectionWorker, omni,
                 lastUid, history>>

(* A watch event of a child document (control plane, workers or machine)    *)
(* wakes the clusters it refers and referred to, which need not exist.      *)
WakeClusters(refs) ==
  /\ "TouchChild" \in UserOps
  /\ clusterQueue' = clusterQueue \cup refs
  /\ UNCHANGED <<clusterVersions, connectionVersions, connectionQueue,
                 clusterWorker, connectionWorker, omni, lastUid, history>>

-----------------------------------------------------------------------------
(* Users and crashes *)

(* The API server counts edits of the spec, and the deletion, in            *)
(* metadata.generation.                                                     *)
NextGeneration(object) == [object EXCEPT !.gen = @ + 1]
EditedCluster(object, spec) == [NextGeneration(object) EXCEPT !.spec = spec]
MarkedCluster(object) == [NextGeneration(object) EXCEPT !.deleting = TRUE]

CreateCluster(c) ==
  /\ "CreateCluster" \in UserOps
  /\ lastUid < MaxUid
  /\ Stored(clusterVersions[c]) = Absent
  /\ lastUid' = lastUid + 1
  /\ \E s \in Specs : StoreCluster(c, NewCluster(lastUid + 1, s, {}))
  /\ UNCHANGED <<connectionVersions, clusterQueue, connectionQueue,
                 clusterWorker, connectionWorker, omni, history>>

(* An edit of the spec, of a deleting object too; the webhook lets any      *)
(* field of it change.                                                      *)
UpdateCluster(c) ==
  /\ "UpdateCluster" \in UserOps
  /\ LET object == Stored(clusterVersions[c])
     IN  /\ object # Absent
         /\ object.gen < MaxGen
         /\ \E s \in Specs \ {object.spec} :
              /\ StoreCluster(c, EditedCluster(object, s))
              /\ retargeted' =
                   IF Target(c, s) # Target(c, object.spec)
                     THEN retargeted \cup {<<c, object.uid>>} ELSE retargeted
              /\ keepRemote' =
                   IF s.orphan THEN keepRemote
                               ELSE keepRemote \ {<<c, object.uid>>}
  /\ UNCHANGED <<connectionVersions, clusterQueue, connectionQueue,
                 clusterWorker, connectionWorker, omni, lastUid, orphaned>>

(* The API server marks the object, or drops it when nothing holds it. *)
DeleteCluster(c) ==
  /\ "DeleteCluster" \in UserOps
  /\ LET object == Stored(clusterVersions[c])
     IN  /\ object # Absent
         /\ ~object.deleting
         /\ StoreCluster(c, Settle(MarkedCluster(object)))
         /\ keepRemote' =
              IF object.spec.orphan THEN keepRemote \cup {<<c, object.uid>>}
                                    ELSE keepRemote
  /\ UNCHANGED <<connectionVersions, clusterQueue, connectionQueue,
                 clusterWorker, connectionWorker, omni, lastUid, orphaned,
                 retargeted>>

CreateConnection(k) ==
  /\ "CreateConnection" \in UserOps
  /\ lastUid < MaxUid
  /\ Stored(connectionVersions[k]) = Absent
  /\ lastUid' = lastUid + 1
  /\ StoreConnection(k, NewConnection(lastUid + 1, {}))
  /\ UNCHANGED <<clusterVersions, clusterQueue, connectionQueue,
                 clusterWorker, connectionWorker, omni, history>>

DeleteConnection(k) ==
  /\ "DeleteConnection" \in UserOps
  /\ LET object == Stored(connectionVersions[k])
     IN  /\ object # Absent
         /\ ~object.deleting
         /\ StoreConnection(k, Settle([object EXCEPT !.deleting = TRUE]))
  /\ UNCHANGED <<clusterVersions, clusterQueue, connectionQueue,
                 clusterWorker, connectionWorker, omni, lastUid, history>>

(* The operator dies and starts again: the Reconcile calls and the queues   *)
(* are lost, the caches are filled by a fresh list.                         *)
Restart ==
  /\ "Restart" \in UserOps
  /\ clusterVersions' =
       [c \in Cluster |-> <<Stored(clusterVersions[c])>>]
  /\ connectionVersions' =
       [k \in Connection |-> <<Stored(connectionVersions[k])>>]
  /\ clusterQueue' = Listed(clusterVersions)
  /\ connectionQueue' = Listed(connectionVersions)
  /\ clusterWorker' = IdleClusterWorker
  /\ connectionWorker' = IdleConnectionWorker
  /\ UNCHANGED <<omni, lastUid, history>>

-----------------------------------------------------------------------------

ClusterStep(c) ==
  \/ ReconcileCluster(c)
  \/ DeliverCluster(c)
  \/ CreateCluster(c)
  \/ UpdateCluster(c)
  \/ DeleteCluster(c)

ConnectionStep(k) ==
  \/ ReconcileConnection(k)
  \/ DeliverConnection(k)
  \/ CreateConnection(k)
  \/ DeleteConnection(k)

Next ==
  \/ ClusterWorkerStep
  \/ ConnectionWorkerStep
  \/ \E c \in Cluster : ClusterStep(c)
  \/ \E k \in Connection : ConnectionStep(k)
  \/ \E refs \in SUBSET Cluster : WakeClusters(refs)
  \/ Restart

Spec == Init /\ [][Next]_vars

(* The informers deliver and the workers keep taking requests and steps;    *)
(* crashes of the operator and outages of Omni come to an end; a write that *)
(* is retried for ever with a fresh copy succeeds some time.  (A step of a  *)
(* worker may look like a restart.)                                         *)
Fairness ==
  /\ \A c \in Cluster : WF_vars(DeliverCluster(c)) /\ SF_vars(ReconcileCluster(c))
  /\ \A k \in Connection :
       WF_vars(DeliverConnection(k)) /\ SF_vars(ReconcileConnection(k))
  /\ WF_vars(ClusterWorkerStep) /\ WF_vars(ConnectionWorkerStep)
  /\ <>[][~SyncTemplateFails /\ ~DeleteRemoteFails]_vars
  /\ <>[][Restart => ClusterWorkerStep \/ ConnectionWorkerStep]_vars
  /\ SF_vars(AddClusterFinalizer)
  /\ SF_vars(RemoveClusterFinalizers)
  /\ SF_vars(UpdateClusterStatus)
  /\ SF_vars(RemoveConnectionFinalizers)

FairSpec == Spec /\ Fairness

-----------------------------------------------------------------------------
(* Properties *)

BusyClusterWorker ==
  [pc : {"addFinalizer", "getConnection", "sync", "deleteRemote",
         "removeFinalizers", "updateStatus"},
   key : Cluster, item : ClusterObject, reason : Reason, observes : BOOLEAN]

BusyConnectionWorker ==
  [pc : {"addFinalizer", "listReferences", "removeFinalizers", "updateStatus"},
   key : Connection, item : ConnectionObject]

(* Every variable keeps its type: in particular a workqueue only ever holds *)
(* names of objects of its kind, and a running Reconcile has its object.    *)
TypeOK ==
  /\ clusterVersions \in [Cluster -> Seq(ClusterVersion)]
  /\ \A c \in Cluster : clusterVersions[c] # <<>>
  /\ connectionVersions \in [Connection -> Seq(ConnectionVersion)]
  /\ \A k \in Connection : connectionVersions[k] # <<>>
  /\ clusterQueue \subseteq Cluster
  /\ connectionQueue \subseteq Connection
  /\ clusterWorker = IdleClusterWorker \/ clusterWorker \in BusyClusterWorker
  /\ \/ connectionWorker = IdleConnectionWorker
     \/ connectionWorker \in BusyConnectionWorker
  /\ omni \in [Connection \X Remote -> RemoteCluster \cup {Absent}]
  /\ lastUid \in Nat
  /\ orphaned \subseteq Cluster \X Nat
  /\ retargeted \subseteq Cluster \X Nat
  /\ keepRemote \subseteq Cluster \X Nat

(* The incarnation is stored and still has a finalizer of ours. *)
Held(c, uid) ==
  LET object == Stored(clusterVersions[c])
  IN  object # Absent /\ object.uid = uid /\ object.fins # {}

(* Reconcile works on a copy that said "not deleting": from the moment it   *)
(* is past the finalizer check until it has written the status, the object  *)
(* it stands for is stored with its finalizer, however stale the copy is,   *)
(* so a remote cluster is never created for an object that is already gone. *)
SyncHoldsFinalizer ==
  (/\ clusterWorker.pc \in {"getConnection", "sync", "updateStatus"}
   /\ ~clusterWorker.item.deleting)
     => Held(clusterWorker.key, clusterWorker.item.uid)

(* A remote cluster is never left without an owner: the object that synced  *)
(* it is stored with its finalizer, unless it was released in orphan mode   *)
(* or its connectionRef or clusterName was edited while it lived.           *)
RemoteHasOwner ==
  \A t \in Connection \X Remote :
    omni[t] # Absent =>
      \/ Held(omni[t].by[1], omni[t].by[2])
      \/ omni[t].by \in orphaned
      \/ omni[t].by \in retargeted

(* A cluster that was deleted in orphan mode, and left in it, never has its *)
(* remote cluster deleted, although an edit and the delete may both still   *)
(* be on their way to the cache.                                            *)
OrphanKeepsRemote ==
  clusterWorker.pc = "deleteRemote" => Incarnation \notin keepRemote

(* Once the stored status reports the current generation as suspended, no   *)
(* sync of that cluster is under way or can start before the next edit.     *)
SuspendBarrier ==
  (/\ clusterWorker.pc \in {"getConnection", "sync"}
   /\ ~clusterWorker.item.deleting)
     => LET object == Stored(clusterVersions[clusterWorker.key])
        IN  ~(object.status.reason = "Suspended" /\ object.status.obs = object.gen)

(* The status says Ready for the current generation. *)
ReportsReady(c) ==
  LET object == Stored(clusterVersions[c])
  IN  /\ object # Absent /\ ~object.deleting
      /\ object.status.reason = "Synced" /\ object.status.obs = object.gen

(* Ready=True for the current generation means that the remote cluster is   *)
(* there and was last synced from exactly that generation.                  *)
ReadyIsHonest ==
  \A c \in Cluster :
    LET object == Stored(clusterVersions[c])
    IN  ReportsReady(c) =>
          omni[Target(c, object.spec)] =
            [by |-> <<c, object.uid>>, gen |-> object.gen]

(* A connection that some stored cluster refers to keeps its finalizer      *)
(* while it is being deleted, so the cluster's own finalizer can still use  *)
(* it: its removal is never the step that strands a cluster.                *)
ConnectionHeldWhileReferenced ==
  [][\A k \in Connection :
       (/\ Stored(connectionVersions[k]) # Absent
        /\ Stored(connectionVersions[k]).fins # {}
        /\ Stored(connectionVersions'[k]) = Absent)
         => \A c \in Cluster :
              \/ Stored(clusterVersions[c]) = Absent
              \/ Stored(clusterVersions[c]).spec.connectionRef # k]_vars

(* The connection is stored and will not go without its reconciler. *)
Reachable(k) ==
  LET object == Stored(connectionVersions[k])
  IN  object # Absent /\ object.fins # {}

(* c is being deleted, and what its deletion needs is there. *)
DeletableCluster(c) ==
  LET object == Stored(clusterVersions[c])
  IN  /\ object # Absent /\ object.deleting
      /\ object.spec.orphan \/ Reachable(object.spec.connectionRef)

(* A deleted cluster goes away, whatever the interleaving of conflicts,     *)
(* failed calls and deletion of the connection, provided the connection has *)
(* got its finalizer by then.                                               *)
DeletionCompletes ==
  \A c \in Cluster :
    DeletableCluster(c) ~> Stored(clusterVersions[c]) = Absent

(* c is there to be synced. *)
SyncableCluster(c) ==
  LET object == Stored(clusterVersions[c])
  IN  /\ object # Absent /\ ~object.deleting /\ ~object.spec.suspend
      /\ Reachable(object.spec.connectionRef)

(* A cluster that is neither suspended nor deleted, and whose connection    *)
(* stays, is reported as ready at its current generation in the end: no     *)
(* order of edits, conflicts and filtered watch events loses the request    *)
(* that would do it.  (Its templates render.)                               *)
SyncCompletes ==
  \A c \in Cluster :
    []<>(SyncableCluster(c) => ReportsReady(c))

(* A deleted connection goes away once every cluster that refers to it is   *)
(* being deleted as well: the two finalizers never wait for each other.     *)
ConnectionDeletionCompletes ==
  \A k \in Connection :
    (/\ Stored(connectionVersions[k]) # Absent
     /\ Stored(connectionVersions[k]).deleting
     /\ \A c \in Cluster :
          Stored(clusterVersions[c]) # Absent =>
            Stored(clusterVersions[c]).deleting)
      ~> Stored(connectionVersions[k]) = Absent

-----------------------------------------------------------------------------
(* Refinement *)

Incarnations == Cluster \X (0 .. MaxUid)

(* The incarnations that are not stored and never will be again *)
GoneIncarnations ==
  {i \in Incarnations :
     /\ i[2] <= lastUid
     /\ \/ Stored(clusterVersions[i[1]]) = Absent
        \/ Stored(clusterVersions[i[1]]).uid # i[2]}

HeldIncarnations == {i \in Incarnations : Held(i[1], i[2])}

(* Who synced a remote cluster last *)
RemoteOwner ==
  [t \in Connection \X Remote |-> IF omni[t] = Absent THEN Absent ELSE omni[t].by]

(* The incarnations that users have told to leave something behind *)
Excused == orphaned \cup retargeted

Ownership == INSTANCE FinalizerOwnership WITH
  Owner <- Incarnations,
  Place <- Connection \X Remote,
  Nobody <- Absent,
  held <- HeldIncarnations,
  gone <- GoneIncarnations,
  owner <- RemoteOwner,
  excused <- Excused

(* The cluster controller implements the ownership protocol: each of its    *)
(* steps, however stale what it read, is a step of the protocol or does not *)
(* show in it.  A remote cluster is only ever made by an OmniCluster that   *)
(* has its finalizer at that moment, and a finalizer goes only after the    *)
(* remote cluster or with the user's leave.                                 *)
ImplementsOwnership == Ownership!Spec

=============================================================================
