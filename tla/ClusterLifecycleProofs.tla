----------------------- MODULE ClusterLifecycleProofs -----------------------
(***************************************************************************)
(* Proofs about ClusterLifecycle, for every set of clusters, connections   *)
(* and specs, every set of user operations and failures and every bound.   *)
(***************************************************************************)
EXTENDS ClusterLifecycle, ObjectVersionsProofs

-----------------------------------------------------------------------------
(* Objects and writes keep their types. *)

(* What the API server keeps of a cluster is a version of it. *)
LEMMA SettleType ==
  /\ \A o \in ClusterObject : Settle(o) \in ClusterVersion
  /\ \A o \in ConnectionObject : Settle(o) \in ConnectionVersion
  BY DEF Settle, ClusterVersion, ConnectionVersion

(* A target is an account and a remote name. *)
LEMMA TargetType ==
  ASSUME NEW c \in Cluster, NEW s \in ClusterSpec
  PROVE  /\ s.connectionRef \in Connection
         /\ Target(c, s) \in Connection \X Remote
  BY DEF Target, ClusterName, ClusterSpec, Remote

(* A new cluster is well formed. *)
LEMMA NewClusterType ==
  ASSUME NEW u \in Nat, NEW s \in ClusterSpec, NEW f \in SUBSET Finalizers
  PROVE  NewCluster(u, s, f) \in ClusterObject
  BY DEF NewCluster, ClusterObject, Reason

(* A new connection is well formed. *)
LEMMA NewConnectionType ==
  ASSUME NEW u \in Nat, NEW f \in SUBSET Finalizers
  PROVE  NewConnection(u, f) \in ConnectionObject
  BY DEF NewConnection, ConnectionObject

(* An edit changes the spec and the generation of an object, nothing else. *)
LEMMA EditedClusterType ==
  ASSUME NEW o \in ClusterObject, NEW s \in ClusterSpec
  PROVE  LET e == EditedCluster(o, s)
         IN  /\ e \in ClusterObject
             /\ e.uid = o.uid /\ e.spec = s /\ e.fins = o.fins
             /\ e.deleting = o.deleting
             /\ e.gen = o.gen + 1 /\ e.status = o.status
  <1> DEFINE n == NextGeneration(o)
  <1>1. /\ n \in ClusterObject
        /\ n.uid = o.uid /\ n.fins = o.fins /\ n.deleting = o.deleting
        /\ n.gen = o.gen + 1 /\ n.status = o.status
    BY DEF NextGeneration, ClusterObject
  <1> HIDE DEF n
  <1>2. LET e == [n EXCEPT !.spec = s]
        IN  /\ e \in ClusterObject
            /\ e.uid = n.uid /\ e.spec = s /\ e.fins = n.fins
            /\ e.deleting = n.deleting
            /\ e.gen = n.gen /\ e.status = n.status
    BY <1>1 DEF ClusterObject
  <1> QED  BY <1>1, <1>2 DEF n, EditedCluster

(* A delete request marks an object, and keeps its uid, spec and finalizers. *)
LEMMA MarkedClusterType ==
  ASSUME NEW o \in ClusterObject
  PROVE  LET m == MarkedCluster(o)
         IN  /\ m \in ClusterObject
             /\ m.uid = o.uid /\ m.spec = o.spec /\ m.fins = o.fins
             /\ m.deleting /\ m.gen = o.gen + 1 /\ m.status = o.status
  <1> DEFINE n == NextGeneration(o)
  <1>1. /\ n \in ClusterObject
        /\ n.uid = o.uid /\ n.fins = o.fins /\ n.spec = o.spec
        /\ n.gen = o.gen + 1 /\ n.status = o.status
    BY DEF NextGeneration, ClusterObject
  <1> HIDE DEF n
  <1>2. LET m == [n EXCEPT !.deleting = TRUE]
        IN  /\ m \in ClusterObject
            /\ m.uid = n.uid /\ m.spec = n.spec /\ m.fins = n.fins
            /\ m.deleting /\ m.gen = n.gen /\ m.status = n.status
    BY <1>1 DEF ClusterObject
  <1> QED  BY <1>1, <1>2 DEF n, MarkedCluster

(* The two ends of the version sequences, under the type invariant. *)
LEMMA EndsType ==
  ASSUME TypeOK
  PROVE  /\ \A c \in Cluster :
              /\ Cached(clusterVersions[c]) \in ClusterVersion
              /\ Stored(clusterVersions[c]) \in ClusterVersion
         /\ \A k \in Connection :
              /\ Cached(connectionVersions[k]) \in ConnectionVersion
              /\ Stored(connectionVersions[k]) \in ConnectionVersion
  BY EndsOfVersions DEF TypeOK

(* Storing a version keeps the version sequences of clusters well formed. *)
LEMMA StoreClusterType ==
  ASSUME TypeOK, NEW c \in Cluster, NEW x \in ClusterVersion,
         StoreCluster(c, x)
  PROVE  /\ clusterVersions' \in [Cluster -> Seq(ClusterVersion)]
         /\ \A d \in Cluster : clusterVersions'[d] # <<>>
  <1>1. clusterVersions[c] \in Seq(ClusterVersion)
    BY DEF TypeOK
  <1>2. /\ Append(clusterVersions[c], x) \in Seq(ClusterVersion)
        /\ Append(clusterVersions[c], x) # <<>>
    BY <1>1, AppendVersion
  <1> QED  BY <1>2 DEF TypeOK, StoreCluster

(* The same for connections. *)
LEMMA StoreConnectionType ==
  ASSUME TypeOK, NEW k \in Connection, NEW x \in ConnectionVersion,
         StoreConnection(k, x)
  PROVE  /\ connectionVersions' \in [Connection -> Seq(ConnectionVersion)]
         /\ \A d \in Connection : connectionVersions'[d] # <<>>
  <1>1. connectionVersions[k] \in Seq(ConnectionVersion)
    BY DEF TypeOK
  <1>2. /\ Append(connectionVersions[k], x) \in Seq(ConnectionVersion)
        /\ Append(connectionVersions[k], x) # <<>>
    BY <1>1, AppendVersion
  <1> QED  BY <1>2 DEF TypeOK, StoreConnection

(* A worker that is not idle has an object of the right type. *)
LEMMA BusyType ==
  ASSUME TypeOK
  PROVE  /\ clusterWorker.pc # "idle" => clusterWorker \in BusyClusterWorker
         /\ connectionWorker.pc # "idle" => connectionWorker \in BusyConnectionWorker
  BY DEF TypeOK, IdleClusterWorker, IdleConnectionWorker

(* The initial states are well typed. *)
LEMMA InitType == Init => TypeOK
  <1> SUFFICES ASSUME Init PROVE TypeOK
    OBVIOUS
  <1>1. /\ clusterVersions \in [Cluster -> Seq(ClusterVersion)]
        /\ \A c \in Cluster : clusterVersions[c] # <<>>
    <2>1. \A s \in Specs, f \in InitialFinalizers :
            NewCluster(0, s, f) \in ClusterObject
      BY NewClusterType, SpecsAssumption, InitialFinalizersAssumption
    <2> DEFINE V == {<<Absent>>} \cup
          {<<NewCluster(0, s, f)>> : s \in Specs, f \in InitialFinalizers}
    <2>2. \A v \in V : v \in Seq(ClusterVersion) /\ v # <<>>
      <3> SUFFICES ASSUME NEW v \in V
                   PROVE  v \in Seq(ClusterVersion) /\ v # <<>>
        OBVIOUS
      <3>1. PICK x \in ClusterVersion : v = <<x>>
        BY <2>1 DEF ClusterVersion
      <3> QED  BY <3>1, OneVersion
    <2>3. clusterVersions \in [Cluster -> V]
      BY DEF Init
    <2> HIDE DEF V
    <2> QED  BY <2>2, <2>3
  <1>2. /\ connectionVersions \in [Connection -> Seq(ConnectionVersion)]
        /\ \A k \in Connection : connectionVersions[k] # <<>>
    <2>1. \A f \in InitialFinalizers : NewConnection(0, f) \in ConnectionObject
      BY NewConnectionType, InitialFinalizersAssumption
    <2> DEFINE V == {<<Absent>>} \cup
          {<<NewConnection(0, f)>> : f \in InitialFinalizers}
    <2>2. \A v \in V : v \in Seq(ConnectionVersion) /\ v # <<>>
      BY <2>1, OneVersion DEF ClusterVersion, ConnectionVersion
    <2>3. connectionVersions \in [Connection -> V]
      BY DEF Init
    <2> HIDE DEF V
    <2> QED  BY <2>2, <2>3
  <1>3. clusterQueue \subseteq Cluster /\ connectionQueue \subseteq Connection
    BY <1>1, <1>2 DEF Init, Listed
  <1> QED  BY <1>1, <1>2, <1>3 DEF Init, TypeOK

-----------------------------------------------------------------------------
(* Each action keeps the types. *)

(* Taking a cluster from the queue keeps the types. *)
LEMMA ClusterReconcileType ==
  ASSUME TypeOK, NEW c \in Cluster, ReconcileCluster(c)
  PROVE  TypeOK'
  <1> DEFINE item == Cached(clusterVersions[c])
  <1>1. item \in ClusterVersion
    BY EndsType
  <1>2. ASSUME NEW pc \in {"addFinalizer", "getConnection", "removeFinalizers",
                           "updateStatus"},
               NEW reason \in Reason, item # Absent, BeginCluster(c, pc, reason)
        PROVE  TypeOK'
    <2>1. clusterWorker' \in BusyClusterWorker
      BY <1>1, <1>2 DEF BeginCluster, BusyClusterWorker, ClusterVersion
    <2> QED  BY <1>2, <2>1 DEF TypeOK, BeginCluster, history, Cached, Stored
  <1>3. CASE ReconcileNothing(c)
    BY <1>3 DEF ReconcileNothing, TypeOK, history
  <1>4. {"None", "Suspended"} \subseteq Reason
    BY DEF Reason
  <1>5. CASE ReconcileDeleteOrphan(c)
    BY <1>2, <1>4, <1>5 DEF ReconcileDeleteOrphan
  <1>6. CASE ReconcileDelete(c)
    BY <1>2, <1>4, <1>6 DEF ReconcileDelete
  <1>7. CASE ReconcileNew(c)
    BY <1>2, <1>4, <1>7 DEF ReconcileNew
  <1>8. CASE ReconcileSuspended(c)
    BY <1>2, <1>4, <1>8 DEF ReconcileSuspended
  <1>9. CASE ReconcileSync(c)
    BY <1>2, <1>4, <1>9 DEF ReconcileSync
  <1> QED
    BY <1>3, <1>5, <1>6, <1>7, <1>8, <1>9 DEF ReconcileCluster

(* So does a step inside the cluster Reconcile. *)
LEMMA AdvanceType ==
  ASSUME TypeOK, clusterWorker.pc # "idle",
         NEW pc \in {"sync", "deleteRemote", "removeFinalizers", "updateStatus"},
         NEW reason \in Reason, NEW observes \in BOOLEAN,
         AdvanceCluster(pc, reason, observes),
         omni' \in [Connection \X Remote -> RemoteCluster \cup {Absent}]
  PROVE  TypeOK'
  <1>1. clusterWorker \in BusyClusterWorker
    BY BusyType
  <1>2. clusterWorker' \in BusyClusterWorker
    BY <1>1 DEF AdvanceCluster, BusyClusterWorker
  <1> QED  BY <1>2 DEF TypeOK, AdvanceCluster, history

(* The end of a cluster Reconcile leaves a well-formed queue and worker. *)
LEMMA ClusterDoneType ==
  ASSUME TypeOK, clusterWorker.pc # "idle", NEW requeue \in BOOLEAN,
         ClusterDone(requeue)
  PROVE  clusterWorker' = IdleClusterWorker /\ clusterQueue' \subseteq Cluster
  BY BusyType DEF TypeOK, ClusterDone, BusyClusterWorker

(* The same for the connection worker. *)
LEMMA ConnectionDoneType ==
  ASSUME TypeOK, connectionWorker.pc # "idle", NEW requeue \in BOOLEAN,
         ConnectionDone(requeue)
  PROVE  /\ connectionWorker' = IdleConnectionWorker
         /\ connectionQueue' \subseteq Connection
  BY BusyType DEF TypeOK, ConnectionDone, BusyConnectionWorker

(* Every step of the cluster worker keeps the types. *)
LEMMA ClusterWorkerType ==
  ASSUME TypeOK, ClusterWorkerStep
  PROVE  TypeOK'
  <1>1. clusterWorker.pc # "idle"
    BY DEF ClusterWorkerStep, MissingConnection, FoundConnectionForDelete,
           RenderSucceeds, RenderFails, SyncTemplateSucceeds, SyncTemplateFails,
           DeleteRemoteSucceeds, DeleteRemoteFails, UpdateClusterStatus,
           AddClusterFinalizer, RemoveClusterFinalizers, ClusterWriteFails
  <1>2. /\ clusterWorker \in BusyClusterWorker
        /\ clusterWorker.key \in Cluster
        /\ clusterWorker.item \in ClusterObject
        /\ clusterWorker.item.spec \in ClusterSpec
    BY <1>1, BusyType DEF BusyClusterWorker, ClusterObject
  <1>3. omni \in [Connection \X Remote -> RemoteCluster \cup {Absent}]
    BY DEF TypeOK
  <1>4. Applied \in [Connection \X Remote -> RemoteCluster \cup {Absent}]
    <2>1. [by |-> Incarnation, gen |-> clusterWorker.item.gen] \in RemoteCluster
      BY <1>2 DEF Incarnation, RemoteCluster, ClusterObject
    <2> QED  BY <1>3, <2>1 DEF Applied
  <1>5. [omni EXCEPT ![ItemTarget] = Absent] \in
          [Connection \X Remote -> RemoteCluster \cup {Absent}]
    BY <1>3
  <1>6. {"None", "MissingConnection", "MissingTemplate", "ValidationFailed",
         "SyncFailed", "StatusFailed", "Synced", "DeleteFailed"} \subseteq Reason
    BY DEF Reason
  <1>7. CASE MissingConnection
    BY <1>1, <1>3, <1>6, <1>7, AdvanceType DEF MissingConnection
  <1>8. CASE FoundConnectionForDelete
    BY <1>1, <1>3, <1>6, <1>8, AdvanceType DEF FoundConnectionForDelete
  <1>9. CASE RenderSucceeds
    BY <1>1, <1>3, <1>6, <1>9, AdvanceType DEF RenderSucceeds
  <1>10. CASE RenderFails
    BY <1>1, <1>3, <1>6, <1>10, AdvanceType DEF RenderFails
  <1>11. CASE SyncTemplateSucceeds
    BY <1>1, <1>4, <1>6, <1>11, AdvanceType DEF SyncTemplateSucceeds
  <1>12. CASE SyncTemplateFails
    BY <1>1, <1>3, <1>4, <1>6, <1>12, AdvanceType DEF SyncTemplateFails
  <1>13. CASE DeleteRemoteSucceeds
    BY <1>1, <1>5, <1>6, <1>13, AdvanceType DEF DeleteRemoteSucceeds
  <1>14. CASE DeleteRemoteFails
    BY <1>1, <1>3, <1>5, <1>6, <1>14, AdvanceType DEF DeleteRemoteFails
  <1>15. CASE UpdateClusterStatus
    <2> DEFINE latest == Cached(clusterVersions[clusterWorker.key])
               new == [latest EXCEPT !.status = NewStatus(latest)]
    <2>1. latest \in ClusterObject
      BY <1>2, <1>15, EndsType DEF UpdateClusterStatus, ClusterVersion
    <2>2. NewStatus(latest) \in [obs : Nat, reason : Reason]
      BY <1>2, <2>1 DEF NewStatus, BusyClusterWorker, ClusterObject
    <2>3. new \in ClusterVersion
      BY <2>1, <2>2 DEF ClusterObject, ClusterVersion
    <2> HIDE DEF new
    <2>4. StoreCluster(clusterWorker.key, new) /\ ClusterDone(TRUE)
      BY <1>15 DEF UpdateClusterStatus, new
    <2> QED
      BY <1>1, <1>2, <1>15, <2>3, <2>4, StoreClusterType, ClusterDoneType
         DEF UpdateClusterStatus, TypeOK, history
  <1>16. CASE AddClusterFinalizer
    <2> DEFINE new == [clusterWorker.item EXCEPT !.fins = @ \cup {Finalizer}]
    <2>1. new \in ClusterVersion
      BY <1>2 DEF ClusterObject, ClusterVersion, Finalizers
    <2> HIDE DEF new
    <2>2. StoreCluster(clusterWorker.key, new) /\ ClusterDone(TRUE)
      BY <1>16 DEF AddClusterFinalizer, new
    <2> QED
      BY <1>1, <1>2, <1>16, <2>1, <2>2, StoreClusterType, ClusterDoneType
         DEF AddClusterFinalizer, TypeOK, history
  <1>17. CASE RemoveClusterFinalizers
    <2> DEFINE new == Settle([clusterWorker.item EXCEPT !.fins = @ \ Finalizers])
    <2>1. [clusterWorker.item EXCEPT !.fins = @ \ Finalizers] \in ClusterObject
      BY <1>2 DEF ClusterObject
    <2>2. new \in ClusterVersion
      BY <2>1, SettleType
    <2> HIDE DEF new
    <2>3. StoreCluster(clusterWorker.key, new) /\ ClusterDone(FALSE)
      BY <1>17 DEF RemoveClusterFinalizers, new
    <2>4. orphaned' \subseteq Cluster \X Nat
      BY <1>2, <1>17 DEF RemoveClusterFinalizers, Incarnation, TypeOK, ClusterObject
    <2> QED
      BY <1>1, <1>2, <1>17, <2>2, <2>3, <2>4, StoreClusterType, ClusterDoneType
         DEF RemoveClusterFinalizers, TypeOK
  <1>18. CASE ClusterWriteFails
    BY <1>1, <1>18, ClusterDoneType DEF ClusterWriteFails, TypeOK, history
  <1> QED
    BY <1>7, <1>8, <1>9, <1>10, <1>11, <1>12, <1>13, <1>14, <1>15, <1>16, <1>17,
       <1>18 DEF ClusterWorkerStep

(* Taking a connection from the queue keeps the types. *)
LEMMA ConnectionReconcileType ==
  ASSUME TypeOK, NEW k \in Connection, ReconcileConnection(k)
  PROVE  TypeOK'
  <1> DEFINE item == Cached(connectionVersions[k])
  <1>1. item \in ConnectionVersion
    BY EndsType
  <1>2. ASSUME NEW pc \in {"addFinalizer", "listReferences", "updateStatus"},
               item # Absent, BeginConnection(k, pc)
        PROVE  TypeOK'
    <2>1. connectionWorker' \in BusyConnectionWorker
      BY <1>1, <1>2 DEF BeginConnection, BusyConnectionWorker, ConnectionVersion
    <2> QED  BY <1>2, <2>1 DEF TypeOK, BeginConnection, history
  <1>3. CASE ReconcileConnectionNothing(k)
    BY <1>3 DEF ReconcileConnectionNothing, TypeOK, history
  <1>4. CASE ReconcileConnectionDelete(k)
    BY <1>2, <1>4 DEF ReconcileConnectionDelete
  <1>5. CASE ReconcileConnectionNew(k)
    BY <1>2, <1>5 DEF ReconcileConnectionNew
  <1>6. CASE ReconcileConnectionPing(k)
    BY <1>2, <1>6 DEF ReconcileConnectionPing
  <1> QED  BY <1>3, <1>4, <1>5, <1>6 DEF ReconcileConnection

(* Every step of the connection worker keeps the types. *)
LEMMA ConnectionWorkerType ==
  ASSUME TypeOK, ConnectionWorkerStep
  PROVE  TypeOK'
  <1>1. connectionWorker.pc # "idle"
    BY DEF ConnectionWorkerStep, ListReferences, UpdateConnectionStatus,
           AddConnectionFinalizer, RemoveConnectionFinalizers,
           ConnectionAlreadyGone, ConnectionWriteFails
  <1>2. /\ connectionWorker \in BusyConnectionWorker
        /\ connectionWorker.key \in Connection
        /\ connectionWorker.item \in ConnectionObject
    BY <1>1, BusyType DEF BusyConnectionWorker
  <1>3. Cached(connectionVersions[connectionWorker.key]) \in ConnectionVersion
    BY <1>2, EndsType
  <1>4. CASE ListReferences
    <2>1. connectionWorker' \in BusyConnectionWorker
      BY <1>2, <1>4 DEF ListReferences, BusyConnectionWorker
    <2> QED  BY <1>4, <2>1 DEF ListReferences, TypeOK, history
  <1>5. CASE UpdateConnectionStatus
    BY <1>1, <1>2, <1>3, <1>5, StoreConnectionType, ConnectionDoneType
       DEF UpdateConnectionStatus, TypeOK, history
  <1>6. CASE AddConnectionFinalizer
    <2> DEFINE new == [connectionWorker.item EXCEPT !.fins = @ \cup {Finalizer}]
    <2>1. new \in ConnectionVersion
      BY <1>2 DEF ConnectionObject, ConnectionVersion, Finalizers
    <2> HIDE DEF new
    <2>2. StoreConnection(connectionWorker.key, new) /\ ConnectionDone(TRUE)
      BY <1>6 DEF AddConnectionFinalizer, new
    <2> QED
      BY <1>1, <1>2, <1>6, <2>1, <2>2, StoreConnectionType, ConnectionDoneType
         DEF AddConnectionFinalizer, TypeOK, history
  <1>7. CASE RemoveConnectionFinalizers
    <2> DEFINE latest == Cached(connectionVersions[connectionWorker.key])
               new == Settle([latest EXCEPT !.fins = @ \ Finalizers])
    <2>1. latest \in ConnectionObject
      BY <1>3, <1>7 DEF RemoveConnectionFinalizers, ConnectionVersion
    <2>2. [latest EXCEPT !.fins = @ \ Finalizers] \in ConnectionObject
      BY <2>1 DEF ConnectionObject
    <2>3. new \in ConnectionVersion
      BY <2>2, SettleType
    <2> HIDE DEF new
    <2>4. StoreConnection(connectionWorker.key, new) /\ ConnectionDone(FALSE)
      BY <1>7 DEF RemoveConnectionFinalizers, new
    <2> QED
      BY <1>1, <1>2, <1>7, <2>3, <2>4, StoreConnectionType, ConnectionDoneType
         DEF RemoveConnectionFinalizers, TypeOK, history
  <1>8. CASE ConnectionAlreadyGone
    BY <1>1, <1>8, ConnectionDoneType DEF ConnectionAlreadyGone, TypeOK, history
  <1>9. CASE ConnectionWriteFails
    BY <1>1, <1>9, ConnectionDoneType DEF ConnectionWriteFails, TypeOK, history
  <1> QED
    BY <1>4, <1>5, <1>6, <1>7, <1>8, <1>9 DEF ConnectionWorkerStep

(* A watch event of a cluster keeps the types. *)
LEMMA DeliverClusterType ==
  ASSUME TypeOK, NEW c \in Cluster, DeliverCluster(c)
  PROVE  TypeOK'
  <1>1. clusterVersions[c] \in Seq(ClusterVersion) /\ Len(clusterVersions[c]) > 1
    BY DEF TypeOK, DeliverCluster
  <1>2. Tail(clusterVersions[c]) \in Seq(ClusterVersion)
        /\ Tail(clusterVersions[c]) # <<>>
    BY <1>1, TailVersion
  <1>3. RequestForClusterConnection({clusterVersions[c][1], clusterVersions[c][2]})
          \subseteq Connection
    <2>1. clusterVersions[c][1] \in ClusterVersion
          /\ clusterVersions[c][2] \in ClusterVersion
      BY <1>1
    <2> QED
      BY <2>1 DEF RequestForClusterConnection, ClusterVersion, ClusterObject,
                  ClusterSpec
  <1>4. clusterQueue' \subseteq Cluster /\ connectionQueue' \subseteq Connection
    BY <1>3 DEF DeliverCluster, TypeOK
  <1>5. /\ clusterVersions' \in [Cluster -> Seq(ClusterVersion)]
        /\ \A d \in Cluster : clusterVersions'[d] # <<>>
    BY <1>2 DEF DeliverCluster, TypeOK
  <1> QED  BY <1>4, <1>5 DEF DeliverCluster, TypeOK, history

(* A watch event of a connection keeps the types. *)
LEMMA DeliverConnectionType ==
  ASSUME TypeOK, NEW k \in Connection, DeliverConnection(k)
  PROVE  TypeOK'
  <1>1. connectionVersions[k] \in Seq(ConnectionVersion)
        /\ Len(connectionVersions[k]) > 1
    BY DEF TypeOK, DeliverConnection
  <1>2. Tail(connectionVersions[k]) \in Seq(ConnectionVersion)
        /\ Tail(connectionVersions[k]) # <<>>
    BY <1>1, TailVersion
  <1>3. clusterQueue' \subseteq Cluster /\ connectionQueue' \subseteq Connection
    BY DEF DeliverConnection, TypeOK, ClustersForConnection
  <1>4. /\ connectionVersions' \in [Connection -> Seq(ConnectionVersion)]
        /\ \A d \in Connection : connectionVersions'[d] # <<>>
    BY <1>2 DEF DeliverConnection, TypeOK
  <1> QED  BY <1>3, <1>4 DEF DeliverConnection, TypeOK, history

(* What users do to clusters keeps the types. *)
LEMMA UserClusterType ==
  ASSUME TypeOK, NEW c \in Cluster,
         CreateCluster(c) \/ UpdateCluster(c) \/ DeleteCluster(c)
  PROVE  TypeOK'
  <1> DEFINE object == Stored(clusterVersions[c])
  <1>1. object \in ClusterVersion
    BY EndsType
  <1>2. CASE CreateCluster(c)
    <2>1. PICK s \in Specs : StoreCluster(c, NewCluster(lastUid + 1, s, {}))
      BY <1>2 DEF CreateCluster
    <2>2. lastUid + 1 \in Nat /\ s \in ClusterSpec
      BY SpecsAssumption DEF TypeOK
    <2>3. NewCluster(lastUid + 1, s, {}) \in ClusterVersion
      BY <2>2, NewClusterType DEF ClusterVersion
    <2> QED
      BY <1>2, <2>1, <2>2, <2>3, StoreClusterType DEF CreateCluster, TypeOK, history
  <1>3. CASE UpdateCluster(c)
    <2>1. object \in ClusterObject
      BY <1>1, <1>3 DEF UpdateCluster, ClusterVersion
    <2>2. PICK s \in Specs :
            /\ StoreCluster(c, EditedCluster(object, s))
            /\ retargeted' = IF Target(c, s) # Target(c, object.spec)
                               THEN retargeted \cup {<<c, object.uid>>}
                               ELSE retargeted
            /\ keepRemote' = IF s.orphan THEN keepRemote
                               ELSE keepRemote \ {<<c, object.uid>>}
      BY <1>3 DEF UpdateCluster
    <2>3. EditedCluster(object, s) \in ClusterVersion
      BY <2>1, SpecsAssumption, EditedClusterType DEF ClusterVersion
    <2>4. retargeted' \subseteq Cluster \X Nat /\ keepRemote' \subseteq Cluster \X Nat
      BY <2>1, <2>2 DEF TypeOK, ClusterObject
    <2> QED
      BY <1>3, <2>2, <2>3, <2>4, StoreClusterType DEF UpdateCluster, TypeOK
  <1>4. CASE DeleteCluster(c)
    <2> DEFINE new == MarkedCluster(object)
    <2>1. object \in ClusterObject
      BY <1>1, <1>4 DEF DeleteCluster, ClusterVersion
    <2>2. new \in ClusterObject
      BY <2>1, MarkedClusterType
    <2>3. Settle(new) \in ClusterVersion
      BY <2>2, SettleType
    <2>4. StoreCluster(c, Settle(new))
      BY <1>4 DEF DeleteCluster
    <2>5. keepRemote' \subseteq Cluster \X Nat
      BY <1>4, <2>1 DEF DeleteCluster, TypeOK, ClusterObject
    <2> HIDE DEF new
    <2> QED
      BY <1>4, <2>3, <2>4, <2>5, StoreClusterType DEF DeleteCluster, TypeOK
  <1> QED  BY <1>2, <1>3, <1>4

(* What users do to connections keeps the types. *)
LEMMA UserConnectionType ==
  ASSUME TypeOK, NEW k \in Connection,
         CreateConnection(k) \/ DeleteConnection(k)
  PROVE  TypeOK'
  <1> DEFINE object == Stored(connectionVersions[k])
  <1>1. object \in ConnectionVersion
    BY EndsType
  <1>2. CASE CreateConnection(k)
    <2>1. lastUid + 1 \in Nat
      BY DEF TypeOK
    <2>2. NewConnection(lastUid + 1, {}) \in ConnectionVersion
      BY <2>1, NewConnectionType DEF ConnectionVersion
    <2> QED
      BY <1>2, <2>1, <2>2, StoreConnectionType DEF CreateConnection, TypeOK, history
  <1>3. CASE DeleteConnection(k)
    <2> DEFINE new == [object EXCEPT !.deleting = TRUE]
    <2>1. new \in ConnectionObject
      BY <1>1, <1>3 DEF DeleteConnection, ConnectionVersion, ConnectionObject
    <2>2. Settle(new) \in ConnectionVersion
      BY <2>1, SettleType
    <2>3. StoreConnection(k, Settle(new))
      BY <1>3 DEF DeleteConnection
    <2> HIDE DEF new
    <2> QED
      BY <1>3, <2>2, <2>3, StoreConnectionType DEF DeleteConnection, TypeOK, history
  <1> QED  BY <1>2, <1>3

(* A restart keeps the types. *)
LEMMA RestartType ==
  ASSUME TypeOK, Restart
  PROVE  TypeOK'
  <1>1. /\ clusterVersions' \in [Cluster -> Seq(ClusterVersion)]
        /\ \A c \in Cluster : clusterVersions'[c] # <<>>
    <2>1. \A c \in Cluster : /\ <<Stored(clusterVersions[c])>> \in Seq(ClusterVersion)
                             /\ <<Stored(clusterVersions[c])>> # <<>>
      BY EndsType, OneVersion
    <2> QED  BY <2>1 DEF Restart
  <1>2. /\ connectionVersions' \in [Connection -> Seq(ConnectionVersion)]
        /\ \A k \in Connection : connectionVersions'[k] # <<>>
    <2>1. \A k \in Connection :
            /\ <<Stored(connectionVersions[k])>> \in Seq(ConnectionVersion)
            /\ <<Stored(connectionVersions[k])>> # <<>>
      BY EndsType, OneVersion
    <2> QED  BY <2>1 DEF Restart
  <1>3. clusterQueue' \subseteq Cluster /\ connectionQueue' \subseteq Connection
    BY DEF Restart, Listed, TypeOK
  <1> QED  BY <1>1, <1>2, <1>3 DEF Restart, TypeOK, history

(* Every step keeps the types. *)
LEMMA StepType == TypeOK /\ [Next]_vars => TypeOK'
  <1> SUFFICES ASSUME TypeOK, [Next]_vars PROVE TypeOK'
    OBVIOUS
  <1>1. CASE ClusterWorkerStep
    BY <1>1, ClusterWorkerType
  <1>2. CASE ConnectionWorkerStep
    BY <1>2, ConnectionWorkerType
  <1>3. ASSUME NEW c \in Cluster, ClusterStep(c) PROVE TypeOK'
    BY <1>3, ClusterReconcileType, DeliverClusterType, UserClusterType
       DEF ClusterStep
  <1>4. ASSUME NEW k \in Connection, ConnectionStep(k) PROVE TypeOK'
    BY <1>4, ConnectionReconcileType, DeliverConnectionType, UserConnectionType
       DEF ConnectionStep
  <1>5. CASE Restart
    BY <1>5, RestartType
  <1>6. CASE UNCHANGED vars
    BY <1>6 DEF vars, history, TypeOK
  <1>7. ASSUME NEW refs \in SUBSET Cluster, WakeClusters(refs) PROVE TypeOK'
    BY <1>7 DEF WakeClusters, history, TypeOK
  <1> QED  BY <1>1, <1>2, <1>3, <1>4, <1>5, <1>6, <1>7 DEF Next

(* The two reconcilers, the informers, users and restarts keep every        *)
(* variable in its type, whatever the names, specs and bounds are.          *)
THEOREM TypeCorrect == Spec => []TypeOK
  <1> QED  BY InitType, StepType, PTL DEF Spec

-----------------------------------------------------------------------------
(* The inductive invariant behind SyncHoldsFinalizer and RemoteHasOwner.    *)
(* It speaks of every version of an object that somebody can still see: the *)
(* cached one, those on their way, and the copy that Reconcile holds.       *)

Indices(c) == 1 .. Len(clusterVersions[c])

(* Not deleting and with a finalizer: a copy that leads Reconcile to sync. *)
Live(v) == v # Absent /\ ~v.deleting /\ v.fins # {}

(* A visible copy that leads to a sync stands for an object that is held. *)
LiveIsHeld ==
  \A c \in Cluster : \A i \in Indices(c) :
    Live(clusterVersions[c][i]) => Held(c, clusterVersions[c][i].uid)

(* Later versions of a deleting incarnation are deleting too. *)
DeletionIsFinal ==
  \A c \in Cluster : \A i, j \in Indices(c) :
    LET v == clusterVersions[c][i]
        w == clusterVersions[c][j]
    IN  i <= j /\ v # Absent /\ w # Absent /\ v.uid = w.uid /\ v.deleting
          => w.deleting

(* Uids in use have been handed out. *)
UidsIssued ==
  /\ \A c \in Cluster : \A i \in Indices(c) :
       clusterVersions[c][i] # Absent => clusterVersions[c][i].uid <= lastUid
  /\ clusterWorker.pc # "idle" => clusterWorker.item.uid <= lastUid
  /\ \A t \in Connection \X Remote : omni[t] # Absent => omni[t].by[2] <= lastUid

(* Reconcile is on its way out only with a deleting copy, and syncs only    *)
(* with one that is not; when its copy is deleting, so is every copy of     *)
(* that incarnation it could read next.                                     *)
WorkerDeletes ==
  clusterWorker.pc # "idle" =>
    /\ clusterWorker.pc \in {"deleteRemote", "removeFinalizers"}
         => clusterWorker.item.deleting
    /\ clusterWorker.pc = "sync" => ~clusterWorker.item.deleting
    /\ clusterWorker.item.deleting =>
         \A i \in Indices(clusterWorker.key) :
           LET v == clusterVersions[clusterWorker.key][i]
           IN  v # Absent /\ v.uid = clusterWorker.item.uid => v.deleting

HeldInv ==
  /\ TypeOK
  /\ LiveIsHeld
  /\ DeletionIsFinal
  /\ UidsIssued
  /\ WorkerDeletes
  /\ SyncHoldsFinalizer

(* Unless its target was edited, all copies of an incarnation, the stored   *)
(* one, and the remote clusters it synced agree on the target.              *)
SameTarget ==
  \A c \in Cluster :
    LET o == Stored(clusterVersions[c])
    IN  o # Absent /\ <<c, o.uid>> \notin retargeted =>
          /\ \A i \in Indices(c) :
               LET v == clusterVersions[c][i]
               IN  v # Absent /\ v.uid = o.uid => Target(c, v.spec) = Target(c, o.spec)
          /\ clusterWorker.pc # "idle" /\ clusterWorker.key = c
               /\ clusterWorker.item.uid = o.uid => ItemTarget = Target(c, o.spec)
          /\ \A t \in Connection \X Remote :
               omni[t] # Absent /\ omni[t].by = <<c, o.uid>> => t = Target(c, o.spec)

(* When the finalizers of a cluster that is not orphaned are about to go,   *)
(* no remote cluster is left that only they would lead to.                  *)
RemoteGone ==
  clusterWorker.pc = "removeFinalizers" /\ ~clusterWorker.item.spec.orphan =>
    \A t \in Connection \X Remote :
      omni[t] # Absent /\ omni[t].by = Incarnation
        => Incarnation \in orphaned \/ Incarnation \in retargeted

OwnerInv ==
  /\ HeldInv
  /\ SameTarget
  /\ RemoteGone
  /\ RemoteHasOwner

-----------------------------------------------------------------------------
(* How the three kinds of change move versions about. *)

(* The types of an object that is read out of the version sequences. *)
LEMMA VersionType ==
  ASSUME TypeOK, NEW c \in Cluster
  PROVE  /\ clusterVersions[c] \in Seq(ClusterVersion)
         /\ Len(clusterVersions[c]) \in Nat /\ Len(clusterVersions[c]) >= 1
         /\ 1 \in Indices(c) /\ Len(clusterVersions[c]) \in Indices(c)
         /\ \A i \in Indices(c) : clusterVersions[c][i] \in ClusterVersion
         /\ Cached(clusterVersions[c]) = clusterVersions[c][1]
         /\ Stored(clusterVersions[c]) = clusterVersions[c][Len(clusterVersions[c])]
         /\ Stored(clusterVersions[c]) \in ClusterVersion
  <1>1. clusterVersions[c] \in Seq(ClusterVersion) /\ clusterVersions[c] # <<>>
    BY DEF TypeOK
  <1>2. /\ Len(clusterVersions[c]) \in Nat /\ Len(clusterVersions[c]) >= 1
        /\ Cached(clusterVersions[c]) = clusterVersions[c][1]
        /\ Stored(clusterVersions[c]) = clusterVersions[c][Len(clusterVersions[c])]
        /\ Stored(clusterVersions[c]) \in ClusterVersion
    BY <1>1, EndsOfVersions
  <1> QED  BY <1>1, <1>2 DEF Indices

(* A write adds one version at the end, and touches one cluster only. *)
LEMMA AppendStored ==
  ASSUME TypeOK, NEW c \in Cluster, NEW x \in ClusterVersion, StoreCluster(c, x)
  PROVE  /\ Indices(c)' = Indices(c) \cup {Len(clusterVersions[c]) + 1}
         /\ \A i \in Indices(c) :
              /\ i < Len(clusterVersions[c]) + 1
              /\ clusterVersions'[c][i] = clusterVersions[c][i]
         /\ clusterVersions'[c][Len(clusterVersions[c]) + 1] = x
         /\ Stored(clusterVersions'[c]) = x
         /\ \A d \in Cluster \ {c} : /\ clusterVersions'[d] = clusterVersions[d]
                                     /\ Indices(d)' = Indices(d)
  <1>1. clusterVersions[c] \in Seq(ClusterVersion)
        /\ Len(clusterVersions[c]) \in Nat
    BY VersionType
  <1>2. clusterVersions'[c] = Append(clusterVersions[c], x)
        /\ \A d \in Cluster \ {c} : clusterVersions'[d] = clusterVersions[d]
    BY DEF StoreCluster, TypeOK
  <1>3. /\ Len(clusterVersions'[c]) = Len(clusterVersions[c]) + 1
        /\ clusterVersions'[c][Len(clusterVersions[c]) + 1] = x
        /\ \A i \in 1 .. Len(clusterVersions[c]) :
             clusterVersions'[c][i] = clusterVersions[c][i]
    BY <1>1, <1>2, AppendVersion
  <1> QED  BY <1>1, <1>2, <1>3 DEF Indices, Stored

(* A delivery drops the head and leaves the stored version alone. *)
LEMMA DeliverStored ==
  ASSUME TypeOK, NEW c \in Cluster, DeliverCluster(c)
  PROVE  /\ \A i \in Indices(c)' :
              /\ i + 1 \in Indices(c)
              /\ clusterVersions'[c][i] = clusterVersions[c][i + 1]
         /\ Stored(clusterVersions'[c]) = Stored(clusterVersions[c])
         /\ \A d \in Cluster \ {c} : /\ clusterVersions'[d] = clusterVersions[d]
                                     /\ Indices(d)' = Indices(d)
  <1>1. clusterVersions[c] \in Seq(ClusterVersion) /\ Len(clusterVersions[c]) \in Nat
        /\ Len(clusterVersions[c]) > 1
    BY VersionType DEF DeliverCluster
  <1>2. clusterVersions'[c] = Tail(clusterVersions[c])
        /\ \A d \in Cluster \ {c} : clusterVersions'[d] = clusterVersions[d]
    BY DEF DeliverCluster, TypeOK
  <1>3. /\ Len(clusterVersions'[c]) = Len(clusterVersions[c]) - 1
        /\ \A i \in 1 .. Len(clusterVersions[c]) - 1 :
             clusterVersions'[c][i] = clusterVersions[c][i + 1]
    BY <1>1, <1>2, TailVersion
  <1> QED  BY <1>1, <1>2, <1>3 DEF Indices, Stored

(* A restart leaves the stored version alone, as the only one. *)
LEMMA RestartStored ==
  ASSUME TypeOK, Restart, NEW c \in Cluster
  PROVE  /\ Indices(c)' = {1}
         /\ clusterVersions'[c][1] = Stored(clusterVersions[c])
         /\ Stored(clusterVersions'[c]) = Stored(clusterVersions[c])
  <1>1. clusterVersions'[c] = <<Stored(clusterVersions[c])>>
    BY DEF Restart
  <1> QED  BY <1>1 DEF Indices, Stored

-----------------------------------------------------------------------------
(* HeldInv is inductive. *)

(* HeldInv holds when the operator starts. *)
LEMMA InitHeld == Init => HeldInv
  <1> SUFFICES ASSUME Init PROVE HeldInv
    OBVIOUS
  <1>1. TypeOK
    BY InitType
  <1>2. \A c \in Cluster :
          /\ Indices(c) = {1}
          /\ clusterVersions[c][1] # Absent =>
               clusterVersions[c][1] \in ClusterObject /\ clusterVersions[c][1].uid = 0
          /\ Stored(clusterVersions[c]) = clusterVersions[c][1]
    <2> SUFFICES ASSUME NEW c \in Cluster
                 PROVE  /\ Indices(c) = {1}
                        /\ clusterVersions[c][1] # Absent =>
                             /\ clusterVersions[c][1] \in ClusterObject
                             /\ clusterVersions[c][1].uid = 0
                        /\ Stored(clusterVersions[c]) = clusterVersions[c][1]
      OBVIOUS
    <2>1. \/ clusterVersions[c] = <<Absent>>
          \/ \E s \in Specs, f \in InitialFinalizers :
               clusterVersions[c] = <<NewCluster(0, s, f)>>
      BY DEF Init
    <2>2. CASE clusterVersions[c] = <<Absent>>
      BY <2>2 DEF Indices, Stored
    <2>3. ASSUME NEW s \in Specs, NEW f \in InitialFinalizers,
                 clusterVersions[c] = <<NewCluster(0, s, f)>>
          PROVE  /\ Indices(c) = {1}
                 /\ clusterVersions[c][1] \in ClusterObject
                 /\ clusterVersions[c][1].uid = 0
                 /\ Stored(clusterVersions[c]) = clusterVersions[c][1]
      <3>1. NewCluster(0, s, f) \in ClusterObject /\ NewCluster(0, s, f).uid = 0
        BY NewClusterType, SpecsAssumption, InitialFinalizersAssumption DEF NewCluster
      <3> QED  BY <2>3, <3>1 DEF Indices, Stored
    <2> QED  BY <2>1, <2>2, <2>3
  <1>3. LiveIsHeld
    BY <1>2 DEF LiveIsHeld, Live, Held
  <1>4. DeletionIsFinal
    BY <1>2 DEF DeletionIsFinal
  <1>5. UidsIssued
    BY <1>2 DEF UidsIssued, Init, IdleClusterWorker
  <1>6. WorkerDeletes /\ SyncHoldsFinalizer
    BY DEF WorkerDeletes, SyncHoldsFinalizer, Init, IdleClusterWorker
  <1> QED  BY <1>1, <1>3, <1>4, <1>5, <1>6 DEF HeldInv

(* Steps that touch no cluster and no remote: of the connection reconciler, *)
(* its watch, and writes that fail.                                         *)
LEMMA HeldElsewhere ==
  ASSUME HeldInv, TypeOK', UNCHANGED <<clusterVersions, omni>>,
         lastUid' >= lastUid,
         clusterWorker' \in {clusterWorker, IdleClusterWorker}
  PROVE  HeldInv'
  <1> USE DEF HeldInv
  <1>1. LiveIsHeld' /\ DeletionIsFinal'
    BY DEF LiveIsHeld, DeletionIsFinal, Held, Indices
  <1>2. UidsIssued'
    <2>1. /\ lastUid \in Nat /\ lastUid' \in Nat
          /\ \A c \in Cluster : \A i \in Indices(c) :
               clusterVersions[c][i] # Absent => clusterVersions[c][i].uid \in Nat
          /\ clusterWorker.pc # "idle" => clusterWorker.item.uid \in Nat
          /\ \A t \in Connection \X Remote : omni[t] # Absent => omni[t].by[2] \in Nat
      <3>1. \A c \in Cluster : \A i \in Indices(c) :
              clusterVersions[c][i] # Absent => clusterVersions[c][i].uid \in Nat
        BY VersionType DEF ClusterVersion, ClusterObject
      <3>2. clusterWorker.pc # "idle" => clusterWorker.item.uid \in Nat
        BY BusyType DEF BusyClusterWorker, ClusterObject
      <3>3. \A t \in Connection \X Remote : omni[t] # Absent => omni[t].by[2] \in Nat
        BY DEF TypeOK, RemoteCluster
      <3> QED  BY <3>1, <3>2, <3>3 DEF TypeOK
    <2> QED  BY <2>1 DEF UidsIssued, Indices, IdleClusterWorker
  <1>3. WorkerDeletes' /\ SyncHoldsFinalizer'
    BY DEF WorkerDeletes, SyncHoldsFinalizer, IdleClusterWorker, Held, Indices
  <1> QED  BY <1>1, <1>2, <1>3

(* Reconcile starts with the cached copy: the facts about visible versions  *)
(* become facts about the copy it holds.                                    *)
LEMMA HeldBegin ==
  ASSUME HeldInv, TypeOK', NEW c \in Cluster, ReconcileCluster(c)
  PROVE  HeldInv'
  <1> DEFINE item == Cached(clusterVersions[c])
  <1> USE DEF HeldInv
  <1>1. item = clusterVersions[c][1] /\ 1 \in Indices(c) /\ item \in ClusterVersion
        /\ \A i \in Indices(c) : i \in Nat /\ 1 <= i
    BY VersionType DEF Indices
  <1>2. ASSUME NEW pc, NEW reason, item # Absent, BeginCluster(c, pc, reason),
               pc \in {"getConnection", "updateStatus", "removeFinalizers",
                       "addFinalizer"},
               pc = "removeFinalizers" => item.deleting,
               pc \in {"getConnection", "updateStatus"} /\ ~item.deleting
                 => HasFinalizer(item)
        PROVE  HeldInv'
    <2>1. /\ UNCHANGED <<clusterVersions, omni, lastUid>>
          /\ clusterWorker'.pc = pc /\ clusterWorker'.key = c
          /\ clusterWorker'.item = item
      BY <1>2 DEF BeginCluster
    <2>2. LiveIsHeld' /\ DeletionIsFinal'
      BY <2>1 DEF LiveIsHeld, DeletionIsFinal, Held, Indices
    <2>3. UidsIssued'
      BY <1>1, <1>2, <2>1 DEF UidsIssued, Indices
    <2>4. WorkerDeletes'
      <3>1. ASSUME item.deleting, NEW i \in Indices(c),
                   clusterVersions[c][i] # Absent,
                   clusterVersions[c][i].uid = item.uid
            PROVE  clusterVersions[c][i].deleting
        BY <1>1, <1>2, <3>1 DEF DeletionIsFinal
      <3> QED  BY <1>2, <2>1, <3>1 DEF WorkerDeletes, Indices
    <2>5. SyncHoldsFinalizer'
      <3>1. ASSUME pc \in {"getConnection", "updateStatus"}, ~item.deleting
            PROVE  Held(c, item.uid)
        <4>1. item.fins # {}
          BY <1>2, <3>1 DEF HasFinalizer
        <4> QED  BY <1>1, <1>2, <3>1, <4>1 DEF LiveIsHeld, Live
      <3> QED  BY <1>2, <2>1, <3>1 DEF SyncHoldsFinalizer, Held
    <2> QED  BY <2>2, <2>3, <2>4, <2>5
  <1>3. CASE ReconcileNothing(c)
    <2>1. lastUid' >= lastUid /\ UNCHANGED <<clusterVersions, omni, clusterWorker>>
      BY <1>3 DEF ReconcileNothing, TypeOK
    <2> QED  BY <2>1, HeldElsewhere
  <1>4. CASE ReconcileDeleteOrphan(c)
    BY <1>2, <1>4 DEF ReconcileDeleteOrphan
  <1>5. CASE ReconcileDelete(c)
    BY <1>2, <1>5 DEF ReconcileDelete
  <1>6. CASE ReconcileNew(c)
    BY <1>2, <1>6 DEF ReconcileNew
  <1>7. CASE ReconcileSuspended(c)
    BY <1>2, <1>7 DEF ReconcileSuspended
  <1>8. CASE ReconcileSync(c)
    BY <1>2, <1>8 DEF ReconcileSync
  <1> QED
    BY <1>3, <1>4, <1>5, <1>6, <1>7, <1>8 DEF ReconcileCluster

(* Steps inside Reconcile, the calls to Omni included: the copy stays. *)
LEMMA HeldAdvance ==
  ASSUME HeldInv, TypeOK', NEW pc, NEW reason, NEW observes,
         clusterWorker.pc # "idle",
         AdvanceCluster(pc, reason, observes),
         pc \in {"deleteRemote", "removeFinalizers"} => clusterWorker.item.deleting,
         pc = "sync" => ~clusterWorker.item.deleting,
         ~clusterWorker.item.deleting =>
           clusterWorker.pc \in {"getConnection", "sync", "updateStatus"},
         omni' \in {omni, Applied, [omni EXCEPT ![ItemTarget] = Absent]}
  PROVE  HeldInv'
  <1> USE DEF HeldInv
  <1>1. /\ UNCHANGED <<clusterVersions, lastUid>>
        /\ clusterWorker'.pc = pc /\ clusterWorker'.key = clusterWorker.key
        /\ clusterWorker'.item = clusterWorker.item
    BY BusyType DEF AdvanceCluster, BusyClusterWorker
  <1>2. LiveIsHeld' /\ DeletionIsFinal'
    BY <1>1 DEF LiveIsHeld, DeletionIsFinal, Held, Indices
  <1>3. UidsIssued'
    <2>1. \A t \in Connection \X Remote :
            omni'[t] # Absent => omni'[t].by[2] <= lastUid
      <3>1. \A t \in Connection \X Remote :
              omni'[t] \in {omni[t], Absent,
                            [by |-> Incarnation, gen |-> clusterWorker.item.gen]}
        BY DEF Applied, TypeOK
      <3> QED  BY <3>1 DEF UidsIssued, Incarnation
    <2> QED  BY <1>1, <2>1 DEF UidsIssued, Indices
  <1>4. WorkerDeletes'
    BY <1>1 DEF WorkerDeletes, Indices
  <1>5. SyncHoldsFinalizer'
    BY <1>1 DEF SyncHoldsFinalizer, Held
  <1> QED  BY <1>2, <1>3, <1>4, <1>5

(* A version that continues the stored object. *)
Continues(o, x) ==
  /\ o # Absent /\ x # Absent
  /\ x.uid = o.uid
  /\ o.deleting => x.deleting
  /\ o.fins # {} => x.fins # {}

(* A write that continues the stored object, of Reconcile, which then is    *)
(* done, or of a user.                                                      *)
LEMMA HeldContinue ==
  ASSUME HeldInv, TypeOK', NEW c \in Cluster, NEW x \in ClusterVersion,
         StoreCluster(c, x), Continues(Stored(clusterVersions[c]), x),
         UNCHANGED <<omni, lastUid>>,
         clusterWorker' \in {clusterWorker, IdleClusterWorker}
  PROVE  HeldInv'
  <1> DEFINE o == Stored(clusterVersions[c])
             n == Len(clusterVersions[c])
  <1> USE DEF HeldInv
  <1>1. /\ n \in Indices(c) /\ o = clusterVersions[c][n]
        /\ \A i \in Indices(c) : i <= n
    BY VersionType DEF Indices
  <1>2. /\ Indices(c)' = Indices(c) \cup {n + 1}
        /\ \A i \in Indices(c) : i < n + 1 /\ clusterVersions'[c][i] = clusterVersions[c][i]
        /\ clusterVersions'[c][n + 1] = x
        /\ Stored(clusterVersions'[c]) = x
        /\ \A d \in Cluster \ {c} : /\ clusterVersions'[d] = clusterVersions[d]
                                    /\ Indices(d)' = Indices(d)
    BY AppendStored
  <1> HIDE DEF n, o
  <1>3. \A d \in Cluster : \A u : Held(d, u) => Held(d, u)'
    BY <1>2 DEF Held, Continues, o
  <1>4. LiveIsHeld'
    <2>1. ASSUME NEW d \in Cluster, NEW i \in Indices(d)', NEW u,
                 Live(clusterVersions'[d][i]), u = clusterVersions'[d][i].uid
          PROVE  Held(d, u)'
      <3>1. CASE d = c /\ i = n + 1
        BY <1>2, <2>1, <3>1 DEF Held, Live
      <3>2. CASE d # c \/ i # n + 1
        BY <1>2, <1>3, <2>1, <3>2 DEF LiveIsHeld
      <3> QED  BY <3>1, <3>2
    <2> QED  BY <2>1 DEF LiveIsHeld, Live, Held
  <1>5. DeletionIsFinal'
    <2>1. ASSUME NEW d \in Cluster, NEW i \in Indices(d)', NEW j \in Indices(d)',
                 i <= j, clusterVersions'[d][i] # Absent,
                 clusterVersions'[d][j] # Absent,
                 clusterVersions'[d][i].uid = clusterVersions'[d][j].uid,
                 clusterVersions'[d][i].deleting
          PROVE  clusterVersions'[d][j].deleting
      <3>1. CASE d # c
        BY <1>2, <2>1, <3>1 DEF DeletionIsFinal
      <3>2. CASE d = c /\ i \in Indices(c) /\ j \in Indices(c)
        BY <1>2, <2>1, <3>2 DEF DeletionIsFinal
      <3>3. CASE d = c /\ i \in Indices(c) /\ j = n + 1
        <4>1. o.deleting
          BY <1>1, <1>2, <2>1, <3>3 DEF DeletionIsFinal, Continues, o
        <4> QED  BY <1>2, <3>3, <4>1 DEF Continues, o
      <3>4. CASE d = c /\ i = n + 1
        <4>1. j = n + 1
          BY <1>2, <2>1, <3>4, VersionType DEF Indices, n
        <4> QED  BY <2>1, <3>4, <4>1
      <3> QED  BY <1>2, <3>1, <3>2, <3>3, <3>4
    <2> QED  BY <2>1 DEF DeletionIsFinal
  <1>6. UidsIssued'
    <2>1. x.uid <= lastUid
      BY <1>1 DEF UidsIssued, Continues, o
    <2> QED  BY <1>2, <2>1 DEF UidsIssued, IdleClusterWorker
  <1>7. WorkerDeletes'
    <2>1. CASE clusterWorker' = IdleClusterWorker
      BY <2>1 DEF WorkerDeletes, IdleClusterWorker
    <2>2. CASE clusterWorker' = clusterWorker /\ clusterWorker.pc # "idle"
      <3>1. clusterWorker.key \in Cluster
        BY <2>2, BusyType DEF BusyClusterWorker
      <3> QED  BY <1>1, <1>2, <2>2, <3>1 DEF WorkerDeletes, Continues, o
    <2> QED  BY <2>1, <2>2 DEF WorkerDeletes
  <1>8. SyncHoldsFinalizer'
    <2>1. clusterWorker.pc # "idle" => clusterWorker.key \in Cluster
      BY BusyType DEF BusyClusterWorker
    <2> QED  BY <1>3, <2>1 DEF SyncHoldsFinalizer, IdleClusterWorker
  <1> QED  BY <1>4, <1>5, <1>6, <1>7, <1>8

(* The stored object goes away when nothing visible leads to a sync of it,  *)
(* and Reconcile is not in the middle of one.                               *)
LEMMA HeldVanish ==
  ASSUME HeldInv, TypeOK', NEW c \in Cluster, StoreCluster(c, Absent),
         \A i \in Indices(c) : ~Live(clusterVersions[c][i]),
         UNCHANGED <<omni, lastUid>>,
         \/ clusterWorker' = IdleClusterWorker
         \/ /\ clusterWorker' = clusterWorker
            /\ \A u : ~Held(c, u)
  PROVE  HeldInv'
  <1> DEFINE n == Len(clusterVersions[c])
  <1> USE DEF HeldInv
  <1>1. Absent \in ClusterVersion
    BY DEF ClusterVersion
  <1>2. /\ Indices(c)' = Indices(c) \cup {n + 1}
        /\ \A i \in Indices(c) : i < n + 1 /\ clusterVersions'[c][i] = clusterVersions[c][i]
        /\ clusterVersions'[c][n + 1] = Absent
        /\ \A d \in Cluster \ {c} : /\ clusterVersions'[d] = clusterVersions[d]
                                    /\ Indices(d)' = Indices(d)
    BY <1>1, AppendStored
  <1> HIDE DEF n
  <1>3. LiveIsHeld'
    BY <1>2 DEF LiveIsHeld, Live, Held
  <1>4. DeletionIsFinal'
    BY <1>2 DEF DeletionIsFinal
  <1>5. UidsIssued'
    BY <1>2 DEF UidsIssued, IdleClusterWorker
  <1>6. clusterWorker.pc # "idle" => clusterWorker.key \in Cluster
    BY BusyType DEF BusyClusterWorker
  <1>7. WorkerDeletes'
    BY <1>2, <1>6 DEF WorkerDeletes, IdleClusterWorker
  <1>8. SyncHoldsFinalizer'
    BY <1>2, <1>6 DEF SyncHoldsFinalizer, IdleClusterWorker, Held
  <1> QED  BY <1>3, <1>4, <1>5, <1>7, <1>8

(* A user creates the object anew, with a fresh uid and no finalizer. *)
LEMMA HeldCreate ==
  ASSUME HeldInv, TypeOK', NEW c \in Cluster, CreateCluster(c)
  PROVE  HeldInv'
  <1> DEFINE n == Len(clusterVersions[c])
  <1> USE DEF HeldInv
  <1>1. PICK s \in Specs : StoreCluster(c, NewCluster(lastUid + 1, s, {}))
    BY DEF CreateCluster
  <1> DEFINE x == NewCluster(lastUid + 1, s, {})
  <1>2. x \in ClusterVersion /\ x.uid = lastUid + 1 /\ x.fins = {} /\ ~x.deleting
    <2>1. lastUid + 1 \in Nat /\ s \in ClusterSpec
      BY SpecsAssumption DEF TypeOK
    <2> QED  BY <2>1, NewClusterType DEF ClusterVersion, NewCluster
  <1> HIDE DEF x
  <1>3. /\ Indices(c)' = Indices(c) \cup {n + 1}
        /\ \A i \in Indices(c) : i < n + 1 /\ clusterVersions'[c][i] = clusterVersions[c][i]
        /\ clusterVersions'[c][n + 1] = x
        /\ \A d \in Cluster \ {c} : /\ clusterVersions'[d] = clusterVersions[d]
                                    /\ Indices(d)' = Indices(d)
    BY <1>1, <1>2, AppendStored DEF x
  <1> HIDE DEF n
  <1>4. /\ UNCHANGED <<clusterWorker, omni>>
        /\ lastUid \in Nat /\ lastUid' = lastUid + 1
        /\ \A u : ~Held(c, u)
    BY DEF CreateCluster, TypeOK, Held
  <1>5. LiveIsHeld'
    BY <1>2, <1>3, <1>4 DEF LiveIsHeld, Live, Held
  <1>6. /\ \A d \in Cluster : \A i \in Indices(d) : clusterVersions[d][i] # Absent
             => clusterVersions[d][i].uid \in Nat /\ clusterVersions[d][i].uid # x.uid
        /\ clusterWorker.pc # "idle" =>
             /\ clusterWorker.item.uid \in Nat /\ clusterWorker.item.uid # x.uid
             /\ clusterWorker.key \in Cluster
        /\ \A t \in Connection \X Remote : omni[t] # Absent => omni[t].by[2] \in Nat
    <2>1. \A d \in Cluster : \A i \in Indices(d) : clusterVersions[d][i] # Absent
             => clusterVersions[d][i].uid \in Nat
      BY VersionType DEF ClusterVersion, ClusterObject
    <2>2. clusterWorker.pc # "idle" =>
             clusterWorker.item.uid \in Nat /\ clusterWorker.key \in Cluster
      BY BusyType DEF BusyClusterWorker, ClusterObject
    <2>3. \A t \in Connection \X Remote : omni[t] # Absent => omni[t].by[2] \in Nat
      BY DEF TypeOK, RemoteCluster
    <2> QED  BY <1>2, <1>4, <2>1, <2>2, <2>3 DEF UidsIssued
  <1>7. DeletionIsFinal'
    BY <1>2, <1>3, <1>6 DEF DeletionIsFinal
  <1>8. UidsIssued'
    <2>1. \A d \in Cluster : \A i \in Indices(d)' : clusterVersions'[d][i] # Absent
             => clusterVersions'[d][i].uid <= lastUid + 1
      BY <1>2, <1>3, <1>4, <1>6 DEF UidsIssued
    <2> QED  BY <1>4, <1>6, <2>1 DEF UidsIssued
  <1>9. WorkerDeletes'
    BY <1>3, <1>4, <1>6 DEF WorkerDeletes
  <1>10. SyncHoldsFinalizer'
    BY <1>3, <1>4, <1>6 DEF SyncHoldsFinalizer, Held
  <1> QED  BY <1>5, <1>7, <1>8, <1>9, <1>10

(* A delivery only drops the oldest version. *)
LEMMA HeldDeliver ==
  ASSUME HeldInv, TypeOK', NEW c \in Cluster, DeliverCluster(c)
  PROVE  HeldInv'
  <1> USE DEF HeldInv
  <1>1. /\ \A i \in Indices(c)' :
             i + 1 \in Indices(c) /\ clusterVersions'[c][i] = clusterVersions[c][i + 1]
        /\ Stored(clusterVersions'[c]) = Stored(clusterVersions[c])
        /\ \A d \in Cluster \ {c} : /\ clusterVersions'[d] = clusterVersions[d]
                                    /\ Indices(d)' = Indices(d)
    BY DeliverStored
  <1>2. UNCHANGED <<clusterWorker, omni, lastUid>>
    BY DEF DeliverCluster
  <1>3. \A d \in Cluster : Stored(clusterVersions'[d]) = Stored(clusterVersions[d])
    BY <1>1
  <1>4. LiveIsHeld'
    BY <1>1, <1>3 DEF LiveIsHeld, Live, Held
  <1>5. DeletionIsFinal'
    <2>1. \A i, j \in Indices(c)' : i \in Int /\ j \in Int /\ (i <= j => i + 1 <= j + 1)
      BY DEF Indices
    <2> QED  BY <1>1, <2>1 DEF DeletionIsFinal
  <1>6. UidsIssued'
    BY <1>1, <1>2 DEF UidsIssued
  <1>7. clusterWorker.pc # "idle" => clusterWorker.key \in Cluster
    BY BusyType DEF BusyClusterWorker
  <1>8. WorkerDeletes'
    BY <1>1, <1>2, <1>7 DEF WorkerDeletes
  <1>9. SyncHoldsFinalizer'
    BY <1>2, <1>3, <1>7 DEF SyncHoldsFinalizer, Held
  <1> QED  BY <1>4, <1>5, <1>6, <1>8, <1>9

(* A restart keeps the stored versions and forgets the rest. *)
LEMMA HeldRestart ==
  ASSUME HeldInv, TypeOK', Restart
  PROVE  HeldInv'
  <1> USE DEF HeldInv
  <1>1. \A c \in Cluster :
          /\ Indices(c)' = {1}
          /\ clusterVersions'[c][1] = clusterVersions[c][Len(clusterVersions[c])]
          /\ Len(clusterVersions[c]) \in Indices(c)
          /\ Stored(clusterVersions'[c]) = Stored(clusterVersions[c])
    BY RestartStored, VersionType
  <1>2. clusterWorker' = IdleClusterWorker /\ UNCHANGED <<omni, lastUid>>
    BY DEF Restart
  <1>3. LiveIsHeld'
    BY <1>1 DEF LiveIsHeld, Live, Held
  <1>4. DeletionIsFinal'
    BY <1>1 DEF DeletionIsFinal
  <1>5. UidsIssued'
    BY <1>1, <1>2 DEF UidsIssued, IdleClusterWorker
  <1>6. WorkerDeletes' /\ SyncHoldsFinalizer'
    BY <1>2 DEF WorkerDeletes, SyncHoldsFinalizer, IdleClusterWorker
  <1> QED  BY <1>3, <1>4, <1>5, <1>6

(* What the writes of Reconcile and of users make of the stored object. *)
LEMMA StatusContinues ==
  ASSUME TypeOK, UpdateClusterStatus
  PROVE  \E x \in ClusterVersion :
           /\ StoreCluster(clusterWorker.key, x)
           /\ Continues(Stored(clusterVersions[clusterWorker.key]), x)
           /\ x.spec = Stored(clusterVersions[clusterWorker.key]).spec
  <1> DEFINE latest == Cached(clusterVersions[clusterWorker.key])
             x == [latest EXCEPT !.status = NewStatus(latest)]
  <1>1. clusterWorker \in BusyClusterWorker
    BY BusyType DEF UpdateClusterStatus
  <1>2. /\ latest \in ClusterObject
        /\ latest = Stored(clusterVersions[clusterWorker.key])
        /\ StoreCluster(clusterWorker.key, x)
    BY <1>1, EndsType DEF UpdateClusterStatus, ClusterVersion, BusyClusterWorker
  <1>3. NewStatus(latest) \in [obs : Nat, reason : Reason]
    BY <1>1, <1>2 DEF NewStatus, BusyClusterWorker, ClusterObject
  <1>4. /\ x \in ClusterObject
        /\ x.uid = latest.uid /\ x.fins = latest.fins
        /\ x.deleting = latest.deleting /\ x.spec = latest.spec
    BY <1>2, <1>3 DEF ClusterObject
  <1> HIDE DEF x
  <1> QED  BY <1>2, <1>4, AbsentAssumption DEF Continues, ClusterVersion

(* The update that adds the finalizer keeps the incarnation and its spec. *)
LEMMA AddContinues ==
  ASSUME TypeOK, AddClusterFinalizer
  PROVE  \E x \in ClusterVersion :
           /\ StoreCluster(clusterWorker.key, x)
           /\ Continues(Stored(clusterVersions[clusterWorker.key]), x)
           /\ x.spec = Stored(clusterVersions[clusterWorker.key]).spec
  <1> DEFINE item == clusterWorker.item
             x == [item EXCEPT !.fins = @ \cup {Finalizer}]
  <1>1. /\ item \in ClusterObject
        /\ item = Stored(clusterVersions[clusterWorker.key])
        /\ StoreCluster(clusterWorker.key, x)
    BY BusyType DEF AddClusterFinalizer, BusyClusterWorker
  <1>2. /\ x \in ClusterObject
        /\ x.uid = item.uid /\ x.fins # {}
        /\ x.deleting = item.deleting /\ x.spec = item.spec
    BY <1>1 DEF ClusterObject, Finalizers
  <1> HIDE DEF x
  <1> QED  BY <1>1, <1>2, AbsentAssumption DEF Continues, ClusterVersion

(* An edit keeps the incarnation, and is recorded when the target moves. *)
LEMMA UpdateContinues ==
  ASSUME TypeOK, NEW c \in Cluster, UpdateCluster(c)
  PROVE  \E s \in ClusterSpec, x \in ClusterVersion :
           /\ StoreCluster(c, x)
           /\ Continues(Stored(clusterVersions[c]), x)
           /\ x.spec = s
           /\ retargeted' =
                IF Target(c, s) # Target(c, Stored(clusterVersions[c]).spec)
                  THEN retargeted \cup {<<c, x.uid>>} ELSE retargeted
  <1> DEFINE o == Stored(clusterVersions[c])
  <1>1. o \in ClusterObject
    BY EndsType DEF UpdateCluster, ClusterVersion
  <1>2. PICK s \in Specs :
          /\ StoreCluster(c, EditedCluster(o, s))
          /\ retargeted' = IF Target(c, s) # Target(c, o.spec)
                             THEN retargeted \cup {<<c, o.uid>>} ELSE retargeted
    BY DEF UpdateCluster
  <1>3. s \in ClusterSpec
    BY SpecsAssumption
  <1> DEFINE x == EditedCluster(o, s)
  <1>4. /\ x \in ClusterObject
        /\ x.uid = o.uid /\ x.spec = s /\ x.fins = o.fins
        /\ x.deleting = o.deleting
    BY <1>1, <1>3, EditedClusterType
  <1>5. x \in ClusterVersion /\ Continues(o, x)
    BY <1>1, <1>4, AbsentAssumption DEF Continues, ClusterVersion
  <1>6. StoreCluster(c, x)
    BY <1>2
  <1>7. retargeted' = IF Target(c, s) # Target(c, o.spec)
                        THEN retargeted \cup {<<c, x.uid>>} ELSE retargeted
    BY <1>2, <1>4
  <1>8. x.spec = s
    BY <1>4
  <1> HIDE DEF x
  <1> QED  BY <1>3, <1>5, <1>6, <1>7, <1>8

(* A delete request marks an object that has a finalizer, and removes one   *)
(* that has none.                                                           *)
LEMMA DeleteContinuesOrVanishes ==
  ASSUME TypeOK, NEW c \in Cluster, DeleteCluster(c)
  PROVE  \/ \E x \in ClusterVersion :
              /\ StoreCluster(c, x)
              /\ Continues(Stored(clusterVersions[c]), x)
              /\ x.spec = Stored(clusterVersions[c]).spec
         \/ /\ StoreCluster(c, Absent)
            /\ \A u : ~Held(c, u)
  <1> DEFINE o == Stored(clusterVersions[c])
             x == MarkedCluster(o)
  <1>1. o \in ClusterObject /\ StoreCluster(c, Settle(x))
    BY EndsType DEF DeleteCluster, ClusterVersion
  <1>2. /\ x \in ClusterObject
        /\ x.uid = o.uid /\ x.spec = o.spec /\ x.fins = o.fins
        /\ x.deleting
    BY <1>1, MarkedClusterType
  <1> HIDE DEF x
  <1>3. CASE o.fins = {}
    <2>1. StoreCluster(c, Absent)
      BY <1>1, <1>2, <1>3 DEF Settle
    <2> QED  BY <1>3, <2>1 DEF Held
  <1>4. CASE o.fins # {}
    <2>1. StoreCluster(c, x) /\ x \in ClusterVersion /\ Continues(o, x)
      BY <1>1, <1>2, <1>4, AbsentAssumption DEF Settle, Continues, ClusterVersion
    <2> QED  BY <1>2, <2>1
  <1> QED  BY <1>3, <1>4

(* Reconcile removes its finalizers from an object that is deleting: the    *)
(* object goes, and no visible copy of it leads to a sync.                  *)
LEMMA RemoveVanishes ==
  ASSUME HeldInv, RemoveClusterFinalizers
  PROVE  /\ clusterWorker \in BusyClusterWorker
         /\ clusterWorker.item.deleting
         /\ clusterWorker.item = Stored(clusterVersions[clusterWorker.key])
         /\ StoreCluster(clusterWorker.key, Absent)
         /\ \A i \in Indices(clusterWorker.key) :
              ~Live(clusterVersions[clusterWorker.key][i])
  <1> DEFINE c == clusterWorker.key
             item == clusterWorker.item
             x == [item EXCEPT !.fins = @ \ Finalizers]
  <1> USE DEF HeldInv
  <1>1. clusterWorker \in BusyClusterWorker /\ c \in Cluster /\ item \in ClusterObject
    BY BusyType DEF RemoveClusterFinalizers, BusyClusterWorker
  <1>2. /\ item.deleting /\ item = Stored(clusterVersions[c])
        /\ StoreCluster(c, Settle(x))
    BY DEF RemoveClusterFinalizers, WorkerDeletes
  <1>3. x.deleting = item.deleting /\ x.fins = {}
    BY <1>1 DEF ClusterObject
  <1>4. StoreCluster(c, Absent)
    BY <1>2, <1>3 DEF Settle
  <1>5. ASSUME NEW i \in Indices(c), Live(clusterVersions[c][i]) PROVE FALSE
    <2>1. clusterVersions[c][i].uid = item.uid
      BY <1>1, <1>2, <1>5 DEF LiveIsHeld, Held
    <2> QED  BY <1>2, <1>5, <2>1 DEF WorkerDeletes, Live, RemoveClusterFinalizers
  <1> QED  BY <1>1, <1>2, <1>4, <1>5

(* Every step of the cluster worker keeps HeldInv. *)
LEMMA HeldWorker ==
  ASSUME HeldInv, TypeOK', ClusterWorkerStep
  PROVE  HeldInv'
  <1> USE DEF HeldInv
  <1>1. CASE MissingConnection
    BY <1>1, HeldAdvance DEF MissingConnection
  <1>2. CASE FoundConnectionForDelete
    BY <1>2, HeldAdvance DEF FoundConnectionForDelete
  <1>3. CASE RenderSucceeds
    BY <1>3, HeldAdvance DEF RenderSucceeds
  <1>4. CASE RenderFails
    BY <1>4, HeldAdvance DEF RenderFails
  <1>5. CASE SyncTemplateSucceeds
    BY <1>5, HeldAdvance DEF SyncTemplateSucceeds
  <1>6. CASE SyncTemplateFails
    BY <1>6, HeldAdvance DEF SyncTemplateFails
  <1>7. CASE DeleteRemoteSucceeds
    BY <1>7, HeldAdvance DEF DeleteRemoteSucceeds, WorkerDeletes
  <1>8. CASE DeleteRemoteFails
    BY <1>8, HeldAdvance DEF DeleteRemoteFails, WorkerDeletes
  <1>9. CASE UpdateClusterStatus
    <2>1. /\ clusterWorker.key \in Cluster /\ UNCHANGED <<omni, lastUid>>
          /\ clusterWorker' = IdleClusterWorker
      BY <1>9, BusyType DEF UpdateClusterStatus, BusyClusterWorker, ClusterDone
    <2> QED  BY <1>9, <2>1, StatusContinues, HeldContinue
  <1>10. CASE AddClusterFinalizer
    <2>1. /\ clusterWorker.key \in Cluster /\ UNCHANGED <<omni, lastUid>>
          /\ clusterWorker' = IdleClusterWorker
      BY <1>10, BusyType DEF AddClusterFinalizer, BusyClusterWorker, ClusterDone
    <2> QED  BY <1>10, <2>1, AddContinues, HeldContinue
  <1>11. CASE RemoveClusterFinalizers
    <2>1. /\ clusterWorker.key \in Cluster /\ UNCHANGED <<omni, lastUid>>
          /\ clusterWorker' = IdleClusterWorker
      BY <1>11, BusyType DEF RemoveClusterFinalizers, BusyClusterWorker, ClusterDone
    <2> QED  BY <1>11, <2>1, RemoveVanishes, HeldVanish
  <1>12. CASE ClusterWriteFails
    <2>1. /\ UNCHANGED <<clusterVersions, omni>> /\ lastUid' >= lastUid
          /\ clusterWorker' = IdleClusterWorker
      BY <1>12 DEF ClusterWriteFails, ClusterDone, TypeOK
    <2> QED  BY <2>1, HeldElsewhere
  <1> QED
    BY <1>1, <1>2, <1>3, <1>4, <1>5, <1>6, <1>7, <1>8, <1>9, <1>10, <1>11, <1>12
       DEF ClusterWorkerStep

(* What the connection side leaves alone. *)
LEMMA ConnectionSide ==
  ASSUME TypeOK,
         ConnectionWorkerStep \/ \E k \in Connection : ConnectionStep(k)
  PROVE  /\ UNCHANGED <<clusterVersions, clusterWorker, omni,
                           orphaned, retargeted, keepRemote>>
         /\ lastUid' >= lastUid
  <1>1. lastUid \in Nat
    BY DEF TypeOK
  <1>2. CASE ConnectionWorkerStep
    <2>1. CASE ListReferences
      BY <1>1, <2>1 DEF ListReferences, history
    <2>2. CASE UpdateConnectionStatus
      BY <1>1, <2>2 DEF UpdateConnectionStatus, history
    <2>3. CASE AddConnectionFinalizer
      BY <1>1, <2>3 DEF AddConnectionFinalizer, history
    <2>4. CASE RemoveConnectionFinalizers
      BY <1>1, <2>4 DEF RemoveConnectionFinalizers, history
    <2>5. CASE ConnectionAlreadyGone
      BY <1>1, <2>5 DEF ConnectionAlreadyGone, history
    <2>6. CASE ConnectionWriteFails
      BY <1>1, <2>6 DEF ConnectionWriteFails, history
    <2> QED  BY <1>2, <2>1, <2>2, <2>3, <2>4, <2>5, <2>6 DEF ConnectionWorkerStep
  <1>3. ASSUME NEW k \in Connection, ConnectionStep(k)
        PROVE  /\ UNCHANGED <<clusterVersions, clusterWorker, omni,
                           orphaned, retargeted, keepRemote>>
               /\ lastUid' >= lastUid
    BY <1>1, <1>3 DEF ConnectionStep, ReconcileConnection,
       ReconcileConnectionNothing, ReconcileConnectionDelete,
       ReconcileConnectionNew, ReconcileConnectionPing, BeginConnection,
       DeliverConnection, CreateConnection, DeleteConnection, history
  <1> QED  BY <1>2, <1>3

(* Every step keeps HeldInv. *)
LEMMA StepHeld == HeldInv /\ [Next]_vars => HeldInv'
  <1> SUFFICES ASSUME HeldInv, [Next]_vars PROVE HeldInv'
    OBVIOUS
  <1>1. TypeOK /\ TypeOK'
    BY StepType DEF HeldInv
  <1>2. CASE ClusterWorkerStep
    BY <1>1, <1>2, HeldWorker
  <1>3. CASE ConnectionWorkerStep \/ \E k \in Connection : ConnectionStep(k)
    BY <1>1, <1>3, ConnectionSide, HeldElsewhere
  <1>4. ASSUME NEW c \in Cluster, ClusterStep(c) PROVE HeldInv'
    <2>1. CASE ReconcileCluster(c)
      BY <1>1, <2>1, HeldBegin
    <2>2. CASE DeliverCluster(c)
      BY <1>1, <2>2, HeldDeliver
    <2>3. CASE CreateCluster(c)
      BY <1>1, <2>3, HeldCreate
    <2>4. CASE UpdateCluster(c)
      <3>1. UNCHANGED <<omni, lastUid, clusterWorker>>
        BY <2>4 DEF UpdateCluster
      <3> QED  BY <1>1, <2>4, <3>1, UpdateContinues, HeldContinue
    <2>5. CASE DeleteCluster(c)
      <3>1. UNCHANGED <<omni, lastUid, clusterWorker>>
        BY <2>5 DEF DeleteCluster
      <3>2. (\A u : ~Held(c, u)) => \A i \in Indices(c) : ~Live(clusterVersions[c][i])
        BY DEF HeldInv, LiveIsHeld
      <3> QED
        BY <1>1, <2>5, <3>1, <3>2, DeleteContinuesOrVanishes, HeldContinue, HeldVanish
    <2> QED  BY <1>4, <2>1, <2>2, <2>3, <2>4, <2>5 DEF ClusterStep
  <1>5. CASE Restart
    BY <1>1, <1>5, HeldRestart
  <1>6. CASE UNCHANGED vars
    <2>1. UNCHANGED <<clusterVersions, omni, clusterWorker>> /\ lastUid' >= lastUid
      BY <1>1, <1>6 DEF vars, TypeOK
    <2> QED  BY <1>1, <2>1, HeldElsewhere
  <1>7. ASSUME NEW refs \in SUBSET Cluster, WakeClusters(refs) PROVE HeldInv'
    <2>1. UNCHANGED <<clusterVersions, omni, clusterWorker>> /\ lastUid' >= lastUid
      BY <1>1, <1>7 DEF WakeClusters, TypeOK
    <2> QED  BY <1>1, <2>1, HeldElsewhere
  <1> QED  BY <1>2, <1>3, <1>4, <1>5, <1>6, <1>7 DEF Next

(* From the finalizer check until the status is written, the object that    *)
(* Reconcile syncs is stored with its finalizer: SyncTemplate is never      *)
(* called for an OmniCluster that is already gone, however stale the cache. *)
THEOREM SyncIsHeld == Spec => []SyncHoldsFinalizer
  <1>1. HeldInv => SyncHoldsFinalizer
    BY DEF HeldInv
  <1> QED  BY <1>1, InitHeld, StepHeld, PTL DEF Spec

-----------------------------------------------------------------------------
(* OwnerInv is inductive. *)

(* OwnerInv holds when the operator starts: there are no remote clusters. *)
LEMMA InitOwner == Init => OwnerInv
  <1> SUFFICES ASSUME Init PROVE OwnerInv
    OBVIOUS
  <1>1. HeldInv
    BY InitHeld
  <1>2. clusterWorker.pc = "idle" /\ \A t \in Connection \X Remote : omni[t] = Absent
    BY DEF Init, IdleClusterWorker
  <1>3. \A c \in Cluster : \A i \in Indices(c) :
          clusterVersions[c][i] = Stored(clusterVersions[c])
    <2> SUFFICES ASSUME NEW c \in Cluster, NEW i \in Indices(c)
                 PROVE  clusterVersions[c][i] = Stored(clusterVersions[c])
      OBVIOUS
    <2>1. \E x : clusterVersions[c] = <<x>>
      BY DEF Init
    <2> QED  BY <2>1 DEF Indices, Stored
  <1>4. SameTarget
    BY <1>2, <1>3 DEF SameTarget
  <1>5. RemoteGone /\ RemoteHasOwner
    BY <1>2 DEF RemoteGone, RemoteHasOwner
  <1> QED  BY <1>1, <1>4, <1>5 DEF OwnerInv

(* A step that leaves clusters and remotes alone keeps OwnerInv. *)
LEMMA OwnerElsewhere ==
  ASSUME OwnerInv, HeldInv',
         UNCHANGED <<clusterVersions, omni, orphaned, retargeted>>,
         clusterWorker' \in {clusterWorker, IdleClusterWorker}
  PROVE  OwnerInv'
  <1> USE DEF OwnerInv
  <1>1. SameTarget'
    <2>1. CASE clusterWorker' = clusterWorker
      BY <2>1 DEF SameTarget, Indices, ItemTarget
    <2>2. CASE clusterWorker' = IdleClusterWorker
      BY <2>2 DEF SameTarget, Indices, IdleClusterWorker
    <2> QED  BY <2>1, <2>2
  <1>2. RemoteGone' /\ RemoteHasOwner'
    BY DEF RemoteGone, RemoteHasOwner, Held, Incarnation, IdleClusterWorker
  <1> QED  BY <1>1, <1>2

(* Reconcile takes a cluster from the queue: orphans alone skip DeleteCluster. *)
LEMMA OwnerBegin ==
  ASSUME OwnerInv, HeldInv', NEW c \in Cluster, ReconcileCluster(c)
  PROVE  OwnerInv'
  <1> DEFINE item == Cached(clusterVersions[c])
  <1> USE DEF OwnerInv
  <1>1. item = clusterVersions[c][1] /\ 1 \in Indices(c)
    BY VersionType DEF HeldInv
  <1>2. ASSUME NEW pc, NEW reason, item # Absent, BeginCluster(c, pc, reason),
               pc = "removeFinalizers" => item.spec.orphan
        PROVE  OwnerInv'
    <2>1. /\ UNCHANGED <<clusterVersions, omni, orphaned, retargeted>>
          /\ clusterWorker'.pc = pc /\ clusterWorker'.key = c
          /\ clusterWorker'.item = item
      BY <1>2 DEF BeginCluster, history
    <2>2. ASSUME NEW d \in Cluster, Stored(clusterVersions[d]) # Absent,
                 <<d, Stored(clusterVersions[d]).uid>> \notin retargeted,
                 d = c, item.uid = Stored(clusterVersions[d]).uid
          PROVE  ItemTarget' = Target(d, Stored(clusterVersions[d]).spec)
      <3>1. Target(c, item.spec) = Target(d, Stored(clusterVersions[d]).spec)
        BY <1>1, <1>2, <2>2 DEF SameTarget
      <3> QED  BY <2>1, <2>2, <3>1 DEF ItemTarget
    <2>3. SameTarget'
      <3> HIDE DEF item
      <3> QED  BY <2>1, <2>2 DEF SameTarget, Indices
    <2>4. RemoteGone' /\ RemoteHasOwner'
      BY <1>2, <2>1 DEF RemoteGone, RemoteHasOwner, Held
    <2> QED  BY <2>3, <2>4
  <1>3. CASE ReconcileNothing(c)
    <2>1. UNCHANGED <<clusterVersions, omni, clusterWorker, orphaned, retargeted>>
      BY <1>3 DEF ReconcileNothing, history
    <2> QED  BY <2>1, OwnerElsewhere
  <1>4. CASE ReconcileDeleteOrphan(c)
    BY <1>2, <1>4 DEF ReconcileDeleteOrphan
  <1>5. CASE ReconcileDelete(c)
    BY <1>2, <1>5 DEF ReconcileDelete
  <1>6. CASE ReconcileNew(c)
    BY <1>2, <1>6 DEF ReconcileNew
  <1>7. CASE ReconcileSuspended(c)
    BY <1>2, <1>7 DEF ReconcileSuspended
  <1>8. CASE ReconcileSync(c)
    BY <1>2, <1>8 DEF ReconcileSync
  <1> QED
    BY <1>3, <1>4, <1>5, <1>6, <1>7, <1>8 DEF ReconcileCluster

(* Steps inside Reconcile.  What it syncs has an owner, because the object  *)
(* is held; what is left after DeleteCluster is not on its account.         *)
LEMMA OwnerAdvance ==
  ASSUME OwnerInv, HeldInv', NEW pc, NEW reason, NEW observes,
         clusterWorker.pc # "idle", AdvanceCluster(pc, reason, observes),
         \/ pc # "removeFinalizers" /\ omni' = omni
         \/ pc # "removeFinalizers" /\ clusterWorker.pc = "sync" /\ omni' = Applied
         \/ omni' = [omni EXCEPT ![ItemTarget] = Absent]
  PROVE  OwnerInv'
  <1> USE DEF OwnerInv
  <1>1. /\ UNCHANGED <<clusterVersions, orphaned, retargeted, ItemTarget, Incarnation>>
        /\ clusterWorker'.pc = pc /\ clusterWorker'.key = clusterWorker.key
        /\ clusterWorker'.item = clusterWorker.item
        /\ clusterWorker \in BusyClusterWorker
    BY BusyType
       DEF AdvanceCluster, BusyClusterWorker, history, HeldInv, ItemTarget, Incarnation
  <1>2. /\ clusterWorker.key \in Cluster /\ clusterWorker.item \in ClusterObject
        /\ ItemTarget \in Connection \X Remote
    <2>1. clusterWorker.key \in Cluster /\ clusterWorker.item \in ClusterObject
      BY <1>1 DEF BusyClusterWorker
    <2>2. clusterWorker.item.spec \in ClusterSpec
      BY <2>1 DEF ClusterObject
    <2> QED  BY <2>1, <2>2, TargetType DEF ItemTarget
  <1>3. \A t \in Connection \X Remote : omni'[t] # Absent =>
          \/ omni'[t] = omni[t] /\ omni[t] # Absent
          \/ /\ t = ItemTarget /\ omni'[t].by = Incarnation
             /\ Held(clusterWorker.key, clusterWorker.item.uid)
    <2>1. clusterWorker.pc = "sync" => Held(clusterWorker.key, clusterWorker.item.uid)
      BY DEF HeldInv, WorkerDeletes, SyncHoldsFinalizer
    <2> QED  BY <2>1 DEF Applied, HeldInv, TypeOK
  <1>4. SameTarget'
    <2>1. ASSUME NEW c \in Cluster, Stored(clusterVersions[c]) # Absent,
                 <<c, Stored(clusterVersions[c]).uid>> \notin retargeted,
                 NEW t \in Connection \X Remote, omni'[t] # Absent,
                 omni'[t].by = <<c, Stored(clusterVersions[c]).uid>>
          PROVE  t = Target(c, Stored(clusterVersions[c]).spec)
      BY <1>1, <1>3, <2>1 DEF SameTarget, Incarnation
    <2> QED  BY <1>1, <2>1 DEF SameTarget, Indices
  <1>5. RemoteHasOwner'
    BY <1>1, <1>3 DEF RemoteHasOwner, Held, Incarnation
  <1>6. RemoteGone'
    <2>1. ASSUME pc = "removeFinalizers", NEW t \in Connection \X Remote,
                 omni'[t] # Absent, omni'[t].by = Incarnation,
                 Incarnation \notin orphaned, Incarnation \notin retargeted
          PROVE  FALSE
      <3>1. t # ItemTarget /\ omni[t] = omni'[t]
        BY <1>2, <2>1 DEF HeldInv, TypeOK
      <3>2. Held(clusterWorker.key, clusterWorker.item.uid)
        BY <2>1, <3>1 DEF RemoteHasOwner, Incarnation
      <3> QED  BY <1>1, <1>2, <2>1, <3>1, <3>2 DEF SameTarget, Held, Incarnation
    <2> QED  BY <1>1, <2>1 DEF RemoteGone
  <1> QED  BY <1>4, <1>5, <1>6

(* A write keeps OwnerInv when it moves no target, or records the move. *)
LEMMA OwnerContinue ==
  ASSUME OwnerInv, HeldInv', NEW c \in Cluster, NEW x \in ClusterVersion,
         StoreCluster(c, x), Continues(Stored(clusterVersions[c]), x),
         UNCHANGED <<omni, orphaned>>, retargeted \subseteq retargeted',
         \/ <<c, x.uid>> \in retargeted'
         \/ Target(c, x.spec) = Target(c, Stored(clusterVersions[c]).spec),
         clusterWorker' \in {clusterWorker, IdleClusterWorker}
  PROVE  OwnerInv'
  <1> DEFINE n == Len(clusterVersions[c])
  <1> USE DEF OwnerInv
  <1>1. /\ Indices(c)' = Indices(c) \cup {n + 1}
        /\ \A i \in Indices(c) : clusterVersions'[c][i] = clusterVersions[c][i]
        /\ clusterVersions'[c][n + 1] = x
        /\ Stored(clusterVersions'[c]) = x
        /\ \A d \in Cluster \ {c} : /\ clusterVersions'[d] = clusterVersions[d]
                                    /\ Indices(d)' = Indices(d)
    BY AppendStored DEF HeldInv
  <1> HIDE DEF n
  <1>2. \A d \in Cluster : \A u : Held(d, u) => Held(d, u)'
    BY <1>1 DEF Held, Continues
  <1>3. RemoteHasOwner'
    <2>1. \A t \in Connection \X Remote : omni[t] # Absent => omni[t].by[1] \in Cluster
      BY DEF HeldInv, TypeOK, RemoteCluster
    <2>2. ASSUME NEW t \in Connection \X Remote, omni[t] # Absent, NEW d, NEW u,
                 d = omni[t].by[1], u = omni[t].by[2]
          PROVE  Held(d, u)' \/ omni[t].by \in orphaned' \/ omni[t].by \in retargeted'
      BY <1>2, <2>1, <2>2 DEF RemoteHasOwner
    <2> QED  BY <2>2 DEF RemoteHasOwner, Held
  <1>4. RemoteGone'
    BY DEF RemoteGone, Incarnation, IdleClusterWorker
  <1>5. clusterWorker' = clusterWorker => ItemTarget' = ItemTarget
    BY DEF ItemTarget
  <1>6. ASSUME NEW d \in Cluster, NEW o, o = Stored(clusterVersions'[d]), o # Absent,
               <<d, o.uid>> \notin retargeted'
        PROVE  /\ \A i \in Indices(d)' :
                    LET v == clusterVersions'[d][i]
                    IN  v # Absent /\ v.uid = o.uid
                          => Target(d, v.spec) = Target(d, o.spec)
               /\ clusterWorker'.pc # "idle" /\ clusterWorker'.key = d
                    /\ clusterWorker'.item.uid = o.uid => ItemTarget' = Target(d, o.spec)
               /\ \A t \in Connection \X Remote :
                    omni'[t] # Absent /\ omni'[t].by = <<d, o.uid>>
                      => t = Target(d, o.spec)
    <2> DEFINE p == Stored(clusterVersions[d])
    <2>1. /\ p # Absent /\ p.uid = o.uid /\ <<d, p.uid>> \notin retargeted
          /\ Target(d, p.spec) = Target(d, o.spec)
      BY <1>1, <1>6 DEF Continues
    <2>2. /\ \A i \in Indices(d) :
               LET v == clusterVersions[d][i]
               IN  v # Absent /\ v.uid = p.uid => Target(d, v.spec) = Target(d, p.spec)
          /\ clusterWorker.pc # "idle" /\ clusterWorker.key = d
               /\ clusterWorker.item.uid = p.uid => ItemTarget = Target(d, p.spec)
          /\ \A t \in Connection \X Remote :
               omni[t] # Absent /\ omni[t].by = <<d, p.uid>> => t = Target(d, p.spec)
      BY <2>1 DEF SameTarget
    <2> HIDE DEF p
    <2> QED  BY <1>1, <1>5, <1>6, <2>1, <2>2 DEF IdleClusterWorker
  <1>7. SameTarget'
    BY <1>6 DEF SameTarget
  <1> QED  BY <1>3, <1>4, <1>7

(* The object may go when no remote cluster depends on it. *)
LEMMA OwnerVanish ==
  ASSUME OwnerInv, HeldInv', NEW c \in Cluster, StoreCluster(c, Absent),
         UNCHANGED <<omni, retargeted>>, orphaned \subseteq orphaned',
         clusterWorker' \in {clusterWorker, IdleClusterWorker},
         \A t \in Connection \X Remote :
           omni[t] # Absent /\ omni[t].by[1] = c /\ Held(c, omni[t].by[2])
             => omni[t].by \in orphaned' \/ omni[t].by \in retargeted
  PROVE  OwnerInv'
  <1> USE DEF OwnerInv
  <1>1. /\ Stored(clusterVersions'[c]) = Absent
        /\ \A d \in Cluster \ {c} : /\ clusterVersions'[d] = clusterVersions[d]
                                    /\ Indices(d)' = Indices(d)
    <2>1. Absent \in ClusterVersion
      BY DEF ClusterVersion
    <2> QED  BY <2>1, AppendStored DEF HeldInv
  <1>2. RemoteHasOwner'
    <2>1. \A t \in Connection \X Remote : omni[t] # Absent => omni[t].by[1] \in Cluster
      BY DEF HeldInv, TypeOK, RemoteCluster
    <2> QED  BY <1>1, <2>1 DEF RemoteHasOwner, Held
  <1>3. RemoteGone'
    BY DEF RemoteGone, Incarnation, IdleClusterWorker
  <1>4. SameTarget'
    <2>1. CASE clusterWorker' = clusterWorker
      <3>1. ItemTarget' = ItemTarget
        BY <2>1 DEF ItemTarget
      <3> QED  BY <1>1, <2>1, <3>1 DEF SameTarget
    <2>2. CASE clusterWorker' = IdleClusterWorker
      BY <1>1, <2>2 DEF SameTarget, IdleClusterWorker
    <2> QED  BY <2>1, <2>2
  <1> QED  BY <1>2, <1>3, <1>4

(* A new object has a fresh uid, so no remote cluster is its own yet. *)
LEMMA OwnerCreate ==
  ASSUME OwnerInv, HeldInv', NEW c \in Cluster, CreateCluster(c)
  PROVE  OwnerInv'
  <1> DEFINE n == Len(clusterVersions[c])
  <1> USE DEF OwnerInv
  <1>1. PICK s \in Specs : StoreCluster(c, NewCluster(lastUid + 1, s, {}))
    BY DEF CreateCluster
  <1> DEFINE x == NewCluster(lastUid + 1, s, {})
  <1>2. x \in ClusterVersion /\ x.uid = lastUid + 1
    <2>1. lastUid + 1 \in Nat /\ s \in ClusterSpec
      BY SpecsAssumption DEF TypeOK, HeldInv
    <2> QED  BY <2>1, NewClusterType DEF ClusterVersion, NewCluster
  <1> HIDE DEF x
  <1>3. /\ Indices(c)' = Indices(c) \cup {n + 1}
        /\ \A i \in Indices(c) : clusterVersions'[c][i] = clusterVersions[c][i]
        /\ clusterVersions'[c][n + 1] = x
        /\ Stored(clusterVersions'[c]) = x
        /\ \A d \in Cluster \ {c} : /\ clusterVersions'[d] = clusterVersions[d]
                                    /\ Indices(d)' = Indices(d)
    BY <1>1, <1>2, AppendStored DEF x, HeldInv
  <1> HIDE DEF n
  <1>4. /\ UNCHANGED <<clusterWorker, omni, orphaned, retargeted, ItemTarget, Incarnation>>
        /\ lastUid \in Nat
        /\ \A u : ~Held(c, u)
    BY DEF CreateCluster, TypeOK, HeldInv, Held, history, ItemTarget, Incarnation
  <1>5. /\ \A d \in Cluster : \A i \in Indices(d) : clusterVersions[d][i] # Absent
             => clusterVersions[d][i].uid # x.uid
        /\ clusterWorker.pc # "idle" => clusterWorker.item.uid # x.uid
        /\ \A t \in Connection \X Remote : omni[t] # Absent =>
             omni[t].by[1] \in Cluster /\ omni[t].by[2] # x.uid
    <2>1. \A d \in Cluster : \A i \in Indices(d) : clusterVersions[d][i] # Absent
             => clusterVersions[d][i].uid \in Nat
      BY VersionType DEF ClusterVersion, ClusterObject, HeldInv
    <2>2. clusterWorker.pc # "idle" => clusterWorker.item.uid \in Nat
      BY BusyType DEF BusyClusterWorker, ClusterObject, HeldInv
    <2>3. \A t \in Connection \X Remote : omni[t] # Absent =>
            omni[t].by[1] \in Cluster /\ omni[t].by[2] \in Nat
      BY DEF TypeOK, RemoteCluster, HeldInv
    <2> QED  BY <1>2, <1>4, <2>1, <2>2, <2>3 DEF UidsIssued, HeldInv
  <1>6. SameTarget'
    BY <1>3, <1>4, <1>5 DEF SameTarget
  <1>7. RemoteHasOwner'
    BY <1>3, <1>4, <1>5 DEF RemoteHasOwner, Held
  <1>8. RemoteGone'
    BY <1>4 DEF RemoteGone
  <1> QED  BY <1>6, <1>7, <1>8

(* A delivery keeps OwnerInv. *)
LEMMA OwnerDeliver ==
  ASSUME OwnerInv, HeldInv', NEW c \in Cluster, DeliverCluster(c)
  PROVE  OwnerInv'
  <1> USE DEF OwnerInv
  <1>1. /\ \A i \in Indices(c)' :
             i + 1 \in Indices(c) /\ clusterVersions'[c][i] = clusterVersions[c][i + 1]
        /\ Stored(clusterVersions'[c]) = Stored(clusterVersions[c])
        /\ \A d \in Cluster \ {c} : /\ clusterVersions'[d] = clusterVersions[d]
                                    /\ Indices(d)' = Indices(d)
    BY DeliverStored DEF HeldInv
  <1>2. UNCHANGED <<clusterWorker, omni, orphaned, retargeted, ItemTarget, Incarnation>>
    BY DEF DeliverCluster, history, ItemTarget, Incarnation
  <1>3. \A d \in Cluster : Stored(clusterVersions'[d]) = Stored(clusterVersions[d])
    BY <1>1
  <1>4. \A t \in Connection \X Remote : omni[t] # Absent => omni[t].by[1] \in Cluster
    BY DEF TypeOK, RemoteCluster, HeldInv
  <1>5. SameTarget'
    BY <1>1, <1>2, <1>3 DEF SameTarget
  <1>6. RemoteHasOwner'
    BY <1>2, <1>3, <1>4 DEF RemoteHasOwner, Held
  <1>7. RemoteGone'
    BY <1>2 DEF RemoteGone
  <1> QED  BY <1>5, <1>6, <1>7

(* A restart keeps OwnerInv. *)
LEMMA OwnerRestart ==
  ASSUME OwnerInv, HeldInv', Restart
  PROVE  OwnerInv'
  <1> USE DEF OwnerInv
  <1>1. \A c \in Cluster :
          /\ Indices(c)' = {1}
          /\ clusterVersions'[c][1] = Stored(clusterVersions[c])
          /\ Stored(clusterVersions'[c]) = Stored(clusterVersions[c])
    BY RestartStored DEF HeldInv
  <1>2. clusterWorker' = IdleClusterWorker /\ UNCHANGED <<omni, orphaned, retargeted>>
    BY DEF Restart, history
  <1>3. \A t \in Connection \X Remote : omni[t] # Absent => omni[t].by[1] \in Cluster
    BY DEF TypeOK, RemoteCluster, HeldInv
  <1>4. SameTarget'
    BY <1>1, <1>2 DEF SameTarget, IdleClusterWorker
  <1>5. RemoteHasOwner'
    BY <1>1, <1>2, <1>3 DEF RemoteHasOwner, Held
  <1>6. RemoteGone'
    BY <1>2 DEF RemoteGone, IdleClusterWorker
  <1> QED  BY <1>4, <1>5, <1>6

(* The steps of a running Reconcile: the eight that call Omni or decide what *)
(* comes next, and the four ways in which its write ends.                   *)
LEMMA OwnerWorker ==
  ASSUME OwnerInv, HeldInv', ClusterWorkerStep
  PROVE  OwnerInv'
  <1> USE DEF OwnerInv
  <1>0. TypeOK
    BY DEF HeldInv
  <1>1. CASE MissingConnection
    BY <1>1, OwnerAdvance DEF MissingConnection
  <1>2. CASE FoundConnectionForDelete
    BY <1>2, OwnerAdvance DEF FoundConnectionForDelete
  <1>3. CASE RenderSucceeds
    BY <1>3, OwnerAdvance DEF RenderSucceeds
  <1>4. CASE RenderFails
    BY <1>4, OwnerAdvance DEF RenderFails
  <1>5. CASE SyncTemplateSucceeds
    BY <1>5, OwnerAdvance DEF SyncTemplateSucceeds
  <1>6. CASE SyncTemplateFails
    BY <1>6, OwnerAdvance DEF SyncTemplateFails
  <1>7. CASE DeleteRemoteSucceeds
    BY <1>7, OwnerAdvance DEF DeleteRemoteSucceeds
  <1>8. CASE DeleteRemoteFails
    BY <1>8, OwnerAdvance DEF DeleteRemoteFails
  <1>9. CASE UpdateClusterStatus
    <2>1. /\ clusterWorker.key \in Cluster /\ UNCHANGED <<omni, orphaned, retargeted>>
          /\ clusterWorker' = IdleClusterWorker
      BY <1>0, <1>9, BusyType
         DEF UpdateClusterStatus, BusyClusterWorker, ClusterDone, history
    <2> QED  BY <1>0, <1>9, <2>1, StatusContinues, OwnerContinue
  <1>10. CASE AddClusterFinalizer
    <2>1. /\ clusterWorker.key \in Cluster /\ UNCHANGED <<omni, orphaned, retargeted>>
          /\ clusterWorker' = IdleClusterWorker
      BY <1>0, <1>10, BusyType
         DEF AddClusterFinalizer, BusyClusterWorker, ClusterDone, history
    <2> QED  BY <1>0, <1>10, <2>1, AddContinues, OwnerContinue
  <1>11. CASE RemoveClusterFinalizers
    <2> DEFINE c == clusterWorker.key
               item == clusterWorker.item
    <2>1. /\ c \in Cluster /\ item = Stored(clusterVersions[c])
          /\ StoreCluster(c, Absent)
      BY <1>11, RemoveVanishes DEF BusyClusterWorker
    <2>2. /\ clusterWorker.pc = "removeFinalizers"
          /\ clusterWorker' = IdleClusterWorker /\ UNCHANGED <<omni, retargeted>>
          /\ orphaned' = IF item.spec.orphan THEN orphaned \cup {Incarnation} ELSE orphaned
      BY <1>11 DEF RemoveClusterFinalizers, ClusterDone
    <2>3. ASSUME NEW t \in Connection \X Remote, omni[t] # Absent,
                 omni[t].by[1] = c, Held(c, omni[t].by[2])
          PROVE  omni[t].by \in orphaned' \/ omni[t].by \in retargeted
      <3>1. omni[t].by \in Cluster \X Nat
        BY <1>0, <2>3 DEF TypeOK, RemoteCluster
      <3>2. omni[t].by = Incarnation
        BY <2>1, <2>3, <3>1 DEF Held, Incarnation
      <3> QED  BY <2>2, <2>3, <3>2 DEF RemoteGone
    <2>4. orphaned \subseteq orphaned'
      BY <2>2
    <2> QED  BY <2>1, <2>2, <2>3, <2>4, OwnerVanish
  <1>12. CASE ClusterWriteFails
    <2>1. /\ UNCHANGED <<clusterVersions, omni, orphaned, retargeted>>
          /\ clusterWorker' = IdleClusterWorker
      BY <1>12 DEF ClusterWriteFails, ClusterDone, history
    <2> QED  BY <2>1, OwnerElsewhere
  <1> QED
    BY <1>1, <1>2, <1>3, <1>4, <1>5, <1>6, <1>7, <1>8, <1>9, <1>10, <1>11, <1>12
       DEF ClusterWorkerStep

(* Every step keeps OwnerInv. *)
LEMMA StepOwner == OwnerInv /\ [Next]_vars => OwnerInv'
  <1> SUFFICES ASSUME OwnerInv, [Next]_vars PROVE OwnerInv'
    OBVIOUS
  <1>1. TypeOK /\ HeldInv'
    BY StepHeld DEF OwnerInv, HeldInv
  <1>2. CASE ClusterWorkerStep
    BY <1>1, <1>2, OwnerWorker
  <1>3. CASE ConnectionWorkerStep \/ \E k \in Connection : ConnectionStep(k)
    BY <1>1, <1>3, ConnectionSide, OwnerElsewhere
  <1>4. ASSUME NEW c \in Cluster, ClusterStep(c) PROVE OwnerInv'
    <2>1. CASE ReconcileCluster(c)
      BY <1>1, <2>1, OwnerBegin
    <2>2. CASE DeliverCluster(c)
      BY <1>1, <2>2, OwnerDeliver
    <2>3. CASE CreateCluster(c)
      BY <1>1, <2>3, OwnerCreate
    <2>4. CASE UpdateCluster(c)
      <3>1. UNCHANGED <<omni, orphaned, clusterWorker>>
        BY <2>4 DEF UpdateCluster
      <3>2. PICK s \in ClusterSpec, x \in ClusterVersion :
              /\ StoreCluster(c, x)
              /\ Continues(Stored(clusterVersions[c]), x)
              /\ x.spec = s
              /\ retargeted' =
                   IF Target(c, s) # Target(c, Stored(clusterVersions[c]).spec)
                     THEN retargeted \cup {<<c, x.uid>>} ELSE retargeted
        BY <1>1, <2>4, UpdateContinues
      <3>3. /\ retargeted \subseteq retargeted'
            /\ \/ <<c, x.uid>> \in retargeted'
               \/ Target(c, x.spec) = Target(c, Stored(clusterVersions[c]).spec)
        BY <3>2
      <3> QED  BY <1>1, <3>1, <3>2, <3>3, OwnerContinue
    <2>5. CASE DeleteCluster(c)
      <3>1. UNCHANGED <<omni, orphaned, retargeted, clusterWorker>>
        BY <2>5 DEF DeleteCluster
      <3> QED
        BY <1>1, <2>5, <3>1, DeleteContinuesOrVanishes, OwnerContinue, OwnerVanish
    <2> QED  BY <1>4, <2>1, <2>2, <2>3, <2>4, <2>5 DEF ClusterStep
  <1>5. CASE Restart
    BY <1>1, <1>5, OwnerRestart
  <1>6. CASE UNCHANGED vars
    <2>1. UNCHANGED <<clusterVersions, omni, clusterWorker, orphaned, retargeted>>
      BY <1>6 DEF vars
    <2> QED  BY <1>1, <2>1, OwnerElsewhere
  <1>7. ASSUME NEW refs \in SUBSET Cluster, WakeClusters(refs) PROVE OwnerInv'
    <2>1. UNCHANGED <<clusterVersions, omni, clusterWorker, orphaned, retargeted>>
      BY <1>7 DEF WakeClusters, history
    <2> QED  BY <1>1, <2>1, OwnerElsewhere
  <1> QED  BY <1>2, <1>3, <1>4, <1>5, <1>6, <1>7 DEF Next

(* A remote cluster always has an owner: reconcileDelete lets go of an      *)
(* OmniCluster only after DeleteCluster succeeded on the target it last     *)
(* synced, unless it is orphaned or its target was edited, for any number   *)
(* of clusters, connections, edits, conflicts, failed calls and restarts.   *)
THEOREM RemotesAreOwned == Spec => []RemoteHasOwner
  <1>1. OwnerInv => RemoteHasOwner
    BY DEF OwnerInv
  <1> QED  BY <1>1, InitOwner, StepOwner, PTL DEF Spec

=============================================================================
