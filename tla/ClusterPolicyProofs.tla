------------------------ MODULE ClusterPolicyProofs ------------------------
(***************************************************************************)
(* Promises about what users edit while Reconcile runs on a stale copy,    *)
(* for every value of the constants: a cluster that was deleted in orphan  *)
(* mode keeps its remote cluster, a cluster that is reported as suspended  *)
(* is not being synced, and one that is reported as ready is synced, as    *)
(* long as no other cluster has its target.                                *)
(***************************************************************************)
EXTENDS ClusterLifecycleProofs

-----------------------------------------------------------------------------
(* The copies of a cluster that somebody can still act on, oldest first:    *)
(* the one that Reconcile holds, at place 0, and then the versions.         *)

Copy(c, i) == IF i = 0 THEN clusterWorker.item ELSE clusterVersions[c][i]

Seen(c) ==
  Indices(c) \cup
    (IF clusterWorker.pc # "idle" /\ clusterWorker.key = c THEN {0} ELSE {})

(* v and w are copies of one incarnation. *)
SameIncarnation(v, w) == v # Absent /\ w # Absent /\ v.uid = w.uid

(* A newer copy has no smaller generation, and the generation tells which   *)
(* spec it is.                                                              *)
GenerationsGrow ==
  \A c \in Cluster : \A i, j \in Seen(c) :
    i <= j /\ SameIncarnation(Copy(c, i), Copy(c, j)) =>
      /\ Copy(c, i).gen <= Copy(c, j).gen
      /\ Copy(c, i).gen = Copy(c, j).gen => Copy(c, i).spec = Copy(c, j).spec

(* A generation that was reported as suspended is no newer than any copy    *)
(* that can be seen: nobody acts on an older one any more.                  *)
SuspensionSeen ==
  \A c \in Cluster : \A i, j \in Seen(c) :
    SameIncarnation(Copy(c, i), Copy(c, j))
      /\ Copy(c, j).status.reason = "Suspended"
      => Copy(c, j).status.obs <= Copy(c, i).gen

(* What is reported as suspended is. *)
SuspensionIsHonest ==
  \A c \in Cluster : \A i \in Seen(c) :
    LET v == Copy(c, i)
    IN  v # Absent /\ v.status.reason = "Suspended" /\ v.status.obs = v.gen
          => v.spec.suspend

(* Every deleting copy of an incarnation that must keep its remote cluster  *)
(* says so.                                                                 *)
KeptIsOrphan ==
  \A c \in Cluster : \A i \in Seen(c) :
    LET v == Copy(c, i)
    IN  v # Absent /\ v.deleting /\ <<c, v.uid>> \in keepRemote => v.spec.orphan

(* The promise is made to incarnations that exist, when they are deleted. *)
KeptIsDeleted ==
  /\ \A i \in keepRemote : i[2] <= lastUid
  /\ \A c \in Cluster :
       LET o == Stored(clusterVersions[c])
       IN  o # Absent /\ <<c, o.uid>> \in keepRemote => o.deleting

(* How the spec of its copy decides what Reconcile does. *)
WorkerObeys ==
  /\ clusterWorker.pc \in {"getConnection", "sync", "deleteRemote"} =>
       IF clusterWorker.item.deleting THEN ~clusterWorker.item.spec.orphan
                                      ELSE ~clusterWorker.item.spec.suspend
  /\ clusterWorker.reason = "Suspended" =>
       /\ clusterWorker.pc = "updateStatus" /\ clusterWorker.observes
       /\ ~clusterWorker.item.deleting /\ clusterWorker.item.spec.suspend

CopyInv ==
  /\ GenerationsGrow
  /\ SuspensionSeen
  /\ SuspensionIsHonest
  /\ KeptIsOrphan

PolicyInv == HeldInv /\ CopyInv /\ KeptIsDeleted /\ WorkerObeys

-----------------------------------------------------------------------------
(* What PolicyInv says *)

(* The types of copies. *)
LEMMA CopyType ==
  ASSUME TypeOK, NEW c \in Cluster, NEW i \in Seen(c)
  PROVE  /\ i \in Nat
         /\ Copy(c, i) \in ClusterVersion
         /\ Copy(c, i) # Absent =>
              /\ Copy(c, i) \in ClusterObject
              /\ Copy(c, i).uid \in Nat /\ Copy(c, i).gen \in Nat
              /\ Copy(c, i).status.obs \in Nat
  <1>1. i \in Nat
    BY VersionType DEF Seen, Indices
  <1>2. Copy(c, i) \in ClusterVersion
    <2>1. CASE i = 0
      <3>1. clusterWorker.pc # "idle"
        BY <2>1 DEF Seen, Indices
      <3> QED  BY <2>1, <3>1, BusyType DEF BusyClusterWorker, Copy, ClusterVersion
    <2>2. CASE i # 0
      BY <2>2, VersionType DEF Seen, Copy
    <2> QED  BY <2>1, <2>2
  <1>3. ASSUME Copy(c, i) # Absent
        PROVE  /\ Copy(c, i) \in ClusterObject
               /\ Copy(c, i).uid \in Nat /\ Copy(c, i).gen \in Nat
               /\ Copy(c, i).status.obs \in Nat
    <2>1. Copy(c, i) \in ClusterObject
      BY <1>2, <1>3 DEF ClusterVersion
    <2> QED  BY <2>1 DEF ClusterObject
  <1> QED  BY <1>1, <1>2, <1>3

(* The stored version is the newest copy. *)
LEMMA StoredIsNewest ==
  ASSUME TypeOK, NEW c \in Cluster
  PROVE  /\ Len(clusterVersions[c]) \in Seen(c)
         /\ Copy(c, Len(clusterVersions[c])) = Stored(clusterVersions[c])
         /\ \A i \in Seen(c) : i \in Nat /\ i <= Len(clusterVersions[c])
  BY VersionType DEF Seen, Copy, Indices

(* Under PolicyInv, Reconcile calls DeleteCluster only for incarnations     *)
(* that may lose their remote cluster.                                      *)
LEMMA PolicyOrphan == PolicyInv => OrphanKeepsRemote
  <1> SUFFICES ASSUME PolicyInv, clusterWorker.pc = "deleteRemote"
               PROVE  Incarnation \notin keepRemote
    BY DEF OrphanKeepsRemote
  <1>1. clusterWorker.key \in Cluster /\ clusterWorker.item \in ClusterObject
    BY BusyType DEF PolicyInv, HeldInv, BusyClusterWorker
  <1>2. 0 \in Seen(clusterWorker.key)
        /\ Copy(clusterWorker.key, 0) = clusterWorker.item
    BY DEF Seen, Copy
  <1>3. clusterWorker.item.deleting /\ ~clusterWorker.item.spec.orphan
    BY DEF PolicyInv, HeldInv, WorkerDeletes, WorkerObeys
  <1> QED
    BY <1>1, <1>2, <1>3, AbsentAssumption
       DEF PolicyInv, CopyInv, KeptIsOrphan, Incarnation

(* Under PolicyInv, the copy that Reconcile syncs is not the generation     *)
(* that was reported as suspended, and not an older one.                    *)
LEMMA PolicySuspend == PolicyInv => SuspendBarrier
  <1> DEFINE c == clusterWorker.key
             item == clusterWorker.item
             o == Stored(clusterVersions[c])
             n == Len(clusterVersions[c])
  <1> SUFFICES ASSUME PolicyInv, clusterWorker.pc \in {"getConnection", "sync"},
                      ~item.deleting,
                      o.status.reason = "Suspended", o.status.obs = o.gen
               PROVE  FALSE
    BY DEF SuspendBarrier
  <1>0. TypeOK
    BY DEF PolicyInv, HeldInv
  <1>1. c \in Cluster /\ item \in ClusterObject
    BY <1>0, BusyType DEF BusyClusterWorker
  <1>2. 0 \in Seen(c) /\ Copy(c, 0) = item
    BY DEF Seen, Copy
  <1>3. n \in Seen(c) /\ Copy(c, n) = o /\ n \in Nat /\ 0 <= n
    BY <1>0, <1>1, StoredIsNewest
  <1>4. o # Absent /\ o.uid = item.uid
    BY DEF PolicyInv, HeldInv, SyncHoldsFinalizer, Held
  <1>5. item # Absent
    BY <1>1, AbsentAssumption
  <1>6. item.gen \in Nat /\ o.gen \in Nat
    BY <1>0, <1>1, <1>2, <1>3, <1>4, <1>5, CopyType
  <1> HIDE DEF c, item, o, n
  <1>7. item.gen <= o.gen /\ (item.gen = o.gen => item.spec = o.spec)
    BY <1>1, <1>2, <1>3, <1>4, <1>5
       DEF PolicyInv, CopyInv, GenerationsGrow, SameIncarnation
  <1>8. o.status.obs <= item.gen
    BY <1>1, <1>2, <1>3, <1>4, <1>5
       DEF PolicyInv, CopyInv, SuspensionSeen, SameIncarnation
  <1>9. o.spec.suspend
    BY <1>1, <1>3, <1>4 DEF PolicyInv, CopyInv, SuspensionIsHonest
  <1>10. item.gen = o.gen
    BY <1>6, <1>7, <1>8
  <1> QED  BY <1>7, <1>9, <1>10 DEF PolicyInv, WorkerObeys, item

-----------------------------------------------------------------------------
(* CopyInv is kept by what drops copies, and by what adds one at the end. *)

(* Deliveries, restarts and the beginning and the end of Reconcile: every   *)
(* copy that can be seen afterwards could be seen before, in that order.    *)
FewerCopies ==
  \A c \in Cluster : \A i \in Seen(c)', j \in Seen(c)' :
    /\ i \in Nat /\ j \in Nat
    /\ i <= j => \E k \in Seen(c), l \in Seen(c) :
                   /\ k <= l
                   /\ Copy(c, i)' = Copy(c, k)
                   /\ Copy(c, j)' = Copy(c, l)

(* Then each copy that can be seen could be seen before. *)
LEMMA FewerThanBefore ==
  ASSUME FewerCopies, NEW c \in Cluster, NEW i \in Seen(c)'
  PROVE  \E k \in Seen(c) : Copy(c, i)' = Copy(c, k)
  <1>1. i \in Nat
    BY DEF FewerCopies
  <1>2. i <= i
    BY <1>1
  <1> QED  BY <1>2 DEF FewerCopies

(* CopyInv speaks of pairs of copies, so it stays. *)
LEMMA CopyFewer ==
  ASSUME CopyInv, UNCHANGED keepRemote, FewerCopies
  PROVE  CopyInv'
  <1> USE DEF CopyInv, FewerCopies
  <1>1. GenerationsGrow'
    BY DEF GenerationsGrow, SameIncarnation
  <1>2. SuspensionSeen'
    <2> SUFFICES ASSUME NEW c \in Cluster, NEW i \in Seen(c)', NEW j \in Seen(c)',
                        SameIncarnation(Copy(c, i)', Copy(c, j)'),
                        Copy(c, j)'.status.reason = "Suspended"
                 PROVE  Copy(c, j)'.status.obs <= Copy(c, i)'.gen
      BY DEF SuspensionSeen, SameIncarnation
    <2>1. PICK k \in Seen(c), l \in Seen(c) :
            Copy(c, i)' = Copy(c, k) /\ Copy(c, j)' = Copy(c, l)
      <3>1. CASE i <= j
        BY <3>1
      <3>2. CASE j <= i
        BY <3>2
      <3> QED  BY <3>1, <3>2
    <2> QED  BY <2>1 DEF SuspensionSeen, SameIncarnation
  <1>3. \A c \in Cluster : \A i \in Seen(c)' :
          \E k \in Seen(c) : Copy(c, i)' = Copy(c, k)
    BY FewerThanBefore
  <1>4. SuspensionIsHonest'
    BY <1>3 DEF SuspensionIsHonest
  <1>5. KeptIsOrphan'
    BY <1>3 DEF KeptIsOrphan
  <1> QED  BY <1>1, <1>2, <1>4, <1>5

(* A write adds x as the newest copy; the worker may be done with its own.  *)
LEMMA AddedCopy ==
  ASSUME TypeOK, NEW c \in Cluster, NEW x \in ClusterVersion, StoreCluster(c, x),
         clusterWorker' \in {clusterWorker, IdleClusterWorker}
  PROVE  LET n == Len(clusterVersions[c])
         IN  /\ n \in Nat
             /\ \A d \in Cluster : \A i \in Seen(d)' :
                  \/ i \in Seen(d) /\ Copy(d, i)' = Copy(d, i) /\ i \in Nat
                     /\ (d = c => i < n + 1)
                  \/ d = c /\ i = n + 1 /\ Copy(d, i)' = x
  <1> DEFINE n == Len(clusterVersions[c])
  <1>1. /\ n \in Nat /\ n >= 1
        /\ Indices(c)' = Indices(c) \cup {n + 1}
        /\ \A i \in Indices(c) : i < n + 1 /\ clusterVersions'[c][i] = clusterVersions[c][i]
        /\ clusterVersions'[c][n + 1] = x
        /\ \A d \in Cluster \ {c} : /\ clusterVersions'[d] = clusterVersions[d]
                                    /\ Indices(d)' = Indices(d)
    BY AppendStored, VersionType
  <1> HIDE DEF n
  <1>2. \A d \in Cluster : \A i \in Seen(d)' :
          \/ i \in Seen(d) /\ Copy(d, i)' = Copy(d, i) /\ i \in Nat
             /\ (d = c => i < n + 1)
          \/ d = c /\ i = n + 1 /\ Copy(d, i)' = x
    <2> SUFFICES ASSUME NEW d \in Cluster, NEW i \in Seen(d)'
                 PROVE  \/ i \in Seen(d) /\ Copy(d, i)' = Copy(d, i) /\ i \in Nat
                           /\ (d = c => i < n + 1)
                        \/ d = c /\ i = n + 1 /\ Copy(d, i)' = x
      OBVIOUS
    <2>1. CASE i = 0
      <3>1. clusterWorker' = clusterWorker
        BY <2>1 DEF Seen, Indices, IdleClusterWorker
      <3> QED  BY <1>1, <2>1, <3>1 DEF Seen, Copy, Indices
    <2>2. CASE i # 0
      <3>1. i \in Indices(d)'
        BY <2>2 DEF Seen
      <3>2. i \in Nat
        BY <3>1 DEF Indices
      <3> QED  BY <1>1, <2>2, <3>1, <3>2 DEF Seen, Copy
    <2> QED  BY <2>1, <2>2
  <1> QED  BY <1>1, <1>2 DEF n

(* CopyInv stays if x fits the copies before it. *)
LEMMA CopyStored ==
  ASSUME TypeOK, CopyInv, NEW c \in Cluster, NEW x \in ClusterVersion,
         StoreCluster(c, x), clusterWorker' \in {clusterWorker, IdleClusterWorker},
         \* what it keeps or makes of the generation and the spec
         x # Absent => \A i \in Seen(c) :
           SameIncarnation(Copy(c, i), x) =>
             /\ Copy(c, i).gen <= x.gen
             /\ Copy(c, i).gen = x.gen => Copy(c, i).spec = x.spec,
         \* what it reports
         x # Absent /\ x.status.reason = "Suspended" =>
           /\ x.status.obs <= x.gen
           /\ x.status.obs = x.gen => x.spec.suspend
           /\ \A i \in Seen(c) :
                i \in Seen(c)' /\ SameIncarnation(Copy(c, i), x)
                  => x.status.obs <= Copy(c, i).gen,
         x # Absent => \A i \in Seen(c) :
           SameIncarnation(Copy(c, i), x) /\ Copy(c, i).status.reason = "Suspended"
             => Copy(c, i).status.obs <= x.gen,
         \* and which incarnations must keep their remote clusters
         \A i \in keepRemote' \ keepRemote :
           \E u : i = <<c, u>> /\ \A j \in Seen(c) :
                    Copy(c, j) # Absent /\ Copy(c, j).uid = u => ~Copy(c, j).deleting,
         x # Absent /\ x.deleting /\ <<c, x.uid>> \in keepRemote' => x.spec.orphan
  PROVE  CopyInv'
  <1> DEFINE n == Len(clusterVersions[c])
  <1> USE DEF CopyInv
  <1>1. n \in Nat
    BY VersionType
  <1>2. \A d \in Cluster : \A i \in Seen(d)' :
          \/ i \in Seen(d) /\ Copy(d, i)' = Copy(d, i) /\ i \in Nat
             /\ (d = c => i < n + 1)
          \/ d = c /\ i = n + 1 /\ Copy(d, i)' = x
    BY AddedCopy
  <1> HIDE DEF n
  <1>3. x # Absent => x.gen \in Nat /\ x.status.obs \in Nat
    BY DEF ClusterVersion, ClusterObject
  <1>4. GenerationsGrow'
    <2> SUFFICES ASSUME NEW d \in Cluster, NEW i \in Seen(d)', NEW j \in Seen(d)', i <= j,
                        SameIncarnation(Copy(d, i)', Copy(d, j)')
                 PROVE  /\ Copy(d, i)'.gen <= Copy(d, j)'.gen
                        /\ Copy(d, i)'.gen = Copy(d, j)'.gen
                             => Copy(d, i)'.spec = Copy(d, j)'.spec
      BY DEF GenerationsGrow, SameIncarnation
    <2>1. CASE d = c /\ j = n + 1 /\ Copy(d, j)' = x
      <3>1. CASE i = n + 1 /\ Copy(d, i)' = x
        BY <1>3, <2>1, <3>1 DEF SameIncarnation
      <3>2. CASE i \in Seen(d) /\ Copy(d, i)' = Copy(d, i)
        BY <2>1, <3>2 DEF SameIncarnation
      <3> QED  BY <1>2, <3>1, <3>2
    <2>2. CASE j \in Seen(d) /\ Copy(d, j)' = Copy(d, j) /\ j \in Nat
               /\ (d = c => j < n + 1)
      <3>1. i \in Seen(d) /\ Copy(d, i)' = Copy(d, i)
        BY <1>1, <1>2, <2>2
      <3> QED  BY <2>2, <3>1 DEF GenerationsGrow
    <2> QED  BY <1>2, <2>1, <2>2
  <1>5. SuspensionSeen'
    <2> SUFFICES ASSUME NEW d \in Cluster, NEW i \in Seen(d)', NEW j \in Seen(d)',
                        SameIncarnation(Copy(d, i)', Copy(d, j)'),
                        Copy(d, j)'.status.reason = "Suspended"
                 PROVE  Copy(d, j)'.status.obs <= Copy(d, i)'.gen
      BY DEF SuspensionSeen, SameIncarnation
    <2>1. CASE i \in Seen(d) /\ Copy(d, i)' = Copy(d, i)
               /\ j \in Seen(d) /\ Copy(d, j)' = Copy(d, j)
      BY <2>1 DEF SuspensionSeen
    <2>2. CASE i \in Seen(d) /\ Copy(d, i)' = Copy(d, i) /\ d = c /\ Copy(d, j)' = x
      BY <2>2 DEF SameIncarnation
    <2>3. CASE d = c /\ Copy(d, i)' = x /\ j \in Seen(d) /\ Copy(d, j)' = Copy(d, j)
      BY <2>3 DEF SameIncarnation
    <2>4. CASE Copy(d, i)' = x /\ Copy(d, j)' = x
      BY <2>4 DEF SameIncarnation
    <2> QED  BY <1>2, <2>1, <2>2, <2>3, <2>4
  <1>6. SuspensionIsHonest'
    BY <1>2 DEF SuspensionIsHonest
  <1>7. KeptIsOrphan'
    <2> SUFFICES ASSUME NEW d \in Cluster, NEW i \in Seen(d)', Copy(d, i)' # Absent,
                        Copy(d, i)'.deleting, <<d, Copy(d, i)'.uid>> \in keepRemote'
                 PROVE  Copy(d, i)'.spec.orphan
      BY DEF KeptIsOrphan
    <2>1. CASE d = c /\ Copy(d, i)' = x
      BY <2>1
    <2>2. CASE i \in Seen(d) /\ Copy(d, i)' = Copy(d, i)
      <3>1. <<d, Copy(d, i).uid>> \in keepRemote
        BY <2>2
      <3> QED  BY <2>2, <3>1 DEF KeptIsOrphan
    <2> QED  BY <1>2, <2>1, <2>2
  <1> QED  BY <1>4, <1>5, <1>6, <1>7

-----------------------------------------------------------------------------
(* PolicyInv is inductive. *)

(* PolicyInv holds when the operator starts. *)
LEMMA InitPolicy == Init => PolicyInv
  <1> SUFFICES ASSUME Init PROVE PolicyInv
    OBVIOUS
  <1>1. HeldInv
    BY InitHeld
  <1>2. WorkerObeys
    BY DEF Init, IdleClusterWorker, WorkerObeys
  <1>3. ASSUME NEW c \in Cluster, NEW i \in Seen(c), NEW j \in Seen(c)
        PROVE  /\ i = j
               /\ Copy(c, i) # Absent =>
                    /\ Copy(c, i).gen = 1 /\ ~Copy(c, i).deleting
                    /\ Copy(c, i).status.reason = "None"
    <2>1. PICK x : clusterVersions[c] = <<x>> /\
                   (x # Absent => \E s \in Specs, f \in InitialFinalizers :
                                    x = NewCluster(0, s, f))
      BY <1>3 DEF Init
    <2>2. i = 1 /\ j = 1 /\ Copy(c, i) = x
      BY <1>3, <2>1 DEF Init, IdleClusterWorker, Seen, Indices, Copy
    <2> QED  BY <2>1, <2>2 DEF NewCluster
  <1>4. CopyInv
    <2>1. GenerationsGrow
      BY <1>3 DEF GenerationsGrow, SameIncarnation
    <2>2. SuspensionSeen
      BY <1>3 DEF SuspensionSeen, SameIncarnation
    <2>3. SuspensionIsHonest /\ KeptIsOrphan
      BY <1>3 DEF SuspensionIsHonest, KeptIsOrphan
    <2> QED  BY <2>1, <2>2, <2>3 DEF CopyInv
  <1>5. KeptIsDeleted
    BY DEF Init, KeptIsDeleted
  <1> QED  BY <1>1, <1>2, <1>4, <1>5 DEF PolicyInv

(* A step that writes no cluster and leaves Reconcile with the copy it has, *)
(* or ends it.                                                              *)
LEMMA QuietCopies ==
  ASSUME TypeOK, UNCHANGED clusterVersions,
         \/ clusterWorker' \in {clusterWorker, IdleClusterWorker}
         \/ /\ clusterWorker.pc # "idle"
            /\ clusterWorker'.key = clusterWorker.key
            /\ clusterWorker'.item = clusterWorker.item
  PROVE  FewerCopies
  <1>1. \A c \in Cluster : \A i \in Seen(c)' :
          i \in Nat /\ i \in Seen(c) /\ Copy(c, i)' = Copy(c, i)
    <2> SUFFICES ASSUME NEW c \in Cluster, NEW i \in Seen(c)'
                 PROVE  i \in Nat /\ i \in Seen(c) /\ Copy(c, i)' = Copy(c, i)
      OBVIOUS
    <2>1. CASE i = 0
      BY <2>1 DEF Seen, Copy, Indices, IdleClusterWorker
    <2>2. CASE i # 0
      BY <2>2, VersionType DEF Seen, Copy, Indices
    <2> QED  BY <2>1, <2>2
  <1> QED  BY <1>1 DEF FewerCopies

(* Reconcile takes the cached copy. *)
LEMMA BeginCopies ==
  ASSUME TypeOK, NEW c \in Cluster, CanReconcile(c), NEW pc, NEW reason,
         BeginCluster(c, pc, reason)
  PROVE  FewerCopies
  <1>1. /\ UNCHANGED clusterVersions
        /\ clusterWorker'.key = c /\ clusterWorker'.item = Cached(clusterVersions[c])
        /\ clusterWorker.pc = "idle"
    BY DEF BeginCluster, CanReconcile
  <1>2. \A d \in Cluster : \A i \in Seen(d) : i \in Nat /\ i # 0
    BY <1>1, VersionType DEF Seen, Indices
  <1>3. \A d \in Cluster : \A i \in Seen(d)' :
          \/ i \in Nat /\ i \in Seen(d) /\ Copy(d, i)' = Copy(d, i) /\ 1 <= i
          \/ i = 0 /\ 1 \in Seen(d) /\ Copy(d, i)' = Copy(d, 1)
    <2> SUFFICES ASSUME NEW d \in Cluster, NEW i \in Seen(d)'
                 PROVE  \/ i \in Nat /\ i \in Seen(d) /\ Copy(d, i)' = Copy(d, i) /\ 1 <= i
                        \/ i = 0 /\ 1 \in Seen(d) /\ Copy(d, i)' = Copy(d, 1)
      OBVIOUS
    <2>1. CASE i = 0
      <3>1. d = c
        BY <1>1, <2>1 DEF Seen, Indices
      <3> QED  BY <1>1, <2>1, <3>1, VersionType DEF Seen, Copy
    <2>2. CASE i # 0
      <3>1. i \in Indices(d)
        BY <1>1, <2>2 DEF Seen, Indices
      <3> QED  BY <1>1, <2>2, <3>1 DEF Seen, Copy, Indices
    <2> QED  BY <2>1, <2>2
  <1>4. ASSUME NEW d \in Cluster, NEW i \in Seen(d)', NEW j \in Seen(d)'
        PROVE  /\ i \in Nat /\ j \in Nat
               /\ i <= j => \E k \in Seen(d), l \in Seen(d) :
                              /\ k <= l
                              /\ Copy(d, i)' = Copy(d, k)
                              /\ Copy(d, j)' = Copy(d, l)
    <2>1. i \in Nat /\ j \in Nat
      BY <1>3
    <2>2. CASE i # 0 /\ j # 0
      BY <1>3, <2>1, <2>2
    <2>3. CASE i = 0 /\ j = 0
      <3>1. 1 <= 1
        OBVIOUS
      <3> QED  BY <1>3, <2>1, <2>3, <3>1
    <2>4. CASE i = 0 /\ j # 0
      BY <1>3, <2>1, <2>4
    <2>5. CASE i # 0 /\ j = 0
      BY <2>1, <2>5
    <2> QED  BY <2>1, <2>2, <2>3, <2>4, <2>5
  <1> QED  BY <1>1, <1>4 DEF FewerCopies

(* A delivery drops the cached copy, though Reconcile may still hold it. *)
LEMMA DeliverCopies ==
  ASSUME TypeOK, NEW c \in Cluster, DeliverCluster(c)
  PROVE  FewerCopies
  <1>1. UNCHANGED clusterWorker
    BY DEF DeliverCluster
  <1>2. /\ \A i \in Indices(c)' :
             i + 1 \in Indices(c) /\ clusterVersions'[c][i] = clusterVersions[c][i + 1]
        /\ \A d \in Cluster \ {c} : /\ clusterVersions'[d] = clusterVersions[d]
                                    /\ Indices(d)' = Indices(d)
    BY DeliverStored
  <1>3. \A d \in Cluster : \A i \in Seen(d)' :
          /\ i \in Nat
          /\ i = 0 => 0 \in Seen(d) /\ Copy(d, 0)' = Copy(d, 0)
          /\ i # 0 /\ d # c => i \in Seen(d) /\ Copy(d, i)' = Copy(d, i)
          /\ i # 0 /\ d = c => i + 1 \in Seen(d) /\ Copy(d, i)' = Copy(d, i + 1)
    <2> SUFFICES ASSUME NEW d \in Cluster, NEW i \in Seen(d)'
                 PROVE  /\ i \in Nat
                        /\ i = 0 => 0 \in Seen(d) /\ Copy(d, 0)' = Copy(d, 0)
                        /\ i # 0 /\ d # c => i \in Seen(d) /\ Copy(d, i)' = Copy(d, i)
                        /\ i # 0 /\ d = c =>
                             i + 1 \in Seen(d) /\ Copy(d, i)' = Copy(d, i + 1)
      OBVIOUS
    <2>1. CASE i = 0
      BY <1>1, <2>1 DEF Seen, Copy, Indices
    <2>2. CASE i # 0
      <3>1. i \in Indices(d)' /\ i \in Nat /\ i + 1 # 0
        BY <2>2 DEF Seen, Indices
      <3> QED  BY <1>2, <2>2, <3>1 DEF Seen, Copy
    <2> QED  BY <2>1, <2>2
  <1>4. ASSUME NEW d \in Cluster, NEW i \in Seen(d)', NEW j \in Seen(d)'
        PROVE  /\ i \in Nat /\ j \in Nat
               /\ i <= j => \E k \in Seen(d), l \in Seen(d) :
                              /\ k <= l
                              /\ Copy(d, i)' = Copy(d, k)
                              /\ Copy(d, j)' = Copy(d, l)
    <2>1. i \in Nat /\ j \in Nat
      BY <1>3
    <2>2. CASE d # c
      BY <1>3, <2>1, <2>2
    <2>3. CASE d = c /\ i = 0 /\ j = 0
      BY <1>3, <2>1, <2>3
    <2>4. CASE d = c /\ i = 0 /\ j # 0
      <3>1. 0 <= j + 1
        BY <2>1
      <3> QED  BY <1>3, <2>1, <2>4, <3>1
    <2>5. CASE d = c /\ i # 0 /\ j # 0
      <3>1. i <= j => i + 1 <= j + 1
        BY <2>1
      <3> QED  BY <1>3, <2>1, <2>5, <3>1
    <2>6. CASE i # 0 /\ j = 0
      BY <2>1, <2>6
    <2> QED  BY <2>1, <2>2, <2>3, <2>4, <2>5, <2>6
  <1> QED  BY <1>1, <1>4 DEF FewerCopies

(* A restart leaves the stored versions. *)
LEMMA RestartCopies ==
  ASSUME TypeOK, Restart
  PROVE  FewerCopies
  <1>1. clusterWorker' = IdleClusterWorker
    BY DEF Restart
  <1>2. \A c \in Cluster : \A i \in Seen(c)' :
          /\ i = 1 /\ Len(clusterVersions[c]) \in Seen(c)
          /\ Len(clusterVersions[c]) <= Len(clusterVersions[c])
          /\ Copy(c, i)' = Copy(c, Len(clusterVersions[c]))
    <2> SUFFICES ASSUME NEW c \in Cluster, NEW i \in Seen(c)'
                 PROVE  /\ i = 1 /\ Len(clusterVersions[c]) \in Seen(c)
                        /\ Len(clusterVersions[c]) <= Len(clusterVersions[c])
                        /\ Copy(c, i)' = Copy(c, Len(clusterVersions[c]))
      OBVIOUS
    <2>1. i = 1
      BY <1>1, RestartStored DEF Seen, IdleClusterWorker
    <2>2. Copy(c, i)' = Stored(clusterVersions[c])
      BY <2>1, RestartStored DEF Copy
    <2>3. Len(clusterVersions[c]) <= Len(clusterVersions[c])
      BY VersionType
    <2> QED  BY <2>1, <2>2, <2>3, StoredIsNewest
  <1> QED  BY <1>1, <1>2 DEF FewerCopies

(* What CopyInv says of the stored object. *)
LEMMA NewestCopy ==
  ASSUME TypeOK, CopyInv, NEW c \in Cluster, NEW o, o = Stored(clusterVersions[c]),
         o # Absent
  PROVE  /\ o \in ClusterObject /\ o.gen \in Nat /\ o.status.obs \in Nat
         /\ \A i \in Seen(c) : SameIncarnation(Copy(c, i), o) =>
              /\ Copy(c, i).gen \in Nat /\ Copy(c, i).status.obs \in Nat
              /\ Copy(c, i).gen <= o.gen
              /\ Copy(c, i).gen = o.gen => Copy(c, i).spec = o.spec
              /\ Copy(c, i).status.reason = "Suspended"
                   => Copy(c, i).status.obs <= o.gen
              /\ o.status.reason = "Suspended" => o.status.obs <= Copy(c, i).gen
         /\ o.status.reason = "Suspended" =>
              /\ o.status.obs <= o.gen
              /\ o.status.obs = o.gen => o.spec.suspend
         /\ o.deleting /\ <<c, o.uid>> \in keepRemote => o.spec.orphan
  <1> DEFINE n == Len(clusterVersions[c])
  <1> USE DEF CopyInv
  <1>1. /\ n \in Seen(c) /\ Copy(c, n) = o
        /\ \A i \in Seen(c) : i \in Nat /\ i <= n
    BY StoredIsNewest
  <1>2. o \in ClusterObject /\ o.gen \in Nat /\ o.status.obs \in Nat
    BY <1>1, CopyType
  <1> HIDE DEF n
  <1>3. ASSUME NEW i \in Seen(c), SameIncarnation(Copy(c, i), o)
        PROVE  /\ Copy(c, i).gen \in Nat /\ Copy(c, i).status.obs \in Nat
               /\ Copy(c, i).gen <= o.gen
               /\ Copy(c, i).gen = o.gen => Copy(c, i).spec = o.spec
               /\ Copy(c, i).status.reason = "Suspended"
                    => Copy(c, i).status.obs <= o.gen
               /\ o.status.reason = "Suspended" => o.status.obs <= Copy(c, i).gen
    <2>1. SameIncarnation(o, Copy(c, i))
      BY <1>3 DEF SameIncarnation
    <2>2. Copy(c, i).gen \in Nat /\ Copy(c, i).status.obs \in Nat
      BY <1>3, CopyType DEF SameIncarnation
    <2>3. /\ Copy(c, i).gen <= o.gen
          /\ Copy(c, i).gen = o.gen => Copy(c, i).spec = o.spec
      BY <1>1, <1>3 DEF GenerationsGrow
    <2>4. /\ Copy(c, i).status.reason = "Suspended"
               => Copy(c, i).status.obs <= o.gen
          /\ o.status.reason = "Suspended" => o.status.obs <= Copy(c, i).gen
      BY <1>1, <1>3, <2>1 DEF SuspensionSeen
    <2> QED  BY <2>2, <2>3, <2>4
  <1>4. o.status.reason = "Suspended" =>
          /\ o.status.obs <= o.gen
          /\ o.status.obs = o.gen => o.spec.suspend
    BY <1>1 DEF SuspensionSeen, SuspensionIsHonest, SameIncarnation
  <1>5. o.deleting /\ <<c, o.uid>> \in keepRemote => o.spec.orphan
    BY <1>1 DEF KeptIsOrphan
  <1> QED  BY <1>2, <1>3, <1>4, <1>5

(* The update that adds the finalizer changes nothing of this. *)
LEMMA CopyAdd ==
  ASSUME TypeOK, CopyInv, AddClusterFinalizer
  PROVE  CopyInv'
  <1> DEFINE c == clusterWorker.key
             o == Stored(clusterVersions[c])
             x == [o EXCEPT !.fins = @ \cup {Finalizer}]
  <1>1. /\ c \in Cluster /\ o \in ClusterObject /\ o # Absent
        /\ StoreCluster(c, x)
    BY BusyType, AbsentAssumption DEF AddClusterFinalizer, BusyClusterWorker
  <1>2. /\ x \in ClusterObject
        /\ x.uid = o.uid /\ x.gen = o.gen /\ x.spec = o.spec
        /\ x.deleting = o.deleting /\ x.status = o.status
    BY <1>1 DEF ClusterObject, Finalizers
  <1>3. clusterWorker' = IdleClusterWorker /\ UNCHANGED keepRemote
    BY DEF AddClusterFinalizer, ClusterDone, history
  <1> HIDE DEF c, o, x
  <1>4. x \in ClusterVersion /\ x # Absent
    BY <1>2, AbsentAssumption DEF ClusterVersion
  <1>5. \A i \in Seen(c) : SameIncarnation(Copy(c, i), x) => SameIncarnation(Copy(c, i), o)
    BY <1>1, <1>2 DEF SameIncarnation
  <1>6. /\ \A i \in Seen(c) : SameIncarnation(Copy(c, i), o) =>
             /\ Copy(c, i).gen <= o.gen
             /\ Copy(c, i).gen = o.gen => Copy(c, i).spec = o.spec
             /\ Copy(c, i).status.reason = "Suspended"
                  => Copy(c, i).status.obs <= o.gen
             /\ o.status.reason = "Suspended" => o.status.obs <= Copy(c, i).gen
        /\ o.status.reason = "Suspended" =>
             /\ o.status.obs <= o.gen
             /\ o.status.obs = o.gen => o.spec.suspend
        /\ o.deleting /\ <<c, o.uid>> \in keepRemote => o.spec.orphan
    BY <1>1, NewestCopy DEF o
  <1> QED  BY <1>1, <1>2, <1>3, <1>4, <1>5, <1>6, CopyStored

(* A status write reports the generation of the copy that Reconcile held,   *)
(* which is no newer than any other; "Suspended" stands for a copy of the   *)
(* stored incarnation, because that one was held.                           *)
LEMMA CopyStatus ==
  ASSUME PolicyInv, UpdateClusterStatus
  PROVE  CopyInv'
  <1> USE DEF PolicyInv, HeldInv
  <1> DEFINE c == clusterWorker.key
             item == clusterWorker.item
             o == Stored(clusterVersions[c])
             status == NewStatus(o)
             x == [o EXCEPT !.status = status]
  <1>1. /\ c \in Cluster /\ item \in ClusterObject /\ clusterWorker \in BusyClusterWorker
        /\ o # Absent /\ StoreCluster(c, x)
    BY BusyType DEF UpdateClusterStatus, BusyClusterWorker
  <1>2. /\ o \in ClusterObject /\ o.gen \in Nat
        /\ \A i \in Seen(c) : SameIncarnation(Copy(c, i), o) =>
             /\ Copy(c, i).gen \in Nat /\ Copy(c, i).gen <= o.gen
             /\ Copy(c, i).gen = o.gen => Copy(c, i).spec = o.spec
             /\ Copy(c, i).status.reason = "Suspended"
                  => Copy(c, i).status.obs <= o.gen
        /\ o.deleting /\ <<c, o.uid>> \in keepRemote => o.spec.orphan
    BY <1>1, NewestCopy
  <1>3. /\ status \in [obs : Nat, reason : Reason]
        /\ status.reason = clusterWorker.reason
        /\ clusterWorker.observes => status.obs = item.gen
    BY <1>1, <1>2 DEF NewStatus, BusyClusterWorker, ClusterObject
  <1>4. 0 \in Seen(c) /\ Copy(c, 0) = item /\ item # Absent
    BY <1>1, AbsentAssumption DEF Seen, Copy, UpdateClusterStatus
  <1>5. status.reason = "Suspended" =>
          /\ item.uid = o.uid /\ item.spec.suspend /\ status.obs = item.gen
          /\ \A i \in Seen(c) :
               SameIncarnation(Copy(c, i), o) => item.gen <= Copy(c, i).gen
    <2> SUFFICES ASSUME status.reason = "Suspended"
                 PROVE  /\ item.uid = o.uid /\ item.spec.suspend
                        /\ status.obs = item.gen
                        /\ \A i \in Seen(c) :
                             SameIncarnation(Copy(c, i), o) => item.gen <= Copy(c, i).gen
      OBVIOUS
    <2>1. ~item.deleting /\ item.spec.suspend /\ status.obs = item.gen
      BY <1>3 DEF WorkerObeys
    <2>2. item.uid = o.uid
      BY <2>1 DEF SyncHoldsFinalizer, Held, UpdateClusterStatus
    <2> HIDE DEF c, item, o, status
    <2>3. \A i \in Seen(c) : i \in Nat /\ 0 <= i
      BY <1>1, CopyType
    <2> QED
      BY <1>1, <1>4, <2>1, <2>2, <2>3 DEF CopyInv, GenerationsGrow, SameIncarnation
  <1> HIDE DEF status
  <1>6. /\ x \in ClusterObject
        /\ x.uid = o.uid /\ x.gen = o.gen /\ x.spec = o.spec
        /\ x.deleting = o.deleting /\ x.status = status
    BY <1>2, <1>3 DEF ClusterObject
  <1>7. clusterWorker' = IdleClusterWorker /\ UNCHANGED keepRemote
    BY DEF UpdateClusterStatus, ClusterDone, history
  <1> HIDE DEF c, item, o, x
  <1>8. x \in ClusterVersion /\ x # Absent
    BY <1>6, AbsentAssumption DEF ClusterVersion
  <1>9. \A i \in Seen(c) : SameIncarnation(Copy(c, i), x) => SameIncarnation(Copy(c, i), o)
    BY <1>1, <1>6 DEF SameIncarnation
  <1>10. x.status.reason = "Suspended" =>
           /\ x.status.obs <= x.gen
           /\ x.status.obs = x.gen => x.spec.suspend
           /\ \A i \in Seen(c) :
                SameIncarnation(Copy(c, i), x) => x.status.obs <= Copy(c, i).gen
    <2>1. x.status.reason = "Suspended" => SameIncarnation(Copy(c, 0), o)
      BY <1>1, <1>4, <1>5, <1>6 DEF SameIncarnation
    <2> QED  BY <1>2, <1>4, <1>5, <1>6, <1>9, <2>1
  <1>11. CopyInv
    OBVIOUS
  <1> QED  BY <1>1, <1>2, <1>6, <1>7, <1>8, <1>9, <1>10, <1>11, CopyStored

(* The object goes. *)
LEMMA CopyVanish ==
  ASSUME TypeOK, CopyInv, NEW c \in Cluster, StoreCluster(c, Absent),
         clusterWorker' \in {clusterWorker, IdleClusterWorker},
         \A i \in keepRemote' \ keepRemote :
           \E u : i = <<c, u>> /\ \A j \in Seen(c) :
                    Copy(c, j) # Absent /\ Copy(c, j).uid = u => ~Copy(c, j).deleting
  PROVE  CopyInv'
  <1>1. Absent \in ClusterVersion
    BY DEF ClusterVersion
  <1> QED  BY <1>1, CopyStored

(* A new incarnation has no copies yet. *)
LEMMA CopyCreate ==
  ASSUME PolicyInv, NEW c \in Cluster, CreateCluster(c)
  PROVE  CopyInv'
  <1> USE DEF PolicyInv, HeldInv
  <1>1. PICK s \in Specs : StoreCluster(c, NewCluster(lastUid + 1, s, {}))
    BY DEF CreateCluster
  <1> DEFINE x == NewCluster(lastUid + 1, s, {})
  <1>2. /\ x \in ClusterObject /\ x.uid = lastUid + 1 /\ ~x.deleting
        /\ x.status.reason = "None"
    <2>1. lastUid + 1 \in Nat /\ s \in ClusterSpec
      BY SpecsAssumption DEF TypeOK
    <2> QED  BY <2>1, NewClusterType DEF NewCluster
  <1> HIDE DEF x
  <1>3. x \in ClusterVersion /\ x # Absent /\ StoreCluster(c, x)
    BY <1>1, <1>2, AbsentAssumption DEF ClusterVersion, x
  <1>4. UNCHANGED <<clusterWorker, keepRemote>>
    BY DEF CreateCluster, history
  <1>5. ASSUME NEW i \in Seen(c), SameIncarnation(Copy(c, i), x) PROVE FALSE
    <2>1. Copy(c, i).uid <= lastUid
      <3>1. CASE i = 0
        BY <3>1 DEF UidsIssued, Seen, Copy, Indices
      <3>2. CASE i # 0
        BY <1>5, <3>2 DEF UidsIssued, Seen, Copy, SameIncarnation
      <3> QED  BY <3>1, <3>2
    <2>2. lastUid \in Nat
      BY DEF TypeOK
    <2> QED  BY <1>2, <1>5, <2>1, <2>2 DEF SameIncarnation
  <1>6. TypeOK /\ CopyInv
    OBVIOUS
  <1> QED  BY <1>2, <1>3, <1>4, <1>5, <1>6, CopyStored

(* An edit or a delete request makes a generation that nobody has seen. *)
LEMMA CopyNext ==
  ASSUME TypeOK, CopyInv, NEW c \in Cluster, NEW o, o = Stored(clusterVersions[c]),
         o # Absent, NEW x \in ClusterObject, StoreCluster(c, x),
         x.uid = o.uid, x.gen = o.gen + 1, x.status = o.status,
         UNCHANGED clusterWorker,
         \A i \in keepRemote' \ keepRemote :
           \E u : i = <<c, u>> /\ \A j \in Seen(c) :
                    Copy(c, j) # Absent /\ Copy(c, j).uid = u => ~Copy(c, j).deleting,
         x.deleting /\ <<c, x.uid>> \in keepRemote' => x.spec.orphan
  PROVE  CopyInv'
  <1>1. /\ o.gen \in Nat /\ o.status.obs \in Nat
        /\ \A i \in Seen(c) : SameIncarnation(Copy(c, i), o) =>
             /\ Copy(c, i).gen \in Nat /\ Copy(c, i).status.obs \in Nat
             /\ Copy(c, i).gen <= o.gen
             /\ Copy(c, i).status.reason = "Suspended"
                  => Copy(c, i).status.obs <= o.gen
             /\ o.status.reason = "Suspended" => o.status.obs <= Copy(c, i).gen
        /\ o.status.reason = "Suspended" => o.status.obs <= o.gen
    BY NewestCopy
  <1>2. x \in ClusterVersion /\ x # Absent
    BY AbsentAssumption DEF ClusterVersion
  <1>3. \A i \in Seen(c) : SameIncarnation(Copy(c, i), x) => SameIncarnation(Copy(c, i), o)
    BY DEF SameIncarnation
  <1>4. \A i \in Seen(c) : SameIncarnation(Copy(c, i), x) =>
          /\ Copy(c, i).gen <= x.gen /\ Copy(c, i).gen # x.gen
          /\ Copy(c, i).status.reason = "Suspended"
               => Copy(c, i).status.obs <= x.gen
          /\ x.status.reason = "Suspended" => x.status.obs <= Copy(c, i).gen
    BY <1>1, <1>3
  <1>5. x.status.reason = "Suspended" => x.status.obs <= x.gen /\ x.status.obs # x.gen
    BY <1>1
  <1> QED  BY <1>2, <1>4, <1>5, CopyStored

(* An edit away from orphan mode ends the promise to keep the remote. *)
LEMMA CopyUpdate ==
  ASSUME TypeOK, CopyInv, NEW c \in Cluster, UpdateCluster(c)
  PROVE  CopyInv'
  <1> DEFINE o == Stored(clusterVersions[c])
  <1>1. o # Absent /\ o \in ClusterObject
    BY EndsType DEF UpdateCluster, ClusterVersion
  <1>2. PICK s \in Specs :
          /\ StoreCluster(c, EditedCluster(o, s))
          /\ keepRemote' = IF s.orphan THEN keepRemote
                                       ELSE keepRemote \ {<<c, o.uid>>}
    BY DEF UpdateCluster
  <1> DEFINE x == EditedCluster(o, s)
  <1>3. /\ x \in ClusterObject /\ x.uid = o.uid /\ x.gen = o.gen + 1
        /\ x.status = o.status /\ x.spec = s
    BY <1>1, SpecsAssumption, EditedClusterType
  <1>4. UNCHANGED clusterWorker /\ StoreCluster(c, x)
    BY <1>2 DEF UpdateCluster
  <1> HIDE DEF x
  <1>5. <<c, x.uid>> \in keepRemote' => x.spec.orphan
    BY <1>2, <1>3
  <1> QED  BY <1>1, <1>2, <1>3, <1>4, <1>5, CopyNext

(* A delete request in orphan mode makes the promise; no copy says deleting *)
(* before.                                                                  *)
LEMMA CopyDelete ==
  ASSUME PolicyInv, NEW c \in Cluster, DeleteCluster(c)
  PROVE  CopyInv'
  <1> USE DEF PolicyInv, HeldInv
  <1> DEFINE o == Stored(clusterVersions[c])
             x == MarkedCluster(o)
  <1>1. o # Absent /\ o \in ClusterObject /\ ~o.deleting
    BY EndsType DEF DeleteCluster, ClusterVersion
  <1>2. /\ StoreCluster(c, Settle(x)) /\ UNCHANGED clusterWorker
        /\ keepRemote' = IF o.spec.orphan THEN keepRemote \cup {<<c, o.uid>>}
                                          ELSE keepRemote
    BY DEF DeleteCluster
  <1>3. /\ x \in ClusterObject /\ x.uid = o.uid /\ x.gen = o.gen + 1
        /\ x.status = o.status /\ x.spec = o.spec
    BY <1>1, MarkedClusterType
  <1>4. ASSUME NEW j \in Seen(c), Copy(c, j) # Absent, Copy(c, j).uid = o.uid
        PROVE  ~Copy(c, j).deleting
    <2>1. /\ Len(clusterVersions[c]) \in Indices(c)
          /\ clusterVersions[c][Len(clusterVersions[c])] = o
          /\ \A i \in Indices(c) : i <= Len(clusterVersions[c])
      BY VersionType DEF Indices
    <2>2. CASE j = 0
      BY <1>1, <1>4, <2>1, <2>2 DEF WorkerDeletes, Seen, Copy, Indices
    <2>3. CASE j # 0
      BY <1>1, <1>4, <2>1, <2>3 DEF DeletionIsFinal, Seen, Copy
    <2> QED  BY <2>2, <2>3
  <1> HIDE DEF x, o
  <1>5. \A i \in keepRemote' \ keepRemote :
          \E u : i = <<c, u>> /\ \A j \in Seen(c) :
                   Copy(c, j) # Absent /\ Copy(c, j).uid = u => ~Copy(c, j).deleting
    BY <1>2, <1>4
  <1>6. CopyInv /\ TypeOK /\ clusterWorker' = clusterWorker
    BY <1>2
  <1>7. CASE Settle(x) = x
    <2>1. <<c, x.uid>> \in keepRemote' => x.spec.orphan
      <3>1. CASE o.spec.orphan
        BY <1>3, <3>1
      <3>2. CASE ~o.spec.orphan /\ <<c, x.uid>> \in keepRemote'
        <4>1. <<c, o.uid>> \in keepRemote
          BY <1>2, <1>3, <3>2
        <4> QED  BY <1>1, <4>1 DEF KeptIsDeleted, o
      <3> QED  BY <3>1, <3>2
    <2> QED  BY <1>1, <1>2, <1>3, <1>5, <1>6, <1>7, <2>1, CopyNext DEF o
  <1>8. CASE Settle(x) = Absent
    BY <1>2, <1>5, <1>6, <1>8, CopyVanish
  <1> QED  BY <1>7, <1>8 DEF Settle

-----------------------------------------------------------------------------
(* KeptIsDeleted and WorkerObeys, step by step *)

(* Steps that leave the stored objects and the promises alone. *)
LEMMA KeptElsewhere ==
  ASSUME TypeOK, KeptIsDeleted, UNCHANGED keepRemote, lastUid' >= lastUid, lastUid' \in Nat,
         \A c \in Cluster : Stored(clusterVersions'[c]) = Stored(clusterVersions[c])
  PROVE  KeptIsDeleted'
  <1>1. lastUid \in Nat /\ \A i \in keepRemote : i[2] \in Nat
    BY DEF TypeOK
  <1> QED  BY <1>1 DEF KeptIsDeleted

(* A write that keeps the incarnation, or drops it. *)
LEMMA KeptWrite ==
  ASSUME TypeOK, KeptIsDeleted, NEW c \in Cluster, NEW x \in ClusterVersion,
         StoreCluster(c, x), UNCHANGED lastUid, NEW o,
         o = Stored(clusterVersions[c]), o # Absent,
         keepRemote' \subseteq keepRemote,
         x # Absent => x.uid = o.uid /\ (o.deleting => x.deleting)
  PROVE  KeptIsDeleted'
  <1>1. /\ Stored(clusterVersions'[c]) = x
        /\ \A d \in Cluster \ {c} : clusterVersions'[d] = clusterVersions[d]
    BY AppendStored
  <1>2. \A i \in keepRemote' : i[2] <= lastUid'
    BY DEF KeptIsDeleted
  <1>3. ASSUME NEW d \in Cluster, Stored(clusterVersions'[d]) # Absent,
               <<d, Stored(clusterVersions'[d]).uid>> \in keepRemote'
        PROVE  Stored(clusterVersions'[d]).deleting
    <2>1. CASE d = c
      BY <1>1, <1>3, <2>1 DEF KeptIsDeleted
    <2>2. CASE d # c
      BY <1>1, <1>3, <2>2 DEF KeptIsDeleted
    <2> QED  BY <2>1, <2>2
  <1> QED  BY <1>2, <1>3 DEF KeptIsDeleted

(* A new incarnation has been promised nothing. *)
LEMMA KeptCreate ==
  ASSUME TypeOK, KeptIsDeleted, NEW c \in Cluster, CreateCluster(c)
  PROVE  KeptIsDeleted'
  <1>1. PICK s \in Specs : StoreCluster(c, NewCluster(lastUid + 1, s, {}))
    BY DEF CreateCluster
  <1> DEFINE x == NewCluster(lastUid + 1, s, {})
  <1>2. x \in ClusterVersion /\ x.uid = lastUid + 1
    <2>1. lastUid + 1 \in Nat /\ s \in ClusterSpec
      BY SpecsAssumption DEF TypeOK
    <2> QED  BY <2>1, NewClusterType DEF NewCluster, ClusterVersion
  <1> HIDE DEF x
  <1>3. /\ Stored(clusterVersions'[c]) = x
        /\ \A d \in Cluster \ {c} : clusterVersions'[d] = clusterVersions[d]
    BY <1>1, <1>2, AppendStored DEF x
  <1>4. UNCHANGED keepRemote /\ lastUid' = lastUid + 1
    BY DEF CreateCluster, history
  <1>5. lastUid \in Nat /\ \A i \in keepRemote : i[2] \in Nat /\ i[2] <= lastUid
    BY DEF TypeOK, KeptIsDeleted
  <1>6. <<c, x.uid>> \notin keepRemote
    <2>1. <<c, x.uid>>[2] = lastUid + 1
      BY <1>2
    <2> QED  BY <1>5, <2>1
  <1>7. \A i \in keepRemote' : i[2] <= lastUid'
    BY <1>4, <1>5
  <1> QED  BY <1>3, <1>4, <1>6, <1>7 DEF KeptIsDeleted

(* A delete request marks what it makes a promise to. *)
LEMMA KeptDelete ==
  ASSUME HeldInv, KeptIsDeleted, NEW c \in Cluster, DeleteCluster(c)
  PROVE  KeptIsDeleted'
  <1> USE DEF HeldInv
  <1> DEFINE o == Stored(clusterVersions[c])
             x == MarkedCluster(o)
  <1>1. o # Absent /\ o \in ClusterObject
    BY EndsType DEF DeleteCluster, ClusterVersion
  <1>2. /\ StoreCluster(c, Settle(x)) /\ UNCHANGED lastUid
        /\ keepRemote' \subseteq keepRemote \cup {<<c, o.uid>>}
    BY DEF DeleteCluster
  <1>3. x \in ClusterObject /\ x.deleting /\ x.uid = o.uid
    BY <1>1, MarkedClusterType
  <1>4. o.uid <= lastUid
    BY <1>1, VersionType DEF UidsIssued
  <1> HIDE DEF x, o
  <1>5. Settle(x) \in ClusterVersion /\ (Settle(x) # Absent => Settle(x).deleting)
    BY <1>3, SettleType DEF Settle
  <1>6. /\ Stored(clusterVersions'[c]) = Settle(x)
        /\ \A d \in Cluster \ {c} : clusterVersions'[d] = clusterVersions[d]
    BY <1>2, <1>5, AppendStored
  <1>7. \A i \in keepRemote' : i[2] <= lastUid'
    BY <1>2, <1>4 DEF KeptIsDeleted
  <1>8. ASSUME NEW d \in Cluster, Stored(clusterVersions'[d]) # Absent,
               <<d, Stored(clusterVersions'[d]).uid>> \in keepRemote'
        PROVE  Stored(clusterVersions'[d]).deleting
    <2>1. CASE d = c
      BY <1>5, <1>6, <1>8, <2>1
    <2>2. CASE d # c
      BY <1>2, <1>6, <1>8, <2>2 DEF KeptIsDeleted
    <2> QED  BY <2>1, <2>2
  <1> QED  BY <1>7, <1>8 DEF KeptIsDeleted

(* A step inside Reconcile: the copy stays, and the call to Omni that comes *)
(* next is the one that the spec of the copy allows.                        *)
LEMMA PolicyAdvance ==
  ASSUME PolicyInv, HeldInv', NEW pc, NEW reason, NEW observes,
         clusterWorker.pc \in {"getConnection", "sync", "deleteRemote"},
         AdvanceCluster(pc, reason, observes), reason # "Suspended"
  PROVE  PolicyInv'
  <1> USE DEF PolicyInv
  <1>1. /\ UNCHANGED <<clusterVersions, lastUid, keepRemote>>
        /\ clusterWorker'.pc = pc /\ clusterWorker'.key = clusterWorker.key
        /\ clusterWorker'.item = clusterWorker.item
        /\ clusterWorker'.reason = reason
    BY BusyType DEF AdvanceCluster, BusyClusterWorker, HeldInv, history
  <1>2. WorkerObeys'
    BY <1>1 DEF WorkerObeys
  <1>3. CopyInv'
    BY <1>1, QuietCopies, CopyFewer DEF HeldInv
  <1>4. KeptIsDeleted'
    BY <1>1 DEF KeptIsDeleted
  <1> QED  BY <1>2, <1>3, <1>4

(* Every step of a running Reconcile keeps PolicyInv. *)
LEMMA PolicyWorker ==
  ASSUME PolicyInv, HeldInv', ClusterWorkerStep
  PROVE  PolicyInv'
  <1> USE DEF PolicyInv
  <1>0. TypeOK
    BY DEF HeldInv
  <1>a. ASSUME clusterWorker.pc \in {"getConnection", "sync", "deleteRemote"}
        PROVE  \A pc, reason, observes :
                 AdvanceCluster(pc, reason, observes) /\ reason # "Suspended"
                   => PolicyInv'
    BY <1>a, PolicyAdvance DEF HeldInv
  <1>1. CASE MissingConnection
    BY <1>a, <1>1 DEF MissingConnection
  <1>2. CASE FoundConnectionForDelete
    BY <1>a, <1>2 DEF FoundConnectionForDelete
  <1>3. CASE RenderSucceeds
    BY <1>a, <1>3 DEF RenderSucceeds
  <1>4. CASE RenderFails
    BY <1>a, <1>4 DEF RenderFails
  <1>5. CASE SyncTemplateSucceeds
    BY <1>a, <1>5 DEF SyncTemplateSucceeds
  <1>6. CASE SyncTemplateFails
    BY <1>a, <1>6 DEF SyncTemplateFails
  <1>7. CASE DeleteRemoteSucceeds
    BY <1>a, <1>7 DEF DeleteRemoteSucceeds
  <1>8. CASE DeleteRemoteFails
    BY <1>a, <1>8 DEF DeleteRemoteFails
  <1>9. ASSUME clusterWorker' = IdleClusterWorker PROVE WorkerObeys'
    BY <1>9 DEF WorkerObeys, IdleClusterWorker
  <1>10. CASE UpdateClusterStatus
    <2>1. /\ clusterWorker.key \in Cluster /\ UNCHANGED <<lastUid, keepRemote>>
          /\ clusterWorker' = IdleClusterWorker
      BY <1>0, <1>10, BusyType
         DEF UpdateClusterStatus, BusyClusterWorker, ClusterDone, history
    <2>2. KeptIsDeleted'
      BY <1>0, <1>10, <2>1, StatusContinues, KeptWrite DEF Continues
    <2> QED  BY <1>9, <1>10, <2>1, <2>2, CopyStatus
  <1>11. CASE AddClusterFinalizer
    <2>1. /\ clusterWorker.key \in Cluster /\ UNCHANGED <<lastUid, keepRemote>>
          /\ clusterWorker' = IdleClusterWorker
      BY <1>0, <1>11, BusyType
         DEF AddClusterFinalizer, BusyClusterWorker, ClusterDone, history
    <2>2. KeptIsDeleted'
      BY <1>0, <1>11, <2>1, AddContinues, KeptWrite DEF Continues
    <2> QED  BY <1>0, <1>9, <1>11, <2>1, <2>2, CopyAdd
  <1>12. CASE RemoveClusterFinalizers
    <2>1. /\ UNCHANGED <<lastUid, keepRemote>> /\ clusterWorker' = IdleClusterWorker
      BY <1>12 DEF RemoveClusterFinalizers, ClusterDone
    <2>2. /\ clusterWorker.key \in Cluster /\ StoreCluster(clusterWorker.key, Absent)
          /\ clusterWorker.item \in ClusterObject
          /\ clusterWorker.item = Stored(clusterVersions[clusterWorker.key])
      BY <1>12, RemoveVanishes DEF BusyClusterWorker
    <2>3. CopyInv'
      BY <1>0, <2>1, <2>2, CopyVanish
    <2>4. KeptIsDeleted'
      <3>1. Absent \in ClusterVersion /\ Stored(clusterVersions[clusterWorker.key]) # Absent
        BY <2>2, AbsentAssumption DEF ClusterVersion
      <3> QED  BY <1>0, <2>1, <2>2, <3>1, KeptWrite
    <2> QED  BY <1>9, <2>1, <2>3, <2>4
  <1>13. CASE ClusterWriteFails
    <2>1. /\ UNCHANGED <<clusterVersions, lastUid, keepRemote>>
          /\ clusterWorker' = IdleClusterWorker
      BY <1>13 DEF ClusterWriteFails, ClusterDone, history
    <2>2. CopyInv'
      BY <1>0, <2>1, QuietCopies, CopyFewer
    <2>3. KeptIsDeleted'
      BY <2>1 DEF KeptIsDeleted
    <2> QED  BY <1>9, <2>1, <2>2, <2>3
  <1> QED
    BY <1>1, <1>2, <1>3, <1>4, <1>5, <1>6, <1>7, <1>8, <1>10, <1>11, <1>12, <1>13
       DEF ClusterWorkerStep

(* Reconcile starts on the way that the spec of the cached copy says. *)
LEMMA PolicyBegin ==
  ASSUME PolicyInv, HeldInv', NEW c \in Cluster, ReconcileCluster(c)
  PROVE  PolicyInv'
  <1> USE DEF PolicyInv
  <1> DEFINE item == Cached(clusterVersions[c])
  <1>1. ASSUME NEW pc, NEW reason, CanReconcile(c), BeginCluster(c, pc, reason),
               pc \in {"getConnection", "sync", "deleteRemote"} =>
                 IF item.deleting THEN ~item.spec.orphan ELSE ~item.spec.suspend,
               reason = "Suspended" =>
                 pc = "updateStatus" /\ ~item.deleting /\ item.spec.suspend
        PROVE  PolicyInv'
    <2>1. /\ UNCHANGED <<clusterVersions, lastUid, keepRemote>>
          /\ clusterWorker' = [pc |-> pc, key |-> c, item |-> item,
                               reason |-> reason, observes |-> TRUE]
      BY <1>1 DEF BeginCluster, history
    <2>2. WorkerObeys'
      BY <1>1, <2>1 DEF WorkerObeys
    <2>3. CopyInv'
      BY <1>1, <2>1, BeginCopies, CopyFewer DEF HeldInv
    <2>4. KeptIsDeleted'
      BY <2>1 DEF KeptIsDeleted
    <2> QED  BY <2>2, <2>3, <2>4
  <1>2. CASE ReconcileNothing(c)
    <2>1. UNCHANGED <<clusterVersions, clusterWorker, lastUid, keepRemote>>
      BY <1>2 DEF ReconcileNothing, history
    <2>2. CopyInv'
      BY <2>1, QuietCopies, CopyFewer DEF HeldInv
    <2> QED  BY <2>1, <2>2 DEF KeptIsDeleted, WorkerObeys
  <1>3. CASE ReconcileDeleteOrphan(c)
    BY <1>1, <1>3 DEF ReconcileDeleteOrphan
  <1>4. CASE ReconcileDelete(c)
    BY <1>1, <1>4 DEF ReconcileDelete
  <1>5. CASE ReconcileNew(c)
    BY <1>1, <1>5 DEF ReconcileNew
  <1>6. CASE ReconcileSuspended(c)
    BY <1>1, <1>6 DEF ReconcileSuspended
  <1>7. CASE ReconcileSync(c)
    BY <1>1, <1>7 DEF ReconcileSync
  <1> QED
    BY <1>2, <1>3, <1>4, <1>5, <1>6, <1>7 DEF ReconcileCluster

(* Every step keeps PolicyInv. *)
LEMMA StepPolicy == PolicyInv /\ [Next]_vars => PolicyInv'
  <1> SUFFICES ASSUME PolicyInv, [Next]_vars PROVE PolicyInv'
    OBVIOUS
  <1> USE DEF PolicyInv
  <1>1. TypeOK /\ HeldInv' /\ TypeOK' /\ lastUid' \in Nat
    BY StepHeld DEF HeldInv, TypeOK
  <1>2. ASSUME UNCHANGED <<clusterVersions, clusterWorker, keepRemote>>,
               lastUid' >= lastUid
        PROVE  PolicyInv'
    <2>1. CopyInv' /\ WorkerObeys'
      BY <1>1, <1>2, QuietCopies, CopyFewer DEF WorkerObeys
    <2>2. KeptIsDeleted'
      BY <1>1, <1>2, KeptElsewhere
    <2> QED  BY <1>1, <2>1, <2>2
  <1>3. CASE ClusterWorkerStep
    BY <1>1, <1>3, PolicyWorker
  <1>4. CASE ConnectionWorkerStep \/ \E k \in Connection : ConnectionStep(k)
    <2>1. UNCHANGED <<clusterVersions, clusterWorker, keepRemote>> /\ lastUid' >= lastUid
      BY <1>1, <1>4, ConnectionSide
    <2> QED  BY <1>2, <2>1
  <1>5. ASSUME NEW c \in Cluster, ClusterStep(c) PROVE PolicyInv'
    <2>1. CASE ReconcileCluster(c)
      BY <1>1, <2>1, PolicyBegin
    <2>2. CASE DeliverCluster(c)
      <3>1. UNCHANGED <<clusterWorker, keepRemote, lastUid>>
        BY <2>2 DEF DeliverCluster, history
      <3>2. KeptIsDeleted'
        BY <1>1, <2>2, <3>1, DeliverStored DEF KeptIsDeleted
      <3> QED  BY <1>1, <2>2, <3>1, <3>2, DeliverCopies, CopyFewer DEF WorkerObeys
    <2>3. CASE CreateCluster(c)
      <3>1. UNCHANGED clusterWorker
        BY <2>3 DEF CreateCluster
      <3> QED  BY <1>1, <2>3, <3>1, CopyCreate, KeptCreate DEF WorkerObeys
    <2>4. CASE UpdateCluster(c)
      <3>1. UNCHANGED <<clusterWorker, lastUid>> /\ keepRemote' \subseteq keepRemote
        BY <2>4 DEF UpdateCluster
      <3>2. KeptIsDeleted'
        BY <1>1, <2>4, <3>1, UpdateContinues, KeptWrite DEF Continues
      <3> QED  BY <1>1, <2>4, <3>1, <3>2, CopyUpdate DEF WorkerObeys
    <2>5. CASE DeleteCluster(c)
      <3>1. UNCHANGED clusterWorker
        BY <2>5 DEF DeleteCluster
      <3> QED  BY <1>1, <2>5, <3>1, CopyDelete, KeptDelete DEF WorkerObeys
    <2> QED  BY <1>5, <2>1, <2>2, <2>3, <2>4, <2>5 DEF ClusterStep
  <1>6. CASE Restart
    <2>1. /\ clusterWorker' = IdleClusterWorker /\ UNCHANGED <<keepRemote, lastUid>>
      BY <1>6 DEF Restart, history
    <2>2. WorkerObeys'
      BY <2>1 DEF WorkerObeys, IdleClusterWorker
    <2>3. KeptIsDeleted'
      BY <1>1, <1>6, <2>1, RestartStored DEF KeptIsDeleted
    <2> QED  BY <1>1, <1>6, <2>1, <2>2, <2>3, RestartCopies, CopyFewer
  <1>7. CASE UNCHANGED vars
    BY <1>1, <1>2, <1>7 DEF vars, TypeOK
  <1>8. ASSUME NEW refs \in SUBSET Cluster, WakeClusters(refs) PROVE PolicyInv'
    BY <1>1, <1>2, <1>8 DEF WakeClusters, history, TypeOK
  <1> QED  BY <1>3, <1>4, <1>5, <1>6, <1>7, <1>8 DEF Next

(* A cluster that was deleted in orphan mode, and not edited out of it,     *)
(* never has DeleteCluster called for its remote: reconcileDelete decides   *)
(* from a copy, and every copy that says deleting also says orphan.         *)
THEOREM OrphansAreKept == Spec => []OrphanKeepsRemote
  <1> QED  BY PolicyOrphan, InitPolicy, StepPolicy, PTL DEF Spec

(* Once the stored status reports the current generation as suspended,      *)
(* Reconcile is not on its way to SyncTemplate for that cluster, for any    *)
(* lag of the cache and any order of edits, conflicts and restarts.         *)
THEOREM SuspensionIsABarrier == Spec => []SuspendBarrier
  <1> QED  BY PolicySuspend, InitPolicy, StepPolicy, PTL DEF Spec

-----------------------------------------------------------------------------
(* Ready is honest.  It is about the remote cluster, which the status       *)
(* outlives: no Reconcile may still be at work that would sync an older     *)
(* generation over it, or delete it.                                        *)

(* While Reconcile calls Omni for one cluster, no other stored one has that *)
(* target: nothing in the operator or its webhooks sees to that.            *)
TargetsApart ==
  clusterWorker.pc \in {"sync", "deleteRemote"} =>
    \A d \in Cluster \ {clusterWorker.key} :
      LET o == Stored(clusterVersions[d])
      IN  o # Absent => Target(d, o.spec) # ItemTarget

(* Uids do not decrease: between two copies of one incarnation there is     *)
(* none of another.                                                         *)
UidsGrow ==
  \A c \in Cluster : \A i, j \in Seen(c) :
    i <= j /\ Copy(c, i) # Absent /\ Copy(c, j) # Absent
      => Copy(c, i).uid <= Copy(c, j).uid

(* Every spec comes from a user. *)
SpecsKnown ==
  \A c \in Cluster : \A i \in Seen(c) :
    Copy(c, i) # Absent => Copy(c, i).spec \in Specs

(* v is as good as o for Reconcile to sync. *)
SameGeneration(v, o) == v.uid = o.uid /\ v.gen = o.gen /\ v.spec = o.spec

(* When the stored status reports the current generation as ready, all the  *)
(* copies that can be seen are of that generation.                          *)
SyncedIsSeen ==
  \A c \in Cluster : ReportsReady(c) =>
    \A i \in Seen(c) :
      Copy(c, i) # Absent => SameGeneration(Copy(c, i), Stored(clusterVersions[c]))

(* No generation is reported before it exists. *)
SyncedExists ==
  \A c \in Cluster :
    LET o == Stored(clusterVersions[c])
    IN  o # Absent /\ o.status.reason = "Synced" => o.status.obs <= o.gen

(* What Reconcile is about to report it has done. *)
WorkerSynced ==
  clusterWorker.reason = "Synced" =>
    /\ clusterWorker.pc = "updateStatus" /\ clusterWorker.observes
    /\ ~clusterWorker.item.deleting
    /\ omni[ItemTarget] = [by |-> Incarnation, gen |-> clusterWorker.item.gen]

SeenInv == UidsGrow /\ SpecsKnown /\ SyncedIsSeen /\ SyncedExists

ReadyInv == PolicyInv /\ SeenInv /\ WorkerSynced /\ ReadyIsHonest

(* ReadyInv holds when the operator starts. *)
LEMMA InitReady == Init => ReadyInv
  <1> SUFFICES ASSUME Init PROVE ReadyInv
    OBVIOUS
  <1>1. PolicyInv /\ TypeOK
    BY InitPolicy DEF PolicyInv, HeldInv
  <1>2. WorkerSynced
    BY DEF Init, IdleClusterWorker, WorkerSynced
  <1>3. ASSUME NEW c \in Cluster, NEW i \in Seen(c)
        PROVE  /\ i = 1
               /\ Copy(c, i) # Absent =>
                    /\ Copy(c, i).uid = 0 /\ Copy(c, i).spec \in Specs
                    /\ Copy(c, i).status.reason = "None"
    <2>1. PICK x : clusterVersions[c] = <<x>> /\
                   (x # Absent => \E s \in Specs, f \in InitialFinalizers :
                                    x = NewCluster(0, s, f))
      BY <1>3 DEF Init
    <2>2. i = 1 /\ Copy(c, i) = x
      BY <1>3, <2>1 DEF Init, IdleClusterWorker, Seen, Indices, Copy
    <2> QED  BY <2>1, <2>2 DEF NewCluster
  <1>4. \A c \in Cluster : LET o == Stored(clusterVersions[c])
                           IN  o # Absent => o.status.reason # "Synced"
    BY <1>1, <1>3, StoredIsNewest
  <1>5. UidsGrow /\ SpecsKnown
    BY <1>3 DEF UidsGrow, SpecsKnown
  <1>6. SyncedIsSeen /\ SyncedExists /\ ReadyIsHonest
    BY <1>4 DEF SyncedIsSeen, SyncedExists, ReadyIsHonest, ReportsReady
  <1> QED  BY <1>1, <1>2, <1>5, <1>6 DEF ReadyInv, SeenInv

(* A step that stores nothing. *)
LEMMA SeenFewer ==
  ASSUME SeenInv, FewerCopies,
         \A c \in Cluster : Stored(clusterVersions'[c]) = Stored(clusterVersions[c])
  PROVE  /\ SeenInv'
         /\ \A c \in Cluster : ReportsReady(c)' => ReportsReady(c)
  <1> USE DEF SeenInv
  <1>1. \A c \in Cluster : ReportsReady(c)' => ReportsReady(c)
    BY DEF ReportsReady
  <1>2. UidsGrow'
    BY DEF UidsGrow, FewerCopies
  <1>3. SpecsKnown'
    BY FewerThanBefore DEF SpecsKnown
  <1>4. SyncedIsSeen'
    <2> SUFFICES ASSUME NEW c \in Cluster, ReportsReady(c)', NEW i \in Seen(c)',
                        Copy(c, i)' # Absent
                 PROVE  SameGeneration(Copy(c, i)', Stored(clusterVersions'[c]))
      BY DEF SyncedIsSeen, SameGeneration
    <2>1. PICK k \in Seen(c) : Copy(c, i)' = Copy(c, k)
      BY FewerThanBefore
    <2>2. SameGeneration(Copy(c, k), Stored(clusterVersions[c]))
      BY <1>1, <2>1 DEF SyncedIsSeen
    <2> QED  BY <2>1, <2>2
  <1>5. SyncedExists'
    BY DEF SyncedExists
  <1> QED  BY <1>1, <1>2, <1>3, <1>4, <1>5

(* x reports its own generation as ready. *)
Reports(x) ==
  /\ x # Absent /\ ~x.deleting
  /\ x.status.reason = "Synced" /\ x.status.obs = x.gen

(* A write of x. *)
LEMMA ReadyStored ==
  ASSUME TypeOK, SeenInv, ReadyIsHonest, UNCHANGED omni,
         NEW c \in Cluster, NEW x \in ClusterVersion, StoreCluster(c, x),
         clusterWorker' \in {clusterWorker, IdleClusterWorker},
         x # Absent =>
           /\ x.spec \in Specs
           /\ x.status.reason = "Synced" => x.status.obs <= x.gen
           /\ \A i \in Seen(c) : Copy(c, i) # Absent => Copy(c, i).uid <= x.uid,
         Reports(x) =>
           /\ omni[Target(c, x.spec)] = [by |-> <<c, x.uid>>, gen |-> x.gen]
           /\ \A i \in Seen(c) :
                i \in Seen(c)' /\ Copy(c, i) # Absent => SameGeneration(Copy(c, i), x)
  PROVE  SeenInv' /\ ReadyIsHonest'
  <1> DEFINE n == Len(clusterVersions[c])
  <1> USE DEF SeenInv
  <1>1. n \in Nat
    BY VersionType
  <1>2. \A d \in Cluster : \A i \in Seen(d)' :
          \/ i \in Seen(d) /\ Copy(d, i)' = Copy(d, i) /\ i \in Nat
             /\ (d = c => i < n + 1)
          \/ d = c /\ i = n + 1 /\ Copy(d, i)' = x
    BY AddedCopy
  <1>3. /\ Stored(clusterVersions'[c]) = x
        /\ \A d \in Cluster \ {c} : clusterVersions'[d] = clusterVersions[d]
    BY AppendStored
  <1> HIDE DEF n
  <1>4. UidsGrow'
    <2> SUFFICES ASSUME NEW d \in Cluster, NEW i \in Seen(d)', NEW j \in Seen(d)', i <= j,
                        Copy(d, i)' # Absent, Copy(d, j)' # Absent
                 PROVE  Copy(d, i)'.uid <= Copy(d, j)'.uid
      BY DEF UidsGrow
    <2>1. CASE d = c /\ j = n + 1 /\ Copy(d, j)' = x
      <3>1. CASE i = n + 1 /\ Copy(d, i)' = x
        <4>1. x.uid \in Nat
          BY <2>1 DEF ClusterVersion, ClusterObject
        <4> QED  BY <2>1, <3>1, <4>1
      <3>2. CASE i \in Seen(d) /\ Copy(d, i)' = Copy(d, i)
        BY <2>1, <3>2
      <3> QED  BY <1>2, <3>1, <3>2
    <2>2. CASE j \in Seen(d) /\ Copy(d, j)' = Copy(d, j) /\ j \in Nat
               /\ (d = c => j < n + 1)
      <3>1. i \in Seen(d) /\ Copy(d, i)' = Copy(d, i)
        BY <1>1, <1>2, <2>2
      <3> QED  BY <2>2, <3>1 DEF UidsGrow
    <2> QED  BY <1>2, <2>1, <2>2
  <1>5. SpecsKnown'
    BY <1>2 DEF SpecsKnown
  <1>6. \A d \in Cluster \ {c} : ReportsReady(d)' => ReportsReady(d)
    BY <1>3 DEF ReportsReady
  <1>7. ReportsReady(c)' => Reports(x)
    BY <1>3 DEF ReportsReady, Reports
  <1>8. SyncedIsSeen'
    <2> SUFFICES ASSUME NEW d \in Cluster, ReportsReady(d)', NEW i \in Seen(d)',
                        Copy(d, i)' # Absent
                 PROVE  SameGeneration(Copy(d, i)', Stored(clusterVersions'[d]))
      BY DEF SyncedIsSeen, SameGeneration
    <2>1. CASE d # c
      <3>1. SameGeneration(Copy(d, i), Stored(clusterVersions[d]))
            /\ Copy(d, i)' = Copy(d, i)
        BY <1>2, <1>6, <2>1 DEF SyncedIsSeen
      <3> QED  BY <1>3, <2>1, <3>1
    <2>2. CASE d = c /\ Copy(d, i)' = x
      BY <1>3, <2>2 DEF SameGeneration
    <2>3. CASE d = c /\ i \in Seen(d) /\ Copy(d, i)' = Copy(d, i)
      BY <1>3, <1>7, <2>3
    <2> QED  BY <1>2, <2>1, <2>2, <2>3
  <1>9. SyncedExists'
    BY <1>3 DEF SyncedExists
  <1>10. ReadyIsHonest'
    <2> SUFFICES ASSUME NEW d \in Cluster, ReportsReady(d)'
                 PROVE  omni[Target(d, Stored(clusterVersions'[d]).spec)] =
                          [by |-> <<d, Stored(clusterVersions'[d]).uid>>,
                           gen |-> Stored(clusterVersions'[d]).gen]
      BY DEF ReadyIsHonest, Target, ClusterName
    <2>1. CASE d = c
      BY <1>3, <1>7, <2>1
    <2>2. CASE d # c
      BY <1>3, <1>6, <2>2 DEF ReadyIsHonest
    <2> QED  BY <2>1, <2>2
  <1> QED  BY <1>4, <1>5, <1>8, <1>9, <1>10


(* A step that neither stores anything nor calls Omni. *)
LEMMA ReadyQuiet ==
  ASSUME ReadyInv, FewerCopies, UNCHANGED omni,
         \A c \in Cluster : Stored(clusterVersions'[c]) = Stored(clusterVersions[c])
  PROVE  SeenInv' /\ ReadyIsHonest'
  <1>1. SeenInv' /\ \A c \in Cluster : ReportsReady(c)' => ReportsReady(c)
    BY SeenFewer DEF ReadyInv
  <1>2. ReadyIsHonest'
    <2> SUFFICES ASSUME NEW c \in Cluster, ReportsReady(c)'
                 PROVE  omni[Target(c, Stored(clusterVersions'[c]).spec)] =
                          [by |-> <<c, Stored(clusterVersions'[c]).uid>>,
                           gen |-> Stored(clusterVersions'[c]).gen]
      BY DEF ReadyIsHonest, Target, ClusterName
    <2> QED  BY <1>1 DEF ReadyInv, ReadyIsHonest
  <1> QED  BY <1>1, <1>2

(* A call to Omni for a cluster that reports Ready, from whichever copy,    *)
(* brings the generation that is there already.                             *)
LEMMA ReadySync ==
  ASSUME ReadyInv, TargetsApart, clusterWorker.pc = "sync",
         UNCHANGED clusterVersions, omni' = Applied
  PROVE  ReadyIsHonest'
  <1> USE DEF ReadyInv
  <1> DEFINE k == clusterWorker.key
             item == clusterWorker.item
  <1>1. TypeOK /\ k \in Cluster /\ item \in ClusterObject /\ item # Absent
    BY BusyType, AbsentAssumption DEF PolicyInv, HeldInv, BusyClusterWorker
  <1>2. 0 \in Seen(k) /\ Copy(k, 0) = item
    BY DEF Seen, Copy
  <1>3. ItemTarget \in Connection \X Remote /\ omni \in [Connection \X Remote -> RemoteCluster \cup {Absent}]
    <2>1. item.spec \in ClusterSpec
      BY <1>1 DEF ClusterObject
    <2> QED  BY <1>1, <2>1, TargetType DEF ItemTarget, TypeOK
  <1>4. /\ omni'[ItemTarget] = [by |-> Incarnation, gen |-> item.gen]
        /\ \A t : t # ItemTarget => omni'[t] = omni[t]
    BY <1>3 DEF Applied
  <1> SUFFICES ASSUME NEW c \in Cluster, ReportsReady(c)
               PROVE  omni'[Target(c, Stored(clusterVersions[c]).spec)] =
                        [by |-> <<c, Stored(clusterVersions[c]).uid>>,
                         gen |-> Stored(clusterVersions[c]).gen]
    BY DEF ReadyIsHonest, ReportsReady, Target, ClusterName
  <1>5. CASE c = k
    <2>1. SameGeneration(item, Stored(clusterVersions[c]))
      BY <1>1, <1>2, <1>5 DEF SeenInv, SyncedIsSeen
    <2> QED  BY <1>4, <1>5, <2>1 DEF SameGeneration, ItemTarget, Incarnation
  <1>6. CASE c # k
    <2>1. Target(c, Stored(clusterVersions[c]).spec) # ItemTarget
      BY <1>6 DEF TargetsApart, ReportsReady
    <2> QED  BY <1>4, <2>1 DEF ReadyIsHonest
  <1> QED  BY <1>5, <1>6

(* DeleteCluster is called only for a cluster that is stored as deleting,   *)
(* or whose incarnation is no longer stored; then no copy of it reports     *)
(* Ready for the one that is.                                               *)
LEMMA ReadyDelete ==
  ASSUME ReadyInv, TargetsApart, clusterWorker.pc = "deleteRemote",
         UNCHANGED clusterVersions, omni' = [omni EXCEPT ![ItemTarget] = Absent]
  PROVE  ReadyIsHonest'
  <1> USE DEF ReadyInv
  <1> DEFINE k == clusterWorker.key
             item == clusterWorker.item
  <1>1. TypeOK /\ k \in Cluster /\ item \in ClusterObject /\ item # Absent
    BY BusyType, AbsentAssumption DEF PolicyInv, HeldInv, BusyClusterWorker
  <1>2. 0 \in Seen(k) /\ Copy(k, 0) = item
    BY DEF Seen, Copy
  <1>3. \A t : t # ItemTarget => omni'[t] = omni[t]
    BY <1>1 DEF TypeOK
  <1> SUFFICES ASSUME NEW c \in Cluster, ReportsReady(c)
               PROVE  omni'[Target(c, Stored(clusterVersions[c]).spec)] =
                        [by |-> <<c, Stored(clusterVersions[c]).uid>>,
                         gen |-> Stored(clusterVersions[c]).gen]
    BY DEF ReadyIsHonest, ReportsReady, Target, ClusterName
  <1>4. ASSUME c = k PROVE FALSE
    <2>1. SameGeneration(item, Stored(clusterVersions[c]))
      BY <1>1, <1>2, <1>4 DEF SeenInv, SyncedIsSeen
    <2>2. /\ Len(clusterVersions[c]) \in Indices(c)
          /\ clusterVersions[c][Len(clusterVersions[c])] = Stored(clusterVersions[c])
      BY <1>1, VersionType
    <2>3. Stored(clusterVersions[c]) # Absent /\ ~Stored(clusterVersions[c]).deleting
      BY DEF ReportsReady
    <2> QED
      BY <1>4, <2>1, <2>2, <2>3 DEF PolicyInv, HeldInv, WorkerDeletes, SameGeneration
  <1>5. Target(c, Stored(clusterVersions[c]).spec) # ItemTarget
    BY <1>4 DEF TargetsApart, ReportsReady
  <1> QED  BY <1>3, <1>5 DEF ReadyIsHonest

(* The first status that reports a generation as ready: the cache held the  *)
(* stored version when it was written, so all that is between them, and the *)
(* copy that Reconcile held, are of that generation.                        *)
LEMMA ReadyStatus ==
  ASSUME ReadyInv, UpdateClusterStatus, NEW c \in Cluster, c = clusterWorker.key
  PROVE  SeenInv' /\ ReadyIsHonest'
  <1> USE DEF ReadyInv, PolicyInv, HeldInv
  <1> DEFINE item == clusterWorker.item
             o == Stored(clusterVersions[c])
             n == Len(clusterVersions[c])
             status == NewStatus(o)
             x == [o EXCEPT !.status = status]
  <1>1. /\ item \in ClusterObject /\ clusterWorker \in BusyClusterWorker
        /\ o # Absent /\ StoreCluster(c, x)
        /\ clusterWorker.pc = "updateStatus" /\ o = Cached(clusterVersions[c])
    BY BusyType DEF UpdateClusterStatus, BusyClusterWorker
  <1>2. /\ n \in Seen(c) /\ Copy(c, n) = o /\ n \in Nat
        /\ \A i \in Seen(c) : i \in Nat /\ i <= n
    BY <1>1, StoredIsNewest
  <1>3. 1 \in Seen(c) /\ Copy(c, 1) = o
    BY <1>1, VersionType DEF Seen, Copy
  <1>4. 0 \in Seen(c) /\ Copy(c, 0) = item /\ item # Absent
    BY <1>1, AbsentAssumption DEF Seen, Copy
  <1>5. o \in ClusterObject /\ o.gen \in Nat /\ o.uid \in Nat
    BY <1>1, <1>2, CopyType
  <1>6. /\ status \in [obs : Nat, reason : Reason]
        /\ status.reason = clusterWorker.reason
        /\ clusterWorker.observes => status.obs = item.gen
    BY <1>1, <1>5 DEF NewStatus, BusyClusterWorker, ClusterObject
  <1>7. clusterWorker.reason = "Synced" =>
          /\ clusterWorker.observes
          /\ omni[Target(c, item.spec)] = [by |-> <<c, item.uid>>, gen |-> item.gen]
          /\ item.uid = o.uid
    BY <1>1 DEF WorkerSynced, ItemTarget, Incarnation, SyncHoldsFinalizer, Held
  <1>8. clusterWorker' = IdleClusterWorker /\ UNCHANGED omni /\ 0 \notin Seen(c)'
    BY DEF UpdateClusterStatus, ClusterDone, history, Seen, Indices, IdleClusterWorker
  <1> HIDE DEF status
  <1>9. /\ x \in ClusterObject
        /\ x.uid = o.uid /\ x.gen = o.gen /\ x.spec = o.spec
        /\ x.deleting = o.deleting /\ x.status = status
    BY <1>5, <1>6 DEF ClusterObject
  <1> HIDE DEF item, o, x, n
  <1>10. x \in ClusterVersion /\ x # Absent
    BY <1>9, AbsentAssumption DEF ClusterVersion
  <1>11. o.spec \in Specs
    BY <1>1, <1>2 DEF SeenInv, SpecsKnown
  <1>12. \A i \in Seen(c) : Copy(c, i) # Absent => Copy(c, i).uid <= o.uid
    BY <1>1, <1>2 DEF SeenInv, UidsGrow
  <1>13. item.uid = o.uid =>
           /\ item.gen \in Nat /\ item.gen <= o.gen
           /\ item.gen = o.gen => item.spec = o.spec
    <2>1. item.gen \in Nat
      BY <1>1 DEF ClusterObject
    <2>2. 0 <= n
      BY <1>2
    <2> QED
      BY <1>1, <1>2, <1>4, <2>1, <2>2
         DEF CopyInv, GenerationsGrow, SameIncarnation
  <1>14. ASSUME NEW i \in Seen(c), i # 0, Copy(c, i) # Absent
         PROVE  SameGeneration(Copy(c, i), o)
    <2>1. i \in Nat /\ 1 <= i /\ i <= n /\ Copy(c, i).uid \in Nat /\ Copy(c, i).gen \in Nat
      <3>1. TypeOK /\ i \in Nat /\ i <= n
        BY <1>2, <1>14
      <3>2. Copy(c, i).uid \in Nat /\ Copy(c, i).gen \in Nat
        BY <1>1, <1>14, <3>1, CopyType
      <3> QED  BY <1>14, <3>1, <3>2
    <2>2. Copy(c, i).uid = o.uid
      <3>1. o.uid <= Copy(c, i).uid
        BY <1>1, <1>3, <1>14, <2>1 DEF SeenInv, UidsGrow
      <3> QED  BY <1>5, <1>12, <1>14, <2>1, <3>1
    <2>3. Copy(c, i).gen <= o.gen /\ (Copy(c, i).gen = o.gen => Copy(c, i).spec = o.spec)
      BY <1>1, <1>2, <1>14, <2>1, <2>2 DEF CopyInv, GenerationsGrow, SameIncarnation
    <2>4. o.gen <= Copy(c, i).gen
      BY <1>1, <1>3, <1>14, <2>1, <2>2 DEF CopyInv, GenerationsGrow, SameIncarnation
    <2>5. Copy(c, i).gen = o.gen
      BY <1>5, <2>1, <2>3, <2>4
    <2> QED  BY <2>2, <2>3, <2>5 DEF SameGeneration
  <1>15. x.status.reason = "Synced" => x.status.obs = item.gen /\ x.status.obs <= x.gen
    BY <1>6, <1>7, <1>9, <1>13
  <1>16. ASSUME Reports(x)
         PROVE  /\ omni[Target(c, x.spec)] = [by |-> <<c, x.uid>>, gen |-> x.gen]
                /\ \A i \in Seen(c) : i \in Seen(c)' /\ Copy(c, i) # Absent
                                        => SameGeneration(Copy(c, i), x)
    <2>1. item.gen = o.gen /\ item.spec = o.spec /\ item.uid = o.uid
      BY <1>6, <1>7, <1>9, <1>13, <1>15, <1>16 DEF Reports
    <2>2. omni[Target(c, x.spec)] = [by |-> <<c, x.uid>>, gen |-> x.gen]
      BY <1>6, <1>7, <1>9, <1>16, <2>1 DEF Reports
    <2>3. \A i \in Seen(c) : i \in Seen(c)' /\ Copy(c, i) # Absent
                               => SameGeneration(Copy(c, i), x)
      BY <1>8, <1>9, <1>14 DEF SameGeneration
    <2> QED  BY <2>2, <2>3
  <1>17. TypeOK /\ SeenInv /\ ReadyIsHonest
    OBVIOUS
  <1>18. /\ x.spec \in Specs
         /\ \A i \in Seen(c) : Copy(c, i) # Absent => Copy(c, i).uid <= x.uid
    BY <1>9, <1>11, <1>12
  <1>19. clusterWorker' \in {clusterWorker, IdleClusterWorker} /\ UNCHANGED omni
    BY <1>8
  <1>20. Reports(x) =>
           /\ omni[Target(c, x.spec)] = [by |-> <<c, x.uid>>, gen |-> x.gen]
           /\ \A i \in Seen(c) : i \in Seen(c)' /\ Copy(c, i) # Absent
                                   => SameGeneration(Copy(c, i), x)
    BY <1>16
  <1>21. x.status.reason = "Synced" => x.status.obs <= x.gen
    BY <1>15
  <1>22. StoreCluster(c, x)
    BY <1>1
  <1> HIDE DEF ReadyInv, PolicyInv, HeldInv
  <1> QED  BY <1>10, <1>17, <1>18, <1>19, <1>20, <1>21, <1>22, ReadyStored

(* What SeenInv says of the stored object. *)
LEMMA NewestSeen ==
  ASSUME TypeOK, SeenInv, NEW c \in Cluster, NEW o, o = Stored(clusterVersions[c]),
         o # Absent
  PROVE  /\ o \in ClusterObject /\ o.gen \in Nat /\ o.status.obs \in Nat
         /\ o.spec \in Specs
         /\ o.status.reason = "Synced" => o.status.obs <= o.gen
         /\ \A i \in Seen(c) : Copy(c, i) # Absent => Copy(c, i).uid <= o.uid
  <1> USE DEF SeenInv
  <1>1. PICK n \in Seen(c) : Copy(c, n) = o /\ \A i \in Seen(c) : i <= n
    BY StoredIsNewest
  <1> QED  BY <1>1, CopyType DEF SpecsKnown, UidsGrow, SyncedExists

(* The update that adds the finalizer changes nothing of this. *)
LEMMA ReadyAdd ==
  ASSUME ReadyInv, AddClusterFinalizer
  PROVE  SeenInv' /\ ReadyIsHonest'
  <1> USE DEF ReadyInv, PolicyInv, HeldInv
  <1> DEFINE c == clusterWorker.key
             o == Stored(clusterVersions[c])
             x == [o EXCEPT !.fins = @ \cup {Finalizer}]
  <1>1. /\ c \in Cluster /\ o \in ClusterObject /\ o # Absent
        /\ StoreCluster(c, x)
    BY BusyType, AbsentAssumption DEF AddClusterFinalizer, BusyClusterWorker
  <1>2. /\ x \in ClusterObject
        /\ x.uid = o.uid /\ x.gen = o.gen /\ x.spec = o.spec
        /\ x.deleting = o.deleting /\ x.status = o.status
    BY <1>1 DEF ClusterObject, Finalizers
  <1>3. clusterWorker' = IdleClusterWorker /\ UNCHANGED omni
    BY DEF AddClusterFinalizer, ClusterDone, history
  <1>4. TypeOK /\ SeenInv /\ ReadyIsHonest
    OBVIOUS
  <1>5. /\ o.spec \in Specs
        /\ o.status.reason = "Synced" => o.status.obs <= o.gen
        /\ \A i \in Seen(c) : Copy(c, i) # Absent => Copy(c, i).uid <= o.uid
    BY <1>1, <1>4, NewestSeen
  <1>6. Reports(o) =>
          /\ omni[Target(c, o.spec)] = [by |-> <<c, o.uid>>, gen |-> o.gen]
          /\ \A i \in Seen(c) : Copy(c, i) # Absent => SameGeneration(Copy(c, i), o)
    BY <1>1 DEF ReadyIsHonest, SeenInv, SyncedIsSeen, ReportsReady, Reports
  <1> HIDE DEF c, o, x
  <1>7. x \in ClusterVersion /\ x # Absent /\ (Reports(x) => Reports(o))
    BY <1>1, <1>2, AbsentAssumption DEF ClusterVersion, Reports
  <1>8. \A i \in Seen(c) : SameGeneration(Copy(c, i), o) => SameGeneration(Copy(c, i), x)
    BY <1>2 DEF SameGeneration
  <1> QED  BY <1>1, <1>2, <1>3, <1>4, <1>5, <1>6, <1>7, <1>8, ReadyStored

(* Nothing is reported of an object that goes. *)
LEMMA ReadyVanish ==
  ASSUME TypeOK, SeenInv, ReadyIsHonest, UNCHANGED omni, NEW c \in Cluster,
         StoreCluster(c, Absent), clusterWorker' \in {clusterWorker, IdleClusterWorker}
  PROVE  SeenInv' /\ ReadyIsHonest'
  <1>1. Absent \in ClusterVersion /\ ~Reports(Absent)
    BY DEF ClusterVersion, Reports
  <1> QED  BY <1>1, ReadyStored

(* A new incarnation reports nothing. *)
LEMMA ReadyCreate ==
  ASSUME ReadyInv, NEW c \in Cluster, CreateCluster(c)
  PROVE  SeenInv' /\ ReadyIsHonest'
  <1> USE DEF ReadyInv, PolicyInv, HeldInv
  <1>1. PICK s \in Specs : StoreCluster(c, NewCluster(lastUid + 1, s, {}))
    BY DEF CreateCluster
  <1> DEFINE x == NewCluster(lastUid + 1, s, {})
  <1>2. /\ x \in ClusterObject /\ x.uid = lastUid + 1 /\ x.spec = s
        /\ x.status.reason = "None"
    <2>1. lastUid + 1 \in Nat /\ s \in ClusterSpec
      BY SpecsAssumption DEF TypeOK
    <2> QED  BY <2>1, NewClusterType DEF NewCluster
  <1> HIDE DEF x
  <1>3. x \in ClusterVersion /\ StoreCluster(c, x)
    BY <1>1, <1>2 DEF ClusterVersion, x
  <1>4. UNCHANGED <<clusterWorker, omni>>
    BY DEF CreateCluster
  <1>5. ASSUME NEW i \in Seen(c), Copy(c, i) # Absent PROVE Copy(c, i).uid <= x.uid
    <2>1. Copy(c, i).uid <= lastUid
      <3>1. CASE i = 0
        BY <3>1 DEF UidsIssued, Seen, Copy, Indices
      <3>2. CASE i # 0
        BY <1>5, <3>2 DEF UidsIssued, Seen, Copy
      <3> QED  BY <3>1, <3>2
    <2>2. lastUid \in Nat /\ Copy(c, i).uid \in Nat
      BY <1>5, CopyType DEF TypeOK
    <2> QED  BY <1>2, <2>1, <2>2
  <1>6. TypeOK /\ SeenInv /\ ReadyIsHonest /\ ~Reports(x)
    BY <1>2 DEF Reports
  <1> QED  BY <1>2, <1>3, <1>4, <1>5, <1>6, ReadyStored

(* A generation that a user has just made is not reported yet. *)
LEMMA ReadyNext ==
  ASSUME TypeOK, SeenInv, ReadyIsHonest, UNCHANGED <<omni, clusterWorker>>,
         NEW c \in Cluster, NEW o, o = Stored(clusterVersions[c]), o # Absent,
         NEW x \in ClusterObject, StoreCluster(c, x), x.uid = o.uid,
         x.gen = o.gen + 1, x.status = o.status, x.spec \in Specs
  PROVE  SeenInv' /\ ReadyIsHonest'
  <1>1. /\ o.gen \in Nat /\ o.status.obs \in Nat
        /\ o.status.reason = "Synced" => o.status.obs <= o.gen
        /\ \A i \in Seen(c) : Copy(c, i) # Absent => Copy(c, i).uid <= x.uid
    BY NewestSeen
  <1>2. x.status.reason = "Synced" => x.status.obs <= x.gen /\ x.status.obs # x.gen
    BY <1>1
  <1>3. ~Reports(x) /\ x \in ClusterVersion
    BY <1>2 DEF Reports, ClusterVersion
  <1> QED  BY <1>1, <1>2, <1>3, ReadyStored

(* An edit. *)
LEMMA ReadyUpdate ==
  ASSUME TypeOK, SeenInv, ReadyIsHonest, NEW c \in Cluster, UpdateCluster(c)
  PROVE  SeenInv' /\ ReadyIsHonest'
  <1> DEFINE o == Stored(clusterVersions[c])
  <1>1. o # Absent /\ o \in ClusterObject
    BY EndsType DEF UpdateCluster, ClusterVersion
  <1>2. PICK s \in Specs : StoreCluster(c, EditedCluster(o, s))
    BY DEF UpdateCluster
  <1> DEFINE x == EditedCluster(o, s)
  <1>3. /\ x \in ClusterObject /\ x.uid = o.uid /\ x.gen = o.gen + 1
        /\ x.status = o.status /\ x.spec = s
    BY <1>1, SpecsAssumption, EditedClusterType
  <1>4. UNCHANGED <<omni, clusterWorker>> /\ StoreCluster(c, x)
    BY <1>2 DEF UpdateCluster
  <1> HIDE DEF x
  <1> QED  BY <1>1, <1>3, <1>4, ReadyNext

(* A delete request. *)
LEMMA ReadyMark ==
  ASSUME TypeOK, SeenInv, ReadyIsHonest, NEW c \in Cluster, DeleteCluster(c)
  PROVE  SeenInv' /\ ReadyIsHonest'
  <1> DEFINE o == Stored(clusterVersions[c])
             x == MarkedCluster(o)
  <1>1. o # Absent /\ o \in ClusterObject
    BY EndsType DEF DeleteCluster, ClusterVersion
  <1>2. StoreCluster(c, Settle(x)) /\ UNCHANGED <<omni, clusterWorker>>
    BY DEF DeleteCluster
  <1>3. /\ x \in ClusterObject /\ x.uid = o.uid /\ x.gen = o.gen + 1
        /\ x.status = o.status /\ x.spec = o.spec
    BY <1>1, MarkedClusterType
  <1>4. o.spec \in Specs
    BY <1>1, NewestSeen
  <1> HIDE DEF x
  <1>5. CASE Settle(x) = x
    BY <1>1, <1>2, <1>3, <1>4, <1>5, ReadyNext
  <1>6. CASE Settle(x) = Absent
    BY <1>2, <1>6, ReadyVanish
  <1> QED  BY <1>5, <1>6 DEF Settle


(* Inside Reconcile no copy is added or dropped. *)
LEMMA ReadyAdvance ==
  ASSUME ReadyInv, clusterWorker.pc # "idle", NEW pc, NEW reason, NEW observes,
         AdvanceCluster(pc, reason, observes)
  PROVE  /\ UNCHANGED clusterVersions
         /\ clusterWorker'.pc = pc /\ clusterWorker'.key = clusterWorker.key
         /\ clusterWorker'.item = clusterWorker.item
         /\ clusterWorker'.reason = reason /\ clusterWorker'.observes = observes
         /\ SeenInv'
         /\ UNCHANGED omni => ReadyIsHonest'
         /\ reason # "Synced" => WorkerSynced'
  <1>0. TypeOK /\ SeenInv
    BY DEF ReadyInv, PolicyInv, HeldInv
  <1>1. /\ UNCHANGED clusterVersions
        /\ clusterWorker'.pc = pc /\ clusterWorker'.key = clusterWorker.key
        /\ clusterWorker'.item = clusterWorker.item
        /\ clusterWorker'.reason = reason /\ clusterWorker'.observes = observes
    BY <1>0, BusyType DEF AdvanceCluster, BusyClusterWorker
  <1>2. FewerCopies
    BY <1>0, <1>1, QuietCopies
  <1>3. SeenInv'
    BY <1>0, <1>1, <1>2, SeenFewer
  <1>4. UNCHANGED omni => ReadyIsHonest'
    BY <1>1, <1>2, ReadyQuiet
  <1>5. reason # "Synced" => WorkerSynced'
    BY <1>1 DEF WorkerSynced
  <1> QED  BY <1>1, <1>3, <1>4, <1>5

(* Reconcile keeps ReadyInv. *)
LEMMA ReadyWorker ==
  ASSUME ReadyInv, TargetsApart, ClusterWorkerStep
  PROVE  SeenInv' /\ WorkerSynced' /\ ReadyIsHonest'
  <1>0. TypeOK /\ SeenInv /\ ReadyIsHonest
    BY DEF ReadyInv, PolicyInv, HeldInv
  <1>a. ASSUME clusterWorker.pc # "idle", NEW pc, NEW reason, NEW observes,
               AdvanceCluster(pc, reason, observes), reason # "Synced",
               ReadyIsHonest' \/ UNCHANGED omni
        PROVE  SeenInv' /\ WorkerSynced' /\ ReadyIsHonest'
    BY <1>a, ReadyAdvance
  <1>1. CASE MissingConnection
    BY <1>a, <1>1 DEF MissingConnection
  <1>2. CASE FoundConnectionForDelete
    BY <1>a, <1>2 DEF FoundConnectionForDelete
  <1>3. CASE RenderSucceeds
    BY <1>a, <1>3 DEF RenderSucceeds
  <1>4. CASE RenderFails
    BY <1>a, <1>4 DEF RenderFails
  <1>5. CASE SyncTemplateSucceeds
    <2>1. PICK reason \in {"Synced", "StatusFailed"} :
            AdvanceCluster("updateStatus", reason, TRUE)
      BY <1>5 DEF SyncTemplateSucceeds
    <2>2. clusterWorker.pc = "sync" /\ omni' = Applied
      BY <1>5 DEF SyncTemplateSucceeds
    <2>3. /\ UNCHANGED clusterVersions
          /\ clusterWorker'.pc = "updateStatus" /\ clusterWorker'.key = clusterWorker.key
          /\ clusterWorker'.item = clusterWorker.item /\ clusterWorker'.observes = TRUE
          /\ SeenInv'
      BY <2>1, <2>2, ReadyAdvance
    <2>4. ReadyIsHonest'
      BY <2>2, <2>3, ReadySync
    <2>5. WorkerSynced'
      <3>1. ~clusterWorker.item.deleting
        BY <2>2 DEF ReadyInv, PolicyInv, HeldInv, WorkerDeletes
      <3>2. clusterWorker.key \in Cluster /\ clusterWorker.item.spec \in ClusterSpec
        BY <1>0, <2>2, BusyType DEF BusyClusterWorker, ClusterObject
      <3>3. omni'[ItemTarget] = [by |-> Incarnation, gen |-> clusterWorker.item.gen]
        BY <1>0, <2>2, <3>2, TargetType DEF Applied, ItemTarget, TypeOK
      <3>4. ItemTarget' = ItemTarget /\ Incarnation' = Incarnation
        BY <2>3 DEF ItemTarget, Incarnation, Target, ClusterName
      <3> QED  BY <2>3, <3>1, <3>3, <3>4 DEF WorkerSynced
    <2> QED  BY <2>3, <2>4, <2>5
  <1>6. CASE SyncTemplateFails
    <2>1. /\ clusterWorker.pc = "sync" /\ omni' \in {omni, Applied}
          /\ AdvanceCluster("updateStatus", "SyncFailed", TRUE)
      BY <1>6 DEF SyncTemplateFails
    <2>2. UNCHANGED clusterVersions
      BY <2>1, ReadyAdvance
    <2>3. ReadyIsHonest' \/ UNCHANGED omni
      BY <2>1, <2>2, ReadySync
    <2> QED  BY <1>a, <2>1, <2>3
  <1>7. CASE DeleteRemoteSucceeds
    <2>1. /\ clusterWorker.pc = "deleteRemote"
          /\ omni' = [omni EXCEPT ![ItemTarget] = Absent]
          /\ AdvanceCluster("removeFinalizers", "None", TRUE)
      BY <1>7 DEF DeleteRemoteSucceeds
    <2>2. UNCHANGED clusterVersions
      BY <2>1, ReadyAdvance
    <2>3. ReadyIsHonest'
      BY <2>1, <2>2, ReadyDelete
    <2> QED  BY <1>a, <2>1, <2>3
  <1>8. CASE DeleteRemoteFails
    <2>1. /\ clusterWorker.pc = "deleteRemote"
          /\ omni' \in {omni, [omni EXCEPT ![ItemTarget] = Absent]}
          /\ AdvanceCluster("updateStatus", "DeleteFailed", FALSE)
      BY <1>8 DEF DeleteRemoteFails
    <2>2. UNCHANGED clusterVersions
      BY <2>1, ReadyAdvance
    <2>3. ReadyIsHonest' \/ UNCHANGED omni
      BY <2>1, <2>2, ReadyDelete
    <2> QED  BY <1>a, <2>1, <2>3
  <1>9. ASSUME clusterWorker' = IdleClusterWorker PROVE WorkerSynced'
    BY <1>9 DEF WorkerSynced, IdleClusterWorker
  <1>10. CASE UpdateClusterStatus
    <2>1. clusterWorker.key \in Cluster /\ clusterWorker' = IdleClusterWorker
      BY <1>0, <1>10, BusyType DEF UpdateClusterStatus, BusyClusterWorker, ClusterDone
    <2>2. SeenInv' /\ ReadyIsHonest'
      BY <1>10, <2>1, ReadyStatus
    <2> QED  BY <1>9, <2>1, <2>2
  <1>11. CASE AddClusterFinalizer
    <2>1. clusterWorker' = IdleClusterWorker
      BY <1>11 DEF AddClusterFinalizer, ClusterDone
    <2> QED  BY <1>9, <1>11, <2>1, ReadyAdd
  <1>12. CASE RemoveClusterFinalizers
    <2>1. clusterWorker' = IdleClusterWorker /\ UNCHANGED omni
      BY <1>12 DEF RemoveClusterFinalizers, ClusterDone
    <2>2. clusterWorker.key \in Cluster /\ StoreCluster(clusterWorker.key, Absent)
      BY <1>12, RemoveVanishes DEF BusyClusterWorker, ReadyInv, PolicyInv
    <2> QED  BY <1>0, <1>9, <2>1, <2>2, ReadyVanish
  <1>13. CASE ClusterWriteFails
    <2>1. /\ UNCHANGED <<clusterVersions, omni>>
          /\ clusterWorker' = IdleClusterWorker
      BY <1>13 DEF ClusterWriteFails, ClusterDone
    <2>2. FewerCopies
      BY <1>0, <2>1, QuietCopies
    <2> QED  BY <1>9, <2>1, <2>2, ReadyQuiet
  <1> QED
    BY <1>1, <1>2, <1>3, <1>4, <1>5, <1>6, <1>7, <1>8, <1>10, <1>11, <1>12, <1>13
       DEF ClusterWorkerStep

(* Reconcile starts with a copy that could be seen, and has reported        *)
(* nothing yet.                                                             *)
LEMMA ReadyBegin ==
  ASSUME ReadyInv, NEW c \in Cluster, ReconcileCluster(c)
  PROVE  SeenInv' /\ WorkerSynced' /\ ReadyIsHonest'
  <1>0. TypeOK
    BY DEF ReadyInv, PolicyInv, HeldInv
  <1>1. ASSUME NEW pc, NEW reason, CanReconcile(c), BeginCluster(c, pc, reason),
               reason # "Synced"
        PROVE  SeenInv' /\ WorkerSynced' /\ ReadyIsHonest'
    <2>1. UNCHANGED <<clusterVersions, omni>> /\ clusterWorker'.reason = reason
      BY <1>1 DEF BeginCluster
    <2>2. FewerCopies
      BY <1>0, <1>1, BeginCopies
    <2>3. SeenInv' /\ ReadyIsHonest'
      BY <2>1, <2>2, ReadyQuiet
    <2> QED  BY <1>1, <2>1, <2>3 DEF WorkerSynced
  <1>2. CASE ReconcileNothing(c)
    <2>1. UNCHANGED <<clusterVersions, clusterWorker, omni>>
      BY <1>2 DEF ReconcileNothing
    <2>2. FewerCopies
      BY <1>0, <2>1, QuietCopies
    <2>3. SeenInv' /\ ReadyIsHonest'
      BY <2>1, <2>2, ReadyQuiet
    <2> QED
      BY <2>1, <2>3 DEF ReadyInv, WorkerSynced, ItemTarget, Incarnation, Target, ClusterName
  <1>3. CASE ReconcileDeleteOrphan(c)
    BY <1>1, <1>3 DEF ReconcileDeleteOrphan
  <1>4. CASE ReconcileDelete(c)
    BY <1>1, <1>4 DEF ReconcileDelete
  <1>5. CASE ReconcileNew(c)
    BY <1>1, <1>5 DEF ReconcileNew
  <1>6. CASE ReconcileSuspended(c)
    BY <1>1, <1>6 DEF ReconcileSuspended
  <1>7. CASE ReconcileSync(c)
    BY <1>1, <1>7 DEF ReconcileSync
  <1> QED
    BY <1>2, <1>3, <1>4, <1>5, <1>6, <1>7 DEF ReconcileCluster

(* The other steps of the connection controller do not call Omni. *)
LEMMA ConnectionCalls ==
  ASSUME ConnectionWorkerStep \/ \E k \in Connection : ConnectionStep(k)
  PROVE  UNCHANGED omni
  <1>1. CASE ConnectionWorkerStep
    BY <1>1
       DEF ConnectionWorkerStep, ListReferences, UpdateConnectionStatus,
           AddConnectionFinalizer, RemoveConnectionFinalizers, ConnectionAlreadyGone,
           ConnectionWriteFails
  <1>2. ASSUME NEW k \in Connection, ConnectionStep(k) PROVE UNCHANGED omni
    BY <1>2
       DEF ConnectionStep, ReconcileConnection, ReconcileConnectionNothing,
           ReconcileConnectionDelete, ReconcileConnectionNew, ReconcileConnectionPing,
           BeginConnection, DeliverConnection, CreateConnection, DeleteConnection
  <1> QED  BY <1>1, <1>2

(* Every step keeps ReadyInv, as long as targets are apart. *)
LEMMA StepReady == ReadyInv /\ TargetsApart /\ [Next]_vars => ReadyInv'
  <1> SUFFICES ASSUME ReadyInv, TargetsApart, [Next]_vars
               PROVE  SeenInv' /\ WorkerSynced' /\ ReadyIsHonest'
    BY StepPolicy DEF ReadyInv
  <1>1. TypeOK /\ SeenInv /\ ReadyIsHonest
    BY DEF ReadyInv, PolicyInv, HeldInv
  <1>w. ASSUME UNCHANGED <<clusterWorker, omni>> PROVE WorkerSynced'
    BY <1>w DEF ReadyInv, WorkerSynced, ItemTarget, Incarnation, Target, ClusterName
  <1>2. ASSUME UNCHANGED <<clusterVersions, clusterWorker, omni>>
        PROVE  SeenInv' /\ WorkerSynced' /\ ReadyIsHonest'
    <2>1. FewerCopies
      BY <1>1, <1>2, QuietCopies
    <2> QED  BY <1>2, <1>w, <2>1, ReadyQuiet
  <1>3. CASE ClusterWorkerStep
    BY <1>3, ReadyWorker
  <1>4. CASE ConnectionWorkerStep \/ \E k \in Connection : ConnectionStep(k)
    <2>1. UNCHANGED <<clusterVersions, clusterWorker>>
      BY <1>1, <1>4, ConnectionSide
    <2>2. UNCHANGED omni
      BY <1>4, ConnectionCalls
    <2> QED  BY <1>2, <2>1, <2>2
  <1>5. ASSUME NEW c \in Cluster, ClusterStep(c)
        PROVE  SeenInv' /\ WorkerSynced' /\ ReadyIsHonest'
    <2>1. CASE ReconcileCluster(c)
      BY <2>1, ReadyBegin
    <2>2. CASE DeliverCluster(c)
      <3>1. UNCHANGED <<clusterWorker, omni>>
        BY <2>2 DEF DeliverCluster
      <3>2. FewerCopies
        BY <1>1, <2>2, DeliverCopies
      <3>3. \A d \in Cluster : Stored(clusterVersions'[d]) = Stored(clusterVersions[d])
        BY <1>1, <2>2, DeliverStored
      <3> QED  BY <1>w, <3>1, <3>2, <3>3, ReadyQuiet
    <2>3. CASE CreateCluster(c)
      <3>1. UNCHANGED <<clusterWorker, omni>>
        BY <2>3 DEF CreateCluster
      <3> QED  BY <1>w, <2>3, <3>1, ReadyCreate
    <2>4. CASE UpdateCluster(c)
      <3>1. UNCHANGED <<clusterWorker, omni>>
        BY <2>4 DEF UpdateCluster
      <3> QED  BY <1>1, <1>w, <2>4, <3>1, ReadyUpdate
    <2>5. CASE DeleteCluster(c)
      <3>1. UNCHANGED <<clusterWorker, omni>>
        BY <2>5 DEF DeleteCluster
      <3> QED  BY <1>1, <1>w, <2>5, <3>1, ReadyMark
    <2> QED  BY <1>5, <2>1, <2>2, <2>3, <2>4, <2>5 DEF ClusterStep
  <1>6. CASE Restart
    <2>1. clusterWorker' = IdleClusterWorker /\ UNCHANGED omni
      BY <1>6 DEF Restart
    <2>2. WorkerSynced'
      BY <2>1 DEF WorkerSynced, IdleClusterWorker
    <2>3. FewerCopies
      BY <1>1, <1>6, RestartCopies
    <2>4. \A d \in Cluster : Stored(clusterVersions'[d]) = Stored(clusterVersions[d])
      BY <1>1, <1>6, RestartStored
    <2> QED  BY <2>1, <2>2, <2>3, <2>4, ReadyQuiet
  <1>7. CASE UNCHANGED vars
    BY <1>2, <1>7 DEF vars
  <1>8. ASSUME NEW refs \in SUBSET Cluster, WakeClusters(refs)
        PROVE  SeenInv' /\ WorkerSynced' /\ ReadyIsHonest'
    BY <1>2, <1>8 DEF WakeClusters
  <1> QED  BY <1>3, <1>4, <1>5, <1>6, <1>7, <1>8 DEF Next

(* Ready=True for the current generation is true of the remote cluster, for *)
(* any lag of the cache, any order of edits, conflicts, failed calls and    *)
(* restarts, and over deletion and re-creation: in every behaviour in which *)
(* users never give the target of one OmniCluster to another while the      *)
(* operator still works on the first.                                       *)
THEOREM ReadyClustersAreSynced == Spec /\ []TargetsApart => []ReadyIsHonest
  <1>1. ReadyInv => ReadyIsHonest
    BY DEF ReadyInv
  <1> QED  BY <1>1, InitReady, StepReady, PTL DEF Spec

(* With the names that clusters have by themselves, targets are apart. *)
LEMMA DefaultsAreApart ==
  ASSUME \A s \in Specs : s.clusterName = Unset, ReadyInv
  PROVE  TargetsApart
  <1> SUFFICES ASSUME clusterWorker.pc \in {"sync", "deleteRemote"},
                      NEW d \in Cluster \ {clusterWorker.key},
                      Stored(clusterVersions[d]) # Absent
               PROVE  Target(d, Stored(clusterVersions[d]).spec) # ItemTarget
    BY DEF TargetsApart
  <1>1. TypeOK /\ SeenInv
    BY DEF ReadyInv, PolicyInv, HeldInv
  <1>2. Stored(clusterVersions[d]).spec \in Specs
    BY <1>1, NewestSeen
  <1>3. /\ clusterWorker.key \in Cluster /\ 0 \in Seen(clusterWorker.key)
        /\ Copy(clusterWorker.key, 0) = clusterWorker.item
        /\ clusterWorker.item # Absent
    BY <1>1, BusyType, AbsentAssumption DEF BusyClusterWorker, Seen, Copy
  <1>4. clusterWorker.item.spec \in Specs
    BY <1>1, <1>3 DEF SeenInv, SpecsKnown
  <1> QED  BY <1>2, <1>4 DEF ItemTarget, Target, ClusterName

(* So Ready is honest, for any number of clusters and connections, when no  *)
(* spec sets clusterName.                                                   *)
THEOREM DefaultNamesAreSynced ==
  ASSUME \A s \in Specs : s.clusterName = Unset
  PROVE  Spec => []ReadyIsHonest
  <1>1. ReadyInv => ReadyIsHonest
    BY DEF ReadyInv
  <1>2. ReadyInv /\ [Next]_vars => ReadyInv'
    BY DefaultsAreApart, StepReady
  <1> QED  BY <1>1, <1>2, InitReady, PTL DEF Spec


=============================================================================
