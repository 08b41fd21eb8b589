------------------------- MODULE TemplateSyncProofs -------------------------
(***************************************************************************)
(* Proofs about TemplateSync: the requests of the child documents.  A      *)
(* status of a document that is wrong is always about to be corrected,     *)
(* whatever the order of edits, moves, deletions and watch events of the   *)
(* documents and of the clusters they refer to; the one exception is a     *)
(* write that was skipped for a status in the cache that was out of date.  *)
(***************************************************************************)
EXTENDS TemplateSync, ObjectVersionsProofs, FiniteSetTheorems

-----------------------------------------------------------------------------
(* Versions and events *)

(* No event that passes the predicate lies between version i and the stored *)
(* one.                                                                     *)
Quiet(s, i) ==
  \A j \in Places(s) : (i <= j /\ j < Len(s)) => ~EventPasses(s[j], s[j + 1])

(* Two versions of a document say the same, but for the status. *)
SameDocument(v, w) ==
  /\ v = Absent <=> w = Absent
  /\ v # Absent => v.gen = w.gen /\ v.spec = w.spec

(* A cache that is behind in more than the status has an event coming. *)
EventsTell(s) == \A i \in Places(s) : Quiet(s, i) => SameDocument(s[i], Stored(s))

(* What a write does to the events on their way. *)
LEMMA EventsAppend ==
  ASSUME NEW V, NEW s \in Seq(V), s # <<>>, NEW x \in V
  PROVE  EventComing(Append(s, x)) <=> EventComing(s) \/ EventPasses(Stored(s), x)
  <1> DEFINE n == Append(s, x)
  <1>1. /\ Len(n) = Len(s) + 1 /\ n[Len(s) + 1] = x
        /\ \A i \in 1 .. Len(s) : n[i] = s[i]
    BY AppendVersion
  <1>2. Len(s) \in Nat /\ Len(s) >= 1 /\ Stored(s) = s[Len(s)]
    BY EndsOfVersions
  <1> HIDE DEF n
  <1>3. ASSUME EventComing(s)
        PROVE  EventComing(n)
    <2>1. PICK i \in 1 .. Len(s) - 1 : EventPasses(s[i], s[i + 1])
      BY <1>3 DEF EventComing
    <2>2. i \in 1 .. Len(n) - 1 /\ n[i] = s[i] /\ n[i + 1] = s[i + 1]
      BY <1>1, <1>2
    <2> QED  BY <2>1, <2>2 DEF EventComing
  <1>4. ASSUME EventPasses(Stored(s), x)
        PROVE  EventComing(n)
    <2>1. Len(s) \in 1 .. Len(n) - 1 /\ n[Len(s)] = Stored(s) /\ n[Len(s) + 1] = x
      BY <1>1, <1>2
    <2> QED  BY <1>4, <2>1 DEF EventComing
  <1>5. ASSUME EventComing(n), ~EventComing(s)
        PROVE  EventPasses(Stored(s), x)
    <2>1. PICK i \in 1 .. Len(n) - 1 : EventPasses(n[i], n[i + 1])
      BY <1>5 DEF EventComing
    <2>2. CASE i = Len(s)
      BY <2>1, <2>2, <1>1, <1>2
    <2>3. CASE i # Len(s)
      <3>1. i \in 1 .. Len(s) - 1 /\ n[i] = s[i] /\ n[i + 1] = s[i + 1]
        BY <2>3, <1>1, <1>2
      <3> QED  BY <3>1, <2>1, <1>5 DEF EventComing
    <2> QED  BY <2>2, <2>3
  <1> QED  BY <1>3, <1>4, <1>5 DEF n

(* What a delivery does to them. *)
LEMMA EventsTail ==
  ASSUME NEW V, NEW s \in Seq(V), Len(s) > 1
  PROVE  EventComing(s) <=> EventComing(Tail(s)) \/ EventPasses(s[1], s[2])
  <1> DEFINE n == Tail(s)
  <1>1. /\ Len(n) = Len(s) - 1
        /\ \A i \in 1 .. Len(s) - 1 : n[i] = s[i + 1]
    BY TailVersion
  <1>2. Len(s) \in Nat
    OBVIOUS
  <1> HIDE DEF n
  <1>3. ASSUME EventComing(n)
        PROVE  EventComing(s)
    <2>1. PICK i \in 1 .. Len(n) - 1 : EventPasses(n[i], n[i + 1])
      BY <1>3 DEF EventComing
    <2>2. i + 1 \in 1 .. Len(s) - 1 /\ n[i] = s[i + 1] /\ n[i + 1] = s[(i + 1) + 1]
      BY <1>1, <1>2
    <2> QED  BY <2>1, <2>2 DEF EventComing
  <1>4. ASSUME EventPasses(s[1], s[2])
        PROVE  EventComing(s)
    <2>1. 1 \in 1 .. Len(s) - 1 /\ 1 + 1 = 2
      BY <1>2
    <2> QED  BY <1>4, <2>1 DEF EventComing
  <1>5. ASSUME EventComing(s), ~EventComing(n)
        PROVE  EventPasses(s[1], s[2])
    <2>1. PICK i \in 1 .. Len(s) - 1 : EventPasses(s[i], s[i + 1])
      BY <1>5 DEF EventComing
    <2>2. CASE i = 1
      BY <2>1, <2>2
    <2>3. CASE i # 1
      <3>1. /\ i - 1 \in 1 .. Len(n) - 1 /\ n[i - 1] = s[i]
            /\ n[(i - 1) + 1] = s[i + 1]
        BY <2>3, <1>1, <1>2
      <3> QED  BY <3>1, <2>1, <1>5 DEF EventComing
    <2> QED  BY <2>2, <2>3
  <1> QED  BY <1>3, <1>4, <1>5 DEF n

(* With one version, none is on its way. *)
LEMMA EventsOne ==
  ASSUME NEW V, NEW s \in Seq(V), Len(s) = 1
  PROVE  ~EventComing(s) /\ Cached(s) = Stored(s) /\ EventsTell(s)
  <1>1. ~EventComing(s)
    BY DEF EventComing
  <1>2. Cached(s) = s[1] /\ Stored(s) = s[1]
    BY EndsOfVersions
  <1>3. Places(s) = {1}
    BY DEF Places
  <1> QED  BY <1>1, <1>2, <1>3 DEF EventsTell, SameDocument

(* An event tells of every object that comes or goes, so that without one   *)
(* the cache is right about its existence.                                  *)
LEMMA EventsTellExistence ==
  ASSUME NEW V, NEW s \in Seq(V), s # <<>>, ~EventComing(s)
  PROVE  Cached(s) = Absent <=> Stored(s) = Absent
  <1>1. Len(s) \in Nat /\ Len(s) >= 1 /\ Cached(s) = s[1] /\ Stored(s) = s[Len(s)]
    BY EndsOfVersions
  <1>2. CASE Len(s) = 1
    BY <1>1, <1>2
  <1>3. CASE Len(s) # 1
    <2> DEFINE n == Len(s)
    <2>0. n \in Nat /\ n >= 1 /\ n # 1
      BY <1>1, <1>3
    <2>1. 1 \in 1 .. n - 1 /\ n - 1 \in 1 .. n - 1
      <3> HIDE DEF n
      <3> QED  BY <2>0
    <2>2. ~EventPasses(s[1], s[1 + 1]) /\ ~EventPasses(s[Len(s) - 1], s[(Len(s) - 1) + 1])
      BY <2>1 DEF EventComing
    <2>3. s[1] # Absent /\ s[(Len(s) - 1) + 1] # Absent
      BY <2>2 DEF EventPasses
    <2>4. (Len(s) - 1) + 1 = Len(s)
      BY <1>1
    <2> QED  BY <1>1, <2>3, <2>4
  <1> QED  BY <1>2, <1>3

(* Without an event on its way, the cached document is the stored one. *)
LEMMA QuietCache ==
  ASSUME NEW V, NEW s \in Seq(V), s # <<>>, EventsTell(s), ~EventComing(s)
  PROVE  SameDocument(Cached(s), Stored(s))
  <1>1. Len(s) \in Nat /\ Len(s) >= 1 /\ Cached(s) = s[1]
    BY EndsOfVersions
  <1>2. 1 \in Places(s)
    BY <1>1 DEF Places
  <1>3. Quiet(s, 1)
    <2> SUFFICES ASSUME NEW j \in Places(s), j < Len(s)
                 PROVE  ~EventPasses(s[j], s[j + 1])
      BY DEF Quiet
    <2>1. j \in 1 .. Len(s) - 1
      BY <1>1 DEF Places
    <2> QED  BY <2>1 DEF EventComing
  <1> QED  BY <1>1, <1>2, <1>3 DEF EventsTell

(* A write that changes the spec is told of by an event. *)
LEMMA EventsTellAppend ==
  ASSUME NEW V, NEW s \in Seq(V), s # <<>>, NEW x \in V, EventsTell(s),
         ~EventPasses(Stored(s), x) => Stored(s).spec = x.spec
  PROVE  EventsTell(Append(s, x))
  <1> DEFINE n == Append(s, x)
  <1>1. /\ Len(n) = Len(s) + 1 /\ n[Len(s) + 1] = x
        /\ \A i \in 1 .. Len(s) : n[i] = s[i]
    BY AppendVersion
  <1>2. Len(s) \in Nat /\ Len(s) >= 1 /\ Stored(s) = s[Len(s)]
    BY EndsOfVersions
  <1>3. Stored(n) = x
    BY <1>1 DEF Stored
  <1> HIDE DEF n
  <1> SUFFICES ASSUME NEW i \in Places(n), Quiet(n, i)
               PROVE  SameDocument(n[i], x)
    BY <1>3 DEF EventsTell, n
  <1>4. CASE i = Len(s) + 1
    BY <1>4, <1>1 DEF SameDocument
  <1>5. CASE i # Len(s) + 1
    <2>1. i \in Places(s) /\ n[i] = s[i]
      BY <1>5, <1>1, <1>2 DEF Places
    <2>2. Quiet(s, i)
      <3> SUFFICES ASSUME NEW j \in Places(s), i <= j, j < Len(s)
                   PROVE  ~EventPasses(s[j], s[j + 1])
        BY DEF Quiet
      <3>1. j \in Places(n) /\ j < Len(n) /\ n[j] = s[j] /\ n[j + 1] = s[j + 1]
        BY <1>1, <1>2 DEF Places
      <3> QED  BY <3>1 DEF Quiet
    <2>3. SameDocument(s[i], Stored(s))
      BY <2>1, <2>2 DEF EventsTell
    <2>4. ~EventPasses(Stored(s), x)
      <3>1. /\ Len(s) \in Places(n) /\ i <= Len(s) /\ Len(s) < Len(n)
            /\ n[Len(s)] = Stored(s) /\ n[Len(s) + 1] = x
        BY <2>1, <1>1, <1>2 DEF Places
      <3> QED  BY <3>1 DEF Quiet
    <2> QED  BY <2>1, <2>3, <2>4 DEF SameDocument, EventPasses
  <1> QED  BY <1>4, <1>5

(* A delivery keeps it so. *)
LEMMA EventsTellTail ==
  ASSUME NEW V, NEW s \in Seq(V), Len(s) > 1, EventsTell(s)
  PROVE  EventsTell(Tail(s))
  <1> DEFINE n == Tail(s)
  <1>1. /\ Len(n) = Len(s) - 1 /\ Len(s) \in Nat
        /\ \A i \in 1 .. Len(s) - 1 : n[i] = s[i + 1]
    BY TailVersion
  <1>2. Stored(n) = Stored(s)
    BY <1>1 DEF Stored
  <1> HIDE DEF n
  <1> SUFFICES ASSUME NEW i \in Places(n), Quiet(n, i)
               PROVE  SameDocument(n[i], Stored(s))
    BY <1>2 DEF EventsTell, n
  <1>3. i + 1 \in Places(s) /\ n[i] = s[i + 1]
    BY <1>1 DEF Places
  <1>4. Quiet(s, i + 1)
    <2> SUFFICES ASSUME NEW j \in Places(s), i + 1 <= j, j < Len(s)
                 PROVE  ~EventPasses(s[j], s[j + 1])
      BY DEF Quiet
    <2>1. /\ j - 1 \in Places(n) /\ i <= j - 1 /\ j - 1 < Len(n)
          /\ n[j - 1] = s[j] /\ n[(j - 1) + 1] = s[j + 1]
      BY <1>1 DEF Places
    <2> QED  BY <2>1 DEF Quiet
  <1> QED  BY <1>3, <1>4 DEF EventsTell

-----------------------------------------------------------------------------
(* Types of documents *)

DocumentVersion == DocumentObject \cup {Absent}

BusyDocumentWorker(k) ==
  [pc : {"clusterExists", "updateStatus"}, key : {d \in Document : d.kind = k},
   clusterRef : Cluster \cup Dangling, exists : BOOLEAN]

(* Each edit adds at most one to a generation. *)
GenerationsUpTo(versions, n) ==
  \A d \in Document : \A i \in Places(versions[d]) :
    versions[d][i] # Absent => versions[d][i].gen <= n + 1

WorkersTyped(workers) ==
  /\ workers = [k \in Kind |-> workers[k]]
  /\ \A k \in Kind :
       workers[k] = IdleDocumentWorker \/ workers[k] \in BusyDocumentWorker(k)

(* The types of the documents' variables; what TypeOK says of them, with    *)
(* the reason for the bound of generations.                                 *)
DocumentTypes ==
  /\ documentVersions \in VersionMaps(Document, DocumentVersion)
  /\ GenerationsUpTo(documentVersions, edits) /\ edits \in Nat
  /\ documentQueue \subseteq {d \in Document : d.kind \in Reconciled}
  /\ WorkersTyped(documentWorkers)
  /\ suppressed \subseteq Document

(* A document is submitted with a spec that may be submitted. *)
LEMMA AdmittedType ==
  ASSUME NEW d \in Document, NEW s \in AdmittedSpecs(d)
  PROVE  s \in AnySpec
  BY DEF AdmittedSpecs, AnySpec

(* A reference is a cluster's name or dangles. *)
LEMMA ReferenceType ==
  ASSUME NEW object \in DocumentObject
  PROVE  /\ object.spec \in AnySpec /\ object.gen \in 1 .. MaxEdits + 1
         /\ object.deleting = FALSE /\ object.status \in DocumentStatus
         /\ object.spec.clusterRef \in Cluster \cup Dangling
         /\ object # Absent
  <1>1. /\ object.spec \in AnySpec /\ object.gen \in 1 .. MaxEdits + 1
        /\ object.deleting = FALSE /\ object.status \in DocumentStatus
    BY DEF DocumentObject
  <1>2. object.spec.clusterRef \in Cluster \cup Dangling
    BY <1>1 DEF Dangling
  <1> QED  BY <1>1, <1>2, AbsentDocumentAssumption

(* What CreateDocument stores. *)
LEMMA NewDocumentType ==
  ASSUME NEW s \in AnySpec
  PROVE  NewDocument(s) \in DocumentObject /\ NewDocument(s).gen = 1
  <1>1. MaxEdits \in Nat /\ 1 \in 1 .. MaxEdits + 1 /\ 0 \in 0 .. MaxEdits + 1
    BY DocumentAssumption
  <1>2. NoStatus \in DocumentStatus
    BY <1>1 DEF NoStatus, DocumentStatus
  <1> QED  BY <1>1, <1>2 DEF NewDocument, DocumentObject

(* What UpdateDocument stores. *)
EditedDocument(object, s) == [object EXCEPT !.gen = @ + 1, !.spec = s]

(* It is a document, of the next generation. *)
LEMMA EditedDocumentType ==
  ASSUME NEW object \in DocumentObject, NEW s \in AnySpec, object.gen < MaxEdits + 1
  PROVE  /\ EditedDocument(object, s) \in DocumentObject
         /\ EditedDocument(object, s).gen = object.gen + 1
  <1>1. MaxEdits \in Nat
    BY DocumentAssumption
  <1> DEFINE g == object.gen + 1
             o == [object EXCEPT !.gen = g]
  <1>0. g \in 1 .. MaxEdits + 1
    <2>1. object.gen \in 1 .. MaxEdits + 1
      BY ReferenceType
    <2> QED  BY <1>1, <2>1
  <1>2. o \in DocumentObject /\ o.gen = object.gen + 1
    <2> HIDE DEF g
    <2>1. o \in DocumentObject /\ o.gen = g
      BY <1>0 DEF DocumentObject
    <2> QED  BY <2>1 DEF g
  <1>3. EditedDocument(object, s) = [o EXCEPT !.spec = s]
    BY DEF EditedDocument
  <1> HIDE DEF o
  <1> QED  BY <1>2, <1>3 DEF DocumentObject

(* What the update of the status makes of a document. *)
LEMMA NewDocumentStatusType ==
  ASSUME NEW d \in Document, NEW latest \in DocumentObject, NEW exists \in BOOLEAN,
         NEW x, x = [latest EXCEPT !.status = NewDocumentStatus(d, latest, exists)]
  PROVE  /\ NewDocumentStatus(d, latest, exists).obs = latest.gen
         /\ NewDocumentStatus(d, latest, exists).accepted = exists
         /\ x \in DocumentObject /\ x.gen = latest.gen /\ x.spec = latest.spec
         /\ x.deleting = latest.deleting
         /\ x.status = NewDocumentStatus(d, latest, exists)
  <1>1. /\ latest.spec \in AnySpec /\ latest.gen \in 1 .. MaxEdits + 1
        /\ latest.spec.clusterRef \in Cluster \cup Dangling
    BY ReferenceType
  <1>2. MaxEdits \in Nat /\ d.name \in Nat
    BY DocumentAssumption
  <1>3. ResolvedName(AsInput(d, latest)) \in Nat
    BY <1>1, <1>2, SpecNamesAssumption DEF ResolvedName, AsInput
  <1> DEFINE status == NewDocumentStatus(d, latest, exists)
  <1>4. latest.gen \in 0 .. MaxEdits + 1
    BY <1>1, <1>2
  <1>5. /\ status.obs = latest.gen /\ status.accepted = exists
        /\ status \in DocumentStatus
    BY <1>1, <1>3, <1>4 DEF NewDocumentStatus, DocumentStatus
  <1> HIDE DEF status
  <1>6. x = [latest EXCEPT !.status = status]
    BY DEF status
  <1>7. /\ x \in DocumentObject /\ x.gen = latest.gen /\ x.spec = latest.spec
        /\ x.deleting = latest.deleting /\ x.status = status
    BY <1>5, <1>6 DEF DocumentObject
  <1> QED  BY <1>5, <1>7 DEF status

(* A write keeps the types. *)
LEMMA StoreDocumentType ==
  ASSUME DocumentTypes, NEW d \in Document, NEW x \in DocumentVersion,
         StoreDocument(d, x), NEW n \in Nat, edits <= n, x # Absent => x.gen <= n + 1
  PROVE  /\ documentVersions' = Appended(documentVersions, d, x)
         /\ documentVersions' \in VersionMaps(Document, DocumentVersion)
         /\ GenerationsUpTo(documentVersions', n)
  <1> DEFINE next == Appended(documentVersions, d, x)
  <1>1. documentVersions \in VersionMaps(Document, DocumentVersion)
    BY DEF DocumentTypes
  <1>2. documentVersions' = next
    BY DEF StoreDocument, Appended
  <1>3. /\ next \in VersionMaps(Document, DocumentVersion)
        /\ Places(next[d]) = Places(documentVersions[d]) \cup {Len(documentVersions[d]) + 1}
        /\ \A i \in Places(documentVersions[d]) : next[d][i] = documentVersions[d][i]
        /\ next[d][Len(documentVersions[d]) + 1] = x
        /\ \A e \in Document \ {d} : next[e] = documentVersions[e]
    BY <1>1, MapAppend, SMTT(20)
  <1>4. \A e \in Document : \A i \in Places(documentVersions[e]) :
          documentVersions[e][i] # Absent => documentVersions[e][i].gen <= n + 1
    <2> SUFFICES ASSUME NEW e \in Document, NEW i \in Places(documentVersions[e]),
                        documentVersions[e][i] # Absent
                 PROVE  documentVersions[e][i].gen <= n + 1
      OBVIOUS
    <2>1. documentVersions[e][i].gen <= edits + 1 /\ edits \in Nat
      BY DEF DocumentTypes, GenerationsUpTo
    <2>2. documentVersions[e][i] \in DocumentVersion
      BY <1>1, MapEnds
    <2>3. documentVersions[e][i].gen \in 1 .. MaxEdits + 1 /\ MaxEdits \in Nat
      BY <2>2, ReferenceType, DocumentAssumption DEF DocumentVersion
    <2> QED  BY <2>1, <2>3
  <1> HIDE DEF next
  <1>5. GenerationsUpTo(next, n)
    <2> SUFFICES ASSUME NEW e \in Document, NEW i \in Places(next[e]), next[e][i] # Absent
                 PROVE  next[e][i].gen <= n + 1
      BY DEF GenerationsUpTo
    <2>1. CASE e # d
      BY <2>1, <1>3, <1>4
    <2>2. CASE e = d
      BY <2>2, <1>3, <1>4
    <2> QED  BY <2>1, <2>2
  <1> QED  BY <1>2, <1>3, <1>5 DEF next

(* What is known of a worker that is busy. *)
LEMMA DocumentWorkerType ==
  ASSUME DocumentTypes, NEW k \in Kind
  PROVE  /\ documentWorkers[k].pc = "idle" => documentWorkers[k].key = Absent
         /\ documentWorkers[k].pc # "idle" =>
              /\ documentWorkers[k] \in BusyDocumentWorker(k)
              /\ documentWorkers[k].key \in Document /\ documentWorkers[k].key.kind = k
              /\ documentWorkers[k].key # Absent
              /\ documentWorkers[k].exists \in BOOLEAN
              /\ documentWorkers[k].clusterRef \in Cluster \cup Dangling
  <1>1. documentWorkers[k] = IdleDocumentWorker \/ documentWorkers[k] \in BusyDocumentWorker(k)
    BY DEF DocumentTypes, WorkersTyped
  <1>2. CASE documentWorkers[k] = IdleDocumentWorker
    BY <1>2 DEF IdleDocumentWorker
  <1>3. CASE documentWorkers[k] \in BusyDocumentWorker(k)
    BY <1>3, AbsentDocumentAssumption DEF BusyDocumentWorker
  <1> QED  BY <1>1, <1>2, <1>3

(* A worker is set to the state it should have. *)
LEMMA SetWorkerType ==
  ASSUME DocumentTypes, NEW k \in Kind, NEW w,
         w = IdleDocumentWorker \/ w \in BusyDocumentWorker(k), SetWorker(k, w)
  PROVE  /\ WorkersTyped(documentWorkers') /\ documentWorkers'[k] = w
         /\ \A j \in Kind \ {k} : documentWorkers'[j] = documentWorkers[j]
  BY DEF DocumentTypes, WorkersTyped, SetWorker

-----------------------------------------------------------------------------
(* The inductive invariant *)

(* Versions of clusters are kept as those of documents are; what they hold  *)
(* does not matter here, but whether there is one.                          *)
ClustersListed == \E V : clusterVersions \in VersionMaps(Cluster, V)

Exists(ref) == ref \in Cluster /\ Stored(clusterVersions[ref]) # Absent

ClusterEventComing(ref) == ref \in Cluster /\ EventComing(clusterVersions[ref])

(* The worker has d. *)
Running(d) == documentWorkers[d.kind].key = d

(* The running call looks at the reference that is stored, and what it has  *)
(* found out is so, or else there will be another call.                     *)
CallIsRight(d) ==
  LET w == documentWorkers[d.kind]
  IN  Running(d) =>
        \/ d \in documentQueue
        \/ EventComing(documentVersions[d])
        \/ Stored(documentVersions[d]) = Absent
        \/ /\ w.clusterRef = Stored(documentVersions[d]).spec.clusterRef
           /\ w.pc = "updateStatus" =>
                (w.exists <=> Exists(w.clusterRef)) \/ ClusterEventComing(w.clusterRef)

(* What AcceptedUnlessSuppressed says of d *)
Answered(d) ==
  Stored(documentVersions[d]) # Absent =>
    AnswersRight(d) \/ DocumentPending(d) \/ d \in suppressed

DocumentInv(d) == CallIsRight(d) /\ Answered(d)

RequestInv ==
  /\ DocumentTypes
  /\ ClustersListed
  /\ \A d \in Document : EventsTell(documentVersions[d])
  /\ \A d \in Document : d.kind \in Reconciled => DocumentInv(d)

(* Nothing that matters to a request for d is lost with the events of c. *)
ClusterKept(d, c) ==
  /\ \/ Stored(clusterVersions'[c]) = Absent <=> Stored(clusterVersions[c]) = Absent
     \/ EventComing(clusterVersions'[c])
  /\ EventComing(clusterVersions[c]) =>
       \/ EventComing(clusterVersions'[c])
       \/ (/\ Cached(documentVersions[d]) # Absent
           /\ Cached(documentVersions[d]).spec.clusterRef = c) => d \in documentQueue'

(* The sequence of a document. *)
LEMMA DocumentSequence ==
  ASSUME DocumentTypes, NEW d \in Document
  PROVE  /\ documentVersions[d] \in Seq(DocumentVersion) /\ documentVersions[d] # <<>>
         /\ Len(documentVersions[d]) \in Nat /\ Len(documentVersions[d]) >= 1
         /\ Stored(documentVersions[d]) \in DocumentVersion
         /\ Cached(documentVersions[d]) \in DocumentVersion
         /\ \A i \in Places(documentVersions[d]) : documentVersions[d][i] \in DocumentVersion
  <1>1. documentVersions \in VersionMaps(Document, DocumentVersion)
    BY DEF DocumentTypes
  <1>2. documentVersions[d] # <<>>
    BY <1>1 DEF VersionMaps
  <1> QED  BY <1>1, <1>2, MapEnds

(* A step that is not about d keeps what is said of d. *)
LEMMA Undisturbed ==
  ASSUME RequestInv, NEW d \in Document, d.kind \in Reconciled,
         documentVersions'[d] = documentVersions[d],
         d \in documentQueue => d \in documentQueue',
         d \in suppressed => d \in suppressed',
         \/ documentWorkers'[d.kind] = documentWorkers[d.kind]
         \/ documentWorkers[d.kind].key # d /\ documentWorkers'[d.kind].key # d,
         \A c \in Cluster : ClusterKept(d, c)
  PROVE  DocumentInv(d)'
  <1> DEFINE s == documentVersions[d]
  <1>1. s \in Seq(DocumentVersion) /\ s # <<>> /\ EventsTell(s)
    BY DocumentSequence DEF RequestInv
  <1>2. CallIsRight(d) /\ Answered(d)
    BY DEF RequestInv, DocumentInv
  <1>3. CASE d \in documentQueue' \/ EventComing(s) \/ Stored(s) = Absent
    BY <1>3 DEF DocumentInv, CallIsRight, Answered, DocumentPending
  <1>4. CASE ~(d \in documentQueue' \/ EventComing(s) \/ Stored(s) = Absent)
    <2> DEFINE ref == Stored(s).spec.clusterRef
    <2>1. SameDocument(Cached(s), Stored(s))
      BY <1>1, <1>4, QuietCache
    <2>2. Cached(s) # Absent /\ Cached(s).spec.clusterRef = ref
      BY <2>1, <1>4 DEF SameDocument
    <2>3. ref \in Cluster => ClusterKept(d, ref)
      OBVIOUS
    <2>4. ClusterEventComing(ref) => ClusterEventComing(ref)'
      BY <2>2, <2>3, <1>4 DEF ClusterKept, ClusterEventComing
    <2>5. (Exists(ref)' <=> Exists(ref)) \/ ClusterEventComing(ref)'
      BY <2>3 DEF ClusterKept, ClusterEventComing, Exists
    <2>6. CallIsRight(d)'
      <3>1. CASE documentWorkers'[d.kind] = documentWorkers[d.kind]
        BY <3>1, <1>2, <1>4, <2>4, <2>5 DEF CallIsRight, Running
      <3>2. CASE documentWorkers'[d.kind].key # d
        BY <3>2 DEF CallIsRight, Running
      <3> QED  BY <3>1, <3>2
    <2>7. Answered(d)'
      <3>1. CASE DocumentPending(d)
        <4>1. Running(d) \/ ClusterEventComing(ref)
          BY <3>1, <1>4 DEF DocumentPending, Running, ClusterEventComing
        <4>2. Running(d)' \/ ClusterEventComing(ref)'
          BY <4>1, <2>4 DEF Running
        <4> QED  BY <4>2 DEF Answered, DocumentPending, Running, ClusterEventComing
      <3>2. CASE d \in suppressed
        BY <3>2 DEF Answered
      <3>3. CASE AnswersRight(d)
        <4>1. AnswersRight(d)' \/ ClusterEventComing(ref)'
          BY <3>3, <2>5 DEF AnswersRight, Exists
        <4> QED  BY <4>1 DEF Answered, DocumentPending, ClusterEventComing
      <3> QED  BY <3>1, <3>2, <3>3, <1>2, <1>4 DEF Answered
    <2> QED  BY <2>6, <2>7 DEF DocumentInv
  <1> QED  BY <1>3, <1>4

-----------------------------------------------------------------------------
(* Steps of the reconcilers of documents *)

(* What is stored of clusters, and their events, as before. *)
LEMMA ClustersStill ==
  ASSUME clusterVersions' = clusterVersions, NEW d
  PROVE  \A c \in Cluster : ClusterKept(d, c)
  BY DEF ClusterKept

(* A step of the worker that has d, or takes it, is about no other document. *)
LEMMA WorkerOfOne ==
  ASSUME RequestInv, NEW d \in Document, NEW w,
         w = IdleDocumentWorker \/ w \in BusyDocumentWorker(d.kind),
         SetWorker(d.kind, w),
         documentWorkers[d.kind].key \in {d, Absent}, w.key \in {d, Absent},
         clusterVersions' = clusterVersions,
         \A e \in Document \ {d} : /\ documentVersions'[e] = documentVersions[e]
                                   /\ e \in documentQueue => e \in documentQueue'
                                   /\ e \in suppressed => e \in suppressed'
  PROVE  /\ WorkersTyped(documentWorkers') /\ documentWorkers'[d.kind] = w
         /\ \A e \in Document \ {d} : e.kind \in Reconciled => DocumentInv(e)'
  <1>1. d.kind \in Kind
    BY DocumentAssumption
  <1>2. /\ WorkersTyped(documentWorkers') /\ documentWorkers'[d.kind] = w
        /\ \A j \in Kind \ {d.kind} : documentWorkers'[j] = documentWorkers[j]
    BY <1>1, SetWorkerType DEF RequestInv
  <1>3. ASSUME NEW e \in Document \ {d}, e.kind \in Reconciled
        PROVE  DocumentInv(e)'
    <2>1. e.kind \in Kind /\ e # Absent
      BY DocumentAssumption, AbsentDocumentAssumption
    <2>2. \/ documentWorkers'[e.kind] = documentWorkers[e.kind]
          \/ documentWorkers[e.kind].key # e /\ documentWorkers'[e.kind].key # e
      <3>1. CASE e.kind = d.kind
        BY <3>1, <1>2, <2>1
      <3>2. CASE e.kind # d.kind
        BY <3>2, <1>2, <2>1
      <3> QED  BY <3>1, <3>2
    <2>3. \A c \in Cluster : ClusterKept(e, c)
      BY ClustersStill
    <2> QED  BY <1>3, <2>2, <2>3, Undisturbed
  <1> QED  BY <1>2, <1>3

(* The parts of the invariant are put together again. *)
LEMMA RequestInvFrom ==
  ASSUME DocumentTypes', clusterVersions' = clusterVersions, RequestInv, NEW d \in Document,
         EventsTell(documentVersions'[d]),
         \A e \in Document \ {d} : documentVersions'[e] = documentVersions[e],
         d.kind \in Reconciled => DocumentInv(d)',
         \A e \in Document \ {d} : e.kind \in Reconciled => DocumentInv(e)'
  PROVE  RequestInv'
  <1>1. ClustersListed'
    BY DEF RequestInv, ClustersListed
  <1>2. \A e \in Document : EventsTell(documentVersions'[e])
    BY DEF RequestInv
  <1>3. \A e \in Document : e.kind \in Reconciled => DocumentInv(e)'
    OBVIOUS
  <1> QED  BY <1>1, <1>2, <1>3 DEF RequestInv

(* A document that is not in the cache is not reconciled; if it is stored,  *)
(* the event that tells of it is on its way.                                *)
LEMMA InvReconcileNoDocument ==
  ASSUME RequestInv, clusterVersions' = clusterVersions,
         NEW d \in Document, ReconcileNoDocument(d)
  PROVE  RequestInv'
  <1>1. /\ d \in documentQueue /\ documentWorkers[d.kind].pc = "idle"
        /\ Cached(documentVersions[d]) = Absent
        /\ documentQueue' = documentQueue \ {d}
        /\ documentVersions' = documentVersions /\ documentWorkers' = documentWorkers
        /\ suppressed' = suppressed /\ edits' = edits
    BY DEF ReconcileNoDocument
  <1>2. DocumentTypes'
    BY <1>1 DEF RequestInv, DocumentTypes
  <1>3. \A e \in Document \ {d} : e.kind \in Reconciled => DocumentInv(e)'
    <2> SUFFICES ASSUME NEW e \in Document \ {d}, e.kind \in Reconciled
                 PROVE  DocumentInv(e)'
      OBVIOUS
    <2>1. \A c \in Cluster : ClusterKept(e, c)
      BY ClustersStill
    <2> QED  BY <1>1, <2>1, Undisturbed
  <1>4. DocumentInv(d)'
    <2> DEFINE s == documentVersions[d]
    <2>1. s \in Seq(DocumentVersion) /\ s # <<>> /\ d.kind \in Kind
      BY DocumentSequence, DocumentAssumption DEF RequestInv
    <2>2. documentWorkers[d.kind].key = Absent /\ d # Absent
      BY <1>1, <2>1, DocumentWorkerType, AbsentDocumentAssumption DEF RequestInv
    <2>3. CallIsRight(d)'
      BY <1>1, <2>2 DEF CallIsRight, Running
    <2>4. Stored(s) # Absent => EventComing(s)
      BY <1>1, <2>1, EventsTellExistence
    <2>5. Answered(d)'
      BY <1>1, <2>4 DEF Answered, DocumentPending
    <2> QED  BY <2>3, <2>5 DEF DocumentInv
  <1>5. EventsTell(documentVersions'[d])
    BY <1>1 DEF RequestInv
  <1> QED  BY <1>1, <1>2, <1>3, <1>4, <1>5, RequestInvFrom

(* A call starts with the reference in the cache. *)
LEMMA InvReconcileDocument ==
  ASSUME RequestInv, clusterVersions' = clusterVersions,
         NEW d \in Document, ReconcileDocument(d)
  PROVE  RequestInv'
  <1> DEFINE s == documentVersions[d]
             ref == Cached(s).spec.clusterRef
             w == [IdleDocumentWorker EXCEPT !.pc = "clusterExists", !.key = d,
                                             !.clusterRef = ref]
  <1>1. /\ d \in documentQueue /\ documentWorkers[d.kind].pc = "idle"
        /\ Cached(s) # Absent
        /\ documentQueue' = documentQueue \ {d}
        /\ documentVersions' = documentVersions /\ SetWorker(d.kind, w)
        /\ suppressed' = suppressed /\ edits' = edits
    BY DEF ReconcileDocument
  <1>2. w \in [pc : {"clusterExists"}, key : {d}, clusterRef : {ref}, exists : BOOLEAN]
    <2> DEFINE w1 == [IdleDocumentWorker EXCEPT !.pc = "clusterExists"]
               w2 == [w1 EXCEPT !.key = d]
    <2>1. IdleDocumentWorker \in [pc : {"idle"}, key : {Absent}, clusterRef : {Unset},
                                  exists : BOOLEAN]
      BY DEF IdleDocumentWorker
    <2>2. w1 \in [pc : {"clusterExists"}, key : {Absent}, clusterRef : {Unset},
                  exists : BOOLEAN]
      BY <2>1
    <2>3. w = [w2 EXCEPT !.clusterRef = ref]
      OBVIOUS
    <2> HIDE DEF w1
    <2>4. w2 \in [pc : {"clusterExists"}, key : {d}, clusterRef : {Unset}, exists : BOOLEAN]
      BY <2>2
    <2> HIDE DEF w2, w, ref
    <2> QED  BY <2>3, <2>4
  <1>3. s \in Seq(DocumentVersion) /\ s # <<>> /\ d.kind \in Kind /\ EventsTell(s)
    BY DocumentSequence, DocumentAssumption DEF RequestInv
  <1>4. Cached(s) \in DocumentObject
    BY <1>1, DocumentSequence DEF RequestInv, DocumentVersion
  <1>5. ref \in Cluster \cup Dangling
    BY <1>4, ReferenceType
  <1> HIDE DEF w, ref, s
  <1>6. /\ w \in BusyDocumentWorker(d.kind) /\ w.key = d /\ w.pc = "clusterExists"
        /\ w.clusterRef = ref
    BY <1>2, <1>5 DEF BusyDocumentWorker
  <1>7. documentWorkers[d.kind].key = Absent
    BY <1>1, <1>3, DocumentWorkerType DEF RequestInv
  <1>8. /\ WorkersTyped(documentWorkers') /\ documentWorkers'[d.kind] = w
        /\ \A e \in Document \ {d} : e.kind \in Reconciled => DocumentInv(e)'
    BY <1>1, <1>6, <1>7, WorkerOfOne
  <1>9. DocumentTypes'
    BY <1>1, <1>8 DEF RequestInv, DocumentTypes
  <1>10. Running(d)'
    BY <1>6, <1>8 DEF Running
  <1>11. CallIsRight(d)'
    <2>1. ASSUME ~EventComing(s), Stored(s) # Absent
          PROVE  ref = Stored(s).spec.clusterRef
      <3>1. SameDocument(Cached(s), Stored(s))
        BY <1>3, <2>1, QuietCache
      <3> QED  BY <3>1, <1>1 DEF SameDocument, ref
    <2> QED  BY <1>1, <1>6, <1>8, <2>1 DEF CallIsRight, s
  <1>12. Answered(d)'
    BY <1>10 DEF Answered, DocumentPending, Running
  <1>13. EventsTell(documentVersions'[d])
    BY <1>1, <1>3 DEF s
  <1>14. DocumentInv(d)'
    BY <1>11, <1>12 DEF DocumentInv
  <1> QED  BY <1>1, <1>8, <1>9, <1>13, <1>14, RequestInvFrom


(* The cache of clusters is right about a cluster, or an event of it comes. *)
LEMMA CacheTellsExistence ==
  ASSUME ClustersListed, NEW ref
  PROVE  \/ (ref \in Cluster /\ Cached(clusterVersions[ref]) # Absent) <=> Exists(ref)
         \/ ClusterEventComing(ref)
  <1>1. CASE ref \notin Cluster
    BY <1>1 DEF Exists
  <1>2. CASE ref \in Cluster
    <2>1. PICK V : clusterVersions \in VersionMaps(Cluster, V)
      BY DEF ClustersListed
    <2>2. clusterVersions[ref] \in Seq(V) /\ clusterVersions[ref] # <<>>
      BY <2>1, <1>2 DEF VersionMaps
    <2>3. \/ EventComing(clusterVersions[ref])
          \/ Cached(clusterVersions[ref]) = Absent <=> Stored(clusterVersions[ref]) = Absent
      BY <2>2, EventsTellExistence
    <2> QED  BY <1>2, <2>3 DEF Exists, ClusterEventComing
  <1> QED  BY <1>1, <1>2

(* The answer is found for the reference that was read before. *)
LEMMA InvClusterExists ==
  ASSUME RequestInv, clusterVersions' = clusterVersions,
         NEW k \in Reconciled, ClusterExists(k)
  PROVE  RequestInv'
  <1>0. documentWorkers[k].pc = "clusterExists"
    BY DEF ClusterExists
  <1>a. PICK d \in Document, ref \in Cluster \cup Dangling :
          /\ d = documentWorkers[k].key /\ d.kind = k
          /\ ref = documentWorkers[k].clusterRef
    BY <1>0, DocumentWorkerType, DocumentAssumption DEF RequestInv
  <1> DEFINE v == documentWorkers[k]
             b == ref \in Cluster /\ Cached(clusterVersions[ref]) # Absent
             w == [v EXCEPT !.pc = "updateStatus", !.exists = b]
  <1>1. /\ v.pc = "clusterExists" /\ SetWorker(k, w)
        /\ documentQueue' = documentQueue /\ documentVersions' = documentVersions
        /\ suppressed' = suppressed /\ edits' = edits
    BY <1>a DEF ClusterExists
  <1>2. k \in Kind /\ v \in BusyDocumentWorker(k) /\ d \in Document /\ d.kind = k
    BY <1>a, <1>1, DocumentWorkerType, DocumentAssumption DEF RequestInv
  <1>3. /\ w \in BusyDocumentWorker(k) /\ w.key = d /\ w.pc = "updateStatus"
        /\ w.clusterRef = ref /\ (w.exists <=> b)
    <2> DEFINE w1 == [v EXCEPT !.pc = "updateStatus"]
    <2>1. w = [w1 EXCEPT !.exists = b]
      OBVIOUS
    <2>2. b \in BOOLEAN
      OBVIOUS
    <2> HIDE DEF b, v
    <2>3. w1 \in BusyDocumentWorker(k) /\ w1.key = v.key /\ w1.pc = "updateStatus"
          /\ w1.clusterRef = v.clusterRef
      BY <1>2 DEF BusyDocumentWorker
    <2> HIDE DEF w1, w
    <2>4. /\ w \in BusyDocumentWorker(k) /\ w.key = v.key /\ w.pc = "updateStatus"
          /\ w.clusterRef = v.clusterRef /\ (w.exists <=> b)
      BY <2>1, <2>2, <2>3 DEF BusyDocumentWorker
    <2> QED  BY <2>4, <1>a DEF v
  <1>4. (b <=> Exists(ref)) \/ ClusterEventComing(ref)
    BY CacheTellsExistence DEF RequestInv
  <1>5. CallIsRight(d)
    BY <1>2 DEF RequestInv, DocumentInv
  <1>6. documentWorkers[d.kind].key = d /\ documentWorkers[d.kind] = v
    BY <1>2, <1>a
  <1> HIDE DEF v, b, w
  <1>7. /\ WorkersTyped(documentWorkers') /\ documentWorkers'[d.kind] = w
        /\ \A e \in Document \ {d} : e.kind \in Reconciled => DocumentInv(e)'
    BY <1>1, <1>2, <1>3, <1>6, WorkerOfOne
  <1>8. DocumentTypes'
    BY <1>1, <1>7 DEF RequestInv, DocumentTypes
  <1>9. Running(d) /\ Running(d)'
    BY <1>3, <1>6, <1>7 DEF Running
  <1>10. CallIsRight(d)'
    <2>1. (b <=> Exists(ref)') \/ ClusterEventComing(ref)'
      BY <1>4 DEF Exists, ClusterEventComing
    <2>2. \/ d \in documentQueue' \/ EventComing(documentVersions'[d])
          \/ Stored(documentVersions'[d]) = Absent
          \/ ref = Stored(documentVersions'[d]).spec.clusterRef
      BY <1>1, <1>5, <1>6, <1>9, <1>a DEF CallIsRight, v
    <2>3. documentWorkers'[d.kind].clusterRef = ref
          /\ (documentWorkers'[d.kind].exists <=> b)
      BY <1>3, <1>7
    <2> QED  BY <2>1, <2>2, <2>3 DEF CallIsRight
  <1>11. Answered(d)'
    BY <1>9 DEF Answered, DocumentPending, Running
  <1>12. EventsTell(documentVersions'[d])
    BY <1>1, <1>2 DEF RequestInv
  <1>13. DocumentInv(d)'
    BY <1>10, <1>11 DEF DocumentInv
  <1> QED  BY <1>1, <1>2, <1>7, <1>8, <1>12, <1>13, RequestInvFrom

(* A call that fails comes back. *)
LEMMA InvDocumentCallFails ==
  ASSUME RequestInv, clusterVersions' = clusterVersions,
         NEW k \in Reconciled, DocumentCallFails(k)
  PROVE  RequestInv'
  <1>0. documentWorkers[k].pc # "idle"
    BY DEF DocumentCallFails
  <1>a. PICK d \in Document : d = documentWorkers[k].key /\ d.kind = k
    BY <1>0, DocumentWorkerType, DocumentAssumption DEF RequestInv
  <1>1. /\ SetWorker(k, IdleDocumentWorker)
        /\ documentQueue' = documentQueue \cup {d} /\ documentVersions' = documentVersions
        /\ suppressed' = suppressed /\ edits' = edits
    BY <1>a DEF DocumentCallFails
  <1>2. k \in Kind /\ d \in Document /\ d.kind = k
    BY <1>a, DocumentAssumption
  <1>3. IdleDocumentWorker.key = Absent /\ documentWorkers[d.kind].key = d
    BY <1>a DEF IdleDocumentWorker
  <1>4. /\ WorkersTyped(documentWorkers')
        /\ \A e \in Document \ {d} : e.kind \in Reconciled => DocumentInv(e)'
    BY <1>1, <1>2, <1>3, WorkerOfOne
  <1>5. DocumentTypes'
    BY <1>1, <1>2, <1>4 DEF RequestInv, DocumentTypes
  <1>6. DocumentInv(d)'
    BY <1>1 DEF DocumentInv, CallIsRight, Answered, DocumentPending
  <1>7. EventsTell(documentVersions'[d])
    BY <1>1, <1>2 DEF RequestInv
  <1> QED  BY <1>1, <1>2, <1>4, <1>5, <1>6, <1>7, RequestInvFrom

(* What a call leaves behind that is done: the status is right, or something *)
(* is on its way that will bring the document back.                          *)
LEMMA CallIsDone ==
  ASSUME RequestInv, clusterVersions' = clusterVersions, NEW d \in Document,
         d.kind \in Reconciled, Running(d), documentWorkers[d.kind].pc = "updateStatus",
         documentWorkers'[d.kind] = IdleDocumentWorker, documentQueue' = documentQueue,
         EventComing(documentVersions[d]) => EventComing(documentVersions'[d]),
         Stored(documentVersions[d]) = Absent => Stored(documentVersions'[d]) = Absent,
         (/\ Stored(documentVersions[d]) # Absent /\ Stored(documentVersions'[d]) # Absent
          /\ ~EventComing(documentVersions[d])) =>
            \/ d \in suppressed'
            \/ /\ Stored(documentVersions'[d]).spec = Stored(documentVersions[d]).spec
               /\ Stored(documentVersions'[d]).status.obs = Stored(documentVersions'[d]).gen
               /\ Stored(documentVersions'[d]).status.accepted
                    = documentWorkers[d.kind].exists
  PROVE  DocumentInv(d)'
  <1> DEFINE v == documentWorkers[d.kind]
             old == Stored(documentVersions[d])
             new == Stored(documentVersions'[d])
  <1>1. ~Running(d)'
    BY AbsentDocumentAssumption DEF Running, IdleDocumentWorker
  <1>2. CallIsRight(d)'
    BY <1>1 DEF CallIsRight
  <1>3. Answered(d)'
    <2> SUFFICES ASSUME new # Absent, d \notin documentQueue,
                        ~EventComing(documentVersions'[d]), d \notin suppressed'
                 PROVE  AnswersRight(d)' \/ DocumentPending(d)'
      BY DEF Answered, DocumentPending
    <2>1. /\ old # Absent /\ ~EventComing(documentVersions[d])
          /\ new.spec = old.spec /\ new.status.obs = new.gen
          /\ new.status.accepted = v.exists
      OBVIOUS
    <2>2. /\ v.clusterRef = old.spec.clusterRef
          /\ (v.exists <=> Exists(v.clusterRef)) \/ ClusterEventComing(v.clusterRef)
      BY <2>1 DEF RequestInv, DocumentInv, CallIsRight
    <2>3. CASE ClusterEventComing(v.clusterRef)
      <3>1. /\ new.spec.clusterRef \in Cluster
            /\ EventComing(clusterVersions'[new.spec.clusterRef])
        BY <2>1, <2>2, <2>3 DEF ClusterEventComing
      <3> QED  BY <3>1 DEF DocumentPending
    <2>4. CASE v.exists <=> Exists(v.clusterRef)
      <3>1. v.exists \in BOOLEAN
        <4>1. d.kind \in Kind
          BY DocumentAssumption
        <4> QED  BY <4>1, DocumentWorkerType DEF RequestInv
      <3>2. v.exists = Exists(new.spec.clusterRef)
        BY <3>1, <2>4, <2>1, <2>2 DEF Exists
      <3>3. new.status.accepted = (/\ new.spec.clusterRef \in Cluster
                                   /\ Stored(clusterVersions'[new.spec.clusterRef]) # Absent)
        BY <3>2, <2>1 DEF Exists
      <3> HIDE DEF new
      <3> QED  BY <3>3, <2>1 DEF AnswersRight, new
    <2> QED  BY <2>2, <2>3, <2>4
  <1> QED  BY <1>2, <1>3 DEF DocumentInv


(* The write is skipped. *)
LEMMA InvSkipStatus ==
  ASSUME RequestInv, clusterVersions' = clusterVersions,
         NEW k \in Reconciled, SkipStatus(k)
  PROVE  RequestInv'
  <1>1. documentWorkers[k].pc = "updateStatus"
    BY DEF SkipStatus
  <1>2. PICK d \in Document : d = documentWorkers[k].key /\ d.kind = k
    BY <1>1, DocumentWorkerType, DocumentAssumption DEF RequestInv
  <1> DEFINE s == documentVersions[d]
             latest == Cached(s)
             stored == Stored(s)
             exists == documentWorkers[k].exists
  <1>3. /\ latest # Absent /\ latest.status = NewDocumentStatus(d, latest, exists)
        /\ suppressed' = IF stored # Absent /\ stored.status # latest.status
                           THEN suppressed \cup {d} ELSE suppressed \ {d}
        /\ SetWorker(k, IdleDocumentWorker)
        /\ documentVersions' = documentVersions /\ documentQueue' = documentQueue
        /\ edits' = edits
    BY <1>2 DEF SkipStatus
  <1>4. /\ k \in Kind /\ exists \in BOOLEAN
        /\ s \in Seq(DocumentVersion) /\ s # <<>> /\ EventsTell(s)
        /\ latest \in DocumentObject
    BY <1>1, <1>3, DocumentWorkerType, DocumentSequence, DocumentAssumption
       DEF RequestInv, DocumentVersion
  <1>5. latest.status.obs = latest.gen /\ latest.status.accepted = exists
    <2> HIDE DEF latest, exists
    <2>1. /\ NewDocumentStatus(d, latest, exists).obs = latest.gen
          /\ NewDocumentStatus(d, latest, exists).accepted = exists
      BY DEF NewDocumentStatus
    <2> QED  BY <1>3, <2>1
  <1>6. IdleDocumentWorker.key = Absent
    BY DEF IdleDocumentWorker
  <1>7. \A e \in Document \ {d} : e \in suppressed => e \in suppressed'
    BY <1>3
  <1>8. /\ WorkersTyped(documentWorkers') /\ documentWorkers'[d.kind] = IdleDocumentWorker
        /\ \A e \in Document \ {d} : e.kind \in Reconciled => DocumentInv(e)'
    BY <1>2, <1>3, <1>6, <1>7, WorkerOfOne
  <1>9. DocumentTypes'
    BY <1>3, <1>8 DEF RequestInv, DocumentTypes
  <1>10. DocumentInv(d)'
    <2>1. ASSUME stored # Absent, ~EventComing(s), d \notin suppressed'
          PROVE  stored.status.obs = stored.gen /\ stored.status.accepted = exists
      <3>1. stored.status = latest.status
        BY <2>1, <1>3
      <3>2. SameDocument(latest, stored)
        BY <1>4, <2>1, QuietCache
      <3> QED  BY <3>1, <3>2, <1>3, <1>5 DEF SameDocument
    <2>2. Running(d)
      BY <1>2 DEF Running
    <2> HIDE DEF latest
    <2> QED  BY <1>1, <1>2, <1>3, <1>8, <2>1, <2>2, CallIsDone
  <1>11. EventsTell(documentVersions'[d])
    BY <1>3, <1>4
  <1> QED  BY <1>3, <1>8, <1>9, <1>10, <1>11, RequestInvFrom

(* The write goes through: the answer is stored with the document that it   *)
(* was found for, or the next call is on its way.                           *)
LEMMA InvUpdateDocumentStatus ==
  ASSUME RequestInv, clusterVersions' = clusterVersions,
         NEW k \in Reconciled, UpdateDocumentStatus(k)
  PROVE  RequestInv'
  <1>1. documentWorkers[k].pc = "updateStatus"
    BY DEF UpdateDocumentStatus
  <1>2. PICK d \in Document : d = documentWorkers[k].key /\ d.kind = k
    BY <1>1, DocumentWorkerType, DocumentAssumption DEF RequestInv
  <1> DEFINE s == documentVersions[d]
             latest == Cached(s)
             exists == documentWorkers[k].exists
             x == [latest EXCEPT !.status = NewDocumentStatus(d, latest, exists)]
  <1>3. /\ Len(s) = 1 /\ latest # Absent
        /\ StoreDocument(d, x)
        /\ suppressed' = suppressed \ {d}
        /\ SetWorker(k, IdleDocumentWorker)
        /\ documentQueue' = documentQueue /\ edits' = edits
    BY <1>2 DEF UpdateDocumentStatus
  <1>4. /\ k \in Kind /\ exists \in BOOLEAN
        /\ s \in Seq(DocumentVersion) /\ s # <<>> /\ EventsTell(s)
        /\ latest \in DocumentObject
    BY <1>1, <1>3, DocumentWorkerType, DocumentSequence, DocumentAssumption
       DEF RequestInv, DocumentVersion
  <1>5. /\ x \in DocumentObject /\ x.gen = latest.gen /\ x.spec = latest.spec
        /\ x.deleting = latest.deleting
        /\ x.status.obs = x.gen /\ x.status.accepted = exists
    <2>1. /\ x \in DocumentObject /\ x.gen = latest.gen /\ x.spec = latest.spec
          /\ x.deleting = latest.deleting
          /\ x.status = NewDocumentStatus(d, latest, exists)
      BY <1>4, NewDocumentStatusType
    <2>2. /\ NewDocumentStatus(d, latest, exists).obs = latest.gen
          /\ NewDocumentStatus(d, latest, exists).accepted = exists
      BY <1>4, NewDocumentStatusType
    <2> HIDE DEF x
    <2> QED  BY <2>1, <2>2
  <1>6. ~EventComing(s) /\ Stored(s) = latest
    BY <1>3, <1>4, EventsOne
  <1>7. latest.gen <= edits + 1 /\ edits \in Nat
    <2>1. 1 \in Places(s) /\ s[1] = latest
      BY <1>4, <1>3, EndsOfVersions DEF Places
    <2> QED  BY <2>1, <1>3 DEF RequestInv, DocumentTypes, GenerationsUpTo
  <1> HIDE DEF x, exists
  <1>8. x \in DocumentVersion /\ x # Absent /\ edits <= edits
    BY <1>5, <1>7, AbsentDocumentAssumption DEF DocumentVersion
  <1>9. /\ documentVersions' = Appended(documentVersions, d, x)
        /\ documentVersions' \in VersionMaps(Document, DocumentVersion)
        /\ GenerationsUpTo(documentVersions', edits)
    BY <1>3, <1>5, <1>7, <1>8, StoreDocumentType DEF RequestInv
  <1>10. /\ documentVersions'[d] = Append(s, x) /\ Stored(documentVersions'[d]) = x
         /\ \A e \in Document \ {d} : documentVersions'[e] = documentVersions[e]
    <2>1. documentVersions \in VersionMaps(Document, DocumentVersion)
      BY DEF RequestInv, DocumentTypes
    <2>2. documentVersions \in [Document -> Seq(DocumentVersion)]
      BY <2>1 DEF VersionMaps
    <2>3. documentVersions'[d] = Append(s, x)
      BY <1>9, <2>2 DEF Appended
    <2>4. /\ Stored(Appended(documentVersions, d, x)[d]) = x
          /\ \A e \in Document \ {d} :
               Appended(documentVersions, d, x)[e] = documentVersions[e]
      BY <1>8, <2>1, MapAppend
    <2> QED  BY <1>9, <2>3, <2>4
  <1>11. EventsTell(documentVersions'[d])
    BY <1>4, <1>5, <1>6, <1>8, <1>10, EventsTellAppend
  <1>12. IdleDocumentWorker.key = Absent
    BY DEF IdleDocumentWorker
  <1>13. /\ WorkersTyped(documentWorkers') /\ documentWorkers'[d.kind] = IdleDocumentWorker
         /\ \A e \in Document \ {d} : e.kind \in Reconciled => DocumentInv(e)'
    BY <1>2, <1>3, <1>10, <1>12, WorkerOfOne
  <1>14. DocumentTypes'
    BY <1>3, <1>9, <1>13 DEF RequestInv, DocumentTypes
  <1>15. DocumentInv(d)'
    <2>1. Running(d) /\ exists = documentWorkers[d.kind].exists
      BY <1>2 DEF Running, exists
    <2>2. documentWorkers[d.kind].pc = "updateStatus" /\ d.kind \in Reconciled
      BY <1>1, <1>2
    <2> HIDE DEF latest, s
    <2>3. Stored(documentVersions[d]) = latest /\ ~EventComing(documentVersions[d])
      BY <1>6 DEF s
    <2> QED  BY <1>3, <1>5, <1>8, <1>10, <1>13, <2>1, <2>2, <2>3, CallIsDone
  <1> QED  BY <1>10, <1>11, <1>13, <1>14, <1>15, RequestInvFrom

(* A user's write is told of by an event. *)
LEMMA InvEditDocument ==
  ASSUME RequestInv, clusterVersions' = clusterVersions, NEW d \in Document,
         NEW x \in DocumentVersion, EditDocument(d, x),
         x # Absent => x.gen <= edits + 2,
         EventPasses(Stored(documentVersions[d]), x)
  PROVE  RequestInv'
  <1> DEFINE s == documentVersions[d]
  <1>1. /\ edits' = edits + 1 /\ StoreDocument(d, x)
        /\ suppressed' = IF x = Absent THEN suppressed \ {d} ELSE suppressed
        /\ documentQueue' = documentQueue /\ documentWorkers' = documentWorkers
    BY DEF EditDocument
  <1>2. s \in Seq(DocumentVersion) /\ s # <<>> /\ EventsTell(s) /\ edits \in Nat
    BY DocumentSequence DEF RequestInv, DocumentTypes
  <1>3. edits + 1 \in Nat /\ edits <= edits + 1 /\ (x # Absent => x.gen <= (edits + 1) + 1)
    BY <1>2
  <1>4. /\ documentVersions' = Appended(documentVersions, d, x)
        /\ documentVersions' \in VersionMaps(Document, DocumentVersion)
        /\ GenerationsUpTo(documentVersions', edits + 1)
    BY <1>1, <1>3, StoreDocumentType DEF RequestInv
  <1>5. /\ documentVersions'[d] = Append(s, x)
        /\ \A e \in Document \ {d} : documentVersions'[e] = documentVersions[e]
    <2>1. documentVersions \in VersionMaps(Document, DocumentVersion)
      BY DEF RequestInv, DocumentTypes
    <2>2. documentVersions \in [Document -> Seq(DocumentVersion)]
      BY <2>1 DEF VersionMaps
    <2> QED  BY <1>4, <2>2 DEF Appended
  <1>6. EventComing(documentVersions'[d])
    BY <1>2, <1>5, EventsAppend
  <1>7. EventsTell(documentVersions'[d])
    BY <1>2, <1>5, EventsTellAppend
  <1>8. DocumentTypes'
    BY <1>1, <1>3, <1>4 DEF RequestInv, DocumentTypes
  <1>9. DocumentInv(d)'
    BY <1>6 DEF DocumentInv, CallIsRight, Answered, DocumentPending
  <1>10. ASSUME NEW e \in Document \ {d}, e.kind \in Reconciled
         PROVE  DocumentInv(e)'
    <2>1. \A c \in Cluster : ClusterKept(e, c)
      BY ClustersStill
    <2>2. /\ documentVersions'[e] = documentVersions[e]
          /\ e \in documentQueue => e \in documentQueue'
          /\ e \in suppressed => e \in suppressed'
          /\ documentWorkers'[e.kind] = documentWorkers[e.kind]
      BY <1>1, <1>5
    <2> QED  BY <1>10, <2>1, <2>2, Undisturbed
  <1> QED  BY <1>5, <1>7, <1>8, <1>9, <1>10, RequestInvFrom

(* What users store when they create, edit, move or delete a document: it   *)
(* is told of.                                                              *)
LEMMA UserDocumentStores ==
  ASSUME DocumentTypes, NEW d \in Touched, UserDocumentStep(d)
  PROVE  \E x \in DocumentVersion :
           /\ EditDocument(d, x)
           /\ x # Absent => x.gen <= edits + 2
           /\ EventPasses(Stored(documentVersions[d]), x)
  <1> DEFINE object == Stored(documentVersions[d])
  <1>1. d \in Document /\ MaxEdits \in Nat
    BY DocumentAssumption
  <1>2. object \in DocumentVersion /\ edits \in Nat
    BY <1>1, DocumentSequence DEF DocumentTypes
  <1>3. CASE CreateDocument(d)
    <2>1. PICK t \in AdmittedSpecs(d) : EditDocument(d, NewDocument(t))
      BY <1>3 DEF CreateDocument
    <2>2. NewDocument(t) \in DocumentVersion /\ NewDocument(t).gen <= edits + 2
      BY <1>1, <1>2, AdmittedType, NewDocumentType DEF DocumentVersion
    <2>3. EventPasses(object, NewDocument(t))
      BY <1>3 DEF CreateDocument, EventPasses
    <2> QED  BY <2>1, <2>2, <2>3
  <1>4. CASE UpdateDocument(d)
    <2>1. object # Absent /\ object \in DocumentObject
      BY <1>4, <1>2 DEF UpdateDocument, DocumentVersion
    <2>2. PICK t \in AdmittedSpecs(d) :
            EditDocument(d, EditedDocument(object, t))
      BY <1>4 DEF UpdateDocument, EditedDocument
    <2> DEFINE x == EditedDocument(object, t)
    <2>3. object.gen <= edits + 1
      <3>1. /\ Len(documentVersions[d]) \in Places(documentVersions[d])
            /\ object = documentVersions[d][Len(documentVersions[d])]
        BY <1>1, DocumentSequence DEF Places, Stored
      <3> QED  BY <3>1, <1>1, <2>1 DEF DocumentTypes, GenerationsUpTo
    <2>4. edits < MaxEdits
      BY <2>2 DEF EditDocument
    <2>5. object.gen \in Nat /\ object.gen < MaxEdits + 1
      <3>1. object.gen \in 1 .. MaxEdits + 1
        BY <2>1, ReferenceType
      <3> QED  BY <3>1, <2>3, <2>4, <1>1, <1>2
    <2>6. x \in DocumentObject /\ x.gen = object.gen + 1
      <3>1. t \in AnySpec
        BY <1>1, AdmittedType
      <3> HIDE DEF object
      <3> QED  BY <2>1, <2>5, <3>1, EditedDocumentType
    <2> HIDE DEF x, object
    <2>7. x \in DocumentVersion /\ x.gen <= edits + 2 /\ EventPasses(object, x)
      BY <2>3, <2>5, <2>6, <1>2 DEF DocumentVersion, EventPasses
    <2>8. EditDocument(d, x)
      BY <2>2 DEF x
    <2>9. EventPasses(Stored(documentVersions[d]), x)
      BY <2>7 DEF object
    <2> QED  BY <2>7, <2>8, <2>9
  <1>5. CASE DeleteDocument(d)
    <2>1. EditDocument(d, Absent)
      BY <1>5 DEF DeleteDocument
    <2>2. Absent \in DocumentVersion /\ EventPasses(object, Absent)
      BY DEF DocumentVersion, EventPasses
    <2> QED  BY <2>1, <2>2
  <1> QED  BY <1>3, <1>4, <1>5 DEF UserDocumentStep

(* So nothing is lost. *)
LEMMA InvUserDocumentStep ==
  ASSUME RequestInv, clusterVersions' = clusterVersions,
         NEW d \in Touched, UserDocumentStep(d)
  PROVE  RequestInv'
  <1>1. d \in Document /\ DocumentTypes
    BY DocumentAssumption DEF RequestInv
  <1>2. PICK x \in DocumentVersion :
          /\ EditDocument(d, x)
          /\ x # Absent => x.gen <= edits + 2
          /\ EventPasses(Stored(documentVersions[d]), x)
    BY <1>1, UserDocumentStores
  <1> QED  BY <1>1, <1>2, InvEditDocument

(* Steps that leave the clusters alone. *)
LEMMA InvDocumentStep ==
  ASSUME RequestInv, DocumentStep
  PROVE  RequestInv'
  <1>1. clusterVersions' = clusterVersions
    BY DEF DocumentStep
  <1>2. CASE \E d \in Document : ReconcileNoDocument(d) \/ ReconcileDocument(d)
    BY <1>1, <1>2, InvReconcileNoDocument, InvReconcileDocument
  <1>3. CASE \E d \in Touched : UserDocumentStep(d)
    BY <1>1, <1>3, InvUserDocumentStep
  <1>4. CASE \E k \in Reconciled : DocumentWorkerStep(k)
    <2>1. PICK k \in Reconciled : DocumentWorkerStep(k)
      BY <1>4
    <2>2. \/ ClusterExists(k) \/ SkipStatus(k) \/ UpdateDocumentStatus(k)
          \/ DocumentCallFails(k)
      BY <2>1 DEF DocumentWorkerStep
    <2> QED  BY <1>1, <2>2, InvClusterExists, InvSkipStatus, InvUpdateDocumentStatus,
                InvDocumentCallFails
  <1> QED  BY <1>2, <1>3, <1>4 DEF DocumentStep

-----------------------------------------------------------------------------
(* Events *)

(* An event of a document brings it back, if it passes; else it says nothing *)
(* but of the status.                                                        *)
LEMMA InvDeliverDocument ==
  ASSUME RequestInv, clusterVersions' = clusterVersions,
         NEW d \in Document, DeliverDocument(d)
  PROVE  RequestInv'
  <1> DEFINE s == documentVersions[d]
             passes == d.kind \in Reconciled /\ EventPasses(s[1], s[2])
  <1>1. /\ Len(s) > 1 /\ documentVersions' = Delivered(documentVersions, d)
        /\ documentQueue' = IF passes THEN documentQueue \cup {d} ELSE documentQueue
        /\ documentWorkers' = documentWorkers
        /\ suppressed' = suppressed /\ edits' = edits
    BY DEF DeliverDocument, Delivered
  <1>2. s \in Seq(DocumentVersion) /\ s # <<>> /\ EventsTell(s)
    BY DocumentSequence DEF RequestInv
  <1>3. documentVersions \in VersionMaps(Document, DocumentVersion)
    BY DEF RequestInv, DocumentTypes
  <1> DEFINE next == Delivered(documentVersions, d)
  <1>4. /\ next \in VersionMaps(Document, DocumentVersion)
        /\ \A i \in Places(next[d]) : /\ i + 1 \in Places(documentVersions[d])
                                      /\ next[d][i] = documentVersions[d][i + 1]
        /\ \A e \in Document : Stored(next[e]) = Stored(documentVersions[e])
        /\ \A e \in Document \ {d} : next[e] = documentVersions[e]
    BY <1>1, <1>3, MapTail
  <1>5. next[d] = Tail(s)
    <2>1. documentVersions \in [Document -> Seq(DocumentVersion)]
      BY <1>3 DEF VersionMaps
    <2> QED  BY <2>1 DEF Delivered
  <1>6. EventComing(s) <=> EventComing(next[d]) \/ EventPasses(s[1], s[2])
    BY <1>1, <1>2, <1>5, EventsTail
  <1>7. EventsTell(next[d])
    BY <1>1, <1>2, <1>5, EventsTellTail
  <1> HIDE DEF next, s
  <1>8. GenerationsUpTo(next, edits)
    <2>1. GenerationsUpTo(documentVersions, edits)
      BY DEF RequestInv, DocumentTypes
    <2> SUFFICES ASSUME NEW e \in Document, NEW i \in Places(next[e]), next[e][i] # Absent
                 PROVE  next[e][i].gen <= edits + 1
      BY DEF GenerationsUpTo
    <2>2. CASE e # d
      BY <2>1, <2>2, <1>4 DEF GenerationsUpTo
    <2>3. CASE e = d
      BY <2>1, <2>3, <1>4 DEF GenerationsUpTo
    <2> QED  BY <2>2, <2>3
  <1>9. documentVersions' = next
    BY <1>1 DEF next
  <1>10. DocumentTypes'
    BY <1>1, <1>4, <1>8, <1>9 DEF RequestInv, DocumentTypes
  <1>11. ASSUME d.kind \in Reconciled
         PROVE  DocumentInv(d)'
    <2>1. CASE passes
      <3>1. d \in documentQueue'
        BY <1>1, <2>1
      <3> QED  BY <3>1 DEF DocumentInv, CallIsRight, Answered, DocumentPending
    <2>2. CASE ~passes
      <3>1. EventComing(documentVersions[d]) <=> EventComing(documentVersions'[d])
        BY <1>6, <1>9, <1>11, <2>2 DEF s
      <3>2. documentQueue' = documentQueue
        BY <1>1, <2>2
      <3>3. Stored(documentVersions'[d]) = Stored(documentVersions[d])
        BY <1>4, <1>9
      <3>4. CallIsRight(d) /\ Answered(d)
        BY <1>11 DEF RequestInv, DocumentInv
      <3>5. CallIsRight(d)'
        BY <1>1, <3>1, <3>2, <3>3, <3>4
           DEF CallIsRight, Running, Exists, ClusterEventComing
      <3>6. Answered(d)'
        BY <1>1, <3>1, <3>2, <3>3, <3>4 DEF Answered, AnswersRight, DocumentPending
      <3> QED  BY <3>5, <3>6 DEF DocumentInv
    <2> QED  BY <2>1, <2>2
  <1>12. ASSUME NEW e \in Document \ {d}, e.kind \in Reconciled
         PROVE  DocumentInv(e)'
    <2>1. \A c \in Cluster : ClusterKept(e, c)
      BY ClustersStill
    <2>2. /\ documentVersions'[e] = documentVersions[e]
          /\ e \in documentQueue => e \in documentQueue'
          /\ e \in suppressed => e \in suppressed'
          /\ documentWorkers'[e.kind] = documentWorkers[e.kind]
      BY <1>1, <1>4, <1>9
    <2> QED  BY <1>12, <2>1, <2>2, Undisturbed
  <1> QED  BY <1>4, <1>7, <1>9, <1>10, <1>11, <1>12, RequestInvFrom

(* What leaves the documents alone, but for requests that it adds, and      *)
(* loses none.                                                              *)
LEMMA InvClusters ==
  ASSUME RequestInv, ClustersListed', documentVersions' = documentVersions,
         documentWorkers' = documentWorkers, suppressed' = suppressed, edits' = edits,
         documentQueue \subseteq documentQueue',
         documentQueue' \subseteq {d \in Document : d.kind \in Reconciled},
         \A d \in Document : d.kind \in Reconciled => \A c \in Cluster : ClusterKept(d, c)
  PROVE  RequestInv'
  <1>1. DocumentTypes'
    BY DEF RequestInv, DocumentTypes
  <1>2. \A d \in Document : d.kind \in Reconciled => DocumentInv(d)'
    BY Undisturbed
  <1>3. \A d \in Document : EventsTell(documentVersions'[d])
    BY DEF RequestInv
  <1> QED  BY <1>1, <1>2, <1>3 DEF RequestInv

(* At most one more version of one cluster *)
ClustersGrow ==
  \/ clusterVersions' = clusterVersions
  \/ \E c, x : clusterVersions' = Appended(clusterVersions, c, x)

(* A cluster that is created, goes or is written to. *)
LEMMA InvClustersGrow ==
  ASSUME RequestInv, ClustersGrow, documentVersions' = documentVersions,
         documentWorkers' = documentWorkers, suppressed' = suppressed, edits' = edits,
         documentQueue' = documentQueue
  PROVE  RequestInv'
  <1>1. documentQueue' \subseteq {d \in Document : d.kind \in Reconciled}
    BY DEF RequestInv, DocumentTypes
  <1>2. CASE clusterVersions' = clusterVersions
    <2>1. ClustersListed'
      BY <1>2 DEF RequestInv, ClustersListed
    <2>2. \A d \in Document : d.kind \in Reconciled => \A c \in Cluster : ClusterKept(d, c)
      BY <1>2, ClustersStill
    <2> QED  BY <1>1, <2>1, <2>2, InvClusters
  <1>3. CASE \E c, x : clusterVersions' = Appended(clusterVersions, c, x)
    <2>1. PICK c, x : clusterVersions' = Appended(clusterVersions, c, x)
      BY <1>3
    <2>2. PICK U : clusterVersions \in VersionMaps(Cluster, U)
      BY DEF RequestInv, ClustersListed
    <2> DEFINE V == U \cup {x}
               s == clusterVersions[c]
    <2>3. clusterVersions \in VersionMaps(Cluster, V) /\ x \in V
      <3>1. clusterVersions \in [Cluster -> Seq(U)] /\ \A b \in Cluster : clusterVersions[b] # <<>>
        BY <2>2 DEF VersionMaps
      <3>2. \A b \in Cluster : clusterVersions[b] \in Seq(V)
        BY <3>1
      <3> QED  BY <3>1, <3>2 DEF VersionMaps
    <2> HIDE DEF V
    <2>4. CASE c \notin Cluster
      <3>1. clusterVersions' = clusterVersions
        BY <2>1, <2>3, <2>4 DEF VersionMaps, Appended
      <3> QED  BY <1>2, <3>1
    <2>5. CASE c \in Cluster
      <3>1. /\ clusterVersions' \in VersionMaps(Cluster, V)
            /\ Stored(clusterVersions'[c]) = x
            /\ \A b \in Cluster \ {c} : clusterVersions'[b] = clusterVersions[b]
        BY <2>1, <2>3, <2>5, MapAppend
      <3>2. s \in Seq(V) /\ s # <<>> /\ clusterVersions'[c] = Append(s, x)
        BY <2>1, <2>3, <2>5 DEF VersionMaps, Appended
      <3>3. EventComing(clusterVersions'[c]) <=> EventComing(s) \/ EventPasses(Stored(s), x)
        BY <2>3, <3>2, EventsAppend
      <3>4. EventPasses(Stored(s), x) \/ (Stored(s) # Absent /\ x # Absent)
        BY DEF EventPasses
      <3>5. ClustersListed'
        BY <3>1 DEF ClustersListed
      <3>6. \A d \in Document : d.kind \in Reconciled => \A b \in Cluster : ClusterKept(d, b)
        BY <3>1, <3>3, <3>4 DEF ClusterKept
      <3> QED  BY <1>1, <3>5, <3>6, InvClusters
    <2> QED  BY <2>4, <2>5
  <1> QED  BY <1>2, <1>3 DEF ClustersGrow


(* An event of a cluster brings back the documents that refer to it, as the *)
(* cache has them; one that is not among them has an event of its own       *)
(* coming.                                                                  *)
LEMMA InvDeliverCluster ==
  ASSUME RequestInv, NEW c \in Cluster, DeliverCluster(c)
  PROVE  RequestInv'
  <1> DEFINE s == clusterVersions[c]
  <1>1. Len(s) > 1 /\ clusterVersions' = Delivered(clusterVersions, c)
    BY DEF DeliverCluster, Clusters!DeliverCluster, Delivered
  <1>2. /\ documentQueue' = IF EventPasses(s[1], s[2])
                              THEN documentQueue \cup RequestsForCluster(c)
                              ELSE documentQueue
        /\ documentVersions' = documentVersions /\ documentWorkers' = documentWorkers
        /\ suppressed' = suppressed /\ edits' = edits
    BY DEF DeliverCluster
  <1>3. PICK V : clusterVersions \in VersionMaps(Cluster, V)
    BY DEF RequestInv, ClustersListed
  <1>4. /\ clusterVersions' \in VersionMaps(Cluster, V)
        /\ \A b \in Cluster : Stored(clusterVersions'[b]) = Stored(clusterVersions[b])
        /\ \A b \in Cluster \ {c} : clusterVersions'[b] = clusterVersions[b]
    BY <1>1, <1>3, MapTail
  <1>5. clusterVersions'[c] = Tail(s) /\ s \in Seq(V)
    BY <1>1, <1>3 DEF VersionMaps, Delivered
  <1>6. EventComing(s) <=> EventComing(clusterVersions'[c]) \/ EventPasses(s[1], s[2])
    BY <1>1, <1>5, EventsTail
  <1>7. ClustersListed'
    BY <1>4 DEF ClustersListed
  <1>8. documentQueue' \subseteq {d \in Document : d.kind \in Reconciled}
    BY <1>2 DEF RequestInv, DocumentTypes, RequestsForCluster
  <1>9. ASSUME NEW d \in Document, d.kind \in Reconciled, NEW b \in Cluster
        PROVE  ClusterKept(d, b)
    <2>1. CASE b # c
      BY <2>1, <1>4 DEF ClusterKept
    <2>2. CASE b = c
      <3>1. EventPasses(s[1], s[2]) =>
              ((/\ Cached(documentVersions[d]) # Absent
                /\ Cached(documentVersions[d]).spec.clusterRef = c) => d \in documentQueue')
        BY <1>2, <1>9 DEF RequestsForCluster
      <3> QED  BY <2>2, <3>1, <1>4, <1>6 DEF ClusterKept
    <2> QED  BY <2>1, <2>2
  <1> QED  BY <1>2, <1>7, <1>8, <1>9, InvClusters

(* The calls of the cluster's worker write one version at most. *)
LEMMA WorkerGrows ==
  ASSUME \/ ClusterWorkerStep
         \/ \E c \in Cluster : Reconcile(c) \/ UserClusterStep(c)
  PROVE  ClustersGrow /\ documentVars' = documentVars
  <1>1. CASE ListNextKind
    BY <1>1 DEF ListNextKind, ClustersGrow, documentVars
  <1>2. CASE InputsError \/ RenderError \/ RenderTemplate
    BY <1>2 DEF InputsError, RenderError, RenderTemplate, Clusters!RenderFails,
                Clusters!RenderSucceeds, Clusters!AdvanceCluster, ClustersGrow, documentVars
  <1>3. CASE SyncTemplate
    BY <1>3 DEF SyncTemplate, Clusters!SyncTemplateSucceeds, Clusters!SyncTemplateFails,
                Clusters!AdvanceCluster, ClustersGrow, documentVars
  <1>4. CASE DeleteRemote
    BY <1>4 DEF DeleteRemote, Clusters!DeleteRemoteSucceeds, Clusters!DeleteRemoteFails,
                Clusters!AdvanceCluster, ClustersGrow, documentVars
  <1>5. CASE UpdateStatus
    BY <1>5 DEF UpdateStatus, Clusters!UpdateClusterStatus, Clusters!StoreCluster,
                ClustersGrow, Appended, documentVars
  <1>6. CASE ReturnAtOnce
    BY <1>6 DEF ReturnAtOnce, Clusters!AddClusterFinalizer, Clusters!ClusterWriteFails,
                Clusters!StoreCluster, ClustersGrow, Appended, documentVars
  <1>7. CASE OtherWorkerStep
    BY <1>7 DEF OtherWorkerStep, Clusters!MissingConnection,
                Clusters!FoundConnectionForDelete, Clusters!RemoveClusterFinalizers,
                Clusters!AdvanceCluster, Clusters!StoreCluster, ClustersGrow, Appended,
                documentVars
  <1>8. ASSUME NEW c \in Cluster, Reconcile(c)
        PROVE  ClustersGrow /\ documentVars' = documentVars
    BY <1>8 DEF Reconcile, Clusters!ReconcileCluster, Clusters!ReconcileNothing,
                Clusters!ReconcileDeleteOrphan, Clusters!ReconcileDelete,
                Clusters!ReconcileNew, Clusters!ReconcileSuspended,
                Clusters!ReconcileSync, Clusters!BeginCluster, ClustersGrow, documentVars
  <1>9. ASSUME NEW c \in Cluster, UserClusterStep(c)
        PROVE  ClustersGrow /\ documentVars' = documentVars
    BY <1>9 DEF UserClusterStep, Clusters!CreateCluster, Clusters!DeleteCluster,
                Clusters!StoreCluster, ClustersGrow, Appended, documentVars
  <1> QED  BY <1>1, <1>2, <1>3, <1>4, <1>5, <1>6, <1>7, <1>8, <1>9 DEF ClusterWorkerStep

(* A restart lists every document that is stored. *)
LEMMA InvRestart ==
  ASSUME RequestInv, Restart
  PROVE  RequestInv'
  <1>1. /\ documentVersions' = Relisted(documentVersions, Document)
        /\ documentQueue' = {d \in Listed(documentVersions) : d.kind \in Reconciled}
        /\ documentWorkers' = [k \in Kind |-> IdleDocumentWorker]
        /\ suppressed' = {} /\ edits' = edits
    BY DEF Restart, DocumentsRestart, Relisted
  <1>2. clusterVersions' = Relisted(clusterVersions, Cluster)
    <2>1. Clusters!Restart
      BY DEF Restart
    <2>2. clusterVersions' = [c \in Cluster |-> <<Stored(clusterVersions[c])>>]
      BY <2>1 DEF Clusters!Restart, Clusters!Stored, Stored
    <2> QED  BY <2>2 DEF Relisted
  <1>3. ClustersListed'
    <2>1. PICK V : clusterVersions \in VersionMaps(Cluster, V)
      BY DEF RequestInv, ClustersListed
    <2> QED  BY <1>2, <2>1, MapRestart DEF ClustersListed
  <1>4. documentVersions \in VersionMaps(Document, DocumentVersion)
    BY DEF RequestInv, DocumentTypes
  <1> DEFINE next == Relisted(documentVersions, Document)
  <1>5. /\ next \in VersionMaps(Document, DocumentVersion)
        /\ \A d \in Document : /\ Places(next[d]) = {1}
                               /\ next[d][1] = Stored(documentVersions[d])
                               /\ Stored(next[d]) = Stored(documentVersions[d])
    BY <1>4, MapRestart
  <1>6. Listed(documentVersions) = {d \in Document : Stored(documentVersions[d]) # Absent}
    BY <1>4 DEF Listed, VersionMaps
  <1>7. GenerationsUpTo(next, edits)
    <2> SUFFICES ASSUME NEW d \in Document, Stored(documentVersions[d]) # Absent
                 PROVE  Stored(documentVersions[d]).gen <= edits + 1
      BY <1>5 DEF GenerationsUpTo
    <2>1. Len(documentVersions[d]) \in Places(documentVersions[d])
      BY <1>4, MapEnds
    <2> QED  BY <2>1 DEF RequestInv, DocumentTypes, GenerationsUpTo, Stored
  <1>8. WorkersTyped(documentWorkers')
    BY <1>1 DEF WorkersTyped
  <1>9. DocumentTypes'
    BY <1>1, <1>5, <1>6, <1>7, <1>8 DEF RequestInv, DocumentTypes
  <1>10. \A d \in Document : EventsTell(next[d])
    <2> SUFFICES ASSUME NEW d \in Document
                 PROVE  EventsTell(next[d])
      OBVIOUS
    <2>1. next[d] = <<Stored(documentVersions[d])>>
      BY DEF Relisted
    <2>2. Stored(documentVersions[d]) \in DocumentVersion
      BY <1>4, MapEnds
    <2>3. next[d] \in Seq(DocumentVersion) /\ Len(next[d]) = 1
      BY <2>1, <2>2, OneVersion
    <2> HIDE DEF next
    <2> QED  BY <2>3, EventsOne
  <1>11. ASSUME NEW d \in Document, d.kind \in Reconciled
         PROVE  DocumentInv(d)'
    <2>1. d.kind \in Kind /\ documentWorkers'[d.kind] = IdleDocumentWorker
      BY <1>1, DocumentAssumption
    <2>2. ~Running(d)'
      BY <2>1, AbsentDocumentAssumption DEF Running, IdleDocumentWorker
    <2>3. Stored(documentVersions'[d]) # Absent => d \in documentQueue'
      BY <1>1, <1>5, <1>6, <1>11
    <2>4. Answered(d)'
      BY <2>3 DEF Answered, DocumentPending
    <2> QED  BY <2>2, <2>4 DEF DocumentInv, CallIsRight
  <1> HIDE DEF next
  <1>12. \A d \in Document : EventsTell(documentVersions'[d])
    BY <1>1, <1>10 DEF next
  <1> QED  BY <1>3, <1>9, <1>11, <1>12 DEF RequestInv

(* At the start every document that is stored is on the queue. *)
LEMMA InitRequests == Init => RequestInv
  <1> SUFFICES ASSUME Init PROVE RequestInv
    OBVIOUS
  <1>1. /\ documentVersions \in
             [Document -> {<<Absent>>} \cup {<<NewDocument(s)>> : s \in AnySpec}]
        /\ documentQueue = {d \in Listed(documentVersions) : d.kind \in Reconciled}
        /\ documentWorkers = [k \in Kind |-> IdleDocumentWorker]
        /\ suppressed = {} /\ edits = 0
    BY DEF Init, DocumentsInit
  <1>2. ASSUME NEW d \in Document
        PROVE  /\ documentVersions[d] \in Seq(DocumentVersion) /\ documentVersions[d] # <<>>
               /\ Len(documentVersions[d]) = 1
               /\ documentVersions[d][1] # Absent => documentVersions[d][1].gen = 1
    <2>1. PICK x \in DocumentVersion : /\ documentVersions[d] = <<x>>
                                       /\ x # Absent => x.gen = 1
      <3>1. CASE documentVersions[d] = <<Absent>>
        BY <3>1 DEF DocumentVersion
      <3>2. CASE \E s \in AnySpec : documentVersions[d] = <<NewDocument(s)>>
        BY <3>2, NewDocumentType DEF DocumentVersion
      <3> QED  BY <1>1, <1>2, <3>1, <3>2
    <2> QED  BY <2>1, OneVersion
  <1>3. documentVersions \in VersionMaps(Document, DocumentVersion)
    BY <1>1, <1>2 DEF VersionMaps
  <1>4. GenerationsUpTo(documentVersions, edits)
    <2> SUFFICES ASSUME NEW d \in Document, NEW i \in Places(documentVersions[d]),
                        documentVersions[d][i] # Absent
                 PROVE  documentVersions[d][i].gen <= edits + 1
      BY DEF GenerationsUpTo
    <2>1. i = 1
      BY <1>2 DEF Places
    <2> QED  BY <1>1, <1>2, <2>1
  <1>5. Listed(documentVersions) = {d \in Document : Stored(documentVersions[d]) # Absent}
    BY <1>1 DEF Listed
  <1>6. DocumentTypes
    <2>1. WorkersTyped(documentWorkers)
      BY <1>1 DEF WorkersTyped
    <2> QED  BY <1>1, <1>3, <1>4, <1>5, <2>1 DEF DocumentTypes
  <1>7. ClustersListed
    <2> DEFINE N == {Clusters!NewCluster(0, s, f) : s \in Specs, f \in InitialFinalizers}
               V == {Absent} \cup N
    <2>1. clusterVersions \in
            [Cluster -> {<<Absent>>} \cup
               {<<Clusters!NewCluster(0, s, f)>> : s \in Specs, f \in InitialFinalizers}]
      BY DEF Init, Clusters!Init
    <2>2. \A c \in Cluster : \E x \in V : clusterVersions[c] = <<x>>
      BY <2>1
    <2> HIDE DEF V
    <2>3. \A c \in Cluster : clusterVersions[c] \in Seq(V) /\ clusterVersions[c] # <<>>
      BY <2>2, OneVersion
    <2>4. clusterVersions \in VersionMaps(Cluster, V)
      BY <2>1, <2>3 DEF VersionMaps
    <2> QED  BY <2>4 DEF ClustersListed
  <1>8. \A d \in Document : EventsTell(documentVersions[d])
    BY <1>2, EventsOne
  <1>9. ASSUME NEW d \in Document, d.kind \in Reconciled
        PROVE  DocumentInv(d)
    <2>1. d.kind \in Kind /\ documentWorkers[d.kind] = IdleDocumentWorker
      BY <1>1, DocumentAssumption
    <2>2. ~Running(d)
      BY <2>1, AbsentDocumentAssumption DEF Running, IdleDocumentWorker
    <2>3. Answered(d)
      BY <1>1, <1>5, <1>9 DEF Answered, DocumentPending
    <2> QED  BY <2>2, <2>3 DEF DocumentInv, CallIsRight
  <1> QED  BY <1>6, <1>7, <1>8, <1>9 DEF RequestInv

(* Every step keeps the invariant. *)
LEMMA StepRequests == RequestInv /\ [Next]_vars => RequestInv'
  <1> SUFFICES ASSUME RequestInv, [Next]_vars PROVE RequestInv'
    OBVIOUS
  <1>1. ASSUME \/ ClusterWorkerStep
               \/ \E c \in Cluster : Reconcile(c) \/ UserClusterStep(c)
        PROVE  RequestInv'
    <2>1. ClustersGrow /\ documentVars' = documentVars
      BY <1>1, WorkerGrows
    <2> QED  BY <2>1, InvClustersGrow DEF documentVars
  <1>2. CASE UNCHANGED vars
    <2>1. ClustersGrow /\ documentVars' = documentVars
      BY <1>2 DEF vars, ClustersGrow
    <2> QED  BY <2>1, InvClustersGrow DEF documentVars
  <1>3. CASE DocumentStep
    BY <1>3, InvDocumentStep
  <1>4. CASE \E c \in Cluster : DeliverCluster(c)
    BY <1>4, InvDeliverCluster
  <1>5. CASE \E d \in Document : DeliverChild(d)
    <2>1. PICK d \in Document : DeliverChild(d)
      BY <1>5
    <2>2. DeliverDocument(d) /\ clusterVersions' = clusterVersions
      BY <2>1 DEF DeliverChild, Clusters!WakeClusters
    <2> QED  BY <2>2, InvDeliverDocument
  <1>6. CASE Restart
    BY <1>6, InvRestart
  <1> QED  BY <1>1, <1>2, <1>3, <1>4, <1>5, <1>6 DEF Next

(* What AcceptedUnlessSuppressed says, of every document. *)
LEMMA RequestsAnswer == RequestInv => AcceptedUnlessSuppressed
  BY DEF RequestInv, DocumentInv, Answered, AcceptedUnlessSuppressed

(* Accepted is right, or about to be corrected, for every number of         *)
(* documents, clusters and edits: no order of moves, deletions, conflicts,  *)
(* failed calls, restarts and watch events of the two caches loses the      *)
(* request of a document, unless its last write was skipped because the     *)
(* cache had an older status of it.                                         *)
THEOREM RequestsAreNotLost == Spec => []AcceptedUnlessSuppressed
  <1>1. Init => RequestInv
    BY InitRequests
  <1>2. RequestInv /\ [Next]_vars => RequestInv'
    BY StepRequests
  <1>3. RequestInv => AcceptedUnlessSuppressed
    BY RequestsAnswer
  <1> QED  BY <1>1, <1>2, <1>3, PTL DEF Spec

-----------------------------------------------------------------------------
(* Sorting *)

Smaller == {p \in Nat \X Nat : p[1] < p[2]}

(* A set of numbers has a least one. *)
LEMMA LeastNatural ==
  ASSUME NEW T, T \subseteq Nat, T # {}
  PROVE  \E x \in T : \A y \in T : x <= y
  <1>1. IsWellFoundedOn(Smaller, Nat)
    BY NatLessThanWellFounded DEF OpToRel, Smaller
  <1>2. \A y, x \in Nat : y < x => <<y, x>> \in Smaller
    BY DEF Smaller
  <1>3. \E x \in T : \A y \in T : ~(<<y, x>> \in Smaller)
    BY <1>1, WFMin
  <1>4. PICK x \in T : \A y \in T : ~(<<y, x>> \in Smaller)
    BY <1>3
  <1>5. ASSUME NEW y \in T PROVE x <= y
    <2>1. x \in Nat /\ y \in Nat
      OBVIOUS
    <2>2. ~(y < x)
      BY <1>2, <1>4, <2>1, Zenon
    <2> QED  BY <2>1, <2>2
  <1> QED  BY <1>5

(* Where two sorted lists of the same documents differ first, the one has   *)
(* the name of the other or a later one.                                    *)
LEMMA SortedNotBefore ==
  ASSUME NEW D, NEW n \in Nat, NEW s, NEW u,
         s \in Bijection(1 .. n, D), u \in Bijection(1 .. n, D),
         \A d \in D : ResolvedName(d) \in Nat,
         \A i, j \in 1 .. n : i < j => ResolvedName(u[i]) <= ResolvedName(u[j]),
         NEW i \in 1 .. n, \A j \in 1 .. n : j < i => s[j] = u[j]
  PROVE  ResolvedName(u[i]) <= ResolvedName(s[i])
  <1>1. /\ s \in [1 .. n -> D] /\ u \in [1 .. n -> D]
        /\ \A a, b \in 1 .. n : s[a] = s[b] => a = b
        /\ \A d \in D : \E j \in 1 .. n : u[j] = d
    BY DEF Bijection, Injection, Surjection, IsInjective
  <1>2. PICK j \in 1 .. n : u[j] = s[i]
    BY <1>1
  <1>3. CASE j < i
    BY <1>1, <1>2, <1>3
  <1>4. CASE j = i
    <2>1. ResolvedName(u[i]) \in Nat /\ u[i] = s[i]
      BY <1>1, <1>2, <1>4
    <2> QED  BY <2>1
  <1>5. CASE j > i
    BY <1>2, <1>5
  <1> QED  BY <1>3, <1>4, <1>5

(* Functions are equal when their values are. *)
LEMMA EqualFunctions ==
  ASSUME NEW I, NEW D, NEW s \in [I -> D], NEW u \in [I -> D], \A i \in I : s[i] = u[i]
  PROVE  s = u
  OBVIOUS

(* Documents with distinct names are sorted in one way. *)
LEMMA SortedIsUnique ==
  ASSUME NEW D, IsFiniteSet(D), \A d \in D : ResolvedName(d) \in Nat,
         \A d, e \in D : d # e => ResolvedName(d) # ResolvedName(e),
         NEW s \in Sorted(D), NEW u \in Sorted(D)
  PROVE  s = u
  <1> DEFINE n == Cardinality(D)
  <1>1. n \in Nat
    BY FS_CardinalityType
  <1>2. /\ s \in Bijection(1 .. n, D) /\ u \in Bijection(1 .. n, D)
        /\ s \in [1 .. n -> D] /\ u \in [1 .. n -> D]
    BY DEF Sorted, Orders, Bijection, Injection
  <1>3. /\ \A i, j \in 1 .. n : i < j => ResolvedName(s[i]) <= ResolvedName(s[j])
        /\ \A i, j \in 1 .. n : i < j => ResolvedName(u[i]) <= ResolvedName(u[j])
    BY <1>2 DEF Sorted
  <1> HIDE DEF n
  <1> DEFINE T == {i \in 1 .. n : s[i] # u[i]}
  <1>4. CASE T = {}
    <2>2. \A i \in 1 .. n : s[i] = u[i]
      BY <1>4
    <2> DEFINE I == 1 .. n
    <2>3. s \in [I -> D] /\ u \in [I -> D] /\ \A i \in I : s[i] = u[i]
      BY <1>2, <2>2
    <2> HIDE DEF I, T
    <2> QED  BY <2>3, EqualFunctions
  <1>5. CASE T # {}
    <2>1. T \subseteq Nat
      BY <1>1
    <2>2. PICK i \in T : \A j \in T : i <= j
      BY <2>1, <1>5, LeastNatural
    <2>3. i \in 1 .. n /\ s[i] # u[i]
      OBVIOUS
    <2>4. \A j \in 1 .. n : j < i => s[j] = u[j]
      BY <1>1, <2>2, <2>3
    <2>5. \A j \in 1 .. n : j < i => u[j] = s[j]
      BY <2>4
    <2> HIDE DEF T
    <2>6. ResolvedName(u[i]) <= ResolvedName(s[i])
      BY <1>1, <1>2, <1>3, <2>3, <2>4, SortedNotBefore
    <2>7. ResolvedName(s[i]) <= ResolvedName(u[i])
      BY <1>1, <1>2, <1>3, <2>3, <2>5, SortedNotBefore
    <2>8. /\ s[i] \in D /\ u[i] \in D
          /\ ResolvedName(s[i]) \in Nat /\ ResolvedName(u[i]) \in Nat
      BY <1>2, <2>3
    <2>9. ResolvedName(s[i]) = ResolvedName(u[i])
      BY <2>6, <2>7, <2>8
    <2> QED  BY <2>3, <2>8, <2>9
  <1> QED  BY <1>4, <1>5

(* One document has one order. *)
LEMMA OneOrder ==
  ASSUME NEW D, IsFiniteSet(D), Cardinality(D) = 1, NEW s \in Orders(D), NEW u \in Orders(D)
  PROVE  s = u
  <1>1. PICK x : D = {x}
    BY FS_Singleton
  <1>2. s \in [1 .. 1 -> {x}] /\ u \in [1 .. 1 -> {x}]
    BY <1>1 DEF Orders, Bijection, Injection
  <1> QED  BY <1>2


-----------------------------------------------------------------------------
(* The lists of templateInputs *)

DocumentInput == {AsInput(d, object) : d \in Document, object \in DocumentObject}

(* The lists that have been read so far: at most one of each kind, each     *)
(* finite and of documents that have a name.                                *)
InputsInv ==
  /\ inputs \in Seq(SUBSET DocumentInput) /\ Len(inputs) <= 3
  /\ \A i \in 1 .. Len(inputs) :
       /\ IsFiniteSet(inputs[i])
       /\ \A d \in inputs[i] : d.kind = Kinds[i]

(* A document in a list has a name. *)
LEMMA InputNames ==
  ASSUME NEW e \in DocumentInput
  PROVE  ResolvedName(e) \in Nat
  <1>1. PICK d \in Document, object \in DocumentObject : e = AsInput(d, object)
    BY DEF DocumentInput
  <1>2. object.spec \in AnySpec /\ d.name \in Nat
    BY ReferenceType, DocumentAssumption
  <1> QED  BY <1>1, <1>2, SpecNamesAssumption DEF ResolvedName, AsInput

(* What a List returns: finitely many documents, of the kind asked for.      *)
LEMMA ListDocumentsType ==
  ASSUME DocumentTypes, NEW kind
  PROVE  /\ ListDocuments(kind) \subseteq DocumentInput
         /\ IsFiniteSet(ListDocuments(kind))
         /\ \A e \in ListDocuments(kind) : e.kind = kind
  <1> DEFINE D == {x \in Document : /\ x.kind = kind
                                    /\ Cached(documentVersions[x]) # Absent}
             f == [d \in D |-> AsInput(d, Cached(documentVersions[d]))]
  <1>1. \A d \in D : Cached(documentVersions[d]) \in DocumentObject
    <2> SUFFICES ASSUME NEW d \in D PROVE Cached(documentVersions[d]) \in DocumentObject
      OBVIOUS
    <2>1. Cached(documentVersions[d]) \in DocumentVersion
      BY MapEnds DEF DocumentTypes
    <2> QED  BY <2>1 DEF DocumentVersion
  <1>2. ListDocuments(kind) \subseteq DocumentInput
    BY <1>1 DEF ListDocuments, DocumentInput
  <1>3. \A e \in ListDocuments(kind) : e.kind = kind
    BY DEF ListDocuments, AsInput
  <1>4. IsFiniteSet(D)
    BY FiniteDocumentsAssumption, FS_Subset
  <1>5. f \in Surjection(D, ListDocuments(kind))
    BY DEF Surjection, ListDocuments
  <1> HIDE DEF D, f
  <1>6. IsFiniteSet(ListDocuments(kind))
    BY <1>4, <1>5, FS_Surjection
  <1> QED  BY <1>2, <1>3, <1>6

(* ListNextKind adds the list of the next kind; every other step keeps the  *)
(* lists or drops them.                                                     *)
LEMMA InputsOfStep ==
  ASSUME [Next]_vars, ~ListNextKind
  PROVE  inputs' = inputs \/ inputs' = <<>>
  <1>1. CASE ClusterWorkerStep
    BY <1>1 DEF ClusterWorkerStep, InputsError, RenderError, RenderTemplate,
       SyncTemplate, DeleteRemote, UpdateStatus, ReturnAtOnce, OtherWorkerStep,
       callVars, templateVars
  <1>2. CASE DocumentStep
    BY <1>2 DEF DocumentStep, templateVars, callVars
  <1>3. CASE \E c \in Cluster : Reconcile(c) \/ DeliverCluster(c) \/ UserClusterStep(c)
    BY <1>3 DEF Reconcile, DeliverCluster, UserClusterStep, callVars
  <1>4. CASE \E d \in Document : DeliverChild(d)
    BY <1>4 DEF DeliverChild, callVars
  <1>5. CASE Restart
    BY <1>5 DEF Restart
  <1>6. CASE UNCHANGED vars
    BY <1>6 DEF vars, templateVars, callVars
  <1> QED  BY <1>1, <1>2, <1>3, <1>4, <1>5, <1>6 DEF Next

(* Before the first list *)
LEMMA NoInputs ==
  ASSUME NEW s, s = <<>>
  PROVE  /\ s \in Seq(SUBSET DocumentInput) /\ Len(s) <= 3
         /\ \A i \in 1 .. Len(s) : FALSE
  OBVIOUS

(* One more list *)
LEMMA NextInput ==
  ASSUME InputsInv, DocumentTypes, ListNextKind
  PROVE  InputsInv'
  <1> DEFINE n == Len(inputs)
             list == ListDocuments(Kinds[Len(inputs) + 1])
  <1>1. inputs \in Seq(SUBSET DocumentInput) /\ n \in Nat
    BY DEF InputsInv
  <1>2. Len(Kinds) = 3
    BY DEF Kinds
  <1>3. n < 3 /\ inputs' = Append(inputs, list)
    BY <1>2 DEF ListNextKind
  <1>4. /\ list \subseteq DocumentInput /\ IsFiniteSet(list)
        /\ \A e \in list : e.kind = Kinds[n + 1]
    BY ListDocumentsType
  <1> HIDE DEF list
  <1>5. /\ inputs' \in Seq(SUBSET DocumentInput) /\ Len(inputs') = n + 1
        /\ inputs'[n + 1] = list
        /\ \A i \in 1 .. n : inputs'[i] = inputs[i]
    BY <1>1, <1>3, <1>4
  <1>6. \A i \in 1 .. n : /\ IsFiniteSet(inputs[i])
                          /\ \A d \in inputs[i] : d.kind = Kinds[i]
    BY DEF InputsInv
  <1> HIDE DEF n
  <1>7. n + 1 <= 3 /\ \A i \in 1 .. n + 1 : i \in 1 .. n \/ i = n + 1
    BY <1>1, <1>3
  <1>8. \A i \in 1 .. n + 1 : /\ IsFiniteSet(inputs'[i])
                              /\ \A d \in inputs'[i] : d.kind = Kinds[i]
    BY <1>4, <1>5, <1>6, <1>7, Zenon
  <1> QED  BY <1>5, <1>7, <1>8 DEF InputsInv

(* Every step keeps the lists as they should be. *)
LEMMA StepInputs == InputsInv /\ DocumentTypes /\ [Next]_vars => InputsInv'
  <1> SUFFICES ASSUME InputsInv, DocumentTypes, [Next]_vars PROVE InputsInv'
    OBVIOUS
  <1>1. CASE ListNextKind
    BY <1>1, NextInput
  <1>2. CASE ~ListNextKind
    <2>1. CASE inputs' = inputs
      BY <2>1 DEF InputsInv
    <2>2. CASE inputs' = <<>>
      <3>1. /\ inputs' \in Seq(SUBSET DocumentInput) /\ Len(inputs') <= 3
            /\ \A i \in 1 .. Len(inputs') : FALSE
        BY <2>2, NoInputs
      <3> QED  BY <3>1 DEF InputsInv
    <2> QED  BY <1>2, <2>1, <2>2, InputsOfStep
  <1> QED  BY <1>1, <1>2

(* Of the three lists, those of one kind are in one. *)
LEMMA SelectedFromList ==
  ASSUME InputsInv, Len(inputs) = 3, NEW i \in 1 .. 3, NEW c
  PROVE  /\ Selected(Inputs, Kinds[i], c) = Selected(inputs[i], Kinds[i], c)
         /\ IsFiniteSet(Selected(inputs[i], Kinds[i], c))
         /\ \A d \in Selected(inputs[i], Kinds[i], c) : ResolvedName(d) \in Nat
  <1>1. \A j, k \in 1 .. 3 : Kinds[j] = Kinds[k] => j = k
    BY DEF Kinds
  <1>2. /\ inputs \in Seq(SUBSET DocumentInput)
        /\ \A j \in 1 .. 3 : /\ IsFiniteSet(inputs[j])
                             /\ \A d \in inputs[j] : d.kind = Kinds[j]
    BY DEF InputsInv
  <1>3. DOMAIN inputs = 1 .. 3 /\ inputs[i] \subseteq DocumentInput
    BY <1>2
  <1>4. Selected(Inputs, Kinds[i], c) = Selected(inputs[i], Kinds[i], c)
    BY <1>1, <1>2, <1>3 DEF Selected, Inputs
  <1>5. Selected(inputs[i], Kinds[i], c) \in SUBSET inputs[i]
    BY DEF Selected
  <1>6. IsFiniteSet(Selected(inputs[i], Kinds[i], c))
    BY <1>2, <1>5, FS_Subset
  <1>7. \A d \in Selected(inputs[i], Kinds[i], c) : ResolvedName(d) \in Nat
    BY <1>3, <1>5, InputNames
  <1> QED  BY <1>4, <1>6, <1>7

AtMostOne(S) == \A p, q \in S : p = q

IsJoin(x, D, c) ==
  \E p \in Orders(Selected(D, "ControlPlane", c)),
     w \in Sorted(Selected(D, "Workers", c)),
     m \in Sorted(Selected(D, "Machine", c)) : x = p \o w \o m

(* An order is made of one of each kind. *)
LEMMA OrderParts ==
  ASSUME NEW D, NEW c, NEW x \in RenderOrders(D, c)
  PROVE  IsJoin(x, D, c)
  BY DEF RenderOrders, IsJoin

(* Lists that come in one order each are joined in one way. *)
LEMMA JoinedOnce ==
  ASSUME NEW D, NEW c,
         AtMostOne(Orders(Selected(D, "ControlPlane", c))),
         AtMostOne(Sorted(Selected(D, "Workers", c))),
         AtMostOne(Sorted(Selected(D, "Machine", c))),
         NEW s \in RenderOrders(D, c), NEW r \in RenderOrders(D, c)
  PROVE  s = r
  <1>0. IsJoin(s, D, c) /\ IsJoin(r, D, c)
    BY OrderParts
  <1>1. PICK a \in Orders(Selected(D, "ControlPlane", c)),
             b \in Sorted(Selected(D, "Workers", c)),
             e \in Sorted(Selected(D, "Machine", c)) : s = a \o b \o e
    BY <1>0, Zenon DEF IsJoin
  <1>2. PICK q \in Orders(Selected(D, "ControlPlane", c)),
             v \in Sorted(Selected(D, "Workers", c)),
             o \in Sorted(Selected(D, "Machine", c)) : r = q \o v \o o
    BY <1>0, Zenon DEF IsJoin
  <1>3. a = q /\ b = v /\ e = o
    BY DEF AtMostOne
  <1> QED  BY <1>1, <1>2, <1>3, Zenon

(* Documents that come in one order are rendered in one way. *)
LEMMA RenderedOnce ==
  ASSUME NEW D, NEW c, NEW name, NEW manifests,
         AtMostOne(Orders(Selected(D, "ControlPlane", c))),
         AtMostOne(Sorted(Selected(D, "Workers", c))),
         AtMostOne(Sorted(Selected(D, "Machine", c))),
         NEW t \in Renderings(D, c, name, manifests),
         NEW u \in Renderings(D, c, name, manifests)
  PROVE  t = u
  <1> DEFINE head == <<RenderCluster(name, manifests)>>
  <1>1. Renderings(D, c, name, manifests) =
          {head \o [i \in DOMAIN s |-> RenderDocument(s[i])] : s \in RenderOrders(D, c)}
    BY Zenon DEF Renderings
  <1>2. \A s, r \in RenderOrders(D, c) : s = r
    BY JoinedOnce
  <1> HIDE DEF head
  <1>3. PICK s \in RenderOrders(D, c) :
          t = head \o [i \in DOMAIN s |-> RenderDocument(s[i])]
    BY <1>1
  <1>4. PICK r \in RenderOrders(D, c) :
          u = head \o [i \in DOMAIN r |-> RenderDocument(r[i])]
    BY <1>1
  <1>5. s = r
    BY <1>2
  <1> QED  BY <1>3, <1>4, <1>5, Zenon

(* The lists as they should be render to one template. *)
LEMMA InputsRenderOnce ==
  ASSUME InputsInv
  PROVE  RenderIsDeterministic
  <1> SUFFICES ASSUME AtRender, DistinctNames, NEW t \in ItemRenderings,
                      NEW u \in ItemRenderings
               PROVE  t = u
    BY DEF RenderIsDeterministic
  <1> DEFINE c == clusterWorker.key
             P == Selected(Inputs, "ControlPlane", c)
             W == Selected(Inputs, "Workers", c)
             M == Selected(Inputs, "Machine", c)
  <1>1. Len(inputs) = 3 /\ Cardinality(Selected(inputs[1], "ControlPlane", c)) = 1
    <2>1. Len(Kinds) = 3
      BY DEF Kinds
    <2>2. Len(inputs) = 3 /\ ~NoControlPlane
      BY <2>1 DEF AtRender
    <2>3. inputs # <<>>
      BY <2>2
    <2> QED  BY <2>2, <2>3 DEF NoControlPlane, InputsFail
  <1>2. Kinds[1] = "ControlPlane" /\ Kinds[2] = "Workers" /\ Kinds[3] = "Machine"
    BY DEF Kinds
  <1>3. IsFiniteSet(P) /\ Cardinality(P) = 1
    BY <1>1, <1>2, SelectedFromList
  <1>4. IsFiniteSet(W) /\ \A d \in W : ResolvedName(d) \in Nat
    BY <1>1, <1>2, SelectedFromList
  <1>5. IsFiniteSet(M) /\ \A d \in M : ResolvedName(d) \in Nat
    BY <1>1, <1>2, SelectedFromList
  <1>6. \A d, e \in W : d # e => ResolvedName(d) # ResolvedName(e)
    BY DEF DistinctNames, Selected
  <1>7. \A d, e \in M : d # e => ResolvedName(d) # ResolvedName(e)
    BY DEF DistinctNames, Selected
  <1> HIDE DEF P, W, M
  <1>8. AtMostOne(Orders(P))
    BY <1>3, OneOrder DEF AtMostOne
  <1>9. AtMostOne(Sorted(W))
    BY <1>4, <1>6, SortedIsUnique DEF AtMostOne
  <1>10. AtMostOne(Sorted(M))
    BY <1>5, <1>7, SortedIsUnique DEF AtMostOne
  <1> DEFINE name == Clusters!ClusterName(clusterWorker.key, clusterWorker.item.spec)
  <1>11. /\ t \in Renderings(Inputs, c, name, ItemManifests)
         /\ u \in Renderings(Inputs, c, name, ItemManifests)
    BY DEF ItemRenderings
  <1> HIDE DEF name, c
  <1> QED  BY <1>8, <1>9, <1>10, <1>11, RenderedOnce DEF P, W, M

(* Rendering is deterministic, for every number of documents: the lists     *)
(* that templateInputs read hold documents of one kind each, exactly one of *)
(* them is the control plane, and a list of documents with distinct names   *)
(* has one sorted order.                                                    *)
THEOREM RenderingIsDeterministic == Spec => []RenderIsDeterministic
  <1>1. Init => RequestInv /\ InputsInv
    <2>1. Init => inputs = <<>>
      BY DEF Init
    <2>2. inputs = <<>> => InputsInv
      BY NoInputs DEF InputsInv
    <2> QED  BY <2>1, <2>2, InitRequests
  <1>2. RequestInv /\ InputsInv /\ [Next]_vars => (RequestInv /\ InputsInv)'
    <2>1. RequestInv => DocumentTypes
      BY DEF RequestInv
    <2> QED  BY <2>1, StepRequests, StepInputs
  <1>3. InputsInv => RenderIsDeterministic
    BY InputsRenderOnce
  <1> QED  BY <1>1, <1>2, <1>3, PTL DEF Spec


-----------------------------------------------------------------------------
(* The composition and ClusterLifecycle *)

(* What the cluster's worker does here, ClusterLifecycle's may do. *)
LEMMA WorkerStepImplements ==
  ASSUME ClusterWorkerStep
  PROVE  Clusters!ClusterWorkerStep \/ UNCHANGED Clusters!vars
  <1>1. CASE ListNextKind
    BY <1>1 DEF ListNextKind, clusterOnlyVars, Clusters!vars
  <1>2. CASE InputsError
    BY <1>2 DEF InputsError, Clusters!ClusterWorkerStep
  <1>3. CASE RenderError
    BY <1>3 DEF RenderError, Clusters!ClusterWorkerStep
  <1>4. CASE RenderTemplate
    <2>1. Clusters!RenderFails \/ Clusters!RenderSucceeds
      BY <1>4 DEF RenderTemplate
    <2> QED  BY <2>1 DEF Clusters!ClusterWorkerStep
  <1>5. CASE SyncTemplate
    <2>1. Clusters!SyncTemplateSucceeds \/ Clusters!SyncTemplateFails
      BY <1>5 DEF SyncTemplate
    <2> QED  BY <2>1 DEF Clusters!ClusterWorkerStep
  <1>6. CASE DeleteRemote
    BY <1>6 DEF DeleteRemote, Clusters!ClusterWorkerStep
  <1>7. CASE UpdateStatus
    BY <1>7 DEF UpdateStatus, Clusters!ClusterWorkerStep
  <1>8. CASE ReturnAtOnce
    BY <1>8 DEF ReturnAtOnce, Clusters!ClusterWorkerStep
  <1>9. CASE OtherWorkerStep
    BY <1>9 DEF OtherWorkerStep, Clusters!ClusterWorkerStep
  <1> QED  BY <1>1, <1>2, <1>3, <1>4, <1>5, <1>6, <1>7, <1>8, <1>9
           DEF ClusterWorkerStep

(* Every step is one of ClusterLifecycle, or none of its business. *)
LEMMA StepImplements == [Next]_vars => [Clusters!Next]_(Clusters!vars)
  <1> SUFFICES ASSUME [Next]_vars PROVE Clusters!Next \/ UNCHANGED Clusters!vars
    OBVIOUS
  <1>1. CASE ClusterWorkerStep
    BY <1>1, WorkerStepImplements DEF Clusters!Next
  <1>2. CASE DocumentStep
    BY <1>2 DEF DocumentStep, clusterOnlyVars, Clusters!vars
  <1>3. ASSUME NEW c \in Cluster, Reconcile(c) \/ DeliverCluster(c) \/ UserClusterStep(c)
        PROVE  Clusters!Next
    <2>1. Clusters!ClusterStep(c)
      BY <1>3 DEF Reconcile, DeliverCluster, UserClusterStep, Clusters!ClusterStep
    <2> QED  BY <2>1 DEF Clusters!Next
  <1>4. ASSUME NEW d \in Document, DeliverChild(d)
        PROVE  Clusters!Next
    <2> DEFINE refs == IF EventPasses(documentVersions[d][1], documentVersions[d][2])
                         THEN RequestForChildCluster(documentVersions[d][1],
                                documentVersions[d][2]) \cap Cluster
                         ELSE {}
    <2>1. Clusters!WakeClusters(refs)
      BY <1>4 DEF DeliverChild
    <2>2. refs \in SUBSET Cluster
      OBVIOUS
    <2> HIDE DEF refs
    <2> QED  BY <2>1, <2>2 DEF Clusters!Next
  <1>5. CASE Restart
    BY <1>5 DEF Restart, Clusters!Next
  <1>6. CASE UNCHANGED vars
    BY <1>6 DEF vars, clusterOnlyVars, Clusters!vars
  <1> QED  BY <1>1, <1>2, <1>3, <1>4, <1>5, <1>6 DEF Next

(* The composition implements ClusterLifecycle: with rendering decided by   *)
(* the documents, and with the documents' events as the only requests that  *)
(* come from outside, the controllers of clusters and connections do        *)
(* nothing that ClusterLifecycle does not, so that what holds of every      *)
(* behaviour of that one holds here.                                        *)
THEOREM CompositionImplementsLifecycle == Spec => Clusters!Spec
  <1>1. Init => Clusters!Init
    BY DEF Init
  <1>2. [Next]_vars => [Clusters!Next]_(Clusters!vars)
    BY StepImplements
  <1> QED  BY <1>1, <1>2, PTL DEF Spec, Clusters!Spec

-----------------------------------------------------------------------------
(* Templates are current.  What a cluster's template is made of are the      *)
(* documents that refer to it, so that the events that matter to a cluster   *)
(* are those of a document that refers or referred to it.                    *)

Refers(x, c) == x # Absent /\ x.spec.clusterRef = c

(* Two versions of a document say the same to cluster c. *)
SameTo(x, y, c) ==
  /\ Refers(x, c) <=> Refers(y, c)
  /\ Refers(x, c) => x.spec = y.spec

(* An event that will wake c *)
Wakes(x, y, c) == EventPasses(x, y) /\ (Refers(x, c) \/ Refers(y, c))

(* Such an event is on its way, at i or later. *)
WakesFrom(s, i, c) ==
  \E j \in Places(s) : i <= j /\ j + 1 \in Places(s) /\ Wakes(s[j], s[j + 1], c)

(* A version that says something else to c than the stored one is followed  *)
(* by such an event.                                                        *)
TellsCluster(s, c) ==
  \A i \in Places(s) : SameTo(s[i], Stored(s), c) \/ WakesFrom(s, i, c)

(* A write is told of when it changes the spec. *)
LEMMA TellsAppend ==
  ASSUME NEW S, NEW s \in Seq(S), s # <<>>, NEW x \in S, NEW c, TellsCluster(s, c),
         ~EventPasses(Stored(s), x) => Stored(s).spec = x.spec
  PROVE  /\ TellsCluster(Append(s, x), c)
         /\ WakesFrom(s, 1, c) => WakesFrom(Append(s, x), 1, c)
         /\ SameTo(Stored(s), x, c) \/ WakesFrom(Append(s, x), 1, c)
  <1> DEFINE n == Append(s, x)
  <1>1. /\ Len(n) = Len(s) + 1 /\ n[Len(s) + 1] = x
        /\ \A i \in 1 .. Len(s) : n[i] = s[i]
    BY AppendVersion
  <1>2. Len(s) \in Nat /\ Len(s) >= 1 /\ Stored(s) = s[Len(s)]
    BY EndsOfVersions
  <1>3. Stored(n) = x
    BY <1>1 DEF Stored
  <1> HIDE DEF n
  <1>4. /\ Len(s) \in Places(n) /\ Len(s) + 1 \in Places(n) /\ n[Len(s)] = Stored(s)
        /\ \A i \in Places(s) : i \in Places(n) /\ n[i] = s[i] /\ i <= Len(s)
        /\ \A i \in Places(n) : i \in Places(s) \/ i = Len(s) + 1
    BY <1>1, <1>2 DEF Places
  <1>5. SameTo(Stored(s), x, c) \/ Wakes(Stored(s), x, c)
    BY DEF SameTo, Wakes, Refers, EventPasses
  <1>6. \A i \in Places(s) : WakesFrom(s, i, c) => WakesFrom(n, i, c)
    <2> SUFFICES ASSUME NEW i \in Places(s), WakesFrom(s, i, c) PROVE WakesFrom(n, i, c)
      OBVIOUS
    <2>1. PICK j \in Places(s) : i <= j /\ j + 1 \in Places(s) /\ Wakes(s[j], s[j + 1], c)
      BY DEF WakesFrom
    <2>2. /\ j \in Places(n) /\ j + 1 \in Places(n) /\ n[j] = s[j] /\ n[j + 1] = s[j + 1]
      BY <1>4, <2>1
    <2> QED  BY <2>1, <2>2 DEF WakesFrom
  <1>7. \A i \in Places(s) : Wakes(Stored(s), x, c) => WakesFrom(n, i, c)
    <2> SUFFICES ASSUME NEW i \in Places(s), Wakes(Stored(s), x, c) PROVE WakesFrom(n, i, c)
      OBVIOUS
    <2>1. /\ i <= Len(s) /\ Len(s) \in Places(n) /\ Len(s) + 1 \in Places(n)
          /\ Wakes(n[Len(s)], n[Len(s) + 1], c)
      BY <1>1, <1>4
    <2> QED  BY <2>1 DEF WakesFrom
  <1>8. TellsCluster(n, c)
    <2> SUFFICES ASSUME NEW i \in Places(n) PROVE SameTo(n[i], x, c) \/ WakesFrom(n, i, c)
      BY <1>3 DEF TellsCluster
    <2>1. CASE i = Len(s) + 1
      BY <1>1, <2>1 DEF SameTo
    <2>2. CASE i \in Places(s)
      <3>1. SameTo(s[i], Stored(s), c) \/ WakesFrom(s, i, c)
        BY <2>2 DEF TellsCluster
      <3>2. SameTo(s[i], Stored(s), c) /\ SameTo(Stored(s), x, c) => SameTo(s[i], x, c)
        BY DEF SameTo
      <3> QED  BY <1>4, <1>5, <1>6, <1>7, <2>2, <3>1, <3>2
    <2> QED  BY <1>4, <2>1, <2>2
  <1>9. 1 \in Places(s)
    BY <1>2 DEF Places
  <1> QED  BY <1>5, <1>6, <1>7, <1>8, <1>9 DEF n

(* A delivery takes the first event away. *)
LEMMA TellsTail ==
  ASSUME NEW S, NEW s \in Seq(S), Len(s) > 1, NEW c, TellsCluster(s, c)
  PROVE  /\ TellsCluster(Tail(s), c)
         /\ WakesFrom(s, 1, c) => WakesFrom(Tail(s), 1, c) \/ Wakes(s[1], s[2], c)
  <1> DEFINE n == Tail(s)
  <1>1. /\ Len(n) = Len(s) - 1 /\ Len(s) \in Nat
        /\ \A i \in 1 .. Len(s) - 1 : n[i] = s[i + 1]
    BY TailVersion
  <1>2. Stored(n) = Stored(s)
    BY <1>1 DEF Stored
  <1> HIDE DEF n
  <1>3. /\ \A i \in Places(n) : i \in Nat /\ i + 1 \in Places(s) /\ n[i] = s[i + 1]
        /\ \A i \in Places(s) : i = 1 \/ i - 1 \in Places(n)
        /\ \A i \in Places(s) : i \in Nat /\ i >= 1
    BY <1>1 DEF Places
  <1>4. ASSUME NEW i \in Nat, NEW j \in Places(s), i <= j, j # 1, j + 1 \in Places(s),
               Wakes(s[j], s[j + 1], c), NEW k \in Nat, k <= i, k <= j - 1
        PROVE  WakesFrom(n, k, c)
    <2>1. j - 1 \in Places(n) /\ (j - 1) + 1 = j
      BY <1>3, <1>4
    <2>2. (j - 1) + 1 \in Places(n)
      BY <1>1, <1>4 DEF Places
    <2>3. n[j - 1] = s[j] /\ n[(j - 1) + 1] = s[j + 1]
      BY <1>3, <2>1, <2>2
    <2> QED  BY <1>4, <2>1, <2>2, <2>3 DEF WakesFrom
  <1>5. TellsCluster(n, c)
    <2> SUFFICES ASSUME NEW i \in Places(n)
                 PROVE  SameTo(n[i], Stored(s), c) \/ WakesFrom(n, i, c)
      BY <1>2 DEF TellsCluster
    <2>1. i \in Nat /\ i + 1 \in Places(s) /\ n[i] = s[i + 1]
      BY <1>3
    <2>2. CASE SameTo(s[i + 1], Stored(s), c)
      BY <2>1, <2>2
    <2>3. CASE WakesFrom(s, i + 1, c)
      <3>1. PICK j \in Places(s) :
              i + 1 <= j /\ j + 1 \in Places(s) /\ Wakes(s[j], s[j + 1], c)
        BY <2>3 DEF WakesFrom
      <3>2. i >= 1 /\ j # 1 /\ i <= i + 1 /\ i <= j - 1 /\ i + 1 \in Nat
        BY <1>1, <2>1, <3>1 DEF Places
      <3> QED  BY <1>4, <2>1, <3>1, <3>2
    <2> QED  BY <2>1, <2>2, <2>3 DEF TellsCluster
  <1>6. WakesFrom(s, 1, c) => WakesFrom(n, 1, c) \/ Wakes(s[1], s[2], c)
    <2> SUFFICES ASSUME WakesFrom(s, 1, c), ~Wakes(s[1], s[2], c) PROVE WakesFrom(n, 1, c)
      OBVIOUS
    <2>1. PICK j \in Places(s) :
            1 <= j /\ j + 1 \in Places(s) /\ Wakes(s[j], s[j + 1], c)
      BY DEF WakesFrom
    <2>2. j # 1
      BY <2>1
    <2>3. 1 <= j - 1
      BY <1>3, <2>1, <2>2
    <2> QED  BY <1>4, <2>1, <2>2, <2>3
  <1> QED  BY <1>5, <1>6 DEF n

DocumentMaps == VersionMaps(Document, DocumentVersion)

(* An event of a document that will wake c, among versions v *)
ComesFor(v, c) == \E d \in Document : WakesFrom(v[d], 1, c)

(* It is what ChildEventComing says. *)
LEMMA ChildEvents ==
  ASSUME NEW v \in DocumentMaps, NEW c
  PROVE  ComesFor(v, c) <=>
           \E d \in Document : \E i \in 1 .. Len(v[d]) - 1 :
             LET old == v[d][i]
                 new == v[d][i + 1]
             IN  EventPasses(old, new) /\ \E o \in {old, new} \ {Absent} : o.spec.clusterRef = c
  <1>1. ASSUME NEW d \in Document
        PROVE  WakesFrom(v[d], 1, c) <=>
                 \E i \in 1 .. Len(v[d]) - 1 :
                   LET old == v[d][i]
                       new == v[d][i + 1]
                   IN  EventPasses(old, new)
                         /\ \E o \in {old, new} \ {Absent} : o.spec.clusterRef = c
    <2> DEFINE s == v[d]
    <2>1. Len(s) \in Nat
      BY MapEnds DEF DocumentMaps
    <2>2. \A i : i \in 1 .. Len(s) - 1 <=> i \in Places(s) /\ 1 <= i /\ i + 1 \in Places(s)
      BY <2>1 DEF Places
    <2> HIDE DEF s
    <2>3. WakesFrom(s, 1, c) <=>
            \E i \in 1 .. Len(s) - 1 :
              EventPasses(s[i], s[i + 1])
                /\ \E o \in {s[i], s[i + 1]} \ {Absent} : o.spec.clusterRef = c
      BY <2>2 DEF WakesFrom, Wakes, Refers
    <2> QED  BY <2>3 DEF s
  <1> QED  BY <1>1 DEF ComesFor

Tells(v) == \A d \in Document : \A c \in Cluster : TellsCluster(v[d], c)

(* The documents of one kind that refer to c, when v tells the version of   *)
(* each.                                                                    *)
Chosen(v, kind, c) ==
  {AsInput(d, v[d]) : d \in {x \in Document : x.kind = kind /\ Refers(v[x], c)}}

StoredOf(v) == [d \in Document |-> Stored(v[d])]
CachedOf(v) == [d \in Document |-> Cached(v[d])]

(* What says the same to c makes the same part of its template. *)
LEMMA ChosenSame ==
  ASSUME NEW v, NEW w, NEW c, NEW kind, \A d \in Document : SameTo(v[d], w[d], c)
  PROVE  Chosen(v, kind, c) = Chosen(w, kind, c)
  <1>1. \A d \in Document : Refers(v[d], c) <=> Refers(w[d], c)
    BY DEF SameTo
  <1>2. \A d \in Document : Refers(v[d], c) => AsInput(d, v[d]) = AsInput(d, w[d])
    BY DEF SameTo, AsInput
  <1> QED  BY <1>1, <1>2 DEF Chosen

(* What is selected of the stored documents. *)
LEMMA SelectedStored ==
  ASSUME NEW v \in DocumentMaps, NEW kind, NEW c, NEW D,
         D = {AsInput(d, Stored(v[d])) : d \in Listed(v)}
  PROVE  Selected(D, kind, c) = Chosen(StoredOf(v), kind, c)
  <1>1. Listed(v) = {d \in Document : Stored(v[d]) # Absent}
    BY DEF Listed, DocumentMaps, VersionMaps
  <1>2. \A d, o : AsInput(d, o).kind = d.kind /\ AsInput(d, o).spec = o.spec
    BY DEF AsInput
  <1>3. \A e : e \in D <=>
          \E d \in Document : StoredOf(v)[d] # Absent /\ e = AsInput(d, StoredOf(v)[d])
    BY <1>1 DEF StoredOf
  <1>4. \A e : e \in Selected(D, kind, c) => e \in Chosen(StoredOf(v), kind, c)
    BY <1>2, <1>3 DEF Selected, Chosen, Refers
  <1>5. \A e : e \in Chosen(StoredOf(v), kind, c) => e \in Selected(D, kind, c)
    BY <1>2, <1>3 DEF Selected, Chosen, Refers
  <1> QED  BY <1>4, <1>5

(* What is selected of a list. *)
LEMMA SelectedListed ==
  ASSUME NEW kind, NEW c
  PROVE  Selected(ListDocuments(kind), kind, c) = Chosen(CachedOf(documentVersions), kind, c)
  <1> DEFINE v == CachedOf(documentVersions)
  <1>1. \A d, o : AsInput(d, o).kind = d.kind /\ AsInput(d, o).spec = o.spec
    BY DEF AsInput
  <1>2. \A e : e \in ListDocuments(kind) <=>
          \E d \in Document : v[d] # Absent /\ e = AsInput(d, v[d]) /\ d.kind = kind
    BY DEF ListDocuments, CachedOf
  <1> HIDE DEF v
  <1>3. \A e : e \in Selected(ListDocuments(kind), kind, c) => e \in Chosen(v, kind, c)
    BY <1>1, <1>2 DEF Selected, Chosen, Refers
  <1>4. \A e : e \in Chosen(v, kind, c) => e \in Selected(ListDocuments(kind), kind, c)
    BY <1>1, <1>2 DEF Selected, Chosen, Refers
  <1> QED  BY <1>3, <1>4 DEF v

(* A List that misses something has an event coming. *)
LEMMA ListIsStored ==
  ASSUME documentVersions \in DocumentMaps, Tells(documentVersions), NEW kind,
         NEW c \in Cluster, ~ComesFor(documentVersions, c)
  PROVE  Selected(ListDocuments(kind), kind, c) = Selected(StoredDocuments, kind, c)
  <1> DEFINE v == documentVersions
  <1>1. ASSUME NEW d \in Document
        PROVE  SameTo(CachedOf(v)[d], StoredOf(v)[d], c)
    <2>1. 1 \in Places(v[d]) /\ Cached(v[d]) = v[d][1]
      BY MapEnds DEF DocumentMaps
    <2>2. ~WakesFrom(v[d], 1, c)
      BY DEF ComesFor
    <2> QED  BY <2>1, <2>2 DEF Tells, TellsCluster, CachedOf, StoredOf
  <1> HIDE DEF v
  <1>2. Chosen(CachedOf(v), kind, c) = Chosen(StoredOf(v), kind, c)
    BY <1>1, ChosenSame
  <1>3. Selected(StoredDocuments, kind, c) = Chosen(StoredOf(documentVersions), kind, c)
    BY SelectedStored DEF StoredDocuments
  <1> QED  BY <1>2, <1>3, SelectedListed DEF v

(* The template of c needs no more than the documents that refer to c. *)
LEMMA SameRenderings ==
  ASSUME NEW D, NEW E, NEW c, NEW name, NEW manifests,
         Selected(D, "ControlPlane", c) = Selected(E, "ControlPlane", c),
         Selected(D, "Workers", c) = Selected(E, "Workers", c),
         Selected(D, "Machine", c) = Selected(E, "Machine", c)
  PROVE  Renderings(D, c, name, manifests) = Renderings(E, c, name, manifests)
  <1> DEFINE P == Orders(Selected(D, "ControlPlane", c))
             W == Sorted(Selected(D, "Workers", c))
             M == Sorted(Selected(D, "Machine", c))
             Q == Orders(Selected(E, "ControlPlane", c))
             X == Sorted(Selected(E, "Workers", c))
             N == Sorted(Selected(E, "Machine", c))
  <1>1. P = Q /\ W = X /\ M = N
    BY Zenon
  <1>2. /\ RenderOrders(D, c) = {p \o w \o m : p \in P, w \in W, m \in M}
        /\ RenderOrders(E, c) = {p \o w \o m : p \in Q, w \in X, m \in N}
    BY DEF RenderOrders
  <1> HIDE DEF P, W, M, Q, X, N
  <1>3. RenderOrders(D, c) = RenderOrders(E, c)
    BY <1>1, <1>2
  <1> QED  BY <1>3, Zenon DEF Renderings

-----------------------------------------------------------------------------
(* What a step does to the documents of one cluster *)

(* What is stored for c stays as it is. *)
SameSelection(c) ==
  \A kind : Selected(StoredDocuments', kind, c) = Selected(StoredDocuments, kind, c)

Informed(c) == c \in woken \/ ChildEventComing(c)

(* The documents of c stay as they are, or a request for c is due. *)
StaysInformed(c) ==
  /\ Informed(c) => Informed(c)'
  /\ SameSelection(c) \/ Informed(c)'

(* What the documents' invariant says of their versions *)
DocumentsTell == documentVersions \in DocumentMaps /\ Tells(documentVersions)

(* A request is due. *)
LEMMA InformedNow ==
  ASSUME documentVersions \in DocumentMaps, NEW c
  PROVE  Informed(c) <=> c \in woken \/ ComesFor(documentVersions, c)
  BY ChildEvents DEF Informed, ChildEventComing

(* And it will be. *)
LEMMA InformedNext ==
  ASSUME documentVersions' \in DocumentMaps, NEW c
  PROVE  Informed(c)' <=> c \in woken' \/ ComesFor(documentVersions', c)
  BY ChildEvents DEF Informed, ChildEventComing

(* Who leaves the documents alone keeps their requests. *)
LEMMA DocumentsStill ==
  ASSUME documentVersions' = documentVersions, DocumentsTell
  PROVE  /\ \A c : (c \in woken => c \in woken') => StaysInformed(c)
         /\ \A c : ChildEventComing(c) <=> ChildEventComing(c)'
         /\ \A c : SameSelection(c)
         /\ DocumentsTell'
  <1>1. \A c : ChildEventComing(c) <=> ChildEventComing(c)'
    BY DEF ChildEventComing
  <1>2. \A c : SameSelection(c)
    <2>1. StoredDocuments' = StoredDocuments
      BY DEF StoredDocuments, Listed
    <2> QED  BY <2>1 DEF SameSelection
  <1> QED  BY <1>1, <1>2 DEF StaysInformed, Informed, DocumentsTell

(* A version of a document is stored: an edit, which is told of, or a       *)
(* status.                                                                  *)
LEMMA DocumentStored ==
  ASSUME DocumentsTell, NEW d \in Document, NEW x \in DocumentVersion,
         documentVersions' = Appended(documentVersions, d, x),
         ~EventPasses(Stored(documentVersions[d]), x) =>
            Stored(documentVersions[d]).spec = x.spec,
         woken \subseteq woken'
  PROVE  DocumentsTell' /\ \A c \in Cluster : StaysInformed(c)
  <1> DEFINE v == documentVersions
             n == Appended(documentVersions, d, x)
             s == documentVersions[d]
  <1>1. v \in DocumentMaps /\ s \in Seq(DocumentVersion) /\ s # <<>>
    BY DEF DocumentsTell, DocumentMaps, VersionMaps
  <1>2. /\ n \in DocumentMaps /\ Stored(n[d]) = x
        /\ \A e \in Document \ {d} : n[e] = v[e]
    <2>1. PICK m : m = documentVersions /\ m \in VersionMaps(Document, DocumentVersion)
      BY <1>1 DEF DocumentMaps
    <2>2. LET next == Appended(m, d, x)
          IN  /\ next \in VersionMaps(Document, DocumentVersion)
              /\ Stored(next[d]) = x
              /\ \A e \in Document \ {d} : next[e] = m[e]
      BY <2>1, MapAppend
    <2> QED  BY <2>1, <2>2 DEF DocumentMaps
  <1>3. n[d] = Append(s, x)
    BY <1>1 DEF Appended, DocumentMaps, VersionMaps
  <1>4. \A c \in Cluster : TellsCluster(s, c)
    BY DEF DocumentsTell, Tells
  <1> HIDE DEF n, s
  <1>5. ASSUME NEW c \in Cluster
        PROVE  /\ TellsCluster(n[d], c)
               /\ WakesFrom(s, 1, c) => WakesFrom(n[d], 1, c)
               /\ SameTo(Stored(s), x, c) \/ WakesFrom(n[d], 1, c)
    BY <1>1, <1>3, <1>4, TellsAppend DEF s
  <1>6. n = documentVersions'
    BY DEF n
  <1>7. DocumentsTell'
    <2>1. Tells(n)
      BY <1>2, <1>5 DEF Tells, DocumentsTell
    <2> QED  BY <1>2, <1>6, <2>1 DEF DocumentsTell
  <1>8. ASSUME NEW c \in Cluster
        PROVE  StaysInformed(c)
    <2>1. ComesFor(v, c) => ComesFor(n, c)
      BY <1>2, <1>5 DEF ComesFor, s
    <2>2. Informed(c) <=> c \in woken \/ ComesFor(v, c)
      BY <1>1, InformedNow
    <2>3. Informed(c)' <=> c \in woken' \/ ComesFor(n, c)
      BY <1>2, <1>6, InformedNext
    <2>4. CASE WakesFrom(n[d], 1, c)
      BY <2>3, <2>4 DEF StaysInformed, ComesFor
    <2>5. CASE SameTo(Stored(s), x, c)
      <3>1. \A e \in Document : SameTo(StoredOf(n)[e], StoredOf(v)[e], c)
        BY <1>2, <2>5 DEF StoredOf, SameTo, s
      <3>2. ASSUME NEW kind
            PROVE  Selected(StoredDocuments', kind, c) = Selected(StoredDocuments, kind, c)
        <4>1. Chosen(StoredOf(n), kind, c) = Chosen(StoredOf(v), kind, c)
          BY <3>1, ChosenSame
        <4>2. Selected(StoredDocuments, kind, c) = Chosen(StoredOf(v), kind, c)
          BY <1>1, SelectedStored DEF StoredDocuments
        <4>3. StoredDocuments' = {AsInput(e, Stored(n[e])) : e \in Listed(n)}
          BY <1>6 DEF StoredDocuments
        <4>4. Selected(StoredDocuments', kind, c) = Chosen(StoredOf(n), kind, c)
          BY <1>2, <4>3, SelectedStored
        <4> QED  BY <4>1, <4>2, <4>4
      <3> QED  BY <2>1, <2>2, <2>3, <3>2 DEF StaysInformed, SameSelection
    <2> QED  BY <1>5, <2>4, <2>5
  <1> QED  BY <1>7, <1>8

(* What the documents' side does to them. *)
LEMMA DocumentStepTells ==
  ASSUME DocumentTypes, DocumentsTell, DocumentStep
  PROVE  DocumentsTell' /\ \A c \in Cluster : StaysInformed(c)
  <1>1. woken' = woken
    BY DEF DocumentStep, templateVars
  <1>2. CASE documentVersions' = documentVersions
    BY <1>1, <1>2, DocumentsStill
  <1>3. CASE \E d \in Touched : UserDocumentStep(d)
    <2>1. PICK d \in Touched : UserDocumentStep(d)
      BY <1>3
    <2>2. PICK x \in DocumentVersion :
            EditDocument(d, x) /\ EventPasses(Stored(documentVersions[d]), x)
      BY <2>1, UserDocumentStores
    <2>3. d \in Document /\ documentVersions' = Appended(documentVersions, d, x)
      BY <2>2, DocumentAssumption DEF EditDocument, StoreDocument, Appended
    <2> QED  BY <1>1, <2>2, <2>3, DocumentStored
  <1>4. ASSUME NEW k \in Reconciled, UpdateDocumentStatus(k)
        PROVE  DocumentsTell' /\ \A c \in Cluster : StaysInformed(c)
    <2>1. documentWorkers[k].pc = "updateStatus"
      BY <1>4 DEF UpdateDocumentStatus
    <2>2. PICK d \in Document : d = documentWorkers[k].key /\ d.kind = k
      BY <2>1, DocumentWorkerType, DocumentAssumption
    <2> DEFINE s == documentVersions[d]
               latest == Cached(s)
               exists == documentWorkers[k].exists
               x == [latest EXCEPT !.status = NewDocumentStatus(d, latest, exists)]
    <2>3. Len(s) = 1 /\ latest # Absent /\ StoreDocument(d, x)
      BY <1>4, <2>2 DEF UpdateDocumentStatus
    <2>4. /\ exists \in BOOLEAN /\ s \in Seq(DocumentVersion)
          /\ latest \in DocumentObject /\ Stored(s) = latest
      BY <2>1, <2>3, DocumentWorkerType, DocumentSequence, DocumentAssumption, EndsOfVersions
         DEF DocumentVersion
    <2>5. x \in DocumentObject /\ x.spec = latest.spec
      BY <2>4, NewDocumentStatusType
    <2> HIDE DEF x
    <2>6. x \in DocumentVersion
      BY <2>5 DEF DocumentVersion
    <2>7. documentVersions' = Appended(documentVersions, d, x)
      BY <2>3 DEF StoreDocument, Appended
    <2>8. Stored(documentVersions[d]).spec = x.spec /\ woken \subseteq woken'
      BY <1>1, <2>4, <2>5
    <2> QED  BY <2>6, <2>7, <2>8, DocumentStored
  <1>5. \/ documentVersions' = documentVersions
        \/ \E d \in Touched : UserDocumentStep(d)
        \/ \E k \in Reconciled : UpdateDocumentStatus(k)
    BY DEF DocumentStep, ReconcileNoDocument, ReconcileDocument, DocumentWorkerStep,
       ClusterExists, SkipStatus, DocumentCallFails
  <1> QED  BY <1>2, <1>3, <1>4, <1>5

(* What changes nothing that c can see. *)
LEMMA StoredAgree ==
  ASSUME DocumentsTell, DocumentsTell', NEW c,
         \A d \in Document : Stored(documentVersions'[d]) = Stored(documentVersions[d])
  PROVE  SameSelection(c)
  <1> SUFFICES ASSUME NEW kind
               PROVE  Selected(StoredDocuments', kind, c) = Selected(StoredDocuments, kind, c)
    BY DEF SameSelection
  <1>1. PICK n : n = documentVersions'
    OBVIOUS
  <1>2. n \in DocumentMaps /\ documentVersions \in DocumentMaps
    BY <1>1 DEF DocumentsTell
  <1>3. StoredOf(n) = StoredOf(documentVersions)
    BY <1>1 DEF StoredOf
  <1>4. StoredDocuments' = {AsInput(e, Stored(n[e])) : e \in Listed(n)}
    BY <1>1 DEF StoredDocuments
  <1>5. Selected(StoredDocuments', kind, c) = Chosen(StoredOf(n), kind, c)
    BY <1>2, <1>4, SelectedStored
  <1>6. Selected(StoredDocuments, kind, c) = Chosen(StoredOf(documentVersions), kind, c)
    BY <1>2, SelectedStored DEF StoredDocuments
  <1> QED  BY <1>3, <1>5, <1>6

(* An event of a document is delivered: the clusters that it is about are   *)
(* woken.                                                                   *)
LEMMA DeliverChildTells ==
  ASSUME DocumentsTell, NEW d \in Document, DeliverChild(d)
  PROVE  DocumentsTell' /\ \A c \in Cluster : StaysInformed(c)
  <1> DEFINE v == documentVersions
             s == documentVersions[d]
             n == Delivered(documentVersions, d)
  <1>1. Len(s) > 1 /\ documentVersions' = n
    BY DEF DeliverChild, DeliverDocument, Delivered
  <1>2. /\ woken \subseteq woken'
        /\ \A c \in Cluster : Wakes(s[1], s[2], c) => c \in woken'
    BY DEF DeliverChild, Wakes, Refers, RequestForChildCluster
  <1>3. v \in DocumentMaps /\ s \in Seq(DocumentVersion)
    BY DEF DocumentsTell, DocumentMaps, VersionMaps
  <1>4. /\ n \in DocumentMaps
        /\ \A e \in Document : Stored(n[e]) = Stored(v[e])
        /\ \A e \in Document \ {d} : n[e] = v[e]
    BY <1>1, <1>3, MapTail DEF DocumentMaps
  <1>5. n[d] = Tail(s)
    BY <1>3 DEF Delivered, DocumentMaps, VersionMaps
  <1>6. \A c \in Cluster : TellsCluster(s, c)
    BY DEF DocumentsTell, Tells
  <1> HIDE DEF n, s
  <1>7. ASSUME NEW c \in Cluster
        PROVE  /\ TellsCluster(n[d], c)
               /\ WakesFrom(s, 1, c) => WakesFrom(n[d], 1, c) \/ Wakes(s[1], s[2], c)
    BY <1>1, <1>3, <1>5, <1>6, TellsTail
  <1>8. DocumentsTell'
    <2>1. Tells(n)
      BY <1>4, <1>7 DEF Tells, DocumentsTell
    <2> QED  BY <1>1, <1>4, <2>1 DEF DocumentsTell
  <1>9. ASSUME NEW c \in Cluster
        PROVE  StaysInformed(c)
    <2>1. ComesFor(v, c) => ComesFor(n, c) \/ c \in woken'
      BY <1>2, <1>4, <1>7 DEF ComesFor, s
    <2>2. Informed(c) <=> c \in woken \/ ComesFor(v, c)
      BY <1>3, InformedNow
    <2>3. Informed(c)' <=> c \in woken' \/ ComesFor(n, c)
      BY <1>1, <1>4, InformedNext
    <2>4. SameSelection(c)
      BY <1>1, <1>4, <1>8, StoredAgree
    <2> QED  BY <1>2, <2>1, <2>2, <2>3, <2>4 DEF StaysInformed
  <1> QED  BY <1>8, <1>9

(* With one version of each document, nothing is on its way. *)
LEMMA OneVersionTells ==
  ASSUME NEW v \in DocumentMaps, \A d \in Document : Places(v[d]) = {1}
  PROVE  Tells(v)
  <1> SUFFICES ASSUME NEW d \in Document, NEW c \in Cluster
               PROVE  TellsCluster(v[d], c)
    BY DEF Tells
  <1>1. Len(v[d]) \in Places(v[d])
    BY MapEnds DEF DocumentMaps
  <1>2. Stored(v[d]) = v[d][1]
    BY <1>1 DEF Stored
  <1> QED  BY <1>2 DEF TellsCluster, SameTo

-----------------------------------------------------------------------------
(* Types of clusters: those of ClusterLifecycle, with a spec that was       *)
(* submitted.                                                               *)

SubmittedObject == {o \in Clusters!ClusterObject : o.spec \in Specs}
SubmittedVersion == SubmittedObject \cup {Absent}
SubmittedWorker == {w \in Clusters!BusyClusterWorker : w.item \in SubmittedObject}

ClusterTypes ==
  /\ clusterVersions \in VersionMaps(Cluster, SubmittedVersion)
  /\ clusterWorker = Clusters!IdleClusterWorker \/ clusterWorker \in SubmittedWorker
  /\ lastUid \in Nat

(* What a cluster is made of. *)
LEMMA SubmittedFields ==
  ASSUME NEW o \in SubmittedObject
  PROVE  /\ o # Absent /\ o \in SubmittedVersion
         /\ o.uid \in Nat /\ o.gen \in Nat /\ o.spec \in Specs
         /\ o.deleting \in BOOLEAN /\ o.fins \in SUBSET Clusters!Finalizers
         /\ o.status.obs \in Nat
  BY ClustersAssumption DEF SubmittedObject, SubmittedVersion, Clusters!ClusterObject

(* A target has a template. *)
LEMMA SubmittedTarget ==
  ASSUME NEW c \in Cluster, NEW s \in Specs
  PROVE  /\ Clusters!Target(c, s) \in Target
         /\ Clusters!ClusterName(c, s) \in Clusters!Remote
  BY ClustersAssumption
     DEF Clusters!Target, Clusters!ClusterName, Clusters!ClusterSpec, Clusters!Remote, Target

(* A status is written. *)
LEMMA StatusWritten ==
  ASSUME NEW o \in SubmittedObject, NEW status \in [obs : Nat, reason : Clusters!Reason],
         NEW x, x = [o EXCEPT !.status = status]
  PROVE  /\ x \in SubmittedObject /\ SameContent(o, x) /\ x.status = status
         /\ x.spec = o.spec /\ x.deleting = o.deleting
  <1>1. /\ x \in Clusters!ClusterObject /\ x.status = status /\ x.uid = o.uid
        /\ x.gen = o.gen /\ x.spec = o.spec /\ x.deleting = o.deleting
    BY DEF SubmittedObject, Clusters!ClusterObject
  <1>2. x \in SubmittedObject
    BY <1>1 DEF SubmittedObject
  <1> QED  BY <1>1, <1>2, SubmittedFields DEF SameContent

(* The finalizers are written. *)
LEMMA FinalizersWritten ==
  ASSUME NEW o \in SubmittedObject, NEW fins \in SUBSET Clusters!Finalizers,
         NEW x, x = [o EXCEPT !.fins = fins]
  PROVE  /\ x \in SubmittedObject /\ SameContent(o, x) /\ x.deleting = o.deleting
         /\ Clusters!Settle(x) \in {x, Absent}
         /\ Signalled(o, Clusters!Settle(x)) /\ Clusters!Settle(x) \in SubmittedVersion
  <1>1. /\ x \in Clusters!ClusterObject /\ x.uid = o.uid
        /\ x.gen = o.gen /\ x.spec = o.spec /\ x.deleting = o.deleting
    BY DEF SubmittedObject, Clusters!ClusterObject
  <1>2. x \in SubmittedObject
    BY <1>1 DEF SubmittedObject
  <1>3. SameContent(o, x)
    BY <1>1, <1>2, SubmittedFields DEF SameContent
  <1>4. Clusters!Settle(x) \in {x, Absent}
    BY DEF Clusters!Settle
  <1> QED  BY <1>1, <1>2, <1>3, <1>4 DEF Signalled, EventPasses, SubmittedVersion

(* A user deletes a cluster. *)
LEMMA MarkedWritten ==
  ASSUME NEW o \in SubmittedObject, NEW x, x = Clusters!Settle(Clusters!MarkedCluster(o))
  PROVE  /\ x \in SubmittedVersion /\ EventPasses(o, x)
         /\ x # Absent => x.deleting
  <1> DEFINE g == o.gen + 1
             n == [o EXCEPT !.gen = g]
             m == [n EXCEPT !.deleting = TRUE]
  <1>1. g \in Nat /\ g # o.gen
    BY SubmittedFields
  <1>2. m = Clusters!MarkedCluster(o)
    BY DEF Clusters!MarkedCluster, Clusters!NextGeneration
  <1> HIDE DEF g
  <1>3. n \in Clusters!ClusterObject /\ n.gen = g /\ n.spec = o.spec
    BY <1>1 DEF SubmittedObject, Clusters!ClusterObject
  <1> HIDE DEF n
  <1>4. m \in Clusters!ClusterObject /\ m.gen = g /\ m.spec = o.spec /\ m.deleting
    BY <1>3 DEF Clusters!ClusterObject
  <1> HIDE DEF m
  <1>5. m \in SubmittedObject
    BY <1>4, SubmittedFields DEF SubmittedObject
  <1>6. x \in {m, Absent}
    BY <1>2 DEF Clusters!Settle
  <1> QED  BY <1>1, <1>4, <1>5, <1>6 DEF SubmittedVersion, EventPasses

(* A user creates one, or the operator starts with it. *)
LEMMA NewWritten ==
  ASSUME NEW u \in Nat, NEW s \in Specs, NEW f \in SUBSET Clusters!Finalizers
  PROVE  /\ Clusters!NewCluster(u, s, f) \in SubmittedVersion
         /\ Clusters!NewCluster(u, s, f) # Absent
         /\ Clusters!NewCluster(u, s, f).status.reason # "Synced"
  <1> DEFINE x == Clusters!NewCluster(u, s, f)
  <1>1. x \in Clusters!ClusterObject /\ x.spec = s /\ x.status.reason # "Synced"
    BY ClustersAssumption DEF Clusters!NewCluster, Clusters!ClusterObject, Clusters!Reason
  <1>2. x \in SubmittedObject
    BY <1>1 DEF SubmittedObject
  <1> HIDE DEF x
  <1> QED  BY <1>1, <1>2, SubmittedFields DEF x

(* The copies that there are. *)
LEMMA ClustersTracked ==
  ASSUME ClusterTypes
  PROVE  /\ Tracked(Cluster, SubmittedVersion, clusterVersions, clusterWorker)
         /\ clusterWorker.pc # "idle" =>
              /\ clusterWorker \in SubmittedWorker
              /\ clusterWorker.key \in Cluster /\ clusterWorker.item \in SubmittedObject
         /\ \A c \in Cluster : /\ Stored(clusterVersions[c]) \in SubmittedVersion
                               /\ Cached(clusterVersions[c]) \in SubmittedVersion
  <1>1. Versioned(SubmittedVersion)
    BY SubmittedFields DEF Versioned, SubmittedVersion
  <1>2. clusterWorker.pc # "idle" => clusterWorker \in SubmittedWorker
    BY DEF ClusterTypes, Clusters!IdleClusterWorker
  <1>3. \A w \in SubmittedWorker : w.key \in Cluster /\ w.item \in SubmittedObject
    BY DEF SubmittedWorker, Clusters!BusyClusterWorker
  <1>4. \A c \in Cluster : /\ Stored(clusterVersions[c]) \in SubmittedVersion
                           /\ Cached(clusterVersions[c]) \in SubmittedVersion
    BY MapEnds DEF ClusterTypes
  <1>5. \A o \in SubmittedObject : o # Absent /\ o \in SubmittedVersion
    BY SubmittedFields
  <1> QED  BY <1>1, <1>2, <1>3, <1>4, <1>5 DEF Tracked, ClusterTypes

(* Reconcile goes on with the copy it has. *)
LEMMA AdvanceWorker ==
  ASSUME ClusterTypes, clusterWorker.pc # "idle", NEW pc, NEW reason, NEW observes \in BOOLEAN,
         pc \in {"sync", "deleteRemote", "removeFinalizers", "updateStatus"},
         reason \in Clusters!Reason, Clusters!AdvanceCluster(pc, reason, observes)
  PROVE  /\ ClusterTypes' /\ Follows(clusterWorker, clusterWorker')
         /\ clusterWorker'.pc = pc /\ clusterWorker'.reason = reason
         /\ clusterWorker'.key = clusterWorker.key /\ clusterWorker'.item = clusterWorker.item
         /\ UNCHANGED <<clusterVersions, clusterQueue, connectionVersions>>
  <1>1. clusterWorker \in Clusters!BusyClusterWorker /\ clusterWorker.item \in SubmittedObject
    BY ClustersTracked DEF SubmittedWorker
  <1>2. /\ clusterWorker' = [clusterWorker EXCEPT !.pc = pc, !.reason = reason,
                                                  !.observes = observes]
        /\ UNCHANGED <<clusterVersions, clusterQueue, connectionVersions, lastUid>>
    BY DEF Clusters!AdvanceCluster
  <1>3. /\ clusterWorker' \in Clusters!BusyClusterWorker
        /\ clusterWorker'.pc = pc /\ clusterWorker'.reason = reason
        /\ clusterWorker'.key = clusterWorker.key /\ clusterWorker'.item = clusterWorker.item
    BY <1>1, <1>2 DEF Clusters!BusyClusterWorker
  <1>4. ClusterTypes'
    BY <1>1, <1>2, <1>3 DEF ClusterTypes, SubmittedWorker
  <1> QED  BY <1>2, <1>3, <1>4 DEF Follows

-----------------------------------------------------------------------------
(* The invariant behind TemplateIsCurrent *)

(* Template r is one of those that the stored documents and spec s stand    *)
(* for, or a request for c is due that does not wait for syncInterval.      *)
UpToDate(r, c, s) ==
  \/ r \in Renderings(StoredDocuments, c, Clusters!ClusterName(c, s), Manifests[s])
  \/ Informed(c)

(* The same for a list that templateInputs has read *)
ListUpToDate(D, kind, c) ==
  Selected(D, kind, c) = Selected(StoredDocuments, kind, c) \/ Informed(c)

(* Reconcile is about to report its sync. *)
HasSynced == clusterWorker.pc = "updateStatus" /\ clusterWorker.reason = "Synced"

(* While documents change under it, Reconcile reads lists, renders and      *)
(* syncs: what it has so far is up to date, or it will be called again.     *)
CallUpToDate ==
  /\ \A i \in 1 .. Len(inputs) : ListUpToDate(inputs[i], Kinds[i], clusterWorker.key)
  /\ clusterWorker.pc = "sync" \/ HasSynced
       => rendered # Absent /\ UpToDate(rendered, clusterWorker.key, clusterWorker.item.spec)
  /\ HasSynced => templates[Clusters!ItemTarget] = rendered

(* Lists are held while they are read, by a call that found its connection; *)
(* and only what is being deleted loses its finalizers.                     *)
CallInOrder ==
  /\ inputs # <<>> => AtTemplateInputs
  /\ clusterWorker.pc \in {"deleteRemote", "removeFinalizers"} => clusterWorker.item.deleting

(* Omni has a template for each remote cluster that is there. *)
TemplatesHeld ==
  /\ templates = [t \in Target |-> templates[t]]
  /\ omni = [t \in Target |-> omni[t]]
  /\ hashes = [c \in Cluster |-> hashes[c]]
  /\ \A t \in Target : templates[t] = Absent <=> omni[t] = Absent

DueSoon(c) == Due(clusterVersions, clusterWorker, woken, c) \/ ChildEventComing(c)

SaysReady(o) == o # Absent /\ ~o.deleting /\ o.status.reason = "Synced"

Current(c) ==
  LET o == Stored(clusterVersions[c])
      t == templates[Clusters!Target(c, o.spec)]
  IN  SaysReady(o) =>
        \/ DueSoon(c)
        \/ UpToDate(t, c, o.spec) /\ t = hashes[c]

CurrentInv(S) ==
  /\ ClusterTypes /\ DocumentsTell
  /\ Told(clusterVersions, clusterWorker, woken, Cluster)
  /\ TemplatesHeld /\ CallInOrder /\ CallUpToDate
  /\ \A c \in S : Current(c)

(* What is up to date stays so, or a request is due. *)
LEMMA UpToDateStays ==
  ASSUME NEW c, StaysInformed(c)
  PROVE  /\ \A r, s : UpToDate(r, c, s) => UpToDate(r, c, s)'
         /\ \A D, kind : ListUpToDate(D, kind, c) => ListUpToDate(D, kind, c)'
  <1>1. CASE Informed(c)'
    BY <1>1 DEF UpToDate, ListUpToDate
  <1>2. CASE ~Informed(c)'
    <2>1. ~Informed(c) /\ SameSelection(c)
      BY <1>2 DEF StaysInformed
    <2>2. ASSUME NEW r, NEW s, UpToDate(r, c, s)
          PROVE  UpToDate(r, c, s)'
      <3> DEFINE name == Clusters!ClusterName(c, s)
      <3>1. r \in Renderings(StoredDocuments, c, name, Manifests[s])
        BY <2>1, <2>2 DEF UpToDate
      <3>2. name' = name
        BY DEF Clusters!ClusterName
      <3> HIDE DEF name
      <3>3. PICK D, E : D = StoredDocuments' /\ E = StoredDocuments
        OBVIOUS
      <3>4. \A kind : Selected(D, kind, c) = Selected(E, kind, c)
        BY <2>1, <3>3 DEF SameSelection
      <3>5. Renderings(D, c, name, Manifests[s]) = Renderings(E, c, name, Manifests[s])
        BY <3>4, SameRenderings
      <3>6. r \in Renderings(StoredDocuments', c, name, Manifests[s])
        BY <3>1, <3>3, <3>5
      <3> QED  BY <3>2, <3>6 DEF UpToDate, name
    <2>3. \A D, kind : ListUpToDate(D, kind, c) => ListUpToDate(D, kind, c)'
      BY <2>1 DEF ListUpToDate, SameSelection
    <2> QED  BY <2>2, <2>3
  <1> QED  BY <1>1, <1>2

(* A cluster that a step does not touch stays current. *)
LEMMA CurrentStays ==
  ASSUME NEW c, Current(c), StaysInformed(c), DueSoon(c) => DueSoon(c)',
         Stored(clusterVersions'[c]) = Stored(clusterVersions[c]), hashes'[c] = hashes[c],
         LET t == Clusters!Target(c, Stored(clusterVersions[c]).spec)
         IN  Stored(clusterVersions[c]) # Absent => templates'[t] = templates[t]
  PROVE  Current(c)'
  <1>1. PICK o, t, r : /\ o = Stored(clusterVersions[c]) /\ t = Clusters!Target(c, o.spec)
                       /\ r = templates[t]
    OBVIOUS
  <1>2. /\ o = Stored(clusterVersions'[c])
        /\ t = Clusters!Target(c, o.spec)'
        /\ o # Absent => r = templates'[t]
    BY <1>1 DEF Clusters!Target, Clusters!ClusterName
  <1>3. SaysReady(o) => DueSoon(c) \/ (UpToDate(r, c, o.spec) /\ r = hashes[c])
    BY <1>1 DEF Current
  <1>4. UpToDate(r, c, o.spec) => UpToDate(r, c, o.spec)'
    BY UpToDateStays
  <1>5. SaysReady(o) => DueSoon(c)' \/ (UpToDate(r, c, o.spec)' /\ r = hashes'[c])
    BY <1>3, <1>4
  <1> QED  BY <1>2, <1>5 DEF Current, SaysReady

(* So does what a Reconcile call has, when it stays where it is. *)
LEMMA CallStays ==
  ASSUME CallInOrder, CallUpToDate, ClusterTypes, clusterWorker' = clusterWorker,
         inputs' = inputs, rendered' = rendered, templates' = templates,
         connectionVersions' = connectionVersions,
         \A c \in Cluster : StaysInformed(c)
  PROVE  CallInOrder' /\ CallUpToDate'
  <1>1. CallInOrder'
    BY DEF CallInOrder, AtTemplateInputs, Clusters!CachedConnection, Clusters!Cached
  <1>2. CASE clusterWorker.pc = "idle"
    <2>1. inputs = <<>>
      BY <1>2 DEF CallInOrder, AtTemplateInputs
    <2> QED  BY <1>1, <1>2, <2>1 DEF CallUpToDate, HasSynced
  <1>3. CASE clusterWorker.pc # "idle"
    <2>1. PICK c, s, r, l : /\ c = clusterWorker.key /\ s = clusterWorker.item.spec
                            /\ r = rendered /\ l = inputs
      OBVIOUS
    <2>2. c \in Cluster
      BY <1>3, <2>1, ClustersTracked
    <2>3. UpToDate(r, c, s) => UpToDate(r, c, s)'
      BY <2>2, UpToDateStays
    <2>4. \A i : ListUpToDate(l[i], Kinds[i], c) => ListUpToDate(l[i], Kinds[i], c)'
      <3> SUFFICES ASSUME NEW i PROVE ListUpToDate(l[i], Kinds[i], c) => ListUpToDate(l[i], Kinds[i], c)'
        OBVIOUS
      <3>1. PICK D, kind : D = l[i] /\ kind = Kinds[i]
        OBVIOUS
      <3>2. ListUpToDate(D, kind, c) => ListUpToDate(D, kind, c)'
        BY <2>2, UpToDateStays
      <3> QED  BY <3>1, <3>2
    <2>5. \A i \in 1 .. Len(l) : ListUpToDate(l[i], Kinds[i], c)'
      BY <2>1, <2>4 DEF CallUpToDate
    <2>6. (clusterWorker.pc = "sync" \/ HasSynced) => r # Absent /\ UpToDate(r, c, s)'
      BY <2>1, <2>3 DEF CallUpToDate
    <2>7. \A i \in 1 .. Len(inputs') : ListUpToDate(inputs[i], Kinds[i], clusterWorker.key)'
      BY <2>1, <2>5
    <2>8. HasSynced' <=> HasSynced
      BY DEF HasSynced
    <2>9. clusterWorker'.pc = "sync" \/ HasSynced' =>
            rendered' # Absent /\ UpToDate(rendered, clusterWorker.key, clusterWorker.item.spec)'
      BY <2>1, <2>6, <2>8
    <2>10. Clusters!ItemTarget' = Clusters!ItemTarget
      BY DEF Clusters!ItemTarget, Clusters!Target, Clusters!ClusterName
    <2>11. HasSynced' => templates'[Clusters!ItemTarget'] = rendered'
      BY <2>8, <2>10 DEF CallUpToDate
    <2> QED  BY <1>1, <2>7, <2>9, <2>11 DEF CallUpToDate
  <1> QED  BY <1>2, <1>3

(* Due, for a key that stays in hand *)
LEMMA DueStays ==
  ASSUME NEW c, StaysInformed(c),
         Due(clusterVersions, clusterWorker, woken, c)
            => Due(clusterVersions', clusterWorker', woken', c)
  PROVE  DueSoon(c) => DueSoon(c)'
  <1>1. DueSoon(c)' <=> Due(clusterVersions', clusterWorker', woken', c) \/ ChildEventComing(c)'
    BY DEF DueSoon, Due, Busy, Announced
  <1>2. ChildEventComing(c) => c \in woken' \/ ChildEventComing(c)'
    BY DEF StaysInformed, Informed
  <1>3. c \in woken' => Due(clusterVersions', clusterWorker', woken', c)
    BY DEF Due
  <1> QED  BY <1>1, <1>2, <1>3 DEF DueSoon

(* A step of the documents, or an event of one. *)
LEMMA CurrentElsewhere ==
  ASSUME NEW S \in SUBSET Cluster, CurrentInv(S),
         DocumentsTell', \A c \in Cluster : StaysInformed(c),
         clusterVersions' = clusterVersions, clusterWorker' = clusterWorker,
         lastUid' = lastUid, omni' = omni, templates' = templates, hashes' = hashes,
         inputs' = inputs, rendered' = rendered,
         connectionVersions' = connectionVersions, woken \subseteq woken'
  PROVE  CurrentInv(S)'
  <1>1. ClusterTypes' /\ TemplatesHeld'
    BY DEF CurrentInv, ClusterTypes, TemplatesHeld
  <1>2. CallInOrder' /\ CallUpToDate'
    BY CallStays DEF CurrentInv
  <1>3. /\ Told(clusterVersions, clusterWorker, woken', Cluster)
        /\ \A c \in Cluster : Due(clusterVersions, clusterWorker, woken, c)
                                => Due(clusterVersions, clusterWorker, woken', c)
    <2>1. Told(clusterVersions, clusterWorker, woken, Cluster)
            /\ Follows(clusterWorker, clusterWorker)
      BY DEF CurrentInv, Follows
    <2> QED  BY <2>1, ToldFollow
  <1>4. ASSUME NEW c \in S
        PROVE  Current(c)'
    <2>1. DueSoon(c) => DueSoon(c)'
      BY <1>3, DueStays
    <2>2. Current(c)
      BY DEF CurrentInv
    <2> QED  BY <2>1, <2>2, CurrentStays
  <1> QED  BY <1>1, <1>2, <1>3, <1>4 DEF CurrentInv

-----------------------------------------------------------------------------
(* The steps of the cluster worker *)

(* Where c is *)
Place(c) == Clusters!Target(c, Stored(clusterVersions[c]).spec)

(* While the worker syncs or deletes, no other cluster of S that is stored  *)
(* is at the same place.                                                    *)
TargetsApart(S) ==
  clusterWorker.pc \in {"sync", "deleteRemote"} =>
    \A c \in S \ {clusterWorker.key} :
      Stored(clusterVersions[c]) # Absent => Place(c) # Clusters!ItemTarget

(* The template of nobody else in S changes. *)
OthersKeepTemplates(S) ==
  \A c \in S :
    ~Busy(clusterWorker, c) /\ Stored(clusterVersions[c]) # Absent
      => templates'[Place(c)] = templates[Place(c)]

(* No object is written. *)
NothingStored ==
  /\ documentVersions' = documentVersions /\ clusterVersions' = clusterVersions
  /\ hashes' = hashes /\ woken \subseteq woken'

(* The call goes on, or its key is due at once. *)
KeyKept ==
  /\ Follows(clusterWorker, clusterWorker')
  /\ \A c \in Cluster : Busy(clusterWorker, c) => Busy(clusterWorker', c) \/ c \in woken'

(* The worker takes a step and stores nothing. *)
LEMMA WorkerGoesOn ==
  ASSUME NEW S \in SUBSET Cluster, CurrentInv(S),
         NothingStored, KeyKept, OthersKeepTemplates(S),
         ClusterTypes', TemplatesHeld', CallInOrder', CallUpToDate'
  PROVE  CurrentInv(S)'
  <1>1. /\ documentVersions' = documentVersions /\ clusterVersions' = clusterVersions
        /\ hashes' = hashes /\ woken \subseteq woken'
    BY DEF NothingStored
  <1>2. DocumentsTell' /\ \A c \in Cluster : StaysInformed(c)
    BY <1>1, DocumentsStill DEF CurrentInv
  <1>3. /\ Told(clusterVersions, clusterWorker', woken', Cluster)
        /\ \A c \in Cluster : Due(clusterVersions, clusterWorker, woken, c)
                                => Due(clusterVersions, clusterWorker', woken', c)
    <2>1. Told(clusterVersions, clusterWorker, woken, Cluster)
            /\ Follows(clusterWorker, clusterWorker')
      BY DEF CurrentInv, KeyKept
    <2>2. /\ Told(clusterVersions, clusterWorker', woken', Cluster)
          /\ \A c \in Cluster :
               Due(clusterVersions, clusterWorker, woken, c)
                 /\ (Busy(clusterWorker, c) => Busy(clusterWorker', c) \/ c \in woken')
                   => Due(clusterVersions, clusterWorker', woken', c)
      BY <1>1, <2>1, ToldFollow
    <2> QED  BY <2>2 DEF KeyKept
  <1>4. ASSUME NEW c \in S
        PROVE  Current(c)'
    <2>1. DueSoon(c) => DueSoon(c)'
      BY <1>1, <1>2, <1>3, DueStays
    <2>2. CASE Busy(clusterWorker, c)
      <3>1. DueSoon(c)
        BY <2>2 DEF DueSoon, Due
      <3> QED  BY <2>1, <3>1 DEF Current
    <2>3. CASE ~Busy(clusterWorker, c)
      <3>1. Current(c)
        BY DEF CurrentInv
      <3>2. Stored(clusterVersions[c]) # Absent =>
              templates'[Place(c)] = templates[Place(c)]
        BY <2>3 DEF OthersKeepTemplates
      <3> QED  BY <1>1, <1>2, <2>1, <3>1, <3>2, CurrentStays DEF Place
    <2> QED  BY <2>2, <2>3
  <1>5. Told(clusterVersions', clusterWorker', woken', Cluster)
    BY <1>1, <1>3
  <1> QED  BY <1>2, <1>4, <1>5 DEF CurrentInv

(* templateInputs reads one more list. *)
LEMMA CurrentListNextKind ==
  ASSUME NEW S \in SUBSET Cluster, CurrentInv(S), InputsInv, ListNextKind
  PROVE  CurrentInv(S)'
  <1>1. /\ documentVersions' = documentVersions /\ clusterVersions' = clusterVersions
        /\ connectionVersions' = connectionVersions
        /\ clusterWorker' = clusterWorker /\ lastUid' = lastUid /\ omni' = omni
        /\ rendered' = rendered /\ templates' = templates /\ hashes' = hashes
        /\ woken' = woken
    BY DEF ListNextKind, documentVars, clusterOnlyVars
  <1>2. NothingStored /\ KeyKept /\ OthersKeepTemplates(S) /\ ClusterTypes' /\ TemplatesHeld'
    BY <1>1 DEF NothingStored, KeyKept, OthersKeepTemplates, Follows, CurrentInv, ClusterTypes,
       TemplatesHeld
  <1>3. AtTemplateInputs
    BY DEF ListNextKind
  <1>4. CallInOrder'
    BY <1>1, <1>3 DEF CurrentInv, CallInOrder, AtTemplateInputs, Clusters!CachedConnection,
       Clusters!Cached
  <1>5. PICK c : c = clusterWorker.key /\ c \in Cluster
    BY <1>3, ClustersTracked DEF AtTemplateInputs, CurrentInv
  <1>6. PICK n, l, D : /\ n = Len(inputs) /\ l = inputs
                       /\ D = ListDocuments(Kinds[Len(inputs) + 1])
    OBVIOUS
  <1>7. /\ n \in Nat /\ Len(inputs') = n + 1 /\ inputs'[n + 1] = D
        /\ \A i \in 1 .. n : inputs'[i] = l[i]
        /\ \A i \in 1 .. n + 1 : i \in 1 .. n \/ i = n + 1
    <2>1. inputs \in Seq(SUBSET DocumentInput) /\ inputs' = Append(inputs, D)
      BY <1>6 DEF InputsInv, ListNextKind
    <2> QED  BY <1>6, <2>1
  <1>8. StaysInformed(c)
    BY <1>1, DocumentsStill DEF CurrentInv
  <1>9. ListUpToDate(D, Kinds[n + 1], c)
    <2>1. CASE ComesFor(documentVersions, c)
      BY <2>1, InformedNow DEF ListUpToDate, CurrentInv, DocumentsTell
    <2>2. CASE ~ComesFor(documentVersions, c)
      BY <1>5, <1>6, <2>2, ListIsStored DEF ListUpToDate, CurrentInv, DocumentsTell
    <2> QED  BY <2>1, <2>2
  <1>10. \A i \in 1 .. n : ListUpToDate(l[i], Kinds[i], c)
    BY <1>5, <1>6 DEF CurrentInv, CallUpToDate
  <1>11. \A E, kind : ListUpToDate(E, kind, c) => ListUpToDate(E, kind, c)'
    BY <1>8, UpToDateStays
  <1>12. ASSUME NEW i \in 1 .. n + 1
         PROVE  ListUpToDate(inputs[i], Kinds[i], clusterWorker.key)'
    <2>1. PICK E, kind : E = inputs'[i] /\ kind = Kinds[i]
      OBVIOUS
    <2>2. ListUpToDate(E, kind, c)
      BY <1>7, <1>9, <1>10, <2>1
    <2>3. ListUpToDate(E, kind, c)'
      BY <1>11, <2>2
    <2> QED  BY <1>1, <1>5, <2>1, <2>3
  <1>13. clusterWorker'.pc = "getConnection" /\ ~HasSynced'
    BY <1>1, <1>3 DEF AtTemplateInputs, HasSynced
  <1>14. CallUpToDate'
    BY <1>7, <1>12, <1>13 DEF CallUpToDate
  <1> QED  BY <1>2, <1>4, <1>14, WorkerGoesOn

(* A call that goes on to step pc *)
Advances(pc, reason, observes) ==
  /\ clusterWorker.pc # "idle" /\ pc \in {"sync", "deleteRemote", "removeFinalizers", "updateStatus"}
  /\ reason \in Clusters!Reason /\ observes \in BOOLEAN
  /\ Clusters!AdvanceCluster(pc, reason, observes)

(* It keeps its key, and nothing is stored. *)
LEMMA AdvanceKeeps ==
  ASSUME NEW S \in SUBSET Cluster, CurrentInv(S),
         NEW pc, NEW reason, NEW observes, Advances(pc, reason, observes),
         documentVersions' = documentVersions, hashes' = hashes, woken' = woken
  PROVE  /\ NothingStored /\ KeyKept /\ ClusterTypes'
         /\ clusterWorker'.pc = pc /\ clusterWorker'.reason = reason
         /\ clusterWorker'.key = clusterWorker.key /\ clusterWorker'.item = clusterWorker.item
         /\ clusterWorker.key \in Cluster /\ clusterWorker.item \in SubmittedObject
  <1>1. ClusterTypes
    BY DEF CurrentInv
  <1>2. /\ clusterWorker.pc # "idle" /\ reason \in Clusters!Reason /\ observes \in BOOLEAN
        /\ pc \in {"sync", "deleteRemote", "removeFinalizers", "updateStatus"}
        /\ Clusters!AdvanceCluster(pc, reason, observes)
    BY DEF Advances
  <1>3. /\ ClusterTypes' /\ Follows(clusterWorker, clusterWorker')
        /\ clusterWorker'.pc = pc /\ clusterWorker'.reason = reason
        /\ clusterWorker'.key = clusterWorker.key /\ clusterWorker'.item = clusterWorker.item
        /\ UNCHANGED <<clusterVersions, clusterQueue, connectionVersions>>
    BY <1>1, <1>2, AdvanceWorker
  <1>4. \A c \in Cluster : Busy(clusterWorker, c) => Busy(clusterWorker', c)
    BY <1>2, <1>3 DEF Busy
  <1>5. NothingStored /\ KeyKept
    BY <1>3, <1>4 DEF NothingStored, KeyKept
  <1>6. clusterWorker.key \in Cluster /\ clusterWorker.item \in SubmittedObject
    BY <1>1, <1>2, ClustersTracked
  <1> QED  BY <1>3, <1>5, <1>6

(* A call that ends in an error, or goes on with a deletion, before it has  *)
(* anything to sync.                                                        *)
LEMMA CallGivesUp ==
  ASSUME NEW S \in SUBSET Cluster, CurrentInv(S),
         NEW pc, NEW reason, NEW observes, Advances(pc, reason, observes),
         reason # "Synced", pc # "sync",
         pc # "updateStatus" => clusterWorker.item.deleting,
         inputs' = <<>>, documentVersions' = documentVersions, omni' = omni,
         templates' = templates, hashes' = hashes, woken' = woken
  PROVE  CurrentInv(S)'
  <1>1. /\ NothingStored /\ KeyKept /\ ClusterTypes'
        /\ clusterWorker'.pc = pc /\ clusterWorker'.reason = reason
        /\ clusterWorker'.item = clusterWorker.item
    BY AdvanceKeeps
  <1>2. TemplatesHeld' /\ OthersKeepTemplates(S)
    BY DEF CurrentInv, TemplatesHeld, OthersKeepTemplates
  <1>3. CallInOrder'
    BY <1>1 DEF CallInOrder
  <1>4. \A i \in 1 .. Len(inputs') : FALSE
    BY NoInputs
  <1>5. clusterWorker'.pc # "sync" /\ ~HasSynced'
    BY <1>1 DEF HasSynced
  <1>6. CallUpToDate'
    BY <1>4, <1>5 DEF CallUpToDate
  <1> QED  BY <1>1, <1>2, <1>3, <1>6, WorkerGoesOn

(* templateInputs or Render returns an error. *)
LEMMA CurrentRenderFails ==
  ASSUME NEW S \in SUBSET Cluster, CurrentInv(S), Clusters!RenderFails, inputs' = <<>>,
         documentVersions' = documentVersions, templates' = templates, hashes' = hashes,
         woken' = woken
  PROVE  CurrentInv(S)'
  <1>1. PICK reason \in {"MissingTemplate", "ValidationFailed"} :
          Clusters!AdvanceCluster("updateStatus", reason, TRUE)
    BY DEF Clusters!RenderFails
  <1>2. clusterWorker.pc = "getConnection" /\ omni' = omni
    BY DEF Clusters!RenderFails
  <1>3. Advances("updateStatus", reason, TRUE)
    BY <1>1, <1>2 DEF Advances, Clusters!Reason
  <1> QED  BY <1>2, <1>3, CallGivesUp

(* The connection is not there, or it is and the cluster is to be deleted. *)
LEMMA CurrentGetConnection ==
  ASSUME NEW S \in SUBSET Cluster, CurrentInv(S),
         Clusters!MissingConnection \/ Clusters!FoundConnectionForDelete,
         inputs' = inputs, documentVersions' = documentVersions, templates' = templates,
         hashes' = hashes, woken' = woken
  PROVE  CurrentInv(S)'
  <1>1. clusterWorker.pc = "getConnection" /\ omni' = omni /\ inputs' = <<>>
    BY DEF Clusters!MissingConnection, Clusters!FoundConnectionForDelete, CurrentInv, CallInOrder,
       AtTemplateInputs
  <1>2. CASE Clusters!MissingConnection
    <2> DEFINE reason == IF clusterWorker.item.deleting THEN "DeleteFailed"
                                                        ELSE "MissingConnection"
    <2>1. Clusters!AdvanceCluster("updateStatus", reason, TRUE)
      BY <1>2 DEF Clusters!MissingConnection
    <2>2. reason \in Clusters!Reason /\ reason # "Synced"
      BY DEF Clusters!Reason
    <2> HIDE DEF reason
    <2>3. Advances("updateStatus", reason, TRUE)
      BY <1>1, <2>1, <2>2 DEF Advances
    <2> QED  BY <1>1, <2>2, <2>3, CallGivesUp
  <1>3. CASE Clusters!FoundConnectionForDelete
    <2>1. Advances("deleteRemote", "None", TRUE) /\ clusterWorker.item.deleting
      BY <1>1, <1>3 DEF Clusters!FoundConnectionForDelete, Advances, Clusters!Reason
    <2> QED  BY <1>1, <2>1, CallGivesUp
  <1> QED  BY <1>2, <1>3

(* A list in some order is a sequence. *)
LEMMA OrderIsSequence ==
  ASSUME NEW D, NEW S \in SUBSET D, IsFiniteSet(S), NEW p \in Orders(S)
  PROVE  p \in Seq(D)
  <1>1. Cardinality(S) \in Nat
    BY FS_CardinalityType
  <1>2. p \in [1 .. Cardinality(S) -> S]
    BY DEF Orders, Bijection, Injection
  <1> QED  BY <1>1, <1>2

(* What documents are rendered to *)
LEMMA EntryOfDocument ==
  ASSUME NEW e \in DocumentInput
  PROVE  RenderDocument(e) \in TemplateEntry
  <1>1. PICK d \in Document, object \in DocumentObject : e = AsInput(d, object)
    BY DEF DocumentInput
  <1>2. object.spec \in AnySpec
    BY ReferenceType
  <1>3. e = [kind |-> d.kind, name |-> d.name, spec |-> object.spec]
    BY <1>1 DEF AsInput
  <1> QED  BY <1>2, <1>3 DEF TemplateEntry

(* A template is a sequence of what a cluster and its documents are         *)
(* rendered to.                                                             *)
LEMMA RenderingType ==
  ASSUME NEW D, NEW c, NEW name \in Clusters!Remote, NEW s \in Specs,
         \A kind \in {"ControlPlane", "Workers", "Machine"} :
           /\ Selected(D, kind, c) \subseteq DocumentInput
           /\ IsFiniteSet(Selected(D, kind, c)),
         NEW r \in Renderings(D, c, name, Manifests[s])
  PROVE  r # Absent
  <1> DEFINE head == <<RenderCluster(name, Manifests[s])>>
             body(x) == [i \in DOMAIN x |-> RenderDocument(x[i])]
  <1>1. Renderings(D, c, name, Manifests[s]) = {head \o body(x) : x \in RenderOrders(D, c)}
    BY Zenon DEF Renderings
  <1>2. head \in Seq(TemplateEntry)
    <2>1. RenderCluster(name, Manifests[s]) \in TemplateEntry
      BY DEF TemplateEntry
    <2> QED  BY <2>1
  <1> HIDE DEF head
  <1>3. PICK x \in RenderOrders(D, c) : r = head \o body(x)
    BY <1>1
  <1>4. IsJoin(x, D, c)
    BY OrderParts
  <1>5. PICK p \in Orders(Selected(D, "ControlPlane", c)),
             w \in Sorted(Selected(D, "Workers", c)),
             m \in Sorted(Selected(D, "Machine", c)) : x = p \o w \o m
    BY <1>4, Zenon DEF IsJoin
  <1>6. p \in Seq(DocumentInput)
    BY OrderIsSequence
  <1>7. w \in Orders(Selected(D, "Workers", c)) /\ m \in Orders(Selected(D, "Machine", c))
    BY DEF Sorted
  <1>8. w \in Seq(DocumentInput) /\ m \in Seq(DocumentInput)
    BY <1>7, OrderIsSequence
  <1>9. x \in Seq(DocumentInput)
    BY <1>5, <1>6, <1>8
  <1>10. body(x) \in Seq(TemplateEntry)
    <2>1. \A i \in 1 .. Len(x) : RenderDocument(x[i]) \in TemplateEntry
      BY <1>9, EntryOfDocument
    <2>2. DOMAIN x = 1 .. Len(x) /\ Len(x) \in Nat
      BY <1>9
    <2> QED  BY <2>1, <2>2
  <1> HIDE DEF body
  <1>11. r \in Seq(TemplateEntry)
    BY <1>2, <1>3, <1>10
  <1> QED  BY <1>11, AbsentTemplateAssumption

(* What is rendered is up to date when the lists are. *)
LEMMA RenderedIsUpToDate ==
  ASSUME NEW S \in SUBSET Cluster, CurrentInv(S),
         InputsInv, AtRender, NEW r \in ItemRenderings
  PROVE  /\ r # Absent
         /\ UpToDate(r, clusterWorker.key, clusterWorker.item.spec)
  <1>1. AtTemplateInputs /\ Len(inputs) = 3
    BY DEF AtRender, Kinds
  <1>2. clusterWorker.key \in Cluster /\ clusterWorker.item \in SubmittedObject
    BY <1>1, ClustersTracked DEF AtTemplateInputs, CurrentInv
  <1>3. PICK c, s, name, D, l :
          /\ c = clusterWorker.key /\ s = clusterWorker.item.spec
          /\ name = Clusters!ClusterName(c, s) /\ D = Inputs /\ l = inputs
    OBVIOUS
  <1>4. c \in Cluster /\ s \in Specs /\ name \in Clusters!Remote
    BY <1>2, <1>3, SubmittedFields, SubmittedTarget
  <1>5. r \in Renderings(D, c, name, Manifests[s])
    BY <1>3 DEF ItemRenderings, ItemManifests
  <1>6. ASSUME NEW i \in 1 .. 3
        PROVE  /\ Selected(D, Kinds[i], c) = Selected(l[i], Kinds[i], c)
               /\ IsFiniteSet(Selected(D, Kinds[i], c))
               /\ Selected(D, Kinds[i], c) \subseteq DocumentInput
               /\ Informed(c) \/ Selected(D, Kinds[i], c) = Selected(StoredDocuments, Kinds[i], c)
    <2>1. /\ Selected(D, Kinds[i], c) = Selected(l[i], Kinds[i], c)
          /\ IsFiniteSet(Selected(l[i], Kinds[i], c))
      BY <1>1, <1>3, SelectedFromList
    <2>2. l[i] \in SUBSET DocumentInput
      BY <1>1, <1>3 DEF InputsInv
    <2>3. Selected(l[i], Kinds[i], c) \subseteq l[i]
      BY DEF Selected
    <2>4. ListUpToDate(l[i], Kinds[i], c)
      BY <1>1, <1>3 DEF CurrentInv, CallUpToDate
    <2> QED  BY <2>1, <2>2, <2>3, <2>4 DEF ListUpToDate
  <1>7. Kinds[1] = "ControlPlane" /\ Kinds[2] = "Workers" /\ Kinds[3] = "Machine"
    BY DEF Kinds
  <1>8. ASSUME NEW kind \in {"ControlPlane", "Workers", "Machine"}
        PROVE  \E i \in 1 .. 3 : kind = Kinds[i]
    BY <1>7
  <1>9. \A kind \in {"ControlPlane", "Workers", "Machine"} :
          /\ Selected(D, kind, c) \subseteq DocumentInput
          /\ IsFiniteSet(Selected(D, kind, c))
          /\ Informed(c) \/ Selected(D, kind, c) = Selected(StoredDocuments, kind, c)
    BY <1>6, <1>8
  <1>10. r # Absent
    BY <1>4, <1>5, <1>9, RenderingType
  <1>11. CASE Informed(c)
    BY <1>3, <1>10, <1>11 DEF UpToDate
  <1>12. CASE ~Informed(c)
    <2>1. PICK E : E = StoredDocuments
      OBVIOUS
    <2>2. /\ Selected(D, "ControlPlane", c) = Selected(E, "ControlPlane", c)
          /\ Selected(D, "Workers", c) = Selected(E, "Workers", c)
          /\ Selected(D, "Machine", c) = Selected(E, "Machine", c)
      BY <1>9, <1>12, <2>1
    <2>3. Renderings(D, c, name, Manifests[s]) = Renderings(E, c, name, Manifests[s])
      BY <2>2, SameRenderings
    <2>4. r \in Renderings(StoredDocuments, c, Clusters!ClusterName(c, s), Manifests[s])
      BY <1>3, <1>5, <2>1, <2>3
    <2> QED  BY <1>3, <1>10, <2>4 DEF UpToDate
  <1> QED  BY <1>11, <1>12

(* Render succeeds. *)
LEMMA CurrentRenderTemplate ==
  ASSUME NEW S \in SUBSET Cluster, CurrentInv(S), InputsInv, RenderTemplate
  PROVE  CurrentInv(S)'
  <1>1. /\ AtRender /\ rendered' \in ItemRenderings /\ inputs' = <<>>
        /\ documentVersions' = documentVersions /\ templates' = templates
        /\ hashes' = hashes /\ woken' = woken
        /\ Clusters!RenderFails \/ Clusters!RenderSucceeds
    BY DEF RenderTemplate, documentVars
  <1>2. CASE Clusters!RenderFails
    BY <1>1, <1>2, CurrentRenderFails
  <1>3. CASE Clusters!RenderSucceeds
    <2>1. Advances("sync", "None", TRUE) /\ omni' = omni
      BY <1>3 DEF Clusters!RenderSucceeds, Advances, Clusters!Reason
    <2>2. /\ NothingStored /\ KeyKept /\ ClusterTypes'
          /\ clusterWorker'.pc = "sync" /\ clusterWorker'.reason = "None"
          /\ clusterWorker'.key = clusterWorker.key /\ clusterWorker'.item = clusterWorker.item
          /\ clusterWorker.key \in Cluster
      BY <1>1, <2>1, AdvanceKeeps
    <2>3. TemplatesHeld' /\ OthersKeepTemplates(S)
      BY <1>1, <2>1 DEF CurrentInv, TemplatesHeld, OthersKeepTemplates
    <2>4. CallInOrder'
      BY <1>1, <2>2 DEF CallInOrder
    <2>5. \A i \in 1 .. Len(inputs') : FALSE
      BY <1>1, NoInputs
    <2>6. ~HasSynced'
      BY <2>2 DEF HasSynced
    <2>7. PICK r, c, s : r = rendered' /\ c = clusterWorker.key /\ s = clusterWorker.item.spec
      OBVIOUS
    <2>8. r # Absent /\ UpToDate(r, c, s)
      BY <1>1, <2>7, RenderedIsUpToDate
    <2>9. StaysInformed(c)
      BY <1>1, DocumentsStill DEF CurrentInv
    <2>10. UpToDate(r, c, s)'
      BY <2>8, <2>9, UpToDateStays
    <2>11. rendered' # Absent /\ UpToDate(rendered, clusterWorker.key, clusterWorker.item.spec)'
      BY <2>2, <2>7, <2>8, <2>10
    <2>12. CallUpToDate'
      BY <2>5, <2>6, <2>11 DEF CallUpToDate
    <2> QED  BY <2>2, <2>3, <2>4, <2>12, WorkerGoesOn
  <1> QED  BY <1>1, <1>2, <1>3

(* One place of Omni is written. *)
LEMMA PlaceWritten ==
  ASSUME NEW f, f = [t \in Target |-> f[t]], NEW p \in Target, NEW x,
         NEW g, g = [f EXCEPT ![p] = x]
  PROVE  /\ g = [t \in Target |-> g[t]] /\ g[p] = x
         /\ \A t \in Target \ {p} : g[t] = f[t]
  OBVIOUS

(* Where the worker works, there are a template and a remote cluster. *)
LEMMA ItemPlace ==
  ASSUME NEW S \in SUBSET Cluster, CurrentInv(S), clusterWorker.pc # "idle"
  PROVE  /\ clusterWorker.key \in Cluster /\ Clusters!ItemTarget \in Target
         /\ [by |-> Clusters!Incarnation, gen |-> clusterWorker.item.gen] # Absent
  <1>1. clusterWorker.key \in Cluster /\ clusterWorker.item \in SubmittedObject
    BY ClustersTracked DEF CurrentInv
  <1>2. /\ clusterWorker.item.spec \in Specs /\ clusterWorker.item.uid \in Nat
        /\ clusterWorker.item.gen \in Nat
    BY <1>1, SubmittedFields
  <1>3. Clusters!ItemTarget \in Target
    BY <1>1, <1>2, SubmittedTarget DEF Clusters!ItemTarget
  <1>4. [by |-> Clusters!Incarnation, gen |-> clusterWorker.item.gen] \in Clusters!RemoteCluster
    BY <1>1, <1>2 DEF Clusters!Incarnation, Clusters!RemoteCluster
  <1> QED  BY <1>1, <1>3, <1>4, ClustersAssumption

(* The other clusters that are stored are at other places. *)
LEMMA OthersApart ==
  ASSUME NEW S \in SUBSET Cluster, CurrentInv(S),
         TargetsApart(S), clusterWorker.pc \in {"sync", "deleteRemote"},
         \A t \in Target \ {Clusters!ItemTarget} : templates'[t] = templates[t]
  PROVE  OthersKeepTemplates(S)
  <1> SUFFICES ASSUME NEW c \in S, ~Busy(clusterWorker, c),
                      Stored(clusterVersions[c]) # Absent
               PROVE  templates'[Place(c)] = templates[Place(c)]
    BY DEF OthersKeepTemplates
  <1>1. Stored(clusterVersions[c]) \in SubmittedObject
    BY ClustersTracked DEF CurrentInv, SubmittedVersion
  <1>2. Place(c) \in Target
    BY <1>1, SubmittedFields, SubmittedTarget DEF Place
  <1>3. c # clusterWorker.key
    BY DEF Busy
  <1> QED  BY <1>2, <1>3 DEF TargetsApart

(* Omni takes the template. *)
LEMMA TemplateApplied ==
  ASSUME NEW S \in SUBSET Cluster, CurrentInv(S),
         clusterWorker.pc = "sync", templates' = Applied, omni' = Clusters!Applied,
         hashes' = hashes
  PROVE  /\ TemplatesHeld' /\ templates'[Clusters!ItemTarget] = rendered
         /\ \A t \in Target \ {Clusters!ItemTarget} : templates'[t] = templates[t]
  <1>1. PICK p, x, r : /\ p = Clusters!ItemTarget /\ r = rendered
                       /\ x = [by |-> Clusters!Incarnation, gen |-> clusterWorker.item.gen]
    OBVIOUS
  <1>2. p \in Target /\ x # Absent
    BY <1>1, ItemPlace
  <1>3. r # Absent
    BY <1>1 DEF CurrentInv, CallUpToDate
  <1>4. templates' = [templates EXCEPT ![p] = r] /\ omni' = [omni EXCEPT ![p] = x]
    BY <1>1 DEF Applied, Clusters!Applied
  <1>5. /\ templates = [t \in Target |-> templates[t]] /\ omni = [t \in Target |-> omni[t]]
        /\ hashes = [c \in Cluster |-> hashes[c]]
        /\ \A t \in Target : templates[t] = Absent <=> omni[t] = Absent
    BY DEF CurrentInv, TemplatesHeld
  <1>6. /\ templates' = [t \in Target |-> templates'[t]] /\ templates'[p] = r
        /\ \A t \in Target \ {p} : templates'[t] = templates[t]
    BY <1>2, <1>4, <1>5, PlaceWritten
  <1>7. /\ omni' = [t \in Target |-> omni'[t]] /\ omni'[p] = x
        /\ \A t \in Target \ {p} : omni'[t] = omni[t]
    BY <1>2, <1>4, <1>5, PlaceWritten
  <1>8. \A t \in Target : templates'[t] = Absent <=> omni'[t] = Absent
    BY <1>2, <1>3, <1>5, <1>6, <1>7
  <1>9. TemplatesHeld'
    BY <1>5, <1>6, <1>7, <1>8 DEF TemplatesHeld
  <1> QED  BY <1>1, <1>6, <1>9

(* SyncTemplate returns. *)
LEMMA CurrentSyncTemplate ==
  ASSUME NEW S \in SUBSET Cluster, CurrentInv(S), TargetsApart(S), SyncTemplate
  PROVE  CurrentInv(S)'
  <1>1. /\ clusterWorker.pc = "sync" /\ documentVersions' = documentVersions
        /\ inputs' = inputs /\ rendered' = rendered /\ hashes' = hashes /\ woken' = woken
    BY DEF SyncTemplate, Clusters!SyncTemplateSucceeds, Clusters!SyncTemplateFails,
       documentVars, callVars
  <1>2. PICK reason \in {"Synced", "StatusFailed", "SyncFailed"} :
          /\ Clusters!AdvanceCluster("updateStatus", reason, TRUE)
          /\ reason = "Synced" => templates' = Applied /\ omni' = Clusters!Applied
    BY DEF SyncTemplate, Clusters!SyncTemplateSucceeds, Clusters!SyncTemplateFails
  <1>3. \/ templates' = templates /\ omni' = omni
        \/ templates' = Applied /\ omni' = Clusters!Applied
    BY DEF SyncTemplate, Clusters!SyncTemplateSucceeds, Clusters!SyncTemplateFails
  <1>4. Advances("updateStatus", reason, TRUE)
    BY <1>1, <1>2 DEF Advances, Clusters!Reason
  <1>5. /\ NothingStored /\ KeyKept /\ ClusterTypes'
        /\ clusterWorker'.pc = "updateStatus" /\ clusterWorker'.reason = reason
        /\ clusterWorker'.key = clusterWorker.key /\ clusterWorker'.item = clusterWorker.item
        /\ clusterWorker.key \in Cluster
    BY <1>1, <1>4, AdvanceKeeps
  <1>6. TemplatesHeld' /\ \A t \in Target \ {Clusters!ItemTarget} : templates'[t] = templates[t]
    <2>1. CASE templates' = templates /\ omni' = omni
      BY <1>1, <2>1 DEF CurrentInv, TemplatesHeld
    <2>2. CASE templates' = Applied /\ omni' = Clusters!Applied
      BY <1>1, <2>2, TemplateApplied
    <2> QED  BY <1>3, <2>1, <2>2
  <1>7. OthersKeepTemplates(S)
    BY <1>1, <1>6, OthersApart
  <1>8. inputs' = <<>>
    BY <1>1 DEF CurrentInv, CallInOrder, AtTemplateInputs
  <1>9. CallInOrder'
    BY <1>5, <1>8 DEF CallInOrder
  <1>10. \A i \in 1 .. Len(inputs') : FALSE
    BY <1>8, NoInputs
  <1>11. PICK r, c, s : r = rendered /\ c = clusterWorker.key /\ s = clusterWorker.item.spec
    OBVIOUS
  <1>12. r # Absent /\ UpToDate(r, c, s)
    BY <1>1, <1>11 DEF CurrentInv, CallUpToDate
  <1>13. StaysInformed(c)
    BY <1>1, DocumentsStill DEF CurrentInv
  <1>14. UpToDate(r, c, s)'
    BY <1>12, <1>13, UpToDateStays
  <1>15. rendered' # Absent /\ UpToDate(rendered, clusterWorker.key, clusterWorker.item.spec)'
    BY <1>1, <1>5, <1>11, <1>12, <1>14
  <1>16. HasSynced' => templates'[Clusters!ItemTarget'] = rendered'
    <2>1. Clusters!ItemTarget' = Clusters!ItemTarget
      BY <1>5 DEF Clusters!ItemTarget, Clusters!Target, Clusters!ClusterName
    <2>2. HasSynced' => templates'[Clusters!ItemTarget] = rendered
      BY <1>1, <1>2, <1>5, TemplateApplied DEF HasSynced
    <2> QED  BY <1>1, <2>1, <2>2
  <1>17. CallUpToDate'
    BY <1>10, <1>15, <1>16 DEF CallUpToDate
  <1> QED  BY <1>5, <1>6, <1>7, <1>9, <1>17, WorkerGoesOn

(* DeleteCluster returns. *)
LEMMA CurrentDeleteRemote ==
  ASSUME NEW S \in SUBSET Cluster, CurrentInv(S), TargetsApart(S), DeleteRemote
  PROVE  CurrentInv(S)'
  <1>1. /\ clusterWorker.pc = "deleteRemote" /\ documentVersions' = documentVersions
        /\ inputs' = inputs /\ hashes' = hashes /\ woken' = woken
        /\ omni' \in {omni, [omni EXCEPT ![Clusters!ItemTarget] = Absent]}
        /\ templates' = [t \in Target |-> IF omni'[t] = Absent THEN Absent ELSE templates[t]]
    BY DEF DeleteRemote, Clusters!DeleteRemoteSucceeds, Clusters!DeleteRemoteFails,
       documentVars, callVars
  <1>2. PICK pc, reason, observes :
          /\ pc \in {"removeFinalizers", "updateStatus"} /\ reason \in {"None", "DeleteFailed"}
          /\ observes \in BOOLEAN /\ Clusters!AdvanceCluster(pc, reason, observes)
    BY DEF DeleteRemote, Clusters!DeleteRemoteSucceeds, Clusters!DeleteRemoteFails
  <1>3. Advances(pc, reason, observes)
    BY <1>1, <1>2 DEF Advances, Clusters!Reason
  <1>4. /\ NothingStored /\ KeyKept /\ ClusterTypes'
        /\ clusterWorker'.pc = pc /\ clusterWorker'.reason = reason
        /\ clusterWorker'.item = clusterWorker.item
    BY <1>1, <1>3, AdvanceKeeps
  <1>5. PICK p : p = Clusters!ItemTarget /\ p \in Target
    BY <1>1, ItemPlace
  <1>6. /\ omni = [t \in Target |-> omni[t]] /\ hashes = [c \in Cluster |-> hashes[c]]
        /\ \A t \in Target : templates[t] = Absent <=> omni[t] = Absent
    BY DEF CurrentInv, TemplatesHeld
  <1>7. /\ omni' = [t \in Target |-> omni'[t]]
        /\ \A t \in Target \ {p} : omni'[t] = omni[t]
        /\ omni'[p] \in {omni[p], Absent}
    <2>1. CASE omni' = omni
      BY <1>6, <2>1
    <2>2. CASE omni' = [omni EXCEPT ![p] = Absent]
      BY <1>5, <1>6, <2>2, PlaceWritten
    <2> QED  BY <1>1, <1>5, <2>1, <2>2
  <1>8. \A t \in Target : templates'[t] = IF omni'[t] = Absent THEN Absent ELSE templates[t]
    BY <1>1
  <1>9. /\ \A t \in Target : templates'[t] = Absent <=> omni'[t] = Absent
        /\ \A t \in Target \ {p} : templates'[t] = templates[t]
    BY <1>5, <1>6, <1>7, <1>8
  <1>10. templates' = [t \in Target |-> templates'[t]]
    BY <1>1
  <1>11. TemplatesHeld'
    BY <1>1, <1>6, <1>7, <1>9, <1>10 DEF TemplatesHeld
  <1>12. OthersKeepTemplates(S)
    BY <1>1, <1>5, <1>9, OthersApart
  <1>13. inputs' = <<>>
    BY <1>1 DEF CurrentInv, CallInOrder, AtTemplateInputs
  <1>14. clusterWorker.item.deleting
    BY <1>1 DEF CurrentInv, CallInOrder
  <1>15. CallInOrder'
    BY <1>4, <1>13, <1>14 DEF CallInOrder
  <1>16. \A i \in 1 .. Len(inputs') : FALSE
    BY <1>13, NoInputs
  <1>17. CallUpToDate'
    BY <1>2, <1>4, <1>16 DEF CallUpToDate, HasSynced
  <1> QED  BY <1>4, <1>11, <1>12, <1>15, <1>17, WorkerGoesOn

(* A Reconcile call returns. *)
ReturnsFrom(c) ==
  /\ clusterWorker.pc \notin {"idle", "getConnection"} /\ clusterWorker.key = c
  /\ clusterWorker' = Clusters!IdleClusterWorker
  /\ documentVersions' = documentVersions /\ inputs' = inputs
  /\ lastUid' = lastUid /\ omni' = omni /\ templates' = templates
  /\ woken \subseteq woken'

(* Nothing is left of it. *)
LEMMA CallReturned ==
  ASSUME NEW S \in SUBSET Cluster, CurrentInv(S), NEW c, ReturnsFrom(c)
  PROVE  /\ c \in Cluster /\ clusterWorker.item \in SubmittedObject
         /\ Follows(clusterWorker, clusterWorker') /\ clusterWorker'.pc = "idle"
         /\ \A b : Busy(clusterWorker, b) <=> b = c
         /\ CallInOrder' /\ CallUpToDate'
         /\ DocumentsTell' /\ \A b \in Cluster : StaysInformed(b)
  <1>1. clusterWorker'.pc = "idle"
    BY DEF ReturnsFrom, Clusters!IdleClusterWorker
  <1>2. inputs' = <<>>
    BY DEF ReturnsFrom, CurrentInv, CallInOrder, AtTemplateInputs
  <1>3. \A i \in 1 .. Len(inputs') : FALSE
    BY <1>2, NoInputs
  <1>4. CallInOrder' /\ CallUpToDate'
    BY <1>1, <1>2, <1>3 DEF CallInOrder, CallUpToDate, HasSynced
  <1>5. c \in Cluster /\ clusterWorker.item \in SubmittedObject
    BY ClustersTracked DEF ReturnsFrom, CurrentInv
  <1>6. Follows(clusterWorker, clusterWorker') /\ \A b : Busy(clusterWorker, b) <=> b = c
    BY <1>1 DEF Follows, Busy, ReturnsFrom
  <1>7. documentVersions' = documentVersions /\ DocumentsTell /\ woken \subseteq woken'
    BY DEF CurrentInv, ReturnsFrom
  <1>8. DocumentsTell' /\ \A b \in Cluster : StaysInformed(b)
    BY <1>7, DocumentsStill
  <1> QED  BY <1>1, <1>4, <1>5, <1>6, <1>8

(* It returns with an error, having written nothing. *)
LEMMA CurrentReturns ==
  ASSUME NEW S \in SUBSET Cluster, CurrentInv(S),
         NEW c, ReturnsFrom(c), clusterVersions' = clusterVersions,
         hashes' = hashes, c \in woken'
  PROVE  CurrentInv(S)'
  <1>1. NothingStored /\ KeyKept
    BY CallReturned DEF ReturnsFrom, NothingStored, KeyKept
  <1>2. OthersKeepTemplates(S) /\ TemplatesHeld'
    BY DEF ReturnsFrom, OthersKeepTemplates, TemplatesHeld, CurrentInv
  <1>3. ClusterTypes'
    BY DEF ReturnsFrom, ClusterTypes, CurrentInv
  <1> QED  BY <1>1, <1>2, <1>3, CallReturned, WorkerGoesOn

(* What is written of a cluster on the way *)
Writes(c, x) ==
  /\ x \in SubmittedVersion /\ Signalled(Stored(clusterVersions[c]), x)
  /\ clusterVersions' = Appended(clusterVersions, c, x)
  /\ hashes' = [b \in Cluster |-> hashes'[b]]
  /\ \A b \in Cluster \ {c} : hashes'[b] = hashes[b]

(* A version of c that is reported as ready will be taken up again, or is   *)
(* up to date.                                                              *)
StoresCurrent(c, x) ==
  SaysReady(x) =>
    \/ c \in woken'
    \/ LET r == templates[Clusters!Target(c, x.spec)]
       IN  UpToDate(r, c, x.spec) /\ r = hashes'[c]

(* It returns after a write to c. *)
LEMMA CurrentReturnsWith ==
  ASSUME NEW S \in SUBSET Cluster, CurrentInv(S),
         NEW c, ReturnsFrom(c), NEW x, Writes(c, x), StoresCurrent(c, x)
  PROVE  CurrentInv(S)'
  <1>1. /\ c \in Cluster /\ Follows(clusterWorker, clusterWorker')
        /\ clusterWorker'.pc = "idle" /\ \A b : Busy(clusterWorker, b) <=> b = c
        /\ CallInOrder' /\ CallUpToDate' /\ DocumentsTell'
        /\ \A b \in Cluster : StaysInformed(b)
    BY CallReturned
  <1>2. /\ clusterVersions \in VersionMaps(Cluster, SubmittedVersion)
        /\ Tracked(Cluster, SubmittedVersion, clusterVersions, clusterWorker)
    BY ClustersTracked DEF CurrentInv, ClusterTypes
  <1>3. Tracked(Cluster, SubmittedVersion, clusterVersions, clusterWorker')
    BY <1>1, <1>2, FewerFollow
  <1>4. /\ Told(clusterVersions, clusterWorker', woken', Cluster)
        /\ \A b \in Cluster \ {c} : Due(clusterVersions, clusterWorker, woken, b)
                                      => Due(clusterVersions, clusterWorker', woken', b)
    <2>1. Told(clusterVersions, clusterWorker, woken, Cluster) /\ woken \subseteq woken'
      BY DEF CurrentInv, ReturnsFrom
    <2>2. /\ Told(clusterVersions, clusterWorker', woken', Cluster)
          /\ \A b \in Cluster :
               Due(clusterVersions, clusterWorker, woken, b)
                 /\ (Busy(clusterWorker, b) => Busy(clusterWorker', b) \/ b \in woken')
                   => Due(clusterVersions, clusterWorker', woken', b)
      BY <1>1, <2>1, ToldFollow
    <2> QED  BY <1>1, <2>2
  <1>5. PICK n, u : n = Appended(clusterVersions, c, x) /\ u = clusterWorker'
    OBVIOUS
  <1>6. clusterVersions' = n /\ x \in SubmittedVersion /\ Signalled(Stored(clusterVersions[c]), x)
    BY <1>5 DEF Writes
  <1>7. /\ Told(n, u, woken', Cluster)
        /\ \A b \in Cluster : Due(clusterVersions, u, woken', b) => Due(n, u, woken', b)
        /\ Stored(n[c]) = x /\ \A b \in Cluster \ {c} : n[b] = clusterVersions[b]
    BY <1>1, <1>3, <1>4, <1>5, <1>6, ToldAppend
  <1>8. n \in VersionMaps(Cluster, SubmittedVersion)
    BY <1>1, <1>2, <1>5, <1>6, MapAppend
  <1>9. ClusterTypes'
    BY <1>6, <1>8 DEF ClusterTypes, CurrentInv, ReturnsFrom
  <1>10. TemplatesHeld' /\ templates' = templates
    BY DEF ReturnsFrom, Writes, TemplatesHeld, CurrentInv
  <1>11. ASSUME NEW b \in S \ {c}
         PROVE  Current(b)'
    <2>1. Due(clusterVersions, clusterWorker, woken, b)
            => Due(clusterVersions', clusterWorker', woken', b)
      BY <1>4, <1>5, <1>6, <1>7
    <2>2. DueSoon(b) => DueSoon(b)'
      BY <1>1, <2>1, DueStays
    <2>3. Current(b) /\ StaysInformed(b)
      BY <1>1 DEF CurrentInv
    <2>4. Stored(clusterVersions'[b]) = Stored(clusterVersions[b]) /\ hashes'[b] = hashes[b]
      BY <1>6, <1>7 DEF Writes
    <2> QED  BY <1>10, <2>2, <2>3, <2>4, CurrentStays
  <1>12. Current(c)'
    <2>1. Stored(clusterVersions'[c]) = x
      BY <1>6, <1>7
    <2>2. CASE c \in woken'
      BY <2>2 DEF Current, DueSoon, Due
    <2>3. CASE ~SaysReady(x)
      BY <2>1, <2>3 DEF Current, SaysReady
    <2>4. CASE SaysReady(x) /\ c \notin woken'
      <3>1. PICK r, s : r = templates[Clusters!Target(c, x.spec)] /\ s = x.spec
        OBVIOUS
      <3>2. UpToDate(r, c, s) /\ r = hashes'[c]
        BY <2>4, <3>1 DEF StoresCurrent
      <3>3. UpToDate(r, c, s)'
        BY <1>1, <3>2, UpToDateStays
      <3>4. r = templates'[Clusters!Target(c, x.spec)']
        BY <1>10, <3>1 DEF Clusters!Target, Clusters!ClusterName
      <3> QED  BY <2>1, <3>1, <3>2, <3>3, <3>4 DEF Current
    <2> QED  BY <2>2, <2>3, <2>4
  <1>13. Told(clusterVersions', clusterWorker', woken', Cluster)
    BY <1>5, <1>6, <1>7
  <1> QED  BY <1>1, <1>9, <1>10, <1>11, <1>12, <1>13 DEF CurrentInv

(* The status is written: what it says was synced is what is stored, or the *)
(* cluster will be taken up again.                                          *)
LEMMA CurrentUpdateStatus ==
  ASSUME NEW S \in SUBSET Cluster, CurrentInv(S), UpdateStatus
  PROVE  CurrentInv(S)'
  <1>1. PICK c, latest, status, x :
          /\ c = clusterWorker.key /\ latest = Cached(clusterVersions[c])
          /\ status = Clusters!NewStatus(latest) /\ x = [latest EXCEPT !.status = status]
    OBVIOUS
  <1>2. /\ clusterWorker.pc = "updateStatus" /\ latest # Absent
        /\ latest = Stored(clusterVersions[c])
        /\ clusterVersions' = Appended(clusterVersions, c, x)
        /\ clusterWorker' = Clusters!IdleClusterWorker
        /\ lastUid' = lastUid /\ omni' = omni
    BY <1>1 DEF UpdateStatus, Clusters!UpdateClusterStatus, Clusters!StoreCluster,
       Clusters!ClusterDone, Clusters!Cached, Clusters!Stored, Cached, Stored, Appended
  <1>3. /\ documentVersions' = documentVersions /\ inputs' = inputs /\ templates' = templates
        /\ woken \subseteq woken'
        /\ hashes' = IF rendered = Absent THEN hashes ELSE [hashes EXCEPT ![c] = rendered]
    BY <1>1 DEF UpdateStatus, documentVars
  <1>4. ReturnsFrom(c)
    BY <1>1, <1>2, <1>3 DEF ReturnsFrom
  <1>5. c \in Cluster /\ clusterWorker.item \in SubmittedObject /\ StaysInformed(c)
    BY <1>4, CallReturned
  <1>6. latest \in SubmittedObject
    BY <1>1, <1>2, <1>5, ClustersTracked DEF CurrentInv, SubmittedVersion
  <1>7. status \in [obs : Nat, reason : Clusters!Reason] /\ status.reason = clusterWorker.reason
    <2>1. clusterWorker \in Clusters!BusyClusterWorker
      BY <1>2, ClustersTracked DEF CurrentInv, SubmittedWorker
    <2>2. /\ clusterWorker.reason \in Clusters!Reason /\ clusterWorker.observes \in BOOLEAN
      BY <2>1 DEF Clusters!BusyClusterWorker
    <2>3. clusterWorker.item.gen \in Nat /\ latest.status.obs \in Nat
      BY <1>5, <1>6, SubmittedFields
    <2> QED  BY <1>1, <2>2, <2>3 DEF Clusters!NewStatus
  <1>8. /\ x \in SubmittedObject /\ SameContent(latest, x) /\ x.status = status
        /\ x.spec = latest.spec /\ x.deleting = latest.deleting
    BY <1>1, <1>6, <1>7, StatusWritten
  <1>9. hashes = [b \in Cluster |-> hashes[b]]
    BY DEF CurrentInv, TemplatesHeld
  <1>10. /\ hashes' = [b \in Cluster |-> hashes'[b]]
         /\ \A b \in Cluster \ {c} : hashes'[b] = hashes[b]
         /\ rendered # Absent => hashes'[c] = rendered
    BY <1>3, <1>5, <1>9
  <1>11. Writes(c, x)
    BY <1>2, <1>8, <1>10 DEF Writes, Signalled, SubmittedVersion
  <1>12. StoresCurrent(c, x)
    <2> SUFFICES ASSUME SaysReady(x), c \notin woken'
                 PROVE  LET r == templates[Clusters!Target(c, x.spec)]
                        IN  UpToDate(r, c, x.spec) /\ r = hashes'[c]
      BY DEF StoresCurrent
    <2>1. HasSynced
      BY <1>2, <1>7, <1>8 DEF SaysReady, HasSynced
    <2>2. WorkerTold(clusterVersions, clusterWorker, woken)
      BY DEF CurrentInv, Told
    <2>3. SameContent(clusterWorker.item, latest)
      BY <1>1, <1>2, <1>3, <2>2 DEF WorkerTold
    <2>4. x.spec = clusterWorker.item.spec
      BY <1>6, <1>8, <2>3, SubmittedFields DEF SameContent
    <2>5. /\ rendered # Absent /\ UpToDate(rendered, clusterWorker.key, clusterWorker.item.spec)
          /\ templates[Clusters!ItemTarget] = rendered
      BY <2>1 DEF CurrentInv, CallUpToDate
    <2>6. Clusters!ItemTarget = Clusters!Target(c, x.spec)
      BY <1>1, <2>4 DEF Clusters!ItemTarget
    <2>7. rendered = templates[Clusters!Target(c, x.spec)] /\ rendered = hashes'[c]
      BY <1>10, <2>5, <2>6
    <2>8. UpToDate(rendered, c, x.spec)
      BY <1>1, <2>4, <2>5
    <2> QED  BY <2>7, <2>8
  <1> QED  BY <1>4, <1>11, <1>12, CurrentReturnsWith

(* The finalizer is added, or a write fails. *)
LEMMA CurrentReturnAtOnce ==
  ASSUME NEW S \in SUBSET Cluster, CurrentInv(S), ReturnAtOnce
  PROVE  CurrentInv(S)'
  <1>1. PICK c : c = clusterWorker.key
    OBVIOUS
  <1>2. /\ documentVersions' = documentVersions /\ inputs' = inputs /\ templates' = templates
        /\ woken \subseteq woken' /\ c \in woken' /\ hashes' = hashes
    BY <1>1 DEF ReturnAtOnce, documentVars
  <1>3. /\ clusterWorker.pc \in {"addFinalizer", "removeFinalizers", "updateStatus"}
        /\ clusterWorker' = Clusters!IdleClusterWorker
        /\ lastUid' = lastUid /\ omni' = omni
    BY DEF ReturnAtOnce, Clusters!AddClusterFinalizer, Clusters!ClusterWriteFails,
       Clusters!ClusterDone
  <1>4. ReturnsFrom(c)
    BY <1>1, <1>2, <1>3 DEF ReturnsFrom
  <1>5. CASE Clusters!ClusterWriteFails
    <2>1. clusterVersions' = clusterVersions
      BY <1>5 DEF Clusters!ClusterWriteFails
    <2> QED  BY <1>2, <1>4, <2>1, CurrentReturns
  <1>6. CASE Clusters!AddClusterFinalizer
    <2>1. PICK item, fins, x :
            /\ item = clusterWorker.item /\ fins = item.fins \cup {Clusters!Finalizer}
            /\ x = [item EXCEPT !.fins = fins]
      OBVIOUS
    <2>2. /\ item = Stored(clusterVersions[c])
          /\ clusterVersions' = Appended(clusterVersions, c, x)
      BY <1>1, <1>6, <2>1 DEF Clusters!AddClusterFinalizer, Clusters!StoreCluster,
         Clusters!Stored, Stored, Appended
    <2>3. item \in SubmittedObject
      BY <1>4, <2>1, CallReturned
    <2>4. fins \in SUBSET Clusters!Finalizers
      BY <2>1, <2>3, SubmittedFields DEF Clusters!Finalizers
    <2>5. x \in SubmittedObject /\ SameContent(item, x)
      BY <2>1, <2>3, <2>4, FinalizersWritten
    <2>6. hashes = [b \in Cluster |-> hashes[b]]
      BY DEF CurrentInv, TemplatesHeld
    <2>7. Writes(c, x)
      BY <1>2, <2>2, <2>5, <2>6 DEF Writes, Signalled, SubmittedVersion
    <2>8. StoresCurrent(c, x)
      BY <1>2 DEF StoresCurrent
    <2> QED  BY <1>4, <2>7, <2>8, CurrentReturnsWith
  <1> QED  BY <1>5, <1>6 DEF ReturnAtOnce

(* The finalizers are removed. *)
LEMMA CurrentRemoveFinalizers ==
  ASSUME NEW S \in SUBSET Cluster, CurrentInv(S),
         Clusters!RemoveClusterFinalizers, UNCHANGED <<documentVars, templateVars>>
  PROVE  CurrentInv(S)'
  <1>1. PICK c, item, fins, x :
          /\ c = clusterWorker.key /\ item = clusterWorker.item
          /\ fins = item.fins \ Clusters!Finalizers
          /\ x = [item EXCEPT !.fins = fins]
    OBVIOUS
  <1>2. /\ documentVersions' = documentVersions /\ inputs' = inputs /\ templates' = templates
        /\ woken' = woken /\ hashes' = hashes
    BY DEF documentVars, templateVars, callVars
  <1>3. /\ clusterWorker.pc = "removeFinalizers"
        /\ item = Stored(clusterVersions[c])
        /\ clusterVersions' = Appended(clusterVersions, c, Clusters!Settle(x))
        /\ clusterWorker' = Clusters!IdleClusterWorker
        /\ lastUid' = lastUid /\ omni' = omni
    BY <1>1 DEF Clusters!RemoveClusterFinalizers, Clusters!StoreCluster, Clusters!ClusterDone,
       Clusters!Stored, Stored, Appended
  <1>4. ReturnsFrom(c)
    BY <1>1, <1>2, <1>3 DEF ReturnsFrom
  <1>5. item \in SubmittedObject
    BY <1>1, <1>4, CallReturned
  <1>6. fins \in SUBSET Clusters!Finalizers
    BY <1>1, <1>5, SubmittedFields
  <1>7. /\ x.deleting = item.deleting /\ Clusters!Settle(x) \in {x, Absent}
        /\ Signalled(item, Clusters!Settle(x)) /\ Clusters!Settle(x) \in SubmittedVersion
    BY <1>1, <1>5, <1>6, FinalizersWritten
  <1>8. item.deleting
    BY <1>1, <1>3 DEF CurrentInv, CallInOrder
  <1>9. hashes = [b \in Cluster |-> hashes[b]]
    BY DEF CurrentInv, TemplatesHeld
  <1>10. Writes(c, Clusters!Settle(x))
    BY <1>2, <1>3, <1>7, <1>9 DEF Writes
  <1>11. StoresCurrent(c, Clusters!Settle(x))
    BY <1>7, <1>8 DEF StoresCurrent, SaysReady
  <1> QED  BY <1>4, <1>10, <1>11, CurrentReturnsWith

-----------------------------------------------------------------------------
(* The other steps of clusters *)

(* What Reconcile starts with. *)
LEMMA BeginsWith ==
  ASSUME NEW c \in Cluster, Clusters!ReconcileCluster(c), ~Clusters!ReconcileNothing(c)
  PROVE  \E pc \in {"addFinalizer", "getConnection", "removeFinalizers", "updateStatus"},
            reason \in {"None", "Suspended"} :
           /\ clusterWorker.pc = "idle" /\ Cached(clusterVersions[c]) # Absent
           /\ pc = "removeFinalizers" => Cached(clusterVersions[c]).deleting
           /\ Clusters!BeginCluster(c, pc, reason)
  <1>1. Clusters!Cached(clusterVersions[c]) = Cached(clusterVersions[c])
    BY DEF Clusters!Cached, Cached
  <1> QED
    BY <1>1 DEF Clusters!ReconcileCluster, Clusters!ReconcileDeleteOrphan,
       Clusters!ReconcileDelete, Clusters!ReconcileNew, Clusters!ReconcileSuspended,
       Clusters!ReconcileSync, Clusters!CanReconcile

(* Reconcile begins. *)
LEMMA CurrentReconcile ==
  ASSUME NEW S \in SUBSET Cluster, CurrentInv(S), NEW c \in Cluster, Reconcile(c)
  PROVE  CurrentInv(S)'
  <1>1. /\ documentVersions' = documentVersions /\ inputs' = inputs /\ rendered' = rendered
        /\ templates' = templates /\ hashes' = hashes /\ woken' = woken \ {c}
    BY DEF Reconcile, documentVars, callVars
  <1>2. /\ clusterWorker.pc = "idle" /\ clusterVersions' = clusterVersions
        /\ lastUid' = lastUid /\ omni' = omni
    BY DEF Reconcile, Clusters!ReconcileCluster, Clusters!ReconcileNothing,
       Clusters!ReconcileDeleteOrphan, Clusters!ReconcileDelete, Clusters!ReconcileNew,
       Clusters!ReconcileSuspended, Clusters!ReconcileSync, Clusters!CanReconcile,
       Clusters!BeginCluster
  <1>3. DocumentsTell' /\ \A b \in Cluster \ {c} : StaysInformed(b)
    BY <1>1, DocumentsStill DEF CurrentInv
  <1>4. TemplatesHeld'
    BY <1>1, <1>2 DEF CurrentInv, TemplatesHeld
  <1>5. inputs' = <<>>
    BY <1>1, <1>2 DEF CurrentInv, CallInOrder, AtTemplateInputs
  <1>6. \A i \in 1 .. Len(inputs') : FALSE
    BY <1>5, NoInputs
  <1>7. ASSUME NEW b \in S \ {c},
               Due(clusterVersions, clusterWorker, woken, b)
                 => Due(clusterVersions', clusterWorker', woken', b)
        PROVE  Current(b)'
    <2>1. DueSoon(b) => DueSoon(b)'
      BY <1>3, <1>7, DueStays
    <2>2. Current(b) /\ StaysInformed(b)
      BY <1>3 DEF CurrentInv
    <2> QED  BY <1>1, <1>2, <2>1, <2>2, CurrentStays
  <1>8. Told(clusterVersions, clusterWorker, woken, Cluster)
    BY DEF CurrentInv
  <1>9. CASE Clusters!ReconcileNothing(c)
    <2>1. /\ clusterWorker' = clusterWorker
          /\ Cached(clusterVersions[c]) # Absent => Cached(clusterVersions[c]).deleting
      BY <1>9 DEF Clusters!ReconcileNothing, Clusters!Cached, Cached
    <2>2. /\ Told(clusterVersions, clusterWorker, woken \ {c}, Cluster)
          /\ \A b \in Cluster \ {c} : Due(clusterVersions, clusterWorker, woken, b)
                                        => Due(clusterVersions, clusterWorker, woken \ {c}, b)
      BY <1>2, <1>8, ToldNothing
    <2>3. \A b \in S \ {c} : Current(b)'
      BY <1>1, <1>2, <1>7, <2>1, <2>2
    <2>4. Current(c)'
      <3>1. CASE Announced(clusterVersions[c], 1)
        BY <1>2, <3>1 DEF Current, DueSoon, Due
      <3>2. CASE ~Announced(clusterVersions[c], 1)
        <4>1. SameContent(Cached(clusterVersions[c]), Stored(clusterVersions[c]))
          BY <3>2, CacheIsStored DEF CurrentInv, ClusterTypes, Told
        <4>2. ~SaysReady(Stored(clusterVersions[c]))
          BY <2>1, <4>1 DEF SameContent, SaysReady
        <4> QED  BY <1>2, <4>2 DEF Current, SaysReady
      <3> QED  BY <3>1, <3>2
    <2>5. ClusterTypes'
      BY <1>2, <2>1 DEF CurrentInv, ClusterTypes
    <2>6. CallInOrder' /\ CallUpToDate'
      BY <1>2, <1>5, <1>6, <2>1 DEF CallInOrder, CallUpToDate, HasSynced
    <2>7. Told(clusterVersions', clusterWorker', woken', Cluster)
      BY <1>1, <1>2, <2>1, <2>2
    <2> QED  BY <1>3, <1>4, <2>3, <2>4, <2>5, <2>6, <2>7 DEF CurrentInv
  <1>10. CASE ~Clusters!ReconcileNothing(c)
    <2>1. Clusters!ReconcileCluster(c)
      BY DEF Reconcile
    <2>2. PICK pc \in {"addFinalizer", "getConnection", "removeFinalizers", "updateStatus"},
               reason \in {"None", "Suspended"} :
            /\ Cached(clusterVersions[c]) # Absent
            /\ pc = "removeFinalizers" => Cached(clusterVersions[c]).deleting
            /\ Clusters!BeginCluster(c, pc, reason)
      BY <1>10, <2>1, BeginsWith
    <2>3. PICK u, item : u = clusterWorker' /\ item = Cached(clusterVersions[c])
      OBVIOUS
    <2>4. u = [pc |-> pc, key |-> c, item |-> item, reason |-> reason, observes |-> TRUE]
      BY <2>2, <2>3 DEF Clusters!BeginCluster, Clusters!Cached, Cached
    <2>5. item \in SubmittedObject
      BY <2>2, <2>3, ClustersTracked DEF CurrentInv, SubmittedVersion
    <2>6. /\ u \in SubmittedWorker /\ u.pc = pc /\ u.pc # "idle" /\ u.key = c /\ u.item = item
          /\ u.reason = reason
      BY <2>4, <2>5 DEF SubmittedWorker, Clusters!BusyClusterWorker, Clusters!Reason,
         SubmittedObject
    <2>7. /\ Told(clusterVersions, u, woken \ {c}, Cluster)
          /\ \A b \in Cluster : Due(clusterVersions, clusterWorker, woken, b)
                                  => Due(clusterVersions, u, woken \ {c}, b)
      BY <1>2, <1>8, <2>3, <2>6, ToldBegin
    <2>8. \A b \in S \ {c} : Current(b)'
      BY <1>1, <1>2, <1>7, <2>3, <2>7
    <2>9. Current(c)'
      BY <2>3, <2>6 DEF Current, DueSoon, Due, Busy
    <2>10. ClusterTypes'
      BY <1>2, <2>3, <2>6 DEF CurrentInv, ClusterTypes
    <2>11. CallInOrder'
      BY <1>5, <2>2, <2>3, <2>6 DEF CallInOrder
    <2>12. CallUpToDate'
      BY <1>6, <2>3, <2>6 DEF CallUpToDate, HasSynced
    <2>13. Told(clusterVersions', clusterWorker', woken', Cluster)
      BY <1>1, <1>2, <2>3, <2>7
    <2> QED  BY <1>3, <1>4, <2>8, <2>9, <2>10, <2>11, <2>12, <2>13 DEF CurrentInv
  <1> QED  BY <1>9, <1>10

(* The worker and Omni are left alone. *)
WorkerStill ==
  /\ clusterWorker' = clusterWorker /\ documentVersions' = documentVersions
  /\ inputs' = inputs /\ rendered' = rendered /\ templates' = templates
  /\ connectionVersions' = connectionVersions /\ omni' = omni
  /\ woken \subseteq woken'

(* What c has is left alone, or it has it from now on. *)
ClusterStill(c) ==
  \/ Stored(clusterVersions'[c]) = Stored(clusterVersions[c]) /\ hashes'[c] = hashes[c]
  \/ ~SaysReady(Stored(clusterVersions'[c]))

(* Versions of clusters come and go. *)
LEMMA CurrentVersions ==
  ASSUME NEW S \in SUBSET Cluster, CurrentInv(S),
         WorkerStill, ClusterTypes', TemplatesHeld',
         NEW m, m = clusterVersions', NEW w, w = clusterWorker, NEW q, q = woken',
         Told(m, w, q, Cluster),
         \A c \in Cluster : Due(clusterVersions, w, woken, c) => Due(m, w, q, c),
         \A c \in Cluster : ClusterStill(c)
  PROVE  CurrentInv(S)'
  <1>1. /\ clusterWorker' = clusterWorker /\ documentVersions' = documentVersions
        /\ inputs' = inputs /\ rendered' = rendered /\ templates' = templates
        /\ connectionVersions' = connectionVersions /\ omni' = omni
        /\ woken \subseteq woken'
    BY DEF WorkerStill
  <1>2. DocumentsTell' /\ \A c \in Cluster : StaysInformed(c)
    BY <1>1, DocumentsStill DEF CurrentInv
  <1>3. CallInOrder' /\ CallUpToDate'
    BY <1>1, <1>2, CallStays DEF CurrentInv
  <1>4. Told(clusterVersions', clusterWorker', woken', Cluster)
    BY <1>1
  <1>5. ASSUME NEW c \in S
        PROVE  Current(c)'
    <2>1. Due(clusterVersions, clusterWorker, woken, c)
            => Due(clusterVersions', clusterWorker', woken', c)
      BY <1>1
    <2>2. DueSoon(c) => DueSoon(c)'
      BY <1>2, <2>1, DueStays
    <2>3. CASE Stored(clusterVersions'[c]) = Stored(clusterVersions[c]) /\ hashes'[c] = hashes[c]
      <3>1. Current(c)
        BY DEF CurrentInv
      <3> QED  BY <1>1, <1>2, <2>2, <2>3, <3>1, CurrentStays
    <2>4. CASE ~SaysReady(Stored(clusterVersions'[c]))
      BY <2>4 DEF Current, SaysReady
    <2>5. ClusterStill(c)
      OBVIOUS
    <2> QED  BY <2>3, <2>4, <2>5 DEF ClusterStill
  <1> QED  BY <1>2, <1>3, <1>4, <1>5 DEF CurrentInv

(* An event of a cluster is delivered. *)
LEMMA CurrentDeliverCluster ==
  ASSUME NEW S \in SUBSET Cluster, CurrentInv(S), NEW c \in Cluster, DeliverCluster(c)
  PROVE  CurrentInv(S)'
  <1>1. PICK n, w, q : n = clusterVersions' /\ w = clusterWorker /\ q = woken'
    OBVIOUS
  <1>2. /\ n = Delivered(clusterVersions, c) /\ Len(clusterVersions[c]) > 1
        /\ lastUid' = lastUid /\ hashes' = hashes
    BY <1>1 DEF DeliverCluster, Clusters!DeliverCluster, Delivered
  <1>3. WorkerStill
    BY DEF DeliverCluster, Clusters!DeliverCluster, WorkerStill, callVars
  <1>4. Requests(clusterVersions, c, woken, q)
    BY <1>1 DEF DeliverCluster, Requests
  <1>5. /\ Tracked(Cluster, SubmittedVersion, clusterVersions, w)
        /\ clusterVersions \in VersionMaps(Cluster, SubmittedVersion)
        /\ Told(clusterVersions, w, woken, Cluster)
    BY <1>1, ClustersTracked DEF CurrentInv, ClusterTypes
  <1>6. /\ Told(n, w, q, Cluster)
        /\ \A b \in Cluster : Due(clusterVersions, w, woken, b) => Due(n, w, q, b)
        /\ \A b \in Cluster : Stored(n[b]) = Stored(clusterVersions[b])
    BY <1>2, <1>4, <1>5, ToldDeliver
  <1>7. n \in VersionMaps(Cluster, SubmittedVersion)
    BY <1>2, <1>5, MapTail
  <1>8. ClusterTypes'
    BY <1>1, <1>2, <1>3, <1>7 DEF CurrentInv, ClusterTypes, WorkerStill
  <1>9. TemplatesHeld'
    BY <1>2, <1>3 DEF CurrentInv, TemplatesHeld, WorkerStill
  <1>10. \A b \in Cluster : ClusterStill(b)
    BY <1>1, <1>2, <1>6 DEF ClusterStill
  <1> QED  BY <1>1, <1>3, <1>6, <1>8, <1>9, <1>10, CurrentVersions

(* A cluster is created or deleted by a user. *)
LEMMA CurrentUserClusterStep ==
  ASSUME NEW S \in SUBSET Cluster, CurrentInv(S), NEW c \in Cluster, UserClusterStep(c)
  PROVE  CurrentInv(S)'
  <1>1. PICK n, w, q, o : /\ n = clusterVersions' /\ w = clusterWorker /\ q = woken'
                          /\ o = Stored(clusterVersions[c])
    OBVIOUS
  <1>2. WorkerStill /\ q = woken
    BY <1>1 DEF UserClusterStep, Clusters!CreateCluster, Clusters!DeleteCluster, WorkerStill,
       documentVars, callVars
  <1>3. /\ Tracked(Cluster, SubmittedVersion, clusterVersions, w)
        /\ clusterVersions \in VersionMaps(Cluster, SubmittedVersion)
        /\ Told(clusterVersions, w, woken, Cluster)
        /\ o \in SubmittedVersion /\ lastUid \in Nat
    BY <1>1, ClustersTracked DEF CurrentInv, ClusterTypes
  <1>4. hashes = [b \in Cluster |-> hashes[b]]
    BY DEF CurrentInv, TemplatesHeld
  <1>5. /\ hashes' = [b \in Cluster |-> hashes'[b]]
        /\ \A b \in Cluster \ {c} : hashes'[b] = hashes[b]
    <2>1. hashes' = hashes \/ hashes' = [hashes EXCEPT ![c] = Absent]
      BY DEF UserClusterStep
    <2> QED  BY <1>4, <2>1
  <1>6. \E x \in SubmittedVersion :
          /\ n = Appended(clusterVersions, c, x) /\ EventPasses(o, x) /\ ~SaysReady(x)
          /\ lastUid' \in Nat
    <2>1. CASE Clusters!CreateCluster(c)
      <3>1. PICK s \in Specs :
              /\ n = Appended(clusterVersions, c, Clusters!NewCluster(lastUid + 1, s, {}))
              /\ o = Absent /\ lastUid' = lastUid + 1
        BY <1>1, <2>1 DEF Clusters!CreateCluster, Clusters!StoreCluster, Clusters!Stored, Stored,
           Appended
      <3>2. lastUid + 1 \in Nat /\ {} \in SUBSET Clusters!Finalizers
        BY <1>3
      <3>3. /\ Clusters!NewCluster(lastUid + 1, s, {}) \in SubmittedVersion
            /\ Clusters!NewCluster(lastUid + 1, s, {}).status.reason # "Synced"
        BY <3>2, NewWritten
      <3> QED  BY <3>1, <3>2, <3>3 DEF SaysReady, EventPasses
    <2>2. CASE Clusters!DeleteCluster(c)
      <3>1. PICK x : x = Clusters!Settle(Clusters!MarkedCluster(o))
        OBVIOUS
      <3>2. o # Absent /\ n = Appended(clusterVersions, c, x) /\ lastUid' = lastUid
        BY <1>1, <2>2, <3>1 DEF Clusters!DeleteCluster, Clusters!StoreCluster, Clusters!Stored,
           Stored, Appended
      <3>3. o \in SubmittedObject
        BY <1>3, <3>2 DEF SubmittedVersion
      <3>4. x \in SubmittedVersion /\ EventPasses(o, x) /\ (x # Absent => x.deleting)
        BY <3>1, <3>3, MarkedWritten
      <3> QED  BY <1>3, <3>2, <3>4 DEF SaysReady
    <2> QED  BY <2>1, <2>2 DEF UserClusterStep
  <1>7. PICK x \in SubmittedVersion :
          /\ n = Appended(clusterVersions, c, x) /\ EventPasses(o, x) /\ ~SaysReady(x)
          /\ lastUid' \in Nat
    BY <1>6
  <1>8. Signalled(Stored(clusterVersions[c]), x)
    BY <1>1, <1>7 DEF Signalled
  <1>9. /\ Told(n, w, woken, Cluster)
        /\ \A b \in Cluster : Due(clusterVersions, w, woken, b) => Due(n, w, woken, b)
        /\ Stored(n[c]) = x /\ \A b \in Cluster \ {c} : n[b] = clusterVersions[b]
    BY <1>3, <1>7, <1>8, ToldAppend
  <1>10. n \in VersionMaps(Cluster, SubmittedVersion)
    BY <1>3, <1>7, MapAppend
  <1>11. ClusterTypes'
    BY <1>1, <1>2, <1>7, <1>10 DEF CurrentInv, ClusterTypes, WorkerStill
  <1>12. TemplatesHeld'
    BY <1>2, <1>5 DEF CurrentInv, TemplatesHeld, WorkerStill
  <1>13. \A b \in Cluster : ClusterStill(b)
    BY <1>1, <1>5, <1>7, <1>9 DEF ClusterStill
  <1> QED  BY <1>1, <1>2, <1>9, <1>11, <1>12, <1>13, CurrentVersions

(* The operator restarts: every cluster that is stored has a request. *)
LEMMA CurrentRestart ==
  ASSUME NEW S \in SUBSET Cluster, CurrentInv(S), Restart
  PROVE  CurrentInv(S)'
  <1>1. PICK n, d, u, q : /\ n = clusterVersions' /\ d = documentVersions'
                          /\ u = clusterWorker' /\ q = woken'
    OBVIOUS
  <1>2. /\ n = Relisted(clusterVersions, Cluster) /\ q = Listed(clusterVersions)
        /\ u = Clusters!IdleClusterWorker /\ lastUid' = lastUid /\ omni' = omni
        /\ inputs' = <<>> /\ templates' = templates /\ hashes' = hashes
    BY <1>1 DEF Restart, Clusters!Restart, Relisted, Clusters!Stored, Stored
  <1>3. d = Relisted(documentVersions, Document)
    BY <1>1 DEF Restart, DocumentsRestart, Relisted
  <1>4. /\ clusterVersions \in VersionMaps(Cluster, SubmittedVersion)
        /\ documentVersions \in VersionMaps(Document, DocumentVersion)
    BY DEF CurrentInv, ClusterTypes, DocumentsTell, DocumentMaps
  <1>5. d \in DocumentMaps /\ \A e \in Document : Places(d[e]) = {1}
    BY <1>3, <1>4, MapRestart DEF DocumentMaps
  <1>6. DocumentsTell'
    BY <1>1, <1>5, OneVersionTells DEF DocumentsTell
  <1>7. u.pc = "idle"
    BY <1>2 DEF Clusters!IdleClusterWorker
  <1>8. /\ Told(n, u, q, Cluster)
        /\ \A c \in Cluster : /\ Stored(n[c]) = Stored(clusterVersions[c])
                              /\ Stored(clusterVersions[c]) # Absent => Due(n, u, q, c)
    BY <1>2, <1>4, <1>7, ToldRestart
  <1>9. n \in VersionMaps(Cluster, SubmittedVersion)
    BY <1>2, <1>4, MapRestart
  <1>10. ClusterTypes'
    BY <1>1, <1>2, <1>9 DEF CurrentInv, ClusterTypes
  <1>11. TemplatesHeld'
    BY <1>2 DEF CurrentInv, TemplatesHeld
  <1>12. \A i \in 1 .. Len(inputs') : FALSE
    BY <1>2, NoInputs
  <1>13. CallInOrder' /\ CallUpToDate'
    BY <1>1, <1>2, <1>7, <1>12 DEF CallInOrder, CallUpToDate, HasSynced
  <1>14. ASSUME NEW c \in S
         PROVE  Current(c)'
    <2>1. SaysReady(Stored(n[c])) => Due(n, u, q, c)
      BY <1>8 DEF SaysReady
    <2>2. Due(n, u, q, c) => DueSoon(c)'
      BY <1>1 DEF DueSoon, Due, Busy, Announced
    <2> QED  BY <1>1, <2>1, <2>2 DEF Current, SaysReady
  <1>15. Told(clusterVersions', clusterWorker', woken', Cluster)
    BY <1>1, <1>8
  <1> QED  BY <1>6, <1>10, <1>11, <1>13, <1>14, <1>15 DEF CurrentInv

-----------------------------------------------------------------------------
(* Every behaviour *)

(* The operator starts with a list of what is there. *)
LEMMA InitCurrent ==
  ASSUME NEW S \in SUBSET Cluster, Init, DocumentTypes
  PROVE  CurrentInv(S)
  <1>1. PICK n, w, q : n = clusterVersions /\ w = clusterWorker /\ q = woken
    OBVIOUS
  <1>2. /\ n \in [Cluster -> {<<Absent>>} \cup
             {<<Clusters!NewCluster(0, s, f)>> : s \in Specs, f \in InitialFinalizers}]
        /\ q = Listed(n)
    BY <1>1 DEF Init, Clusters!Init, Clusters!Listed, Clusters!Stored, Listed, Stored
  <1>3. /\ w = Clusters!IdleClusterWorker /\ lastUid = 0
        /\ omni = [t \in Target |-> Absent] /\ templates = [t \in Target |-> Absent]
        /\ hashes = [c \in Cluster |-> Absent] /\ inputs = <<>>
    BY <1>1 DEF Init, Clusters!Init, Target
  <1>4. ASSUME NEW c \in Cluster
        PROVE  \E x \in SubmittedVersion : n[c] = <<x>>
    <2>1. CASE n[c] = <<Absent>>
      BY <2>1 DEF SubmittedVersion
    <2>2. ASSUME NEW s \in Specs, NEW f \in InitialFinalizers,
                 n[c] = <<Clusters!NewCluster(0, s, f)>>
          PROVE  \E x \in SubmittedVersion : n[c] = <<x>>
      <3>1. f \in SUBSET Clusters!Finalizers /\ 0 \in Nat
        BY ClustersAssumption
      <3>2. Clusters!NewCluster(0, s, f) \in SubmittedVersion
        BY <3>1, NewWritten
      <3> QED  BY <2>2, <3>2
    <2> QED  BY <1>2, <2>1, <2>2
  <1>5. \A c \in Cluster : /\ n[c] \in Seq(SubmittedVersion) /\ n[c] # <<>>
                           /\ n[c] = <<Stored(n[c])>>
    <2> SUFFICES ASSUME NEW c \in Cluster
                 PROVE  /\ n[c] \in Seq(SubmittedVersion) /\ n[c] # <<>>
                        /\ n[c] = <<Stored(n[c])>>
      OBVIOUS
    <2>1. PICK x \in SubmittedVersion : n[c] = <<x>>
      BY <1>4
    <2> QED  BY <2>1, OneVersion DEF Stored
  <1>6. n \in VersionMaps(Cluster, SubmittedVersion)
    BY <1>2, <1>5 DEF VersionMaps
  <1>7. n = Relisted(n, Cluster)
    BY <1>2, <1>5 DEF Relisted
  <1>8. w.pc = "idle"
    BY <1>3 DEF Clusters!IdleClusterWorker
  <1>9. /\ Told(n, w, q, Cluster)
        /\ \A c \in Cluster : Stored(n[c]) # Absent => Due(n, w, q, c)
    BY <1>2, <1>6, <1>7, <1>8, ToldRestart
  <1>10. ClusterTypes
    BY <1>1, <1>3, <1>6 DEF ClusterTypes
  <1>11. TemplatesHeld
    BY <1>3 DEF TemplatesHeld
  <1>12. \A i \in 1 .. Len(inputs) : FALSE
    BY <1>3, NoInputs
  <1>13. CallInOrder /\ CallUpToDate
    BY <1>1, <1>3, <1>8, <1>12 DEF CallInOrder, CallUpToDate, HasSynced
  <1>14. \A c \in Cluster : Current(c)
    BY <1>1, <1>9 DEF Current, DueSoon, SaysReady
  <1>15. DocumentsTell
    <2>1. documentVersions \in DocumentMaps
      BY DEF DocumentTypes, DocumentMaps
    <2>2. documentVersions \in
            [Document -> {<<Absent>>} \cup {<<NewDocument(s)>> : s \in AnySpec}]
      BY DEF Init, DocumentsInit
    <2>4. ASSUME NEW d \in Document
          PROVE  Places(documentVersions[d]) = {1}
      <3>1. PICK x : documentVersions[d] = <<x>>
        BY <2>2
      <3>2. Len(documentVersions[d]) = 1
        BY <3>1
      <3> QED  BY <3>2 DEF Places
    <2> QED  BY <2>1, <2>4, OneVersionTells DEF DocumentsTell
  <1> QED  BY <1>1, <1>9, <1>10, <1>11, <1>13, <1>14, <1>15 DEF CurrentInv

(* The invariant for the clusters in S, with what it rests on *)
TemplateInv(S) == RequestInv /\ InputsInv /\ CurrentInv(S)

(* The worker keeps it. *)
LEMMA WorkerKeepsCurrent ==
  ASSUME NEW S \in SUBSET Cluster, CurrentInv(S),
         InputsInv, TargetsApart(S), ClusterWorkerStep
  PROVE  CurrentInv(S)'
  <1>1. CASE ListNextKind
    BY <1>1, CurrentListNextKind
  <1>2. CASE InputsError
    BY <1>2, CurrentRenderFails DEF InputsError, documentVars
  <1>3. CASE RenderError
    BY <1>3, CurrentRenderFails DEF RenderError, documentVars
  <1>4. CASE RenderTemplate
    BY <1>4, CurrentRenderTemplate
  <1>5. CASE SyncTemplate
    BY <1>5, CurrentSyncTemplate
  <1>6. CASE DeleteRemote
    BY <1>6, CurrentDeleteRemote
  <1>7. CASE UpdateStatus
    BY <1>7, CurrentUpdateStatus
  <1>8. CASE ReturnAtOnce
    BY <1>8, CurrentReturnAtOnce
  <1>9. CASE OtherWorkerStep
    <2>1. /\ inputs' = inputs /\ documentVersions' = documentVersions
          /\ templates' = templates /\ hashes' = hashes /\ woken' = woken
          /\ UNCHANGED <<documentVars, templateVars>>
      BY <1>9 DEF OtherWorkerStep, documentVars, templateVars, callVars
    <2>2. CASE Clusters!RemoveClusterFinalizers
      BY <2>1, <2>2, CurrentRemoveFinalizers
    <2>3. CASE Clusters!MissingConnection \/ Clusters!FoundConnectionForDelete
      BY <2>1, <2>3, CurrentGetConnection
    <2> QED  BY <1>9, <2>2, <2>3 DEF OtherWorkerStep
  <1> QED  BY <1>1, <1>2, <1>3, <1>4, <1>5, <1>6, <1>7, <1>8, <1>9 DEF ClusterWorkerStep

(* Every step keeps it. *)
LEMMA StepCurrent ==
  ASSUME NEW S \in SUBSET Cluster
  PROVE  TemplateInv(S) /\ TargetsApart(S) /\ [Next]_vars => TemplateInv(S)'
  <1> SUFFICES ASSUME RequestInv, InputsInv, CurrentInv(S), TargetsApart(S), [Next]_vars
               PROVE  CurrentInv(S)'
    <2>1. RequestInv => DocumentTypes
      BY DEF RequestInv
    <2> QED  BY <2>1, StepRequests, StepInputs DEF TemplateInv
  <1>1. CASE ClusterWorkerStep
    BY <1>1, WorkerKeepsCurrent
  <1>2. CASE DocumentStep
    <2>1. DocumentTypes /\ DocumentsTell
      BY DEF RequestInv, CurrentInv
    <2>2. DocumentsTell' /\ \A c \in Cluster : StaysInformed(c)
      BY <1>2, <2>1, DocumentStepTells
    <2>3. /\ clusterVersions' = clusterVersions /\ clusterWorker' = clusterWorker
          /\ lastUid' = lastUid /\ omni' = omni /\ templates' = templates /\ hashes' = hashes
          /\ inputs' = inputs /\ rendered' = rendered
          /\ connectionVersions' = connectionVersions /\ woken \subseteq woken'
      BY <1>2 DEF DocumentStep, clusterOnlyVars, templateVars, callVars
    <2> QED  BY <2>2, <2>3, CurrentElsewhere
  <1>3. ASSUME NEW d \in Document, DeliverChild(d)
        PROVE  CurrentInv(S)'
    <2>1. DocumentsTell' /\ \A c \in Cluster : StaysInformed(c)
      BY <1>3, DeliverChildTells DEF CurrentInv
    <2>2. /\ clusterVersions' = clusterVersions /\ clusterWorker' = clusterWorker
          /\ lastUid' = lastUid /\ omni' = omni /\ templates' = templates /\ hashes' = hashes
          /\ inputs' = inputs /\ rendered' = rendered
          /\ connectionVersions' = connectionVersions /\ woken \subseteq woken'
      BY <1>3 DEF DeliverChild, Clusters!WakeClusters, callVars
    <2> QED  BY <2>1, <2>2, CurrentElsewhere
  <1>4. CASE UNCHANGED vars
    <2>1. /\ clusterVersions' = clusterVersions /\ clusterWorker' = clusterWorker
          /\ lastUid' = lastUid /\ omni' = omni /\ templates' = templates /\ hashes' = hashes
          /\ inputs' = inputs /\ rendered' = rendered /\ documentVersions' = documentVersions
          /\ connectionVersions' = connectionVersions /\ woken \subseteq woken'
      BY <1>4 DEF vars, clusterOnlyVars, templateVars, callVars, documentVars
    <2>2. DocumentsTell' /\ \A c \in Cluster : StaysInformed(c)
      BY <2>1, DocumentsStill DEF CurrentInv
    <2> QED  BY <2>1, <2>2, CurrentElsewhere
  <1>5. ASSUME NEW c \in Cluster, Reconcile(c) \/ DeliverCluster(c) \/ UserClusterStep(c)
        PROVE  CurrentInv(S)'
    BY <1>5, CurrentReconcile, CurrentDeliverCluster, CurrentUserClusterStep
  <1>6. CASE Restart
    BY <1>6, CurrentRestart
  <1> QED  BY <1>1, <1>2, <1>3, <1>4, <1>5, <1>6 DEF Next

(* It holds at first. *)
LEMMA InitTemplate ==
  ASSUME NEW S \in SUBSET Cluster
  PROVE  Init => TemplateInv(S)
  <1> SUFFICES ASSUME Init PROVE TemplateInv(S)
    OBVIOUS
  <1>1. RequestInv /\ DocumentTypes
    BY InitRequests DEF RequestInv
  <1>2. InputsInv
    <2>1. inputs = <<>>
      BY DEF Init
    <2> QED  BY <2>1, NoInputs DEF InputsInv
  <1> QED  BY <1>1, <1>2, InitCurrent DEF TemplateInv

(* It says what TemplateIsCurrent says of the clusters in S. *)
LEMMA CurrentIsCurrent ==
  ASSUME NEW S \in SUBSET Cluster
  PROVE  TemplateInv(S) => \A c \in S : HasCurrentTemplate(c)
  <1> SUFFICES ASSUME CurrentInv(S), NEW c \in S, Clusters!ReportsReady(c), ~Pending(c)
               PROVE  LET object == Stored(clusterVersions[c])
                          template == templates[Clusters!Target(c, object.spec)]
                      IN  template \in DesiredTemplates(c) /\ template = hashes[c]
    BY DEF HasCurrentTemplate, TemplateInv
  <1>1. PICK o, r : o = Stored(clusterVersions[c]) /\ r = templates[Clusters!Target(c, o.spec)]
    OBVIOUS
  <1>2. SaysReady(o)
    BY <1>1 DEF Clusters!ReportsReady, Clusters!Stored, Stored, SaysReady
  <1>3. /\ c \notin woken /\ clusterWorker.key # c /\ ~EventComing(clusterVersions[c])
        /\ ~ChildEventComing(c)
    BY DEF Pending
  <1>4. ~Announced(clusterVersions[c], 1)
    <2>1. c \in Cluster /\ clusterVersions \in VersionMaps(Cluster, SubmittedVersion)
      BY DEF CurrentInv, ClusterTypes
    <2>2. Len(clusterVersions[c]) \in Nat
      BY <2>1, MapEnds
    <2> QED  BY <1>3, <2>2 DEF Announced, EventComing, Places
  <1>5. ~DueSoon(c) /\ ~Informed(c)
    BY <1>3, <1>4 DEF DueSoon, Due, Busy, Informed
  <1>6. Current(c)
    BY DEF CurrentInv
  <1>7. UpToDate(r, c, o.spec) /\ r = hashes[c]
    BY <1>1, <1>2, <1>5, <1>6 DEF Current
  <1>8. r \in DesiredTemplates(c)
    BY <1>1, <1>5, <1>7 DEF UpToDate, DesiredTemplates
  <1> QED  BY <1>1, <1>7, <1>8

(* A cluster whose target no other one uses is not put out of date by what  *)
(* the others do: its Ready=True means that Omni holds the template of the  *)
(* documents as they are stored, and that the status has its hash, unless a *)
(* request for it is under way.                                             *)
THEOREM TemplatesStayCurrent ==
  ASSUME NEW S \in SUBSET Cluster
  PROVE  Spec /\ []TargetsApart(S) => [](\A c \in S : HasCurrentTemplate(c))
  BY InitTemplate, StepCurrent, CurrentIsCurrent, PTL DEF Spec

(* With the names that clusters have by themselves, targets are apart. *)
LEMMA DefaultTargetsApart ==
  ASSUME \A s \in Specs : s.clusterName = Unset, TemplateInv(Cluster)
  PROVE  TargetsApart(Cluster)
  <1> SUFFICES ASSUME clusterWorker.pc \in {"sync", "deleteRemote"},
                      NEW c \in Cluster \ {clusterWorker.key},
                      Stored(clusterVersions[c]) # Absent
               PROVE  Place(c) # Clusters!ItemTarget
    BY DEF TargetsApart
  <1>1. /\ clusterWorker.item \in SubmittedObject
        /\ Stored(clusterVersions[c]) \in SubmittedObject
    BY ClustersTracked DEF TemplateInv, CurrentInv, SubmittedVersion
  <1>2. clusterWorker.item.spec \in Specs /\ Stored(clusterVersions[c]).spec \in Specs
    BY <1>1, SubmittedFields
  <1> QED  BY <1>2 DEF Place, Clusters!ItemTarget, Clusters!Target, Clusters!ClusterName

(* When no spec sets clusterName, every template is current: for every      *)
(* number of clusters and documents, with documents that come, change, move *)
(* and go while templateInputs reads its lists, stale caches, failed calls, *)
(* restarts, and clusters that are deleted and made again.                  *)
THEOREM TemplatesAreCurrent ==
  ASSUME \A s \in Specs : s.clusterName = Unset
  PROVE  Spec => []TemplateIsCurrent
  <1>1. TemplateInv(Cluster) /\ [Next]_vars => TemplateInv(Cluster)'
    BY DefaultTargetsApart, StepCurrent
  <1>2. Init => TemplateInv(Cluster)
    BY InitTemplate
  <1>3. TemplateInv(Cluster) => TemplateIsCurrent
    BY CurrentIsCurrent DEF TemplateIsCurrent
  <1> QED  BY <1>1, <1>2, <1>3, PTL DEF Spec

-----------------------------------------------------------------------------
(* Types *)

(* A request that is due at once is a request. *)
LEMMA StepWoken == woken \subseteq clusterQueue /\ [Next]_vars => (woken \subseteq clusterQueue)'
  <1> SUFFICES ASSUME woken \subseteq clusterQueue, [Next]_vars
               PROVE  woken' \subseteq clusterQueue'
    OBVIOUS
  <1>1. CASE ListNextKind \/ DocumentStep \/ UNCHANGED vars
    <2>1. woken' = woken /\ clusterQueue' = clusterQueue
      BY <1>1 DEF ListNextKind, DocumentStep, vars, clusterOnlyVars, templateVars
    <2> QED  BY <2>1
  <1>2. CASE InputsError \/ RenderError \/ RenderTemplate
    <2>1. woken' = woken /\ (Clusters!RenderFails \/ Clusters!RenderSucceeds)
      BY <1>2 DEF InputsError, RenderError, RenderTemplate
    <2> QED  BY <2>1 DEF Clusters!RenderFails, Clusters!RenderSucceeds, Clusters!AdvanceCluster
  <1>3. CASE SyncTemplate \/ DeleteRemote
    <2>1. /\ woken' = woken
          /\ \/ Clusters!SyncTemplateSucceeds \/ Clusters!SyncTemplateFails
             \/ Clusters!DeleteRemoteSucceeds \/ Clusters!DeleteRemoteFails
      BY <1>3 DEF SyncTemplate, DeleteRemote
    <2> QED  BY <2>1 DEF Clusters!SyncTemplateSucceeds, Clusters!SyncTemplateFails,
                Clusters!DeleteRemoteSucceeds, Clusters!DeleteRemoteFails,
                Clusters!AdvanceCluster
  <1>4. CASE UpdateStatus \/ ReturnAtOnce
    <2>1. woken' \subseteq woken \cup {clusterWorker.key}
      BY <1>4 DEF UpdateStatus, ReturnAtOnce
    <2>2. clusterQueue' = clusterQueue \cup {clusterWorker.key}
      BY <1>4 DEF UpdateStatus, ReturnAtOnce, Clusters!UpdateClusterStatus,
         Clusters!AddClusterFinalizer, Clusters!ClusterWriteFails, Clusters!ClusterDone
    <2> QED  BY <2>1, <2>2
  <1>5. CASE OtherWorkerStep
    BY <1>5 DEF OtherWorkerStep, templateVars, Clusters!MissingConnection,
       Clusters!FoundConnectionForDelete, Clusters!RemoveClusterFinalizers,
       Clusters!AdvanceCluster, Clusters!ClusterDone
  <1>6. ASSUME NEW c \in Cluster, Reconcile(c)
        PROVE  woken' \subseteq clusterQueue'
    <2>1. woken' = woken \ {c} /\ clusterQueue' = clusterQueue \ {c}
      BY <1>6 DEF Reconcile, Clusters!ReconcileCluster, Clusters!ReconcileNothing,
         Clusters!ReconcileDeleteOrphan, Clusters!ReconcileDelete, Clusters!ReconcileNew,
         Clusters!ReconcileSuspended, Clusters!ReconcileSync, Clusters!BeginCluster
    <2> QED  BY <2>1
  <1>7. ASSUME NEW c \in Cluster, DeliverCluster(c)
        PROVE  woken' \subseteq clusterQueue'
    <2>1. Clusters!EventPasses(clusterVersions[c][1], clusterVersions[c][2])
            <=> EventPasses(clusterVersions[c][1], clusterVersions[c][2])
      BY DEF Clusters!EventPasses, EventPasses
    <2> QED  BY <1>7, <2>1 DEF DeliverCluster, Clusters!DeliverCluster
  <1>8. ASSUME NEW c \in Cluster, UserClusterStep(c)
        PROVE  woken' \subseteq clusterQueue'
    BY <1>8 DEF UserClusterStep, Clusters!CreateCluster, Clusters!DeleteCluster
  <1>9. ASSUME NEW d \in Document, DeliverChild(d)
        PROVE  woken' \subseteq clusterQueue'
    BY <1>9 DEF DeliverChild, Clusters!WakeClusters
  <1>10. CASE Restart
    BY <1>10 DEF Restart, Clusters!Restart, Clusters!Listed, Clusters!Stored, Listed, Stored
  <1> QED  BY <1>1, <1>2, <1>3, <1>4, <1>5, <1>6, <1>7, <1>8, <1>9, <1>10
           DEF Next, ClusterWorkerStep

(* What the invariants say of the types. *)
LEMMA TypesFromInvariants ==
  ASSUME TemplateInv({}), woken \subseteq clusterQueue
  PROVE  TypeOK
  <1>1. DocumentTypes /\ InputsInv /\ TemplatesHeld
    BY DEF TemplateInv, RequestInv, CurrentInv
  <1>2. ASSUME NEW d \in Document
        PROVE  /\ documentVersions[d] # <<>>
               /\ \A i \in DOMAIN documentVersions[d] :
                    documentVersions[d][i] \in DocumentObject \cup {Absent}
    <2>1. documentVersions[d] \in Seq(DocumentVersion) /\ documentVersions[d] # <<>>
      BY <1>1 DEF DocumentTypes, VersionMaps
    <2> QED  BY <2>1 DEF DocumentVersion
  <1>3. /\ Len(inputs) <= Len(Kinds)
        /\ \A i \in DOMAIN inputs : \A d \in inputs[i] : d.kind = Kinds[i]
    <2>1. /\ inputs \in Seq(SUBSET DocumentInput) /\ Len(inputs) <= 3
          /\ \A i \in 1 .. Len(inputs) : \A d \in inputs[i] : d.kind = Kinds[i]
      BY <1>1 DEF InputsInv
    <2>2. DOMAIN inputs = 1 .. Len(inputs) /\ Len(Kinds) = 3
      BY <2>1 DEF Kinds
    <2> QED  BY <2>1, <2>2
  <1>4. \A t \in Target : templates[t] = Absent <=> omni[t] = Absent
    BY <1>1 DEF TemplatesHeld
  <1>5. /\ documentQueue \subseteq {d \in Document : d.kind \in Reconciled}
        /\ suppressed \subseteq Document /\ edits \in Nat
    BY <1>1 DEF DocumentTypes
  <1> QED  BY <1>2, <1>3, <1>4, <1>5 DEF TypeOK

(* The types of the composition are kept, and Omni has a template exactly   *)
(* where it has a remote cluster, whoever syncs and deletes there.          *)
THEOREM CompositionTypeCorrect == Spec => []TypeOK
  <1>1. Init => TemplateInv({}) /\ woken \subseteq clusterQueue
    <2>1. Init => woken \subseteq clusterQueue
      BY DEF Init
    <2> QED  BY <2>1, InitTemplate
  <1>2. TemplateInv({}) /\ [Next]_vars => TemplateInv({})'
    <2>1. TargetsApart({})
      BY DEF TargetsApart
    <2> QED  BY <2>1, StepCurrent
  <1>3. TemplateInv({}) /\ woken \subseteq clusterQueue => TypeOK
    BY TypesFromInvariants
  <1> QED  BY <1>1, <1>2, <1>3, StepWoken, PTL DEF Spec

=============================================================================
