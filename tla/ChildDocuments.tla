--------------------------- MODULE ChildDocuments ---------------------------
(***************************************************************************)
(* The child documents of OmniClusters (OmniControlPlane, OmniWorkers and  *)
(* OmniMachine), the users who edit them, their informers, and the three   *)
(* reconcilers that write their Accepted condition                         *)
(* (internal/controller/omni{controlplane,workers,machine}_controller.go,  *)
(* child_status.go and child_watch.go).                                    *)
(*                                                                         *)
(* A document is a sequence of versions (ObjectVersions), and so is the    *)
(* OmniCluster, whose versions another module moves.  No finalizer holds a *)
(* document: a deleted one is gone at once.  The three reconcilers are one *)
(* piece of code three times over, each with a queue and a worker.         *)
(***************************************************************************)
EXTENDS ObjectVersions, ClusterTemplate

CONSTANTS
  Cluster,          \* names of OmniClusters
  Document,         \* kinds and names of child documents
  DocumentSpecs,    \* [Document -> the specs that users submit]
  DocumentOps,      \* what users do with documents
  Touched,          \* the documents they do it with; the others are there
  Reconciled,       \* the kinds whose reconciler runs in this instance
  MaxEdits,         \* bound on the number of things they do
  MaxDocumentLag    \* bound on watch events on their way for one document

Kind == {"ControlPlane", "Workers", "Machine"}

ASSUME DocumentAssumption ==
  /\ \A d \in Document : d.kind \in Kind /\ d.name \in Nat
  /\ DocumentOps \subseteq {"CreateDocument", "UpdateDocument", "DeleteDocument"}
  /\ Touched \subseteq Document
  /\ Reconciled \subseteq Kind
  /\ MaxEdits \in Nat /\ MaxDocumentLag \in Nat \ {0}

AnySpec == UNION {DocumentSpecs[d] : d \in Document}

(* No cluster has the name in clusterRef. *)
Dangling == {s.clusterRef : s \in AnySpec} \ Cluster

DocumentStatus ==
  [obs : 0 .. MaxEdits + 1, clusterRef : Cluster \cup Dangling \cup {Unset},
   name : Nat \cup {Unset}, accepted : BOOLEAN \cup {Unset}]

DocumentObject ==
  [gen : 1 .. MaxEdits + 1, spec : AnySpec, deleting : {FALSE},
   status : DocumentStatus]

ASSUME AbsentDocumentAssumption ==
  Absent \notin Document /\ Absent \notin DocumentObject

ASSUME FiniteDocumentsAssumption == IsFiniteSet(Document)

ASSUME SpecNamesAssumption == \A s \in AnySpec : s.setName \in Nat \cup {Unset}

VARIABLES
  documentVersions,  \* [Document -> Seq(DocumentObject \cup {Absent})]
  documentQueue,     \* the workqueues of the three controllers
  documentWorkers,   \* [Kind -> the one running Reconcile call]
  suppressed,        \* history: documents whose last status write was skipped
                     \* because of a status in the cache that was out of date
  edits,             \* the number of things users have done, for MaxEdits
  clusterVersions    \* [Cluster -> Seq(version)]

documentVars ==
  <<documentVersions, documentQueue, documentWorkers, suppressed, edits>>

-----------------------------------------------------------------------------
(* Documents *)

(* A document as the template sees it *)
AsInput(d, object) == [kind |-> d.kind, name |-> d.name, spec |-> object.spec]

(* Mutant: the documents of all kinds are listed. *)
ListDocumentsMutant(kind) ==
  {AsInput(d, Cached(documentVersions[d])) :
     d \in {x \in Document : Cached(documentVersions[x]) # Absent}}

(* What a List of one kind returns *)
ListDocuments(kind) ==
  {AsInput(d, Cached(documentVersions[d])) :
     d \in {x \in Document : /\ x.kind = kind
                             /\ Cached(documentVersions[x]) # Absent}}

(* What is stored, of all kinds *)
StoredDocuments ==
  {AsInput(d, Stored(documentVersions[d])) : d \in Listed(documentVersions)}

(* controlPlaneRequestsForCluster, workersRequestsForCluster and            *)
(* machineRequestsForCluster, from the caches of documents                  *)
RequestsForCluster(c) ==
  {d \in Document : /\ d.kind \in Reconciled
                    /\ Cached(documentVersions[d]) # Absent
                    /\ Cached(documentVersions[d]).spec.clusterRef = c}

(* Mutant: only the new object of an update counts. *)
RequestForChildClusterMutant(old, new) ==
  {IF new = Absent THEN old.spec.clusterRef ELSE new.spec.clusterRef}

(* requestForChildCluster, for the old and the new object of one event *)
RequestForChildCluster(old, new) ==
  {o.spec.clusterRef : o \in {old, new} \ {Absent}}

IdleDocumentWorker ==
  [pc |-> "idle", key |-> Absent, clusterRef |-> Unset, exists |-> FALSE]

NoStatus ==
  [obs |-> 0, clusterRef |-> Unset, name |-> Unset, accepted |-> Unset]

NewDocument(spec) ==
  [gen |-> 1, spec |-> spec, deleting |-> FALSE, status |-> NoStatus]

(* The specs of d that the webhooks and the CRD let pass *)
AdmittedSpecs(d) ==
  {s \in DocumentSpecs[d] :
     AdmitsDocument([kind |-> d.kind, name |-> d.name, spec |-> s])}

DocumentsInit ==
  /\ documentVersions \in
       {v \in [Document -> {<<Absent>>} \cup {<<NewDocument(s)>> : s \in AnySpec}] :
          \A d \in Document : IF v[d] = <<Absent>> THEN d \in Touched
                              ELSE v[d][1].spec \in AdmittedSpecs(d)}
  /\ documentQueue = {d \in Listed(documentVersions) : d.kind \in Reconciled}
  /\ documentWorkers = [k \in Kind |-> IdleDocumentWorker]
  /\ suppressed = {} /\ edits = 0

StoreDocument(d, object) ==
  /\ Len(documentVersions[d]) <= MaxDocumentLag
  /\ documentVersions' = [documentVersions EXCEPT ![d] = Append(@, object)]

-----------------------------------------------------------------------------
(* Reconcile of OmniControlPlane, OmniWorkers and OmniMachine *)

SetWorker(k, worker) ==
  documentWorkers' = [documentWorkers EXCEPT ![k] = worker]

ReconcileNoDocument(d) ==
  /\ d \in documentQueue
  /\ documentWorkers[d.kind].pc = "idle"
  /\ Cached(documentVersions[d]) = Absent
  /\ documentQueue' = documentQueue \ {d}
  /\ UNCHANGED <<documentVersions, documentWorkers, suppressed, edits>>

ReconcileDocument(d) ==
  /\ d \in documentQueue
  /\ documentWorkers[d.kind].pc = "idle"
  /\ Cached(documentVersions[d]) # Absent
  /\ documentQueue' = documentQueue \ {d}
  /\ SetWorker(d.kind,
       [IdleDocumentWorker EXCEPT
          !.pc = "clusterExists", !.key = d,
          !.clusterRef = Cached(documentVersions[d]).spec.clusterRef])
  /\ UNCHANGED <<documentVersions, suppressed, edits>>

(* clusterExists, for the reference that was read before *)
ClusterExists(k) ==
  /\ documentWorkers[k].pc = "clusterExists"
  /\ LET ref == documentWorkers[k].clusterRef
     IN  SetWorker(k, [documentWorkers[k] EXCEPT
           !.pc = "updateStatus",
           !.exists = ref \in Cluster /\ Cached(clusterVersions[ref]) # Absent])
  /\ UNCHANGED <<documentVersions, documentQueue, suppressed, edits>>

(* What update{ControlPlane,Workers,Machine}Status make of the latest       *)
(* document, with the answer that was found for an earlier version of it.   *)
NewDocumentStatus(d, latest, exists) ==
  [obs |-> latest.gen, clusterRef |-> latest.spec.clusterRef,
   name |-> IF d.kind = "ControlPlane" THEN Unset
                                       ELSE ResolvedName(AsInput(d, latest)),
   accepted |-> exists]

(* The latest document in the cache has that status already. *)
SkipStatus(k) ==
  /\ documentWorkers[k].pc = "updateStatus"
  /\ LET d == documentWorkers[k].key
         latest == Cached(documentVersions[d])
         stored == Stored(documentVersions[d])
     IN  /\ latest # Absent
         /\ latest.status = NewDocumentStatus(d, latest, documentWorkers[k].exists)
         /\ suppressed' =
              IF stored # Absent /\ stored.status # latest.status
                THEN suppressed \cup {d} ELSE suppressed \ {d}
  /\ SetWorker(k, IdleDocumentWorker)
  /\ UNCHANGED <<documentVersions, documentQueue, edits>>

(* The write goes through when the cache is up to date. *)
UpdateDocumentStatus(k) ==
  /\ documentWorkers[k].pc = "updateStatus"
  /\ LET d == documentWorkers[k].key
         latest == Cached(documentVersions[d])
         status == NewDocumentStatus(d, latest, documentWorkers[k].exists)
     IN  /\ Len(documentVersions[d]) = 1
         /\ latest # Absent
         /\ latest.status # status
         /\ StoreDocument(d, [latest EXCEPT !.status = status])
         /\ suppressed' = suppressed \ {d}
  /\ SetWorker(k, IdleDocumentWorker)
  /\ UNCHANGED <<documentQueue, edits>>

(* Mutant: the error is not returned. *)
DocumentCallFailsMutant(k) ==
  /\ documentWorkers[k].pc \in {"clusterExists", "updateStatus"}
  /\ SetWorker(k, IdleDocumentWorker)
  /\ UNCHANGED <<documentVersions, documentQueue, suppressed, edits>>

(* The document is gone, conflicts outlast the retries, or a call fails. *)
DocumentCallFails(k) ==
  /\ documentWorkers[k].pc \in {"clusterExists", "updateStatus"}
  /\ documentQueue' = documentQueue \cup {documentWorkers[k].key}
  /\ SetWorker(k, IdleDocumentWorker)
  /\ UNCHANGED <<documentVersions, suppressed, edits>>

DocumentWorkerStep(k) ==
  \/ ClusterExists(k)
  \/ SkipStatus(k)
  \/ UpdateDocumentStatus(k)
  \/ DocumentCallFails(k)

-----------------------------------------------------------------------------
(* Informers and users *)

(* A watch event reaches the cache of documents and their own controller. *)
DeliverDocument(d) ==
  /\ Len(documentVersions[d]) > 1
  /\ documentVersions' = [documentVersions EXCEPT ![d] = Tail(@)]
  /\ documentQueue' =
       IF /\ d.kind \in Reconciled
          /\ EventPasses(documentVersions[d][1], documentVersions[d][2])
         THEN documentQueue \cup {d} ELSE documentQueue
  /\ UNCHANGED <<documentWorkers, suppressed, edits>>

(* A user stores a document or, with Absent, deletes it. *)
EditDocument(d, object) ==
  /\ edits < MaxEdits /\ edits' = edits + 1
  /\ StoreDocument(d, object)
  /\ suppressed' = IF object = Absent THEN suppressed \ {d} ELSE suppressed
  /\ UNCHANGED <<documentQueue, documentWorkers>>

CreateDocument(d) ==
  /\ "CreateDocument" \in DocumentOps
  /\ Stored(documentVersions[d]) = Absent
  /\ \E s \in AdmittedSpecs(d) : EditDocument(d, NewDocument(s))

UpdateDocument(d) ==
  /\ "UpdateDocument" \in DocumentOps
  /\ LET object == Stored(documentVersions[d])
     IN  /\ object # Absent
         /\ \E s \in AdmittedSpecs(d) \ {object.spec} :
              EditDocument(d, [object EXCEPT !.gen = @ + 1, !.spec = s])

DeleteDocument(d) ==
  /\ "DeleteDocument" \in DocumentOps
  /\ Stored(documentVersions[d]) # Absent
  /\ EditDocument(d, Absent)

DocumentsRestart ==
  /\ documentVersions' =
       [d \in Document |-> <<Stored(documentVersions[d])>>]
  /\ documentQueue' = {d \in Listed(documentVersions) : d.kind \in Reconciled}
  /\ documentWorkers' = [k \in Kind |-> IdleDocumentWorker]
  /\ suppressed' = {}
  /\ UNCHANGED edits

UserDocumentStep(d) == CreateDocument(d) \/ UpdateDocument(d) \/ DeleteDocument(d)

=============================================================================
