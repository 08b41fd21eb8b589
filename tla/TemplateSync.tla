---------------------------- MODULE TemplateSync ----------------------------
(***************************************************************************)
(* OmniClusters together with their child documents: the composition of    *)
(* ClusterLifecycle, where rendering succeeds or fails as it likes, with   *)
(* ChildDocuments and ClusterTemplate, which decide what is rendered.      *)
(*                                                                         *)
(* Every step is a step of one of the two, or a watch event that both see. *)
(* What is new is in the steps between them: templateInputs lists the      *)
(* three kinds one after the other, the template travels with the          *)
(* Reconcile call to Omni and into the status, and the requests that are   *)
(* due at once are told from the periodic one of syncInterval.  Left to    *)
(* ClusterLifecycle are edits of a cluster's own spec and the connections: *)
(* here nobody touches them.                                               *)
(***************************************************************************)
EXTENDS Integers, ChildDocuments

CONSTANTS
  Connection, NameOverride, Specs, UserOps, Failures, MaxUid, MaxGen, MaxLag,
  MaxConnectionLag, InitialFinalizers,  \* see ClusterLifecycle
  Manifests,   \* [Specs -> sequences of manifests], spec.kubernetes.manifests
  Refused      \* names of documents that Omni's validator refuses

ASSUME ManifestsAssumption ==
  \A s \in Specs : AdmitsManifests(Manifests[s])

VARIABLES
  connectionVersions, clusterQueue, connectionQueue, clusterWorker,
  connectionWorker, omni, lastUid, orphaned, retargeted, keepRemote,
  inputs,     \* the lists that the running templateInputs has read so far
  rendered,   \* the template of the running Reconcile call, or Absent
  templates,  \* the template that Omni holds, by target
  hashes,     \* status.templateHash, as stored: it stands for a template
  woken       \* the clusters with a request that does not wait for syncInterval

Clusters == INSTANCE ClusterLifecycle

clusterOnlyVars ==
  <<connectionVersions, clusterQueue, connectionQueue, clusterWorker,
    connectionWorker, omni, lastUid, orphaned, retargeted, keepRemote>>

callVars == <<inputs, rendered>>
templateVars == <<callVars, templates, hashes, woken>>

vars == <<documentVars, clusterVersions, clusterOnlyVars, templateVars>>

Target == Connection \X Clusters!Remote

(* What ClusterLifecycle assumes of its objects *)
ASSUME ClustersAssumption ==
  /\ Specs \subseteq Clusters!ClusterSpec
  /\ InitialFinalizers \subseteq SUBSET Clusters!Finalizers
  /\ Absent \notin Clusters!ClusterObject /\ Absent \notin Clusters!RemoteCluster

(* What a template is made of *)
TemplateEntry ==
  {RenderDocument([kind |-> d.kind, name |-> d.name, spec |-> s]) :
     d \in Document, s \in AnySpec}
  \cup {RenderCluster(name, Manifests[s]) : name \in Clusters!Remote, s \in Specs}

ASSUME AbsentTemplateAssumption == Absent \notin Seq(TemplateEntry)

Init ==
  /\ Clusters!Init
  /\ DocumentsInit
  /\ inputs = <<>> /\ rendered = Absent
  /\ templates = [t \in Target |-> Absent]
  /\ hashes = [c \in Cluster |-> Absent]
  /\ woken = clusterQueue

-----------------------------------------------------------------------------
(* The cluster worker *)

(* The worker takes c, for whatever reason it was on the queue. *)
Reconcile(c) ==
  /\ Clusters!ReconcileCluster(c)
  /\ woken' = woken \ {c}
  /\ UNCHANGED <<documentVars, callVars, templates, hashes>>

(* The connection was found, and the cluster is to be synced. *)
AtTemplateInputs ==
  /\ clusterWorker.pc = "getConnection"
  /\ ~clusterWorker.item.deleting
  /\ Clusters!CachedConnection # Absent

Inputs == UNION {inputs[i] : i \in DOMAIN inputs}

NoControlPlane == inputs # <<>> /\ InputsFail(inputs[1], clusterWorker.key)

(* templateInputs lists the next kind; the count of control planes is       *)
(* looked at before the others are listed.                                  *)
ListNextKind ==
  /\ AtTemplateInputs
  /\ ~NoControlPlane
  /\ Len(inputs) < Len(Kinds)
  /\ inputs' = Append(inputs, ListDocuments(Kinds[Len(inputs) + 1]))
  /\ UNCHANGED <<documentVars, clusterVersions, clusterOnlyVars, rendered,
                 templates, hashes, woken>>

InputsError ==
  /\ AtTemplateInputs
  /\ NoControlPlane
  /\ Clusters!RenderFails /\ clusterWorker'.reason = "MissingTemplate"
  /\ inputs' = <<>>
  /\ UNCHANGED <<documentVars, rendered, templates, hashes, woken>>

AtRender == AtTemplateInputs /\ ~NoControlPlane /\ Len(inputs) = Len(Kinds)

ItemManifests == Manifests[clusterWorker.item.spec]

RenderError ==
  /\ AtRender
  /\ RenderFails(Inputs, clusterWorker.key, ItemManifests)
  /\ Clusters!RenderFails /\ clusterWorker'.reason = "ValidationFailed"
  /\ inputs' = <<>>
  /\ UNCHANGED <<documentVars, rendered, templates, hashes, woken>>

(* What Render may make of the lists *)
ItemRenderings ==
  Renderings(Inputs, clusterWorker.key,
             Clusters!ClusterName(clusterWorker.key, clusterWorker.item.spec),
             ItemManifests)

(* Validate, which is Omni's: it looks at nothing but the template. *)
ValidateFails(template) ==
  \E i \in DOMAIN template : template[i].name \in Refused

(* Render succeeds, then Validate is called. *)
RenderTemplate ==
  /\ AtRender
  /\ ~RenderFails(Inputs, clusterWorker.key, ItemManifests)
  /\ rendered' \in ItemRenderings
  /\ IF ValidateFails(rendered')
       THEN Clusters!RenderFails /\ clusterWorker'.reason = "ValidationFailed"
       ELSE Clusters!RenderSucceeds
  /\ inputs' = <<>>
  /\ UNCHANGED <<documentVars, templates, hashes, woken>>

Applied == [templates EXCEPT ![Clusters!ItemTarget] = rendered]

SyncTemplate ==
  /\ \/ Clusters!SyncTemplateSucceeds /\ templates' = Applied
     \/ Clusters!SyncTemplateFails /\ omni' = omni /\ templates' = templates
     \/ Clusters!SyncTemplateFails /\ omni' = Clusters!Applied /\ templates' = Applied
  /\ UNCHANGED <<documentVars, callVars, hashes, woken>>

DeleteRemote ==
  /\ Clusters!DeleteRemoteSucceeds \/ Clusters!DeleteRemoteFails
  /\ templates' = [t \in Target |-> IF omni'[t] = Absent THEN Absent
                                                         ELSE templates[t]]
  /\ UNCHANGED <<documentVars, callVars, hashes, woken>>

(* Reconcile returns without an error, so its key comes back only after     *)
(* syncInterval.                                                            *)
Periodic == clusterWorker.reason \notin {"SyncFailed", "DeleteFailed"}

(* setRenderedStatus, when there is a template; what else the status says   *)
(* is in ClusterLifecycle.                                                  *)
UpdateStatus ==
  /\ Clusters!UpdateClusterStatus
  /\ hashes' = IF rendered = Absent THEN hashes
                 ELSE [hashes EXCEPT ![clusterWorker.key] = rendered]
  /\ woken' = IF Periodic THEN woken ELSE woken \cup {clusterWorker.key}
  /\ rendered' = Absent
  /\ UNCHANGED <<documentVars, inputs, templates>>

(* The other ways to return; the key of a worker that asks for more, by     *)
(* Requeue or with an error, is due at once.                                *)
ReturnAtOnce ==
  /\ Clusters!AddClusterFinalizer \/ Clusters!ClusterWriteFails
  /\ woken' = woken \cup {clusterWorker.key}
  /\ rendered' = Absent
  /\ UNCHANGED <<documentVars, inputs, templates, hashes>>

OtherWorkerStep ==
  /\ \/ Clusters!MissingConnection
     \/ Clusters!FoundConnectionForDelete
     \/ Clusters!RemoveClusterFinalizers
  /\ UNCHANGED <<documentVars, templateVars>>

ClusterWorkerStep ==
  \/ ListNextKind \/ InputsError \/ RenderError \/ RenderTemplate
  \/ SyncTemplate \/ DeleteRemote \/ UpdateStatus
  \/ ReturnAtOnce \/ OtherWorkerStep

-----------------------------------------------------------------------------
(* Events that both sides see *)

(* Mutant: the controllers of the documents do not watch OmniClusters. *)
DeliverClusterMutant(c) ==
  /\ Clusters!DeliverCluster(c)
  /\ woken' = IF EventPasses(clusterVersions[c][1], clusterVersions[c][2])
                THEN woken \cup {c} ELSE woken
  /\ UNCHANGED <<documentVars, callVars, templates, hashes>>

(* An event of a cluster wakes its documents as well. *)
DeliverCluster(c) ==
  /\ Clusters!DeliverCluster(c)
  /\ IF EventPasses(clusterVersions[c][1], clusterVersions[c][2])
       THEN /\ woken' = woken \cup {c}
            /\ documentQueue' = documentQueue \cup RequestsForCluster(c)
       ELSE UNCHANGED <<woken, documentQueue>>
  /\ UNCHANGED <<documentVersions, documentWorkers, suppressed, edits,
                 callVars, templates, hashes>>

(* An event of a document wakes the clusters it refers and referred to. *)
DeliverChild(d) ==
  /\ DeliverDocument(d)
  /\ LET old == documentVersions[d][1]
         new == documentVersions[d][2]
         refs == IF EventPasses(old, new)
                   THEN RequestForChildCluster(old, new) \cap Cluster ELSE {}
     IN  Clusters!WakeClusters(refs) /\ woken' = woken \cup refs
  /\ UNCHANGED <<callVars, templates, hashes>>

DocumentStep ==
  /\ \/ \E d \in Document :
          ReconcileNoDocument(d) \/ ReconcileDocument(d)
     \/ \E d \in Touched : UserDocumentStep(d)
     \/ \E k \in Reconciled : DocumentWorkerStep(k)
  /\ UNCHANGED <<clusterVersions, clusterOnlyVars, templateVars>>

(* A new object has an empty status. *)
UserClusterStep(c) ==
  /\ \/ Clusters!CreateCluster(c) /\ hashes' = [hashes EXCEPT ![c] = Absent]
     \/ Clusters!DeleteCluster(c) /\ UNCHANGED hashes
  /\ UNCHANGED <<documentVars, callVars, templates, woken>>

Restart ==
  /\ Clusters!Restart
  /\ DocumentsRestart
  /\ inputs' = <<>> /\ rendered' = Absent
  /\ woken' = Listed(clusterVersions)
  /\ UNCHANGED <<templates, hashes>>

Next ==
  \/ ClusterWorkerStep
  \/ DocumentStep
  \/ \E c \in Cluster : Reconcile(c) \/ DeliverCluster(c) \/ UserClusterStep(c)
  \/ \E d \in Document : DeliverChild(d)
  \/ Restart

Spec == Init /\ [][Next]_vars

-----------------------------------------------------------------------------
(* Properties *)

(* The variables that ClusterLifecycle does not have keep their types; a    *)
(* template is only ever held by a remote cluster that is there, and the    *)
(* lists of templateInputs hold documents of one kind each.                 *)
TypeOK ==
  /\ \A d \in Document :
       /\ documentVersions[d] # <<>>
       /\ \A i \in DOMAIN documentVersions[d] :
            documentVersions[d][i] \in DocumentObject \cup {Absent}
  /\ documentQueue \subseteq {d \in Document : d.kind \in Reconciled}
  /\ suppressed \subseteq Document /\ edits \in Nat
  /\ Len(inputs) <= Len(Kinds)
  /\ \A i \in DOMAIN inputs : \A d \in inputs[i] : d.kind = Kinds[i]
  /\ \A t \in Target : templates[t] = Absent <=> omni[t] = Absent
  /\ woken \subseteq clusterQueue

(* An event on its way that will pass the predicate *)
EventComing(versions) ==
  \E i \in 1 .. Len(versions) - 1 : EventPasses(versions[i], versions[i + 1])

(* An event of a document on its way that will wake c *)
ChildEventComing(c) ==
  \E d \in Document : \E i \in 1 .. Len(documentVersions[d]) - 1 :
    LET old == documentVersions[d][i]
        new == documentVersions[d][i + 1]
    IN  EventPasses(old, new) /\ \E o \in {old, new} \ {Absent} : o.spec.clusterRef = c

(* Something other than the period will bring c to its reconciler soon. *)
Pending(c) ==
  \/ c \in woken \/ clusterWorker.key = c
  \/ EventComing(clusterVersions[c]) \/ ChildEventComing(c)

(* The templates that the stored documents stand for *)
DesiredTemplates(c) ==
  LET object == Stored(clusterVersions[c])
  IN  Renderings(StoredDocuments, c, Clusters!ClusterName(c, object.spec),
                 Manifests[object.spec])

(* What c reports as ready is what its documents stand for. *)
HasCurrentTemplate(c) ==
  LET object == Stored(clusterVersions[c])
      template == templates[Clusters!Target(c, object.spec)]
  IN  Clusters!ReportsReady(c) =>
        \/ Pending(c)
        \/ template \in DesiredTemplates(c) /\ template = hashes[c]

(* Ready=True for the current generation means that Omni holds the          *)
(* template of the documents as they are stored now, and that the status    *)
(* has its hash, unless a request for the cluster is under way.  Documents  *)
(* are created, edited, moved to another cluster and deleted while          *)
(* templateInputs reads its three lists: none of this waits for the next    *)
(* syncInterval to be noticed.  The condition Synced says less: Reconciles  *)
(* that end in MissingTemplate or ValidationFailed leave it as it was, and  *)
(* the last of them records the hash of a template that Omni never got.     *)
TemplateIsCurrent == \A c \in Cluster : HasCurrentTemplate(c)

(* The names in the template that is about to be rendered are distinct. *)
DistinctNames ==
  \A d, e \in Inputs :
    (/\ d # e /\ d.kind = e.kind
     /\ d.spec.clusterRef = clusterWorker.key /\ e.spec.clusterRef = clusterWorker.key)
       => ResolvedName(d) # ResolvedName(e)

(* The same documents render to the same template, and so to the same hash, *)
(* in whatever order the caches list them, if no two worker sets and no two *)
(* machines of the cluster have one name.                                   *)
RenderIsDeterministic ==
  (AtRender /\ DistinctNames) =>
    \A t, u \in ItemRenderings : t = u

(* The status of d is about its current generation and answers as the API   *)
(* server would.                                                            *)
AnswersRight(d) ==
  LET object == Stored(documentVersions[d])
      ref == object.spec.clusterRef
      exists == ref \in Cluster /\ Stored(clusterVersions[ref]) # Absent
  IN  /\ object.status.obs = object.gen
      /\ object.status.accepted = exists

(* A request for document d is on its way. *)
DocumentPending(d) ==
  LET ref == Stored(documentVersions[d]).spec.clusterRef
  IN  \/ d \in documentQueue \/ documentWorkers[d.kind].key = d
      \/ EventComing(documentVersions[d])
      \/ ref \in Cluster /\ EventComing(clusterVersions[ref])

(* What the guide says of Accepted: the document references an existing     *)
(* OmniCluster.  A status that says otherwise is about to be corrected.     *)
AcceptedIsHonest ==
  \A d \in Document :
    (d.kind \in Reconciled /\ Stored(documentVersions[d]) # Absent) =>
      AnswersRight(d) \/ DocumentPending(d)

(* The one way in which Accepted can stay wrong is a status write that was  *)
(* skipped because the cache still had an older status: no order of moves,  *)
(* deletions, conflicts and events loses the request otherwise.             *)
AcceptedUnlessSuppressed ==
  \A d \in Document :
    (d.kind \in Reconciled /\ Stored(documentVersions[d]) # Absent) =>
      AnswersRight(d) \/ DocumentPending(d) \/ d \in suppressed

=============================================================================
