# A TLA+ development for omni-cluster-operator

The operator watches eight kinds of custom resources in a management cluster and
drives three outside worlds from them: the remote Omni accounts (clusters are
created, updated and deleted there), Secrets of the management cluster
(kubeconfigs are exported into them) and the workload clusters (Secrets and Helm
releases are written into them). All of its logic is level-triggered: a
reconciler reads a cached object, calls somebody, and writes a status. What can go
wrong is what happens *between* those steps, and that is what this project
models.

## 1. The system

### Components, their state and their operations

| Component (source) | State | Operations |
| --- | --- | --- |
| OmniCluster controller (`internal/controller/omnicluster_controller.go`) | finalizers, `status.observedGeneration`, conditions of the OmniCluster; the remote cluster in Omni | add finalizer, suspend, fetch connection, collect and render the template, `SyncTemplate`, `StatusCluster`, status update; on deletion `DeleteCluster` and removal of both finalizers, or release in orphan mode |
| OmniConnection controller (`omniconnection_controller.go`) | finalizers and conditions of the OmniConnection | add finalizer, `Ping`, wait for referencing clusters, remove finalizers |
| OmniKubeconfigExport controller (`omnikubeconfigexport_controller.go`, `internal/kubeconfigexport`) | finalizer and status (target, hash, expiry, rotation time) of the export; the target Secret with owner label and annotations; the rotation timer in the workqueue | delete the previous target, reuse or regenerate the kubeconfig, write the Secret, status update, delayed request for the rotation; on deletion delete the Secret, or release it |
| OmniSecretSync controller (`omnisecretsync_controller.go`, `internal/secretsync`) | finalizer and status of the sync; the copy in the workload cluster | read source and kubeconfig, delete the previous target, create the namespace, create or update the copy, status update; on deletion delete the copy |
| OmniHelmRelease controller (`omnihelmrelease_controller.go`, `internal/helmrelease`) | finalizer and status of the release; the Helm release in the workload cluster | read the kubeconfig, install or upgrade (on every request: nothing is skipped), status update; on deletion uninstall, or release it |
| OmniControlPlane, OmniWorkers, OmniMachine (`omnicontrolplane_controller.go` and siblings, `child_status.go`, `child_watch.go`) | the `Accepted` condition of each child | check that the parent exists, status update that is skipped when nothing changes |
| Template assembly (`templateInputs`, `internal/omnitemplate/builder.go`) | none | list the children of a cluster kind by kind, sort, build and validate the documents, hash |
| Omni client (`internal/omniapi/client.go`) | none of its own | sync, status, delete, kubeconfig, ping |
| Watches and cache (`internal/controller/predicates.go`, each `SetupWithManager`, `cmd/main.go`) | informer caches and workqueues | deliver an event, filter it, map it to requests |
| Webhooks (`internal/webhook/v1alpha1`) | none | refuse objects and some edits |

### How they interact

* OmniCluster needs its OmniConnection for every call to Omni, including the one
  that deletes the remote cluster. So the connection's finalizer waits until no
  OmniCluster refers to it, and the cluster's events wake the connection.
* The children of a cluster carry the reference; the cluster does not know them. An
  event of a child wakes the clusters it refers and referred to, and an event of a
  cluster wakes its children, whose `Accepted` depends on it.
* An export needs OmniCluster and OmniConnection, and produces the Secret from
  which syncs and Helm releases take their credentials. Its own watch on Secrets
  is how it learns of tampering.
* A sync and a Helm release read the kubeconfig Secret, also when they are being
  deleted.
* All controllers share `specOrDeletionChangedPredicate`: only creations,
  deletions and changes of the generation pass, so finalizer and status writes
  wake nobody, and each reconciler has to ask for its own next turn.
* Objects come from the informer cache, which may lag; writes go to the API
  server, which refuses a stale resourceVersion. Secrets are read past the cache.

### What is hard

Interleavings of users, the two or more controllers, the informers and the remote
services; stale copies (an object that was edited, deleted or even re-created
since it was read); conflicts, retries and calls that fail after they took effect;
crashes between two writes; requests that the predicate filters; two finalizers
that wait for each other; rotation times counted from the wrong instant. There is
no shared memory between workers beyond the caches: each controller runs one
Reconcile at a time (`MaxConcurrentReconciles` is left at its default).

`PROJECT.json` lists these as hazards, each at its line and with the properties
that would catch it going wrong.

## 2. The modules

| Module | Models | Used by |
| --- | --- | --- |
| `ObjectVersions` | an object between API server and cache, the predicate, the initial list | all |
| `FinalizerOwnership` | *abstract*: what a controller with a finalizer promises about the things it makes | `ClusterLifecycle`, `KubeconfigExport`, `SecretSync` implement it |
| `ClusterLifecycle` | OmniCluster and OmniConnection controllers, Omni accounts, users, restarts | `MCClusterLifecycle`, `ClusterLifecycleProofs`, `TemplateSync` |
| `ClusterTemplate` | pure: admission of child documents, selection, sorting, rendering | `ChildDocuments` |
| `ChildDocuments` | the child documents, their informers, users and three reconcilers | `TemplateSync` |
| `TemplateSync` | composition of `ClusterLifecycle` with `ChildDocuments`: what is rendered, sent to Omni and recorded in the status | `MCTemplateSync` |
| `KubeconfigExport` | OmniKubeconfigExport controller, target Secrets, clock and timers | `MCKubeconfigExport` |
| `SecretSync` | OmniSecretSync controller, workload-cluster client, source and kubeconfig Secrets | `MCSecretSync` |
| `HelmRelease` | OmniHelmRelease controller, Helm client, the last revision of each Helm release | `MCHelmRelease` |
| `ObjectVersionsProofs` | lemmas about versions, lineages and custody, for any kind of object | all modules with proofs |
| `ClusterLifecycleProofs`, `ClusterOwnershipProofs`, `ClusterPolicyProofs` | the theorems about `ClusterLifecycle`: types and owners; the refinement; delete policy, suspension and Ready | |
| `SecretSyncProofs`, `KubeconfigExportProofs`, `HelmReleaseProofs`, `TemplateSyncProofs` | the theorems about the other components | |
| `MC…` | the sets of specs that users submit in the runs | the `.cfg` files |

### Objects

An object is a non-empty *sequence of versions*. Its head is what the cache
holds, its last element is what the API server stores, and the ones between are
watch events still on their way. `Deliver…` drops the head and applies
`EventPasses` to the two objects of the event, as the predicate does. A write
appends, and succeeds only if the copy it was made from equals the stored version.
A deleted and re-created object is a new `uid` in the same sequence, so
"the copy belongs to an earlier incarnation" is an ordinary state. The caches of
different kinds are different sequences and lag independently.

A version stands for a resourceVersion by its content: a copy from before an A–B–A
change (of finalizers, status, or the data of a Secret; every edit of a spec counts
`gen` and every creation `uid`) does not have to conflict in the model. As every
write may also fail, the model has the behaviours of the code and a few more.

### Reconcile

Each controller has one worker, a record with the program counter, the key, the
copy it works on and what it has found so far. Every call that leaves the process
is a step of its own, so everything else can happen between two of them; a call
that fails may have taken effect or not. `Done` models the return: an error,
`Requeue`, and any `RequeueAfter` used as a retry interval put the key back at
once (those delays are left out, so the model allows every timing). The rotation
delay of an export is kept, because there the length matters. Steps that only
compute are merged with the read they depend on.

| `ClusterLifecycle` | code |
| --- | --- |
| `ReconcileNothing`, `ReconcileNew`, `ReconcileSuspended`, `ReconcileSync`, `ReconcileDelete`, `ReconcileDeleteOrphan` | the branches at the top of `Reconcile` and `reconcileDelete` |
| `MissingConnection`, `FoundConnectionForDelete` | `Get` of the connection and `markClusterFailed` |
| `RenderSucceeds`, `RenderFails` | `templateInputs`, `Render`, `Validate`; the outcome is a choice here and computed in `TemplateSync` |
| `SyncTemplateSucceeds/Fails`, `DeleteRemoteSucceeds/Fails` | the calls to Omni; `StatusCluster` is part of the first |
| `AddClusterFinalizer`, `RemoveClusterFinalizers`, `UpdateClusterStatus`, `ClusterWriteFails` | the writes; the first two from the copy read at the start, the status by the re-reading retry loop |
| `ReconcileConnection…`, `ListReferences`, `…ConnectionFinalizer(s)`, `UpdateConnectionStatus` | the connection controller |
| `DeliverCluster`, `DeliverConnection`, `WakeClusters` | informers with their mapping functions; the last one for events of child documents |
| `Create…`, `Update…`, `Delete…`, `Restart` | users, the API server's generation counter and finalizer rule, a new process |

A remote cluster is reduced to *who synced it last and from which generation*.
The history variables `orphaned`, `retargeted` and `keepRemote` are written by
no code; the properties need them to tell the exceptions apart.

In `KubeconfigExport` a kubeconfig is a record of cluster, account, profile and
expiry; hashing is injective on it. `TargetSecret`, `SpecHash`,
`CurrentKubeconfigSecretState`, `DroppedKeys` and `RequeueAfter` are the helpers of
the code with the same names, including that the status goes before the spec, that
the hash does not cover target, account or policy, and that a delay that is not
positive asks for nothing. `Profile` stands for user, groups, TTL and context
namespace; `Invalid` for the ones `kubeconfigExportSpecError` refuses. The
cluster and the connections are the cached ones, changed by `ChangeCluster` and
`ChangeConnection`.

In `SecretSync` the steps of `secretsync.Client` are `CheckOwned`,
`DeleteSecret`, `EnsureNamespace`, `GetTarget` and `WriteTarget`, with
`DeleteFails` and `SyncFails` for errors before or after the effect. `Form` stands
for type, labels and annotations. `NewStatus` keeps the rule that a status without
a result records the target of the *latest* spec.

In `HelmRelease` a kubeconfig Secret stands for the workload cluster it opens, and a
`Place` is such a cluster with a namespace and a release name. Of Helm itself only
the last revision of a release is kept, with the rules the code depends on: an
operation first records a *pending* revision and then a deployed or failed one
(`InstallOrUpgrade`, `FinishHelm`, `HelmFails`); with `atomic` a failure brings the
previous revision back; an upgrade is refused while the last revision is pending
(`UpgradeRefused`); an uninstall removes the history and does not mind if there is
none. That a revision remembers which object asked for it is an addition of the
model; Helm does not know.

### Children and templates

`ClusterTemplate` has no state. Names are numbers, in the order of the strings they
stand for, because `Render` sorts by them. `Sorted` is a *set* of sequences: the cache
lists in any order and `sort.Slice` is not stable, so equal names may come out either
way round. `RenderOrders` is therefore the set of orders that the documents may come out
in, and `Renderings` that of the templates. The fields
of a document that are copied one by one are left out but for those that admission looks
at, and the hash is the template itself.

`ChildDocuments` has one worker per kind and one definition for the three reconcilers,
which are the same code. `ReconcileDocument` reads the document, `ClusterExists` looks
the cluster up for *that* reference, `UpdateDocumentStatus` and `SkipStatus` re-read
the document and write, or find that the cached status is already right. The history
variable `suppressed` remembers the documents for which the latter was a mistake.

`TemplateSync` conjoins every action of the cluster worker with what happens to the
template: `ListNextKind` three times for the three lists, `InputsError`, `RenderError` and
`RenderTemplate` (with Omni's validator as the constant `Refused`), `SyncTemplate`, which
brings the template to Omni even when it reports an error, and `UpdateStatus` with
the hash. Every step is a step of `ClusterLifecycle` conjoined with more, or
leaves its variables alone: each behaviour of `TemplateSync` is one of `ClusterLifecycle`
with `TouchChild` (`CompositionImplementsLifecycle`, proved), and the safety properties
proved there for all constants hold here.
`woken` tells requests that are due at once from the one of `syncInterval`:
`ClusterLifecycle` may leave that out, but a property about who notices a change may
not. Edits of the cluster's own spec, and the connection, are left to `ClusterLifecycle`.

### The abstract specification

`FinalizerOwnership` has four variables: the owners that are held by a finalizer, the
ones that are gone for good, who owns what is at each place outside, and who was
excused by a user (orphan mode, or a target that was edited away). Only a held owner
makes something; an owner is let go only when nothing of it is left or it is excused;
a gone owner never comes back. Caches, queues, conflicts, failures and crashes are
stutters. `ClusterLifecycle`, `KubeconfigExport` and `SecretSync` each have a refinement
section that defines the mapping (`Ownership == INSTANCE FinalizerOwnership WITH …`) and
the property `ImplementsOwnership == Ownership!Spec`. Owners are incarnations (name and
uid), so an object that is re-created is another owner. `HelmRelease` does not implement
it: Helm's rollback brings back a revision whose owner may have been another object.

Definitions named `…Mutant` are plausible bugs of the definition that follows
them; no specification uses them. Each property of a passing run has one that
breaks it.

## 3. Properties and runs

Every run finishes with two workers within a few minutes, most of them within one.

| Run | Instance | Shows |
| --- | --- | --- |
| `cluster_safety` | one cluster, one connection, three specs (plain, orphan, suspended), create/update/delete, one re-creation, two events on their way, every call may fail, restarts | `SyncHoldsFinalizer`, `RemoteHasOwner`, `OrphanKeepsRemote`, `SuspendBarrier`, `ReadyIsHonest`, `TypeOK` |
| `cluster_teardown` | cluster and connection deleted in any order, with or without the legacy finalizer, children that wake the cluster at any time | `DeletionCompletes`, `ConnectionDeletionCompletes`, `ImplementsOwnership`; `ConnectionHeldWhileReferenced` for clusters older than the deletion of the connection |
| `cluster_convergence` | suspend, resume and rename, connection created late | `SyncCompletes`, `ReadyIsHonest` and `ImplementsOwnership` across a rename |
| `export_safety` | one export, two Secrets, two keys, Delete policy, TTL 2, renewBefore 1, edits of target and key, an invalid profile, tampering, deletion of the Secret, a cluster that is renamed, moved or missing, a connection that goes, restarts | `ExportIsHonest`, `RotationScheduled`, `SecretDeletedWithExport`, `TypeOK` |
| `export_liveness` | one Secret, policy edits, users who delete the Secret and put one of their own in its place at any moment, failures, restarts | `ExportCompletes`, `ExportDeletionCompletes`, `DeletesOnlyOwnSecrets`, `ImplementsOwnership`, `SecretDeletedWithExport` with the Orphan policy |
| `sync` | one sync, targets in two namespaces of which one is missing, a foreign Secret at one of them, both policies, an invalid form, a source or a kubeconfig that goes, breaks or comes, a cluster that goes, failures, restarts | `SyncIsHonest`, `CopyHasOwner`, `DeletesOnlyOwnSecrets`, `SyncCompletes`, `SyncDeletionCompletes`, `ImplementsOwnership`, `TypeOK` |
| `release` | one release, three specs (a chart, a new version with the Orphan policy, a refused chart under another name), kubeconfig and cluster that go or come, Helm that fails, rolls back or is cut off, restarts | `ReleaseIsHonest`, `ReleaseHasOwner`, `ReleaseCompletes`, `ReleaseDeletionCompletes`, `TypeOK` |
| `template_sync` | one cluster with a control plane that is created, moved away, moved in or deleted, three worker sets and a machine; one worker set belongs to another cluster, is refused by the validator or has the reserved name; deletion and re-creation of the cluster, failing syncs and deletes, restarts | `TemplateIsCurrent`, `RenderIsDeterministic`, `AcceptedUnlessSuppressed`, `TypeOK` |
| `connection_race`, `export_retarget_orphan`, `export_retarget_stuck`, `accepted_stale` | | expected violations, see section 5 |

The honesty properties (`ReadyIsHonest`, `ExportIsHonest`, `SyncIsHonest`,
`ReleaseIsHonest`) say that
a positive condition *for the current generation* describes the outside world as
it is. They have to survive that the status is written by a copy older than the
object, that the observed generation of exports, syncs and releases comes from the
latest object, and that the world changes under the status; all but the first allow
an exception only while a request is on its way (`Pending`).

`TemplateIsCurrent` is the same for the whole template: a cluster reported as ready
has at Omni, and in its hash, a template of the documents *as they are stored*, or
something other than the period will bring it to its reconciler. It needs both ends of
an event: with only the new object the cluster that a document leaves is not told.
`RenderIsDeterministic` is about the hash: equal documents in any order of the lists,
as long as no two worker sets or machines of a cluster have one name (with equal names
it fails as the code stands, and nothing refuses such a pair before Omni's validator).

The ownership properties (`RemoteHasOwner`, `SecretDeletedWithExport`,
`CopyHasOwner`, `ReleaseHasOwner`) say that nothing in the outside world survives
its object. Their exceptions are written out: orphan mode, and an object whose
target was edited while it lived (section 5 says why). They say nothing about
what such an edit leaves behind.

### Bounds

* One object of each kind. The reconcilers of different objects of a kind share
  only the workqueue, except where targets collide, which the ownership properties are
  *proved* for (section 4).
* `MaxLag` 1 or 2: with two events on their way a cache can miss a delete and the
  re-creation after it, the oldest copy that leads to a different branch.
  `MaxLag` also throttles writers: an object with that many undelivered events is
  not written, which delays writes and forbids none.
* `MaxGen` 2: one edit before the deletion (which counts as a generation). `MaxUid`
  1 besides the initial object 0: one re-creation for clusters. The runs of
  exports, syncs and releases have one incarnation.
* `MaxEdits` 1 for child documents: one creation, move or deletion, at any point of a
  Reconcile of the cluster and of the document, which starts out in every admitted state.
* `MaxTime` 1 with TTL 2 and renewBefore 1: a kubeconfig issued at 0 becomes due at
  1 and is rotated inside the run. `SlowestReconcile` ≤ renewBefore is an assumption on the
  environment, see section 5.
* `MaxChanges` 1: one change of a Secret, the cluster or a connection by somebody else
  at any point of any Reconcile; 2 in `export_liveness`, so that a Secret can be deleted
  and another put in its place between the look and the delete of one Reconcile. Syncs start with everything there, without the source,
  or without the kubeconfig, and releases with and without kubeconfig and cluster, so
  both see things going and things coming.

`export_liveness` and the two violations about exports switch deadlock checking
off, as their bounded clock and users may come to rest with nothing left to do. A reconciled
cluster always has its periodic request, so the cluster runs keep it on.

### Fairness

Weak fairness of informer deliveries, timers and the steps of a running
Reconcile: client-go and the Go scheduler keep them going. Strong fairness of taking
a given key from the queue: the workqueue is first-in first-out, so a key is not
passed over for ever. Crashes and outages end (`<>[][…]`). After that a call to the
API server fails only when it must (`CallFails => ~ENABLED CallSucceeds`), or, for
clusters, a write that is retried for ever with a fresh copy succeeds some time
(strong fairness of the four writes). The deletion of a Helm release writes its
status just before it removes the finalizer, so it also needs that the informer is
not for ever slower than the five quick attempts of `RetryOnConflict`: strong
fairness of a delivery that comes while `removeFinalizer` is trying. Nothing is assumed of users; each liveness
property holds only for as long as its premise does: `[]<>(Syncable(y) => ReportsSynced(y))`
says that a sync is never stuck for ever in a state in which everything it needs is
there, and is the same as `Syncable(y) ~> (~Syncable(y) \/ ReportsSynced(y))`.

## 4. Proofs

All theorems are checked by TLAPS, for every set of objects, names and specs, every
set of user operations and failures, every bound and every set of initial finalizers;
the targets of different objects may collide. The assumptions are the named `ASSUME`s of
the models, which TLC evaluates in the runs: bounds are naturals, specs and operations are
of their sets, `Absent` and `Unset` are not objects, names or templates, a kubeconfig is neither
`Absent` nor `Tampered`, and there are finitely many child documents.

| Theorem | States | Module |
| --- | --- | --- |
| `TypeCorrect`, `SyncTypeCorrect`, `ExportTypeCorrect`, `ReleaseTypeCorrect` | `[]TypeOK` of clusters, syncs, exports, releases | `ClusterLifecycleProofs`, … |
| `SyncIsHeld` | `[]SyncHoldsFinalizer` | `ClusterLifecycleProofs` |
| `RemotesAreOwned`, `CopiesAreOwned`, `ExportedSecretsAreOwned`, `ReleasesAreOwned` | nothing outlives its object: `[]RemoteHasOwner`, `[]CopyHasOwner`, `[]SecretDeletedWithExport`, `[]ReleaseHasOwner` | `ClusterLifecycleProofs`, `SecretSyncProofs`, `KubeconfigExportProofs`, `HelmReleaseProofs` |
| `ClusterImplementsOwnership`, `SyncImplementsOwnership`, `ExportImplementsOwnership` | `ImplementsOwnership`, the refinement of `FinalizerOwnership` | `ClusterOwnershipProofs`, `SecretSyncProofs`, `KubeconfigExportProofs` |
| `SyncDeletesItsOwn`, `ExportDeletesItsOwn` | `DeletesOnlyOwnSecrets`, of exports with what can take the Secret's place before the delete | `SecretSyncProofs`, `KubeconfigExportProofs` |
| `OrphansAreKept`, `SuspensionIsABarrier` | `[]OrphanKeepsRemote`, `[]SuspendBarrier` | `ClusterPolicyProofs` |
| `ReadyClustersAreSynced`, `DefaultNamesAreSynced` | `[]ReadyIsHonest`, as long as targets are apart | `ClusterPolicyProofs` |
| `SyncsAreCopied`, `OneSyncIsCopied`, `ReleasesAreInstalled`, `OneReleaseIsInstalled` | `[]SyncIsHonest` and `[]ReleaseIsHonest`, as long as targets and places are apart, or with one object | `SecretSyncProofs`, `HelmReleaseProofs` |
| `ExportsAreHonest` | `[](ExportIsHonest /\ RotationScheduled)`, as long as Reconcile reads the Secret that the spec names and that no other export has written | `KubeconfigExportProofs` |
| `SettledExportsAreHonest`, `OneExportIsHonest`, `MovedExportIsHonest` | the same for any exports that keep a target of their own; for one export that keeps its target while it lives; for one that is moved with the Delete policy | `KubeconfigExportProofs` |
| `RequestsAreNotLost` | `[]AcceptedUnlessSuppressed` | `TemplateSyncProofs` |
| `RenderingIsDeterministic` | `[]RenderIsDeterministic` | `TemplateSyncProofs` |
| `TemplatesStayCurrent`, `TemplatesAreCurrent` | `[]TemplateIsCurrent`, as long as targets are apart, or when no spec sets `clusterName` | `TemplateSyncProofs` |
| `CompositionTypeCorrect` | `[]TypeOK` of `TemplateSync` | `TemplateSyncProofs` |
| `CompositionImplementsLifecycle` | `TemplateSync` implements `ClusterLifecycle` | `TemplateSyncProofs` |

### Clusters

`SyncHoldsFinalizer` only speaks of the copy Reconcile holds, so it is not inductive: the
copy comes from the cache, the cache from an event. `HeldInv` adds that *every visible
copy* that would lead to a sync stands for a held object (`LiveIsHeld`), that deletion
is final along the versions of an incarnation (`DeletionIsFinal`), that uids in use have
been handed out, so a re-creation is never taken for an older incarnation
(`UidsIssued`), and that the worker removes finalizers only with a deleting copy, after
which no copy of that incarnation it could still read is live (`WorkerDeletes`). The
case that carries the proof is `RemoveClusterFinalizers`: the object vanishes while
older versions are still visible. For `RemoteHasOwner`, `OwnerInv` adds that, without an
edit of the target, all copies of an incarnation and its remotes agree on the
target (`SameTarget`), and that when the finalizers of a cluster not in orphan
mode are about to go, its remote has gone (`RemoteGone`).

The proof that a step preserves these is organised by what a step does to the
versions of a cluster: it continues the incarnation, lets it vanish, creates one,
delivers, or leaves the versions alone (`HeldContinue`, `HeldVanish`, `HeldCreate`,
`HeldDeliver`, … and `Owner…` likewise). Each action is shown to be one of them.
`ClusterOwnershipProofs` uses the same invariant: under `OwnerInv` each action is one of
the abstract ones or leaves the mapped variables alone.

Delete policy, suspension and Ready are about the *generation* of copies. `PolicyInv`
orders the copies that can be seen, the one Reconcile holds first and then the versions
(`Seen`, `Copy`): generations grow along them and tell the specs apart
(`GenerationsGrow`); nobody acts on a copy older than a generation that was reported as
suspended (`SuspensionSeen`); every deleting copy of an incarnation that must keep
its remote says so (`KeptIsOrphan`). `ReadyInv` adds that uids grow as well, and
`SyncedIsSeen`: when the stored status reports the current generation as synced, *all*
visible copies are of that generation. That is so because the status write succeeds only
if the cache held the stored version; it is what keeps a later Reconcile from bringing an
older generation over the one reported. `ReadyIsHonest` needs that no other cluster has
the target that Reconcile is calling Omni for (`TargetsApart`); two clusters with one
target refute it as the code stands, and so would a cluster that takes over a target while
a stale Reconcile of the previous one is still running. Nothing in the operator prevents
either, so `ReadyClustersAreSynced` has `[]TargetsApart` as a hypothesis.
`DefaultNamesAreSynced` derives it when no spec sets `clusterName`.

### Syncs, exports and releases

The three have objects, versions and finalizers in common, and `ObjectVersionsProofs`
does that part once, for any map of versions and any worker with a copy. `Lineage` says
that uids were issued, that the visible copies of an object are ordered (uids and generations
grow, deletion is final, the finalizer is not lost while the incarnation lives), that a copy
which leads Reconcile to make something stands for an object that is stored, and that
different objects have different uids. `Custody` adds that the copies of an incarnation
agree on its place, and what it has made is there, unless it was moved by an edit. Each
module has lemmas for a write, a delivery, a restart, a creation and a deletion from there, and
adds what is particular to its controller: what has been read by each step
(`WorkerKnows`), and that nothing of the incarnation is left when its finalizer is about
to go (`CopyGone`, `SecretGone`, `ReleaseGone`). An upgrade of a Helm release that fails with
`atomic` brings back a revision that another object may have asked for, so `ReleaseInv` has
custody for two owners at each place: the one of the last revision, and the one of the revision
a rollback would bring back (`RollbackOwner`).

`ExportDeletesItsOwn` is about the race between the look at the owner and the delete request,
which has no precondition. Users may delete the Secret and create another one in between, so
"only Secrets of the export are deleted" is false. What holds, without assumptions, is that
the Secret that was read was the export's (`worker.secret`), and that the one that goes
is its own or a user's, never that of another export or of another incarnation: the one worker
is the only one who writes owners. `VictimIsOwned` is the part of the invariant that says so
at the two program points behind the look.

`SyncIsHonest` and `ReleaseIsHonest` are about requests: a status written from an older
copy is corrected because another request is due, and a success asks for none. `Told`
(`ObjectVersionsProofs`) says that a version which differs from the stored one in more
than status and finalizers has an event behind it that passes the predicate, and that a
Reconcile whose copy is out of date has its key in the queue. `HonestInv` adds what
Reconcile has done before it reports a success (`WorkerInstalled`, `WorkerCopied`) and,
for syncs, that the cluster and the source it has read are as they were or a request or
the event of the source is due (`WorkerFresh`); then a report is about the stored version
or a request is due. Other objects must not touch the place in between. A sync *deletes*
only what it owns, and uids differ, but it writes over anything, and so does Helm. So
`TargetsApart` and `PlacesApart` say that no other stored object has the place Reconcile
is working at. Nothing in the operator or its webhooks enforces that, and TLC refutes both
properties for two objects of one place; with one object they hold without it.

`ExportIsHonest` and `RotationScheduled` are proved together, from a `HonestInv` of
their own in `KubeconfigExportProofs`. The argument has three parts.

* *The Secret.* What Reconcile is about to report it has read or written, and nobody has
  touched it since without an event that names the export (`WorkerExported`). The
  annotations of a Secret describe the kubeconfig that was written with them
  (`SecretsDescribed`), which is why the comparison with `SpecHash` and the hash shows that
  the data are for this cluster and profile.
* *The status.* It is written from the latest cached copy, whatever copy Reconcile worked
  with. If that is another one, a request is due (`Told`). If the write is skipped, the
  cached status is the stored one or a request is due: `ObservedIsSeen` says that a
  status for a generation is written only when the cache has that generation, and
  `InvalidIsSeen` that a refusal cannot be taken for written when the stored status says
  Exported, in spite of an edit to an invalid profile.
* *The timer.* The delay is counted from the clock at the start of Reconcile and leaves
  renewBefore; Reconcile is not slower than that (`WorkerFresh`). `AddAfter` keeps
  the earlier time, and a timer that fires leaves a request.

The hypothesis of `ExportsAreHonest`, `ReadsItsOwn`, is about the one step that reads
the Secret. The code does not enforce it: `targetSecret` prefers the name in the status,
and two exports may name one Secret. The run `export_retarget_orphan` refutes the property
where it fails. It is derived in three cases: when every export has a target of its own and
keeps it; when a single export keeps its target while it lives; and when it is moved with
the Delete policy. In the last case `PreviousGone` is the invariant: at that step the
Secret of the status is the one of the spec, or `deletePreviousTargetSecret` has removed it
and nobody creates another one. `export_safety` is an instance of this theorem
(`MovedExportIsHonest`), whose hypotheses are its constants: one export, one incarnation
(a second one may find the Secret that the first has forgotten, see section 5), specs with
the Delete policy, no foreign Secrets.

### Children and templates

`AcceptedUnlessSuppressed` says that a wrong `Accepted` is about to be corrected. The
invariant behind it (`RequestInv`) follows the request wherever it may be: in the queue, in
an event of the document or of its cluster that is still to come and *will* pass the
predicate (`EventsTell`: a cache that is behind in more than the status has such an event
coming), or in the running call, if that looks at the reference that is stored and has
found out what is so (`CallIsRight`). `RenderIsDeterministic` needs that the lists Reconcile
has read are of one kind each and that names are distinct (`InputsInv`); then the
sorted order is unique, by the least position at which two orders would differ. This is
the only place where a fact about lists of any length is needed, and it takes no induction
but the least-number principle (`LeastNatural`, from the library's well-founded relations).

`TemplateIsCurrent` puts two kinds of objects together. On the side of the documents,
`DocumentsTell` says that a version which contributes something else to a cluster than the
stored one has an event behind it that passes the predicate and wakes that cluster; the
case that matters is a document that moves, which has to wake the cluster it leaves by the
*old* object of the event. So the cluster is `Informed` of every change: it is in `woken`, or such
an event is coming. `CallUpToDate` follows a Reconcile while documents change under
it: each list it has read, the template it has rendered, and what it has brought to Omni
stand for the documents as they are stored, or its cluster is `Informed`. On the side of the cluster,
`Told` is taken for `woken` instead of the queue, as the request of `syncInterval` does not
count, and keeps a status that was written from an older copy from being believed.
`Current` is then the property itself, for clusters that are not due. It is disturbed only
by another cluster that syncs or deletes the same target, so `TemplateInv` is stated for a *set*
of clusters that nobody else's call meets (`TargetsApart`, as for `ReadyIsHonest`). For the
empty set nothing is assumed, which gives `CompositionTypeCorrect`; for all clusters it follows
when no spec sets `clusterName`, which gives `TemplatesAreCurrent`. Like the model, the
theorems leave out edits of the cluster's own spec.

### Only model-checked

* All liveness properties: the prover has no support for fairness and `ENABLED`.
* `ConnectionHeldWhileReferenced`: it fails in general, see `connection_race`; the run that
  passes has only clusters that are older than the deletion of the connection.

## 5. What the checks found

Each of the first four is a run with an expected violation.

* **`Accepted` can stay wrong** (`accepted_stale`). The reconcilers of the children skip
  the status write when the *cached* status is already what they want. While the event of
  their own previous write is on its way the stored status is another one; the write that
  was skipped is then missing, and the late event is a status change, which the
  predicate drops. `AcceptedUnlessSuppressed` shows that this is the only way.
* **A new cluster does not hold its connection yet** (`connection_race`).
  `referencingClusterNames` lists from the cache. A cluster created a moment before
  the connection's last reconcile is stranded: its deletion later fails with
  `DeleteFailed` until somebody re-creates the connection.
* **An Orphan export reports a Secret that does not exist**
  (`export_retarget_orphan`). After an edit of the target `targetSecret` still
  reads the Secret of the status, finds it current, and the status then names the
  new one.
* **An export retries a Create for ever** (`export_retarget_stuck`). Crash or failed
  status write behind the Create of the new target: the status names a Secret that
  is gone, so each retry takes the Secret for missing and creates one that exists.

Seen while modelling, with no run of their own:

* A retargeted cluster leaves its old remote behind. `reconcileDelete` deletes what
  `connectionRef` and `clusterName` name *now*; no code deletes the old target and no
  webhook refuses the edit, although docs/concepts/resource-model.md says that the
  remote is deleted with the object. It is the exception `retargeted` of `RemoteHasOwner`.
* The webhook refuses `workerSetName: control-planes` but not an OmniWorkers *named* so,
  for which `Render` fails. Manifests with one name are admitted and fail to render as
  well.
* The status of exports (line 648) and syncs (lines 395–396) takes the target from
  the latest object, also in Reconciles that wrote nothing. After an edit of the
  target such a write forgets where the old Secret is, and it outlives its object.
  This is why `SecretDeletedWithExport` and `CopyHasOwner` except
  `retargeted`. A Helm release has no memory of its old place at all.
* A crash, or the loss of the workload cluster, in the middle of a Helm operation
  leaves a pending revision. Helm refuses every later upgrade of it and nothing in
  `helmrelease.Client.Reconcile` rolls it back, so the release stays in
  `ReconcileFailed` until it is deleted (deletion works). `ReleaseCompletes` asks
  that no operation was abandoned.
* Helm releases carry no owner: a release of the same name that was there before, or a
  second OmniHelmRelease with the same place, is upgraded and uninstalled.
* Get, ownership check and Delete of an exported Secret are separate calls without a
  precondition (lines 223–224): a Secret of somebody else that replaces ours in between is
  deleted. `DeletesOnlyOwnSecrets` bounds the damage to that, and `export_liveness` opens the
  window: there users delete the Secret and create another at any step.
* `Synced=True` of a cluster can outlive what it says. `MissingTemplate` and
  `ValidationFailed` (`omnicluster_controller.go`, lines 104–135 and 294–300) set only
  `Validated` and `Ready` to False. When a child document changes, the generation of the
  cluster does not; if the new template is refused, `Synced=True` stays at the current
  generation while Omni holds the old template, and line 126 records the hash of the one
  that was refused. docs/guides/debugging.md:44 says that `Synced` means "The desired
  template was synced to Omni." The model keeps the reason of `Ready` and not `Synced`, so
  `TemplateIsCurrent` is about `Ready=True`, which falls in all these cases.
* The rotation delay is computed from the start of Reconcile and counted from its
  return. `RotationScheduled` holds if a Reconcile takes at most renewBefore.
* A status write is skipped when the *cached* status is equal (line 145), although
  the stored one may differ; it is made up for at the next rotation.
* `SpecHash` does not cover the account: moving a cluster to another connection with
  the same remote name keeps the old kubeconfig until it rotates.
* Two OmniClusters with the same connection and `clusterName`, or two exports with the
  same target Secret, overwrite each other; nothing compares them.
* A sync watches nothing in the workload cluster, so drift there is only repaired by
  the next change; and it takes over a foreign Secret that has its target name.
* Pruning an export together with a sync that uses its Secret can leave the sync's
  finalizer waiting for a kubeconfig that never comes back.

## 6. Not modelled

The field checks of the webhooks for connections, exports, syncs and releases (the
reconcilers of the last three repeat them, and the models have specs that fail
them); payload of the template that is copied field by field, YAML and Omni's own
validator (the constant `Refused`); generated deep copies, the
renderer of the operator's own chart, flags, metrics and probes of `main`,
transport, TLS and service-account parsing of the Omni client (input and output
only). Conditions that no code reads and texts are left out. Leader election is not
modelled: one process runs at a time, and `Restart` is its replacement. Permanent
errors of the management API server other than conflicts are the same as
transient ones.

Left to later work for want of a small enough instance: export, sync and release of one
cluster pruned together (the sync's finalizer may wait for a kubeconfig that the export
has deleted), two exports or two releases with one target, and edits of a cluster's own
spec in `TemplateSync`. The instance of `template_sync` has manifests of different names,
so the clash is not exercised there.

## 7. Plan

* **Pruning**: the composition of export, sync and release; which orders end.
* **Exports that share a target**, with an abstract specification of who wins.
