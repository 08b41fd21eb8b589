--------------------------- MODULE ClusterTemplate ---------------------------
(***************************************************************************)
(* The Omni cluster template of an OmniCluster: which child documents      *)
(* belong to it (templateInputs of                                         *)
(* internal/controller/omnicluster_controller.go), how they are rendered   *)
(* (internal/omnitemplate/builder.go), and what the admission webhooks let *)
(* into the API server (internal/webhook/v1alpha1/validation.go).          *)
(*                                                                         *)
(* Names are numbers, in the order of the strings they stand for.  YAML,   *)
(* and the fields of a document that are copied to it one by one, are left *)
(* out but for those that decide whether a document is admitted.           *)
(***************************************************************************)
EXTENDS Naturals, FiniteSets, Sequences, Functions

CONSTANTS
  Unset,     \* an optional field that is left empty
  Reserved,  \* the worker set name "control-planes"
  Uuids      \* the names that parse as a UUID

Kinds == <<"ControlPlane", "Workers", "Machine">>

(* workerSetName, machineID: the field in the spec, else metadata.name *)
ResolvedName(document) ==
  IF document.spec.setName # Unset THEN document.spec.setName
                                   ELSE document.name

-----------------------------------------------------------------------------
(* Admission *)

(* validatePatches, validateManifests: a file or an inline value, not both  *)
OneSource(item) == Cardinality(item.sources) = 1

(* The rule of the CRD, then validateMachineSet with validateMachineClass   *)
(* and validateMachineIDs.  A size that is a word counts as a number.        *)
AdmitsMachineSet(spec) ==
  /\ (spec.machines = <<>>) # (spec.class = Unset)
  /\ spec.class # Unset => spec.class > 0 /\ ~spec.kernelArgs
  /\ Range(spec.machines) \subseteq Uuids /\ IsInjective(spec.machines)

(* validateControlPlane, validateWorkers, validateMachine *)
AdmitsDocument(document) ==
  /\ \A i \in DOMAIN document.spec.patches : OneSource(document.spec.patches[i])
  /\ document.kind # "Machine" => AdmitsMachineSet(document.spec)
  /\ document.kind = "Workers" => document.spec.setName # Reserved
  /\ document.kind = "Machine" => ResolvedName(document) \in Uuids

(* The part of validateCluster that is about the template *)
AdmitsManifests(manifests) ==
  \A i \in DOMAIN manifests : OneSource(manifests[i])

-----------------------------------------------------------------------------
(* Rendering *)

(* templateInputs, for one kind *)
Selected(documents, kind, cluster) ==
  {d \in documents : d.kind = kind /\ d.spec.clusterRef = cluster}

(* The orders in which a list may come *)
Orders(documents) == Bijection(1 .. Cardinality(documents), documents)

(* Mutant: the list of the cache is taken as it comes. *)
SortedMutant(documents) == Orders(documents)

(* sort.Slice of what the cache lists: the cache lists in any order, and    *)
(* the sort keeps no order among equal names.                               *)
Sorted(documents) ==
  {s \in Orders(documents) :
     \A i, j \in DOMAIN s : i < j => ResolvedName(s[i]) <= ResolvedName(s[j])}

(* renderControlPlane, renderWorkers, renderMachine; a control plane has no *)
(* name, and a machine no machines.                                          *)
RenderDocument(document) ==
  [kind |-> document.kind,
   name |-> IF document.kind = "ControlPlane" THEN Unset
                                              ELSE ResolvedName(document),
   machines |-> document.spec.machines, class |-> document.spec.class,
   patches |-> document.spec.patches]

(* renderManifests with renderManifestInline: the file goes before the      *)
(* inline list, which is there, if empty, without one.                      *)
RenderManifest(manifest) ==
  [name |-> manifest.name,
   source |-> IF "file" \in manifest.sources THEN "file" ELSE "inline"]

(* validateManifestNames *)
ManifestNamesClash(manifests) ==
  \E i, j \in DOMAIN manifests : i # j /\ manifests[i].name = manifests[j].name

(* templateInputs returns an error. *)
InputsFail(documents, cluster) ==
  Cardinality(Selected(documents, "ControlPlane", cluster)) # 1

(* Render returns an error. *)
RenderFails(documents, cluster, manifests) ==
  \/ ManifestNamesClash(manifests)
  \/ \E d \in Selected(documents, "Workers", cluster) : ResolvedName(d) = Reserved

(* The orders in which Render may go through the documents: the control      *)
(* plane, then the workers, then the machines                               *)
RenderOrders(documents, cluster) ==
  {p \o w \o m : p \in Orders(Selected(documents, "ControlPlane", cluster)),
                 w \in Sorted(Selected(documents, "Workers", cluster)),
                 m \in Sorted(Selected(documents, "Machine", cluster))}

(* renderCluster *)
RenderCluster(remoteName, manifests) ==
  [kind |-> "Cluster", name |-> remoteName,
   manifests |-> [i \in DOMAIN manifests |-> RenderManifest(manifests[i])]]

(* Render: the templates that may come out for these documents. *)
Renderings(documents, cluster, remoteName, manifests) ==
  {<<RenderCluster(remoteName, manifests)>>
     \o [i \in DOMAIN s |-> RenderDocument(s[i])] :
     s \in RenderOrders(documents, cluster)}

=============================================================================
