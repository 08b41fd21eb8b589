--------------------------- MODULE MCTemplateSync ---------------------------
(***************************************************************************)
(* Small instances of TemplateSync for TLC.                                *)
(***************************************************************************)
EXTENDS TemplateSync

CONSTANTS c1, c2, k1

ControlPlane == [kind |-> "ControlPlane", name |-> 1]
WorkersOne == [kind |-> "Workers", name |-> 1]
WorkersTwo == [kind |-> "Workers", name |-> 2]
StrangeWorkers == [kind |-> "Workers", name |-> Reserved]
MachineOne == [kind |-> "Machine", name |-> 1]

OnlyControlPlane == {ControlPlane}
OnlyWorkers == {WorkersOne}
WholeCluster ==
  {ControlPlane, WorkersOne, WorkersTwo, StrangeWorkers, MachineOne}

MCDocumentSpec(ref, name) ==
  [clusterRef |-> ref, setName |-> name, machines |-> <<>>, class |-> 1,
   kernelArgs |-> FALSE, patches |-> <<>>]

(* The control plane belongs to c1, or to a cluster that is not there; so   *)
(* does the third worker set, which makes rendering fail by its name, or is *)
(* refused by the validator for another one.                                *)
MovingControlPlane ==
  [d \in Document |->
     CASE d = ControlPlane -> {MCDocumentSpec(c1, Unset), MCDocumentSpec(c2, Unset)}
       [] d = StrangeWorkers ->
            {MCDocumentSpec(c2, 3), MCDocumentSpec(c1, 3), MCDocumentSpec(c1, Unset)}
       [] OTHER -> {MCDocumentSpec(c1, Unset)}]

MCClusterSpec(orphan) ==
  [connectionRef |-> k1, clusterName |-> Unset, orphan |-> orphan,
   suspend |-> FALSE]

PlainSpec == {MCClusterSpec(FALSE)}
OrphanSpec == {MCClusterSpec(TRUE)}

TwoManifests ==
  [s \in Specs |-> <<[name |-> 1, sources |-> {"inline"}],
                     [name |-> 2, sources |-> {"file"}]>>]

(* The operator has been running before. *)
Held == {{"finalizer"}}

=============================================================================
