---------------------------- MODULE MCAdmission ----------------------------
(***************************************************************************)
(* Graphs for Admission: a correct one, and one for every way in which the *)
(* webhook's loops can meet an error, within a node and across nodes.      *)
(***************************************************************************)
EXTENDS Admission, TLC

MCRoot == "root"
MCstepNames == {"Llm", "Tgi"}

MCStep(name, node, svc) == [name |-> name, node |-> node, svc |-> svc]

Plain == MCStep("Llm", None, None)
Tgi == MCStep("Tgi", None, "a")
ToNode == MCStep("Llm", "n", None)

MCGraphs ==
    { \* valid: two nodes, two services, one step without a service name twice
      "root" :> <<ToNode, Tgi>> @@ "n" :> <<MCStep("Llm", None, "b"), Plain>>,
      \* the same service in two nodes, and twice in one
      "root" :> <<Tgi>> @@ "n" :> <<Plain, MCStep("Llm", None, "a")>>,
      "root" :> <<Tgi, MCStep("Llm", None, "a")>>,
      \* a node that is not there, a step without a name, no root
      "root" :> <<ToNode>>,
      "root" :> <<Plain, MCStep("", None, None)>>,
      "n" :> <<Plain>> }
=============================================================================
