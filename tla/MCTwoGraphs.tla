---------------------------- MODULE MCTwoGraphs -----------------------------
(***************************************************************************)
(* Instances of GMCReconciler with two graphs and one worker.  The first   *)
(* may lose its only step by an edit.  The second has a step whose         *)
(* Deployment cannot be built (its downstream service is not in the graph) *)
(* after its ConfigMap has been applied.                                   *)
(***************************************************************************)
EXTENDS GMCInvariant

CONSTANTS g1, g2, root, good, broken, dGood, cmBroken, dBroken, dRouter1, dRouter2

MCManifest == [s \in {good, broken} |-> IF s = good THEN <<dGood>>
                                        ELSE <<cmBroken, dBroken>>]

OneStep(s, router) == [nodes |-> [n \in {root} |-> <<s>>], router |-> <<router>>]

NoStep(router) == [nodes |-> [n \in {root} |-> <<>>], router |-> <<router>>]

MCSpecsOf == [g \in {g1, g2} |-> IF g = g1 THEN {OneStep(good, dRouter1), NoStep(dRouter1)}
                                 ELSE {OneStep(broken, dRouter2)}]
=============================================================================
