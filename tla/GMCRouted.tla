----------------------------- MODULE GMCRouted ------------------------------
(***************************************************************************)
(* GMCReconciler with a record of what the Deployment of each graph's      *)
(* router says: --graph-json is the spec of the pass that applied it last. *)
(***************************************************************************)
EXTENDS GMCInvariant

VARIABLE
  routed   \* Graphs -> [spec, uid] of that pass; uid 0 when there was none

routedVars == <<vars, routed>>

Unrouted == [spec |-> NoSpec, uid |-> 0]

RoutedInit == Init /\ routed = [g \in Graphs |-> Unrouted]

\* reconcileRouterService applies the first object of gmc-router.yaml.
RouterApplied == pc = "router" /\ j = 1 /\ j' = 2

RoutedNext ==
  /\ Next
  /\ routed' = IF RouterApplied
               THEN [routed EXCEPT ![name] = [spec |-> graph.spec, uid |-> graph.uid]]
               ELSE routed

RoutedSpec == RoutedInit /\ [][RoutedNext]_routedVars

RoutedFairSpec == RoutedSpec /\ Fairness

\* The objects of the steps of a spec, without the router's own.
StepObjects(spec) ==
  {r \in Resources : \E n \in Nodes : \E s \in Range(spec.nodes[n]) :
     IsInternal(s) /\ r \in Range(Manifest[s])}

\* Make before break: whenever a router pod starts, every object of every step of
\* the graph it is given is in the cluster.  The steps are applied before the
\* router, what an edit removed is deleted after it (lines 385-432), and neither
\* a pass over a stale spec, nor one that fails half-way, nor a restart, nor a
\* graph that is deleted and created again takes an object away from it.
RouterBacked ==
  \A g \in Graphs : routed[g].uid # 0 /\ routed[g].uid = api[g].uid =>
    \A r \in StepObjects(routed[g].spec) : OwnedBy(r, g, routed[g].uid)
=============================================================================
