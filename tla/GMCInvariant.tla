---------------------------- MODULE GMCInvariant ----------------------------
(***************************************************************************)
(* The inductive invariant behind the settled-state properties of          *)
(* GMCReconciler.                                                          *)
(***************************************************************************)
EXTENDS GMCReconciler

\* The objects any spec of g may ask for.
AllOf(g) == UNION {Wanted(spec) : spec \in SpecsOf[g]}

\* No two graphs ask for an object of the same kind and name (services, router
\* and ConfigMaps are named apart, or the graphs are in different namespaces).
Disjoint == \A g, h \in Graphs : g # h => AllOf(g) \cap AllOf(h) = {}

\* A version of g that the API server may have stored by its n-th revision.
GoodVersion(g, v, n) ==
  /\ v.uid # 0 => v.spec \in SpecsOf[g]
  /\ v.uid <= n
  /\ v.annotations \subseteq AllOf(g)
  /\ v.annotations # {} => Len(v.status) = 3

\* Two versions the informer sees one after the other are of one resource,
\* unless one of them is "not found".
SameResource(v, w) == v.uid # 0 /\ w.uid # 0 => v.uid = w.uid

\* The cache and the versions on their way lead up to what is stored.
WatchInv ==
  \A g \in Graphs :
    /\ GoodVersion(g, api[g], rev[g])
    /\ GoodVersion(g, cache[g], rev[g])
    /\ \A k \in 1..Len(watch[g]) : GoodVersion(g, watch[g][k], rev[g])
    /\ IF watch[g] = <<>> THEN cache[g] = api[g]
       ELSE /\ watch[g][Len(watch[g])] = api[g]
            /\ SameResource(cache[g], watch[g][1])
    /\ \A k \in 1..(Len(watch[g]) - 1) : SameResource(watch[g][k], watch[g][k + 1])

\* Reconcile works on the graph it was asked for.
FullPass == pc \in {"nodes", "steps", "apply", "router", "prune"}

Collecting == pc \in {"collect", "count", "update"}

\* The objects of the first m of these steps have been recorded.
StepsRecorded(steps, m, annotations) ==
  \A k \in 1..Len(steps) : k <= m /\ IsInternal(steps[k]) =>
    Range(Manifest[steps[k]]) \subseteq annotations

WorkerInv ==
  /\ FullPass => req \in Graphs
  /\ Busy => /\ name \in Graphs
             /\ req \in Graphs => name = req
             /\ graph.spec \in SpecsOf[name]
             /\ graph.annotations \subseteq AllOf(name)
  /\ FullPass => /\ graph.annotations \subseteq Wanted(graph.spec)
                 /\ oldAnnotations \subseteq AllOf(name)
                 /\ \A n \in doneNodes : StepsRecorded(
                      graph.spec.nodes[n], Len(graph.spec.nodes[n]), graph.annotations)
  /\ pc \in {"steps", "apply"} => 
       /\ nodeName \in Nodes
       /\ StepsRecorded(graph.spec.nodes[nodeName], i - 1, graph.annotations)
  /\ pc = "apply" => i <= Len(graph.spec.nodes[nodeName]) /\ IsInternal(step)
  /\ pc \in {"router", "prune"} => doneNodes = Nodes
  /\ pc = "router" => \A k \in 1..Len(graph.spec.router) :
                        k < j => graph.spec.router[k] \in graph.annotations
  /\ pc = "prune" => Range(graph.spec.router) \subseteq graph.annotations
  /\ Collecting /\ req \in Graphs => graph.annotations = Wanted(graph.spec)
  /\ pc = "collect" /\ graph.annotations # {} => Len(graph.status) = 3
  /\ pc \in {"count", "update"} => Len(graph.status) = 3

OwnedBy(r, g, uid) == cluster[r].owner = g /\ cluster[r].uid = uid

\* What Reconcile has applied so far.
Applied(r) ==
  \/ r \in graph.annotations
  \/ pc = "apply" /\ \E k \in 1..Len(Manifest[step]) : k < j /\ r = Manifest[step][k]

\* Nobody has to look at g again because of what is in the cache by now.
Owed(g) == g \notin queue /\ cache[g].uid # 0 /\ cache[g].uid = api[g].uid

InPass(g) == Busy /\ req = g

\* Everything the cached spec asks for is in place, or Reconcile is working on
\* that very spec and what it has applied so far is in place.
Served(g) ==
  IF InPass(g)
  THEN /\ graph.uid = cache[g].uid
       /\ graph.spec = cache[g].spec
       /\ \A r \in Resources : Applied(r) => OwnedBy(r, g, cache[g].uid)
  ELSE \A r \in Wanted(cache[g].spec) : OwnedBy(r, g, cache[g].uid)

ServedInv == \A g \in Graphs : Owed(g) => Served(g)

\* The inductive invariant: what is recorded and applied at every point of a
\* reconcile, and what a graph that nobody has to look at again is owed.
Inv == WatchInv /\ WorkerInv /\ ServedInv
=============================================================================
