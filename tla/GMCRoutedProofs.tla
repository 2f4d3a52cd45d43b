-------------------------- MODULE GMCRoutedProofs ---------------------------
(***************************************************************************)
(* Make before break, for any graphs, specs, manifests, faults and bounds: *)
(* a router never refers to a service the controller has taken away.       *)
(***************************************************************************)
EXTENDS GMCRouted, GMCServedProofs

USE DEF apiVars, objVars, cacheVars, loopVars, countVars, workerVars

\* gmc-router.yaml holds a Deployment and a Service, whatever the spec.
HasRouter == \A g \in Graphs : \A spec \in SpecsOf[g] : spec.router # <<>>
-----------------------------------------------------------------------------
(***************************************************************************)
(* The informer does not come back to an earlier incarnation of a graph.   *)
(***************************************************************************)
\* All the informer has, and has still to hear, is of the stored incarnation.
Follows(g) == /\ cache[g].uid = api[g].uid
              /\ \A k \in 1..Len(watch[g]) : watch[g][k].uid = api[g].uid

OrderInv ==
  \A g \in Graphs : api[g].uid # 0 =>
    /\ cache[g].uid = api[g].uid => Follows(g)
    /\ \A k, l \in 1..Len(watch[g]) :
         k <= l /\ watch[g][k].uid = api[g].uid => watch[g][l].uid = api[g].uid

\* The ways in which what is stored, sent and cached of the graphs changes.
LEMMA InformerMoves ==
  ASSUME TypeOK, WatchInv, WorkerInv, [Next]_vars
  PROVE  \/ UNCHANGED <<api, rev, watch, cache>>
         \/ \E g \in Graphs : \E v \in Version :
              /\ Write(g, v) /\ cache' = cache
              /\ v.uid = api[g].uid \/ v.uid = 0 \/ v.uid = rev[g] + 1
         \/ \E g \in Graphs : DeliverGraph(g)
         \/ RestartManager
<1> USE NamesAssumption, SpecAssumption
<1>0. \A g \in Graphs : api[g] \in Version /\ rev[g] \in Nat
  BY DEF TypeOK
<1>1. CASE Work
  <2>1. CASE statusUpdate
    <3>1. name \in Graphs /\ graph \in Version
      BY <2>1 DEF statusUpdate, WorkerInv, Busy, TypeOK
    <3> DEFINE v == [api[name] EXCEPT !.annotations = graph.annotations,
                                      !.status = graph.status, !.rv = rev[name] + 1]
    <3>2. v \in Version
      <4>1. /\ rev[name] + 1 \in Nat /\ graph.annotations \in SUBSET Resources
            /\ graph.status \in Seq(Nat) /\ api[name] \in Version /\ NoSpec \in SpecType
        BY <1>0, <3>1, NoSpecType DEF Version
      <4> QED BY <4>1, VersionFields
    <3>4. v.uid = api[name].uid
      BY <1>0, <3>1 DEF Version
    <3> HIDE DEF v
    <3>3. Write(name, v) /\ cache' = cache
      BY <2>1 DEF statusUpdate, v
    <3> QED BY <3>1, <3>2, <3>3, <3>4
  <2>2. CASE ~ statusUpdate
    BY <1>1, <2>2 DEF Work, ReconcileIgnored, ReconcileGraph, handleStatusUpdate, Dequeue,
       EnterNode, LeaveNode, SkipStep, EnterStep, reconcileResource, recordResources,
       EnterRouter, reconcileRouterService, EnterPrune, deleteRecordedResource,
       ResetStatus, collectResourceStatus, collectResourceStatusFails, Fail,
       CountDeployment, getLatestGraph
  <2> QED BY <2>1, <2>2
<1>2. CASE WorkFails
  BY <1>2 DEF WorkFails, reconcileResourceFails, reconcileRouterServiceFails,
     deleteRecordedResourceFails, statusUpdateFails, Fail
<1>3. CASE Environment
  <2>1. ASSUME NEW g \in Graphs, NEW spec \in SpecsOf[g], UserCreate(g, spec)
        PROVE  \E v \in Version : Write(g, v) /\ cache' = cache /\ v.uid = rev[g] + 1
    <3> DEFINE v == [uid |-> rev[g] + 1, rv |-> rev[g] + 1, spec |-> spec,
                     annotations |-> {}, status |-> <<>>]
    <3>1. v \in Version /\ v.uid = rev[g] + 1
      BY <1>0, <2>1 DEF Version
    <3> HIDE DEF v
    <3> QED BY <2>1, <3>1 DEF UserCreate, v
  <2>2. ASSUME NEW g \in Graphs, NEW spec \in SpecsOf[g], UserEdit(g, spec)
        PROVE  \E v \in Version : Write(g, v) /\ cache' = cache /\ v.uid = api[g].uid
    <3> DEFINE v == [api[g] EXCEPT !.spec = spec, !.rv = rev[g] + 1]
    <3>1. v \in Version
      <4>1. rev[g] + 1 \in Nat /\ spec \in SpecType /\ api[g] \in Version
            /\ <<>> \in Seq(Nat)
        BY <1>0, <2>2
      <4> QED BY <4>1, VersionFields
    <3>2. v.uid = api[g].uid
      BY <1>0, <2>2 DEF Version
    <3> HIDE DEF v
    <3> QED BY <2>2, <3>1, <3>2 DEF UserEdit, v
  <2>3. ASSUME NEW g \in Graphs, UserDelete(g)
        PROVE  \E v \in Version : Write(g, v) /\ cache' = cache /\ v.uid = 0
    <3>1. NotFound.uid = 0
      BY DEF NotFound
    <3> QED BY <2>3, <3>1, NotFoundType DEF UserDelete
  <2>4. ASSUME NEW d \in Deployments, FlipDeployment(d)
        PROVE  UNCHANGED <<api, rev, watch, cache>>
    BY <2>4 DEF FlipDeployment
  <2> QED BY <1>3, <2>1, <2>2, <2>3, <2>4 DEF Environment
<1>4. CASE \/ \E d \in Deployments : DeliverDeployment(d)
           \/ \E r \in Resources : CollectGarbage(r)
           \/ UNCHANGED vars
  BY <1>4 DEF DeliverDeployment, CollectGarbage, vars
<1> QED BY <1>1, <1>2, <1>3, <1>4 DEF Next

\* An incarnation's number is new, and who follows the stored one goes on so.
LEMMA InformerStep ==
  ASSUME TypeOK, WatchInv, WorkerInv, OrderInv, [Next]_vars, NEW g \in Graphs
  PROVE  /\ rev[g] <= rev'[g]
         /\ \/ api'[g].uid = api[g].uid
            \/ api'[g].uid = 0
            \/ api'[g].uid = rev[g] + 1
         /\ Follows(g) /\ api'[g].uid = api[g].uid => Follows(g)'
         /\ api'[g].uid # 0 =>
              /\ cache'[g].uid = api'[g].uid => Follows(g)'
              /\ \A k, l \in 1..Len(watch'[g]) :
                   k <= l /\ watch'[g][k].uid = api'[g].uid
                     => watch'[g][l].uid = api'[g].uid
<1>0. /\ api \in [Graphs -> Version] /\ rev \in [Graphs -> Nat]
      /\ watch \in [Graphs -> Seq(Version)] /\ cache \in [Graphs -> Version]
      /\ watch[g] \in Seq(Version) /\ Len(watch[g]) \in Nat /\ rev[g] \in Nat
      /\ cache[g].uid \in Nat /\ api[g].uid \in Nat
      /\ \A k \in 1..Len(watch[g]) : watch[g][k].uid \in Nat
      /\ cache[g].uid <= rev[g]
      /\ \A k \in 1..Len(watch[g]) : watch[g][k].uid <= rev[g]
  <2>1. /\ api \in [Graphs -> Version] /\ rev \in [Graphs -> Nat]
        /\ watch \in [Graphs -> Seq(Version)] /\ cache \in [Graphs -> Version]
    BY DEF TypeOK
  <2>2. \A k \in 1..Len(watch[g]) : watch[g][k] \in Version
    BY <2>1
  <2>3. /\ cache[g].uid \in Nat /\ api[g].uid \in Nat
        /\ \A k \in 1..Len(watch[g]) : watch[g][k].uid \in Nat
    BY <2>1, <2>2 DEF Version
  <2>4. cache[g].uid <= rev[g] /\ \A k \in 1..Len(watch[g]) : watch[g][k].uid <= rev[g]
    BY DEF WatchInv, GoodVersion
  <2> QED BY <2>1, <2>3, <2>4
<1>1. CASE UNCHANGED <<api[g], rev[g], watch[g], cache[g]>>
  BY <1>0, <1>1 DEF OrderInv, Follows
<1>2. CASE \E v \in Version : /\ Write(g, v) /\ cache' = cache
                              /\ v.uid = api[g].uid \/ v.uid = 0 \/ v.uid = rev[g] + 1
  <2>1. PICK v \in Version : /\ Write(g, v) /\ cache' = cache
                             /\ v.uid = api[g].uid \/ v.uid = 0 \/ v.uid = rev[g] + 1
    BY <1>2
  <2>2. /\ api'[g] = v /\ rev'[g] = rev[g] + 1 /\ watch'[g] = Append(watch[g], v)
        /\ v.uid \in Nat
    BY <1>0, <2>1 DEF Write, Version
  <2>3. /\ Len(watch'[g]) = Len(watch[g]) + 1
        /\ watch'[g][Len(watch[g]) + 1] = v
        /\ \A k \in 1..Len(watch[g]) : watch'[g][k] = watch[g][k]
    BY <1>0, <2>2
  <2>4. \A k \in 1..Len(watch'[g]) : k \in 1..Len(watch[g]) \/ k = Len(watch[g]) + 1
    BY <1>0, <2>3
  <2>5. CASE v.uid = api[g].uid
    <3>1. Follows(g) => Follows(g)'
      BY <2>1, <2>2, <2>3, <2>4, <2>5 DEF Follows
    <3>2. ASSUME api'[g].uid # 0, NEW k \in 1..Len(watch'[g]), NEW l \in 1..Len(watch'[g]),
                 k <= l, watch'[g][k].uid = api'[g].uid
          PROVE  watch'[g][l].uid = api'[g].uid
      <4>1. CASE l = Len(watch[g]) + 1
        BY <2>2, <2>3, <4>1
      <4>2. CASE l \in 1..Len(watch[g])
        <5>1. k \in 1..Len(watch[g])
          BY <1>0, <2>3, <3>2, <4>2
        <5> QED BY <2>2, <2>3, <2>5, <3>2, <4>2, <5>1 DEF OrderInv
      <4> QED BY <2>4, <4>1, <4>2
    <3>3. api'[g].uid # 0 /\ cache'[g].uid = api'[g].uid => Follows(g)
      BY <2>1, <2>2, <2>5 DEF OrderInv
    <3> QED BY <1>0, <2>2, <2>5, <3>1, <3>2, <3>3
  <2>6. CASE v.uid = 0 /\ v.uid # api[g].uid
    BY <1>0, <2>2, <2>6
  <2>7. CASE v.uid = rev[g] + 1 /\ v.uid # api[g].uid
    <3>1. cache'[g].uid # api'[g].uid /\ \A k \in 1..Len(watch[g]) : watch'[g][k].uid # v.uid
      <4>1. \A n \in Nat : n <= rev[g] => n # v.uid
        BY <1>0, <2>7
      <4>2. cache'[g].uid # api'[g].uid
        BY <1>0, <2>1, <2>2, <4>1
      <4>3. ASSUME NEW k \in 1..Len(watch[g])
            PROVE  watch'[g][k].uid # v.uid
        BY <1>0, <2>3, <4>1
      <4> QED BY <4>2, <4>3
    <3>2. ASSUME NEW k \in 1..Len(watch'[g]), NEW l \in 1..Len(watch'[g]),
                 k <= l, watch'[g][k].uid = api'[g].uid
          PROVE  watch'[g][l].uid = api'[g].uid
      <4>1. k = Len(watch[g]) + 1
        BY <2>2, <2>4, <3>1, <3>2
      <4>2. l = Len(watch[g]) + 1
        BY <1>0, <2>3, <3>2, <4>1
      <4> QED BY <2>2, <2>3, <4>2
    <3> QED BY <1>0, <2>2, <2>7, <3>1, <3>2
  <2> QED BY <2>1, <2>5, <2>6, <2>7
<1>3. CASE DeliverGraph(g)
  <2>1. /\ watch[g] # <<>> /\ cache'[g] = Head(watch[g]) /\ watch'[g] = Tail(watch[g])
        /\ UNCHANGED <<api, rev>>
    BY <1>0, <1>3 DEF DeliverGraph
  <2>2. /\ Len(watch[g]) > 0 /\ cache'[g] = watch[g][1]
        /\ Len(watch'[g]) = Len(watch[g]) - 1
        /\ \A k \in 1..(Len(watch[g]) - 1) : watch'[g][k] = watch[g][k + 1]
    BY <1>0, <2>1
  <2>3. /\ 1 \in 1..Len(watch[g])
        /\ \A k \in 1..Len(watch'[g]) : k + 1 \in 1..Len(watch[g]) /\ 1 <= k + 1
    BY <1>0, <2>2
  <2>4. Follows(g) => Follows(g)'
    BY <2>1, <2>2, <2>3 DEF Follows
  <2>5. api'[g].uid # 0 /\ cache'[g].uid = api'[g].uid => Follows(g)'
    BY <2>1, <2>2, <2>3 DEF OrderInv, Follows
  <2>6. ASSUME api'[g].uid # 0, NEW k \in 1..Len(watch'[g]), NEW l \in 1..Len(watch'[g]),
               k <= l, watch'[g][k].uid = api'[g].uid
        PROVE  watch'[g][l].uid = api'[g].uid
    <3>1. k + 1 <= l + 1
      BY <1>0, <2>2, <2>6
    <3> QED BY <2>1, <2>2, <2>3, <2>6, <3>1 DEF OrderInv
  <2> QED BY <1>0, <2>1, <2>4, <2>5, <2>6
<1>4. CASE RestartManager
  <2>1. cache'[g] = api[g] /\ watch'[g] = <<>> /\ UNCHANGED <<api, rev>>
    BY <1>4 DEF RestartManager
  <2> QED BY <1>0, <2>1 DEF Follows
<1>5. ASSUME NEW h \in Graphs, h # g,
             DeliverGraph(h) \/ \E v \in Version : Write(h, v) /\ cache' = cache
      PROVE  UNCHANGED <<api[g], rev[g], watch[g], cache[g]>>
  BY <1>0, <1>5 DEF DeliverGraph, Write
<1> QED BY <1>1, <1>2, <1>3, <1>4, <1>5, InformerMoves

LEMMA OrderNext ==
  ASSUME TypeOK, WatchInv, WorkerInv, OrderInv, [Next]_vars
  PROVE  OrderInv'
BY InformerStep DEF OrderInv
-----------------------------------------------------------------------------
(***************************************************************************)
(* The kinds of steps, as far as passes and owners of objects go.          *)
(***************************************************************************)
\* The pass has applied its router.
Passed == pc = "prune" \/ (pc = "router" /\ j # 1)

SameOwners ==
  \A r \in Resources : cluster'[r].owner = cluster[r].owner /\ cluster'[r].uid = cluster[r].uid

SamePass == /\ FullPass /\ FullPass' /\ name' = name
            /\ graph'.uid = graph.uid /\ graph'.spec = graph.spec

\* No pass is under way afterwards.
Quiet == ~FullPass' /\ SameOwners /\ ~RouterApplied

\* The pass goes on, or somebody else moves.
Moves == /\ SamePass /\ SameOwners /\ ~RouterApplied
         /\ Passed' => Passed
         /\ \A r \in Resources : Applied(r)' => Applied(r)

\* The pass applies an object.
Puts(r) == /\ SamePass /\ api' = api
           /\ pc \in {"apply", "router"}
           /\ Passed' => Passed \/ RouterApplied
           /\ cluster' = [cluster EXCEPT ![r] = [owner |-> name, uid |-> graph.uid,
                                                available |-> cluster[r].available]]
           /\ \A x \in Resources : Applied(x)' => x = r \/ Applied(x)

\* The pass deletes what the graph no longer has.
Prunes(r) == /\ SamePass /\ api' = api
             /\ pc = "prune" /\ pc' = "prune" /\ graph' = graph
             /\ cluster' = [cluster EXCEPT ![r] = Absent]

LEMMA ApplyPuts ==
  ASSUME TypeOK, WorkerInv, reconcileResource
  PROVE  \E r \in AllOf(name) : Puts(r)
<1> USE NamesAssumption, SpecAssumption
<1>0. /\ graph \in Version /\ graph.spec \in SpecType /\ j \in Nat \ {0}
      /\ \A n \in Nodes : graph.spec.nodes[n] \in Seq(Steps)
  BY DEF TypeOK, Version, SpecType
<1> DEFINE r == Manifest[step][j]
<1>1. /\ nodeName \in Nodes /\ i \in 1..Len(graph.spec.nodes[nodeName])
      /\ IsInternal(graph.spec.nodes[nodeName][i]) /\ name \in Graphs
      /\ graph.spec \in SpecsOf[name]
  BY <1>0 DEF reconcileResource, step, WorkerInv, TypeOK, Busy
<1>2. r \in Range(Manifest[step])
  BY <1>0, StepType DEF reconcileResource, Range
<1>3. r \in AllOf(name)
  BY <1>0, <1>1, <1>2, StepWanted, WantedOfGraph DEF step
<1>4. /\ pc = "apply" /\ pc' = "apply" /\ j' = j + 1 /\ graph' = graph /\ step' = step
      /\ UNCHANGED <<api, name>>
  BY DEF reconcileResource, step
<1>5. ASSUME NEW x \in Resources, Applied(x)'
      PROVE  x = r \/ Applied(x)
  <2>1. CASE x \in graph'.annotations
    BY <1>4, <2>1 DEF Applied
  <2>2. CASE x \notin graph'.annotations
    <3>1. PICK k \in 1..Len(Manifest[step]) : k < j + 1 /\ x = Manifest[step][k]
      BY <1>4, <1>5, <2>2 DEF Applied
    <3>2. k = j \/ k < j
      BY <1>0, <3>1
    <3> QED BY <1>4, <3>1, <3>2 DEF Applied
  <2> QED BY <2>1, <2>2
<1>6. cluster' = [cluster EXCEPT ![r] = [owner |-> name, uid |-> graph.uid,
                                         available |-> cluster[r].available]]
  BY DEF reconcileResource, applyResourceToK8s, PutObject
<1> HIDE DEF r
<1>7. Puts(r)
  BY <1>4, <1>5, <1>6 DEF Puts, SamePass, FullPass, Passed
<1> QED BY <1>3, <1>7

LEMMA RouterPuts ==
  ASSUME TypeOK, WorkerInv, reconcileRouterService
  PROVE  \E r \in AllOf(name) : Puts(r)
<1> USE NamesAssumption, SpecAssumption
<1>0. /\ graph \in Version /\ graph.spec \in SpecType /\ j \in Nat \ {0}
      /\ graph.spec.router \in Seq(Resources)
  BY DEF TypeOK, Version, SpecType
<1> DEFINE r == graph.spec.router[j]
<1>1. name \in Graphs /\ graph.spec \in SpecsOf[name]
  BY DEF reconcileRouterService, WorkerInv, Busy
<1>2. r \in AllOf(name)
  BY <1>0, <1>1, RouterWanted, WantedOfGraph DEF reconcileRouterService, Range
<1>3. /\ graph'.spec = graph.spec /\ graph'.uid = graph.uid
      /\ graph'.annotations = graph.annotations \cup {r}
  BY <1>0 DEF reconcileRouterService, Version
<1>4. /\ pc = "router" /\ pc' = "router" /\ j' = j + 1 /\ UNCHANGED <<api, name>>
      /\ j = 1 => j' = 2
  BY DEF reconcileRouterService
<1>5. cluster' = [cluster EXCEPT ![r] = [owner |-> name, uid |-> graph.uid,
                                         available |-> cluster[r].available]]
  BY DEF reconcileRouterService, applyResourceToK8s, PutObject
<1> HIDE DEF r
<1>6. \A x \in Resources : Applied(x)' => x = r \/ Applied(x)
  BY <1>3, <1>4 DEF Applied
<1>7. Puts(r)
  BY <1>3, <1>4, <1>5, <1>6 DEF Puts, SamePass, FullPass, Passed, RouterApplied
<1> QED BY <1>2, <1>7

\* Every step is of one of these kinds.
LEMMA StepKinds ==
  ASSUME TypeOK, WatchInv, WorkerInv, HasRouter, [Next]_vars
  PROVE  \/ Quiet
         \/ Moves
         \/ \E r \in AllOf(name) : Puts(r)
         \/ \E r \in Stale : Prunes(r)
         \/ \E r \in Resources : CollectGarbage(r)
         \/ \E g \in Graphs : ReconcileGraph(g)
<1> USE NamesAssumption, SpecAssumption
<1>0. graph \in Version /\ graph.spec \in SpecType /\ j \in Nat \ {0}
  BY DEF TypeOK, Version
<1>f. ASSUME pc' = "idle", UNCHANGED <<cluster, j>>
      PROVE  Quiet
  BY <1>f DEF Quiet, FullPass, SameOwners, RouterApplied
<1>g. ASSUME FullPass, FullPass', UNCHANGED <<name, graph, cluster>>, ~RouterApplied,
             Passed' => Passed, \A r \in Resources : Applied(r)' => Applied(r)
      PROVE  Moves
  BY <1>g DEF Moves, SamePass, SameOwners
\* A step of somebody else, whose objects keep their owners.
<1>o. ASSUME UNCHANGED workerVars, SameOwners
      PROVE  Quiet \/ Moves
  <2>1. /\ ~RouterApplied /\ Passed' = Passed /\ FullPass' = FullPass
        /\ \A r \in Resources : Applied(r)' => Applied(r)
    BY <1>0, <1>o DEF RouterApplied, Passed, FullPass, Applied, step
  <2> QED BY <1>o, <2>1 DEF Quiet, Moves, SamePass
<1>1. CASE Work
  <2>1. CASE \E x \in queue : ReconcileIgnored(x)
    BY <1>o, <2>1 DEF ReconcileIgnored, Dequeue, SameOwners
  <2>2. CASE \E d \in Deployments : handleStatusUpdate(d)
    BY <2>2 DEF handleStatusUpdate, Dequeue, Quiet, FullPass, SameOwners, RouterApplied, Busy
  <2>3. CASE \E n \in Nodes : EnterNode(n)
    BY <2>3, <1>g DEF EnterNode, FullPass, RouterApplied, Passed, Applied
  <2>4. CASE LeaveNode
    BY <2>4, <1>g DEF LeaveNode, FullPass, RouterApplied, Passed, Applied
  <2>5. CASE SkipStep
    BY <2>5, <1>g DEF SkipStep, AtStep, FullPass, RouterApplied, Passed, Applied
  <2>6. CASE EnterStep
    <3>1. \A r \in Resources : Applied(r)' => Applied(r)
      BY <2>6 DEF EnterStep, Applied
    <3> QED BY <2>6, <1>g, <3>1 DEF EnterStep, AtStep, FullPass, RouterApplied, Passed
  <2>7. CASE reconcileResource
    BY <2>7, ApplyPuts
  <2>8. CASE recordResources
    <3>1. /\ graph'.spec = graph.spec /\ graph'.uid = graph.uid
          /\ graph'.annotations = graph.annotations \cup Range(Manifest[step])
      BY <2>8, <1>0 DEF recordResources, Version
    <3>2. Manifest[step] \in Seq(Resources)
      BY <2>8, StepType DEF recordResources
    <3>3. ASSUME NEW x \in Range(Manifest[step])
          PROVE  \E k \in 1..Len(Manifest[step]) : k < j /\ x = Manifest[step][k]
      <4>1. PICK k \in 1..Len(Manifest[step]) : x = Manifest[step][k]
        BY <3>2 DEF Range
      <4>2. k < j
        BY <2>8, <1>0, <3>2 DEF recordResources
      <4> QED BY <4>1, <4>2
    <3>4. \A r \in Resources : Applied(r)' => Applied(r)
      BY <2>8, <3>1, <3>3 DEF recordResources, Applied
    <3> QED
      BY <2>8, <3>1, <3>4 DEF recordResources, Moves, SamePass, SameOwners, FullPass,
         RouterApplied, Passed
  <2>9. CASE EnterRouter
    BY <2>9, <1>g DEF EnterRouter, FullPass, RouterApplied, Passed, Applied
  <2>10. CASE reconcileRouterService
    BY <2>10, RouterPuts
  <2>11. CASE EnterPrune
    <3>1. name \in Graphs /\ graph.spec \in SpecsOf[name]
      BY <2>11 DEF EnterPrune, WorkerInv, Busy
    <3>2. graph.spec.router \in Seq(Resources) /\ graph.spec.router # <<>>
      BY <1>0, <3>1 DEF HasRouter, SpecType
    <3>3. j # 1
      BY <1>0, <2>11, <3>2 DEF EnterPrune
    <3> QED BY <2>11, <1>g, <3>3 DEF EnterPrune, FullPass, RouterApplied, Passed, Applied
  <2>12. CASE \E r \in Resources : deleteRecordedResource(r)
    <3>1. PICK r \in Resources : deleteRecordedResource(r)
      BY <2>12
    <3>2. r \in Stale /\ Prunes(r)
      BY <3>1 DEF deleteRecordedResource, Prunes, PutObject, SamePass, FullPass
    <3> QED BY <3>2
  <2>13. CASE \/ ResetStatus \/ collectResourceStatus
              \/ (\E d \in Deployments : CountDeployment(d)) \/ getLatestGraph
    BY <2>13 DEF ResetStatus, collectResourceStatus, CountDeployment, getLatestGraph, Quiet,
       FullPass, SameOwners, RouterApplied
  <2>14. CASE collectResourceStatusFails \/ statusUpdate
    BY <2>14, <1>f DEF collectResourceStatusFails, Fail, statusUpdate
  <2> QED BY <1>1, <2>1, <2>2, <2>3, <2>4, <2>5, <2>6, <2>7, <2>8, <2>9, <2>10, <2>11,
             <2>12, <2>13, <2>14 DEF Work
<1>2. CASE WorkFails
  <2>1. CASE reconcileResourceFails \/ reconcileRouterServiceFails \/ statusUpdateFails
    BY <2>1, <1>f DEF reconcileResourceFails, reconcileRouterServiceFails, statusUpdateFails,
       Fail
  <2>2. CASE \E r \in Resources : deleteRecordedResourceFails(r)
    BY <2>2, <1>g DEF deleteRecordedResourceFails, FullPass, RouterApplied, Passed, Applied
  <2> QED BY <1>2, <2>1, <2>2 DEF WorkFails
<1>3. CASE Environment
  <2>1. CASE \/ \E g \in Graphs : \E spec \in SpecsOf[g] : UserCreate(g, spec)
             \/ \E g \in Graphs : \E spec \in SpecsOf[g] : UserEdit(g, spec)
             \/ \E g \in Graphs : UserDelete(g)
    BY <2>1, <1>o DEF UserCreate, UserEdit, UserDelete, SameOwners
  <2>2. ASSUME NEW d \in Deployments, FlipDeployment(d)
        PROVE  Quiet \/ Moves
    <3>1. UNCHANGED workerVars
      BY <2>2 DEF FlipDeployment
    <3>2. PICK n : cluster' = [cluster EXCEPT ![d] = [cluster[d] EXCEPT !.available = n]]
      BY <2>2, Zenon DEF FlipDeployment, PutObject
    <3>3. cluster \in [Resources -> Object] /\ cluster[d] \in Object
      BY DEF TypeOK
    <3>4. SameOwners
      BY <3>2, <3>3 DEF SameOwners, Object
    <3> QED BY <1>o, <3>1, <3>4
  <2>3. CASE RestartManager
    BY <2>3, <1>f DEF RestartManager
  <2> QED BY <1>3, <2>1, <2>2, <2>3 DEF Environment
<1>4. CASE \/ \E g \in Graphs : DeliverGraph(g)
           \/ \E d \in Deployments : DeliverDeployment(d)
           \/ UNCHANGED vars
  BY <1>4, <1>o DEF DeliverGraph, DeliverDeployment, vars, SameOwners
<1> QED BY <1>1, <1>2, <1>3, <1>4 DEF Next
-----------------------------------------------------------------------------
(***************************************************************************)
(* The inductive invariant.                                                *)
(***************************************************************************)
RoutedType == routed \in [Graphs -> [spec : SpecType, uid : Nat]]

\* What the router and the pass were given has been stored before.
Numbered ==
  /\ \A g \in Graphs :
       /\ routed[g].uid <= rev[g]
       /\ routed[g].uid # 0 => routed[g].spec \in SpecsOf[g]
  /\ FullPass => graph.uid # 0 /\ graph.uid <= rev[name]

\* A pass over the stored incarnation has in place what it has applied.
PassBacked ==
  FullPass /\ graph.uid = api[name].uid =>
    /\ Follows(name)
    /\ \A r \in Resources : Applied(r) => OwnedBy(r, name, graph.uid)

\* Once the router knows the stored incarnation, all passes are over that one.
RoutedFollows ==
  \A g \in Graphs : routed[g].uid # 0 /\ routed[g].uid = api[g].uid =>
    /\ Follows(g)
    /\ FullPass /\ name = g => graph.uid = api[g].uid

\* A pass deletes after it has given the router its own spec.
PassedRouted == Passed => routed[name] = [spec |-> graph.spec, uid |-> graph.uid]

RInv == RoutedType /\ OrderInv /\ Numbered /\ PassBacked /\ RoutedFollows /\ PassedRouted
          /\ RouterBacked

ControllerInv == TypeOK /\ WatchInv /\ WorkerInv

\* The objects of the steps are recorded when the nodes are done.
LEMMA StepsApplied ==
  ASSUME TypeOK, WorkerInv, pc \in {"router", "prune"}
  PROVE  StepObjects(graph.spec) \subseteq graph.annotations
<1> USE NamesAssumption, SpecAssumption
<1>1. /\ graph.spec \in SpecType
      /\ \A n \in Nodes : graph.spec.nodes[n] \in Seq(Steps)
  BY DEF TypeOK, Version, SpecType
<1>2. \A n \in Nodes :
        StepsRecorded(graph.spec.nodes[n], Len(graph.spec.nodes[n]), graph.annotations)
  BY DEF WorkerInv, FullPass
<1>3. ASSUME NEW n \in Nodes, NEW s \in Range(graph.spec.nodes[n]), IsInternal(s)
      PROVE  Range(Manifest[s]) \subseteq graph.annotations
  <2>1. PICK k \in 1..Len(graph.spec.nodes[n]) : s = graph.spec.nodes[n][k]
    BY <1>1 DEF Range
  <2>2. k <= Len(graph.spec.nodes[n])
    BY <1>1, <2>1
  <2> QED BY <1>2, <1>3, <2>1, <2>2 DEF StepsRecorded
<1> QED BY <1>3 DEF StepObjects

\* Two graphs' objects are apart.
LEMMA StepObjectsOf ==
  ASSUME NEW g \in Graphs, NEW spec \in SpecsOf[g]
  PROVE  StepObjects(spec) \subseteq AllOf(g) /\ StepObjects(spec) \subseteq Resources
BY WantedOfGraph DEF StepObjects, Wanted

\* The stored incarnation is not garbage.
LEMMA OwnedKept ==
  ASSUME TypeOK, NEW r \in Resources, CollectGarbage(r), NEW x \in Resources,
         NEW g \in Graphs, OwnedBy(x, g, api[g].uid)
  PROVE  OwnedBy(x, g, api[g].uid)'
<1>1. x # r
  BY NamesAssumption DEF CollectGarbage, IsGarbage, OwnedBy
<1>2. cluster'[x] = cluster[x] /\ api' = api
  BY <1>1 DEF CollectGarbage, PutObject, TypeOK
<1> QED BY <1>2 DEF OwnedBy

\* The incarnation a pass or a router knows is the stored one afterwards only
\* if it was before.
LEMMA UidKept ==
  ASSUME ControllerInv, OrderInv, [Next]_vars, NEW g \in Graphs, NEW u \in Nat,
         u # 0, u <= rev[g], u = api'[g].uid
  PROVE  u = api[g].uid
<1>1. rev[g] \in Nat
  BY DEF ControllerInv, TypeOK
<1> QED BY <1>1, InformerStep DEF ControllerInv

LEMMA RoutedInitInv == RoutedInit => RInv
<1> SUFFICES ASSUME RoutedInit PROVE RInv
  OBVIOUS
<1>1. pc = "idle"
  BY DEF RoutedInit, Init
<1>2. ~FullPass /\ ~Passed
  BY <1>1 DEF FullPass, Passed
<1>3. \A g \in Graphs : routed[g].uid = 0 /\ api[g].uid = 0 /\ rev[g] = 0
  BY DEF RoutedInit, Init, Unrouted, NotFound
<1>4. RoutedType
  BY NoSpecType DEF RoutedInit, RoutedType, Unrouted
<1> QED BY <1>2, <1>3, <1>4
        DEF RInv, OrderInv, Numbered, PassBacked, RoutedFollows, PassedRouted, RouterBacked

\* What a step of a graph's router writes.
LEMMA RoutedChange ==
  ASSUME ControllerInv, RInv, HasRouter, RoutedNext \/ UNCHANGED routedVars
  PROVE  /\ [Next]_vars
         /\ \/ routed' = routed /\ ~RouterApplied
            \/ /\ RouterApplied
               /\ name \in Graphs /\ graph.spec \in SpecsOf[name]
               /\ routed'[name] = [spec |-> graph.spec, uid |-> graph.uid]
               /\ \A g \in Graphs \ {name} : routed'[g] = routed[g]
<1>1. [Next]_vars
  BY DEF RoutedNext, routedVars
<1>2. CASE RouterApplied
  <2>1. name \in Graphs /\ graph.spec \in SpecsOf[name]
    BY <1>2 DEF ControllerInv, WorkerInv, Busy, RouterApplied
  <2>2. RoutedNext
    BY <1>2 DEF RouterApplied, routedVars, vars
  <2> QED BY <1>1, <1>2, <2>1, <2>2 DEF RoutedNext, RInv, RoutedType
<1>3. CASE ~RouterApplied
  BY <1>1, <1>3 DEF RoutedNext, routedVars
<1> QED BY <1>2, <1>3

\* A pass that is under way afterwards is the one before or has just begun.
LEMMA PassKinds ==
  ASSUME ControllerInv, HasRouter, [Next]_vars, FullPass'
  PROVE  \/ SamePass
         \/ \E g \in Graphs : ReconcileGraph(g)
<1>1. CASE \E r \in Resources : CollectGarbage(r)
  BY <1>1 DEF CollectGarbage, SamePass, FullPass
<1> QED BY <1>1, StepKinds DEF ControllerInv, Quiet, Moves, Puts, Prunes

\* A pass that begins takes the cached incarnation.
LEMMA PassBegins ==
  ASSUME ControllerInv, NEW g \in Graphs, ReconcileGraph(g)
  PROVE  /\ name' = g /\ graph'.uid = cache[g].uid /\ cache[g].uid # 0
         /\ graph'.annotations = {} /\ pc' = "nodes" /\ pc = "idle"
         /\ UNCHANGED <<api, rev, watch, cache, cluster>>
         /\ cache[g].uid <= rev[g]
<1>1. cache[g] \in Version
  BY DEF ControllerInv, TypeOK
<1>2. cache[g].uid <= rev[g]
  BY DEF ControllerInv, WatchInv, GoodVersion
<1> QED BY <1>1, <1>2 DEF ReconcileGraph, Dequeue, Busy, Version
-----------------------------------------------------------------------------
(* Each part is kept.                                                      *)

\* Where a pass is, and its graph, in numbers.
LEMMA PassFacts ==
  ASSUME ControllerInv, Numbered, FullPass
  PROVE  name \in Graphs /\ graph.uid \in Nat /\ graph.uid # 0 /\ graph.uid <= rev[name]
BY DEF ControllerInv, TypeOK, WorkerInv, Busy, FullPass, Numbered, Version

LEMMA RoutedNumbered ==
  ASSUME Numbered, NEW g \in Graphs
  PROVE  routed[g].uid <= rev[g] /\ (routed[g].uid # 0 => routed[g].spec \in SpecsOf[g])
BY DEF Numbered

LEMMA NumberedNext ==
  ASSUME ControllerInv, RInv, HasRouter, RoutedNext \/ UNCHANGED routedVars
  PROVE  Numbered' /\ RoutedType'
<1>0. [Next]_vars /\ Numbered /\ OrderInv /\ RoutedType
  BY RoutedChange DEF RInv
<1>1. \A g \in Graphs : rev[g] \in Nat /\ rev'[g] \in Nat /\ rev[g] <= rev'[g]
  <2>1. TypeOK'
    BY <1>0, TypeNext DEF ControllerInv
  <2> QED BY <1>0, <2>1, InformerStep DEF ControllerInv, TypeOK
<1>2. RouterApplied => FullPass
  BY DEF RouterApplied, FullPass
<1>3. ASSUME NEW g \in Graphs
      PROVE  /\ routed'[g].uid \in Nat /\ routed'[g].uid <= rev'[g]
             /\ routed'[g].uid # 0 => routed'[g].spec \in SpecsOf[g]
  <2>1. routed[g].uid \in Nat
    BY <1>0 DEF RoutedType
  <2>2. CASE routed'[g] = routed[g]
    <3>1. routed[g].uid <= rev[g] /\ (routed[g].uid # 0 => routed[g].spec \in SpecsOf[g])
      BY RoutedNumbered DEF RInv
    <3>2. routed[g].uid <= rev'[g]
      BY <1>1, <2>1, <3>1
    <3> QED BY <2>1, <2>2, <3>1, <3>2
  <2>3. CASE RouterApplied /\ g = name
    BY <1>0, <1>1, <1>2, <2>3, RoutedChange, PassFacts
  <2> QED BY <2>2, <2>3, RoutedChange
<1>4. ASSUME FullPass'
      PROVE  graph'.uid # 0 /\ graph'.uid <= rev'[name']
  <2>1. CASE SamePass
    BY <1>0, <1>1, <2>1, PassFacts DEF SamePass
  <2>2. CASE \E g \in Graphs : ReconcileGraph(g)
    BY <2>2, PassBegins
  <2> QED BY <1>0, <1>4, <2>1, <2>2, PassKinds
<1>5. RoutedType'
  <2>1. CASE routed' = routed
    BY <1>0, <2>1 DEF RoutedType
  <2>2. CASE RouterApplied
    <3>1. graph.spec \in SpecType /\ graph.uid \in Nat
      BY DEF ControllerInv, TypeOK, Version
    <3>2. RoutedNext
      BY <2>2 DEF RouterApplied, routedVars, vars
    <3> QED BY <1>0, <2>2, <3>1, <3>2 DEF RoutedNext, RoutedType
  <2> QED BY <2>1, <2>2, RoutedChange
<1> QED BY <1>3, <1>4, <1>5 DEF Numbered

LEMMA PassBackedNext ==
  ASSUME ControllerInv, RInv, HasRouter, RoutedNext \/ UNCHANGED routedVars
  PROVE  PassBacked'
<1>0. /\ [Next]_vars /\ Numbered /\ OrderInv /\ PassBacked
      /\ cluster \in [Resources -> Object]
  BY RoutedChange DEF RInv, ControllerInv, TypeOK
<1> SUFFICES ASSUME FullPass', graph'.uid = api'[name'].uid
             PROVE  /\ Follows(name)'
                    /\ \A r \in Resources : Applied(r)' => OwnedBy(r, name, graph.uid)'
  BY DEF PassBacked
<1>1. CASE \E g \in Graphs : ReconcileGraph(g)
  <2>1. PICK g \in Graphs : ReconcileGraph(g)
    BY <1>1
  <2>2. Follows(g)
    BY <1>0, <2>1, PassBegins DEF OrderInv
  <2>3. \A r \in Resources : ~Applied(r)'
    BY <2>1, PassBegins DEF Applied
  <2> QED BY <2>1, <2>2, <2>3, PassBegins DEF Follows
<1>2. CASE SamePass
  <2>1. /\ FullPass /\ name \in Graphs /\ graph.uid = api[name].uid
        /\ api'[name].uid = api[name].uid /\ name' = name /\ graph'.uid = graph.uid
    BY <1>0, <1>2, PassFacts, UidKept DEF SamePass
  <2>2. Follows(name) /\ \A r \in Resources : Applied(r) => OwnedBy(r, name, graph.uid)
    BY <1>0, <2>1 DEF PassBacked
  <2>3. Follows(name)'
    BY <1>0, <2>1, <2>2, InformerStep DEF ControllerInv, Follows
  <2> SUFFICES ASSUME NEW x \in Resources, Applied(x)'
               PROVE  cluster'[x].owner = name /\ cluster'[x].uid = graph.uid
    BY <2>1, <2>3 DEF OwnedBy
  <2>4. CASE Moves
    BY <2>2, <2>4 DEF Moves, SameOwners, OwnedBy
  <2>5. ASSUME NEW r \in AllOf(name), Puts(r)
        PROVE  cluster'[x].owner = name /\ cluster'[x].uid = graph.uid
    <3>1. r \in Resources
      BY <2>5 DEF AllOf, Wanted
    <3>2. CASE x = r
      BY <1>0, <2>5, <3>1, <3>2 DEF Puts
    <3>3. CASE x # r
      BY <1>0, <2>2, <2>5, <3>3 DEF Puts, OwnedBy
    <3> QED BY <3>2, <3>3
  <2>6. ASSUME NEW r \in Stale, Prunes(r)
        PROVE  cluster'[x].owner = name /\ cluster'[x].uid = graph.uid
    <3>1. x \in graph.annotations
      BY <2>6 DEF Applied, Prunes
    <3>2. x # r
      BY <2>6, <3>1 DEF Stale
    <3> QED BY <1>0, <2>2, <2>6, <3>1, <3>2 DEF Prunes, OwnedBy, Applied
  <2>7. ASSUME NEW r \in Resources, CollectGarbage(r)
        PROVE  cluster'[x].owner = name /\ cluster'[x].uid = graph.uid
    <3>1. Applied(x)
      BY <2>7 DEF CollectGarbage, Applied, step
    <3>2. OwnedBy(x, name, api[name].uid)'
      BY <2>1, <2>2, <2>7, <3>1, OwnedKept DEF ControllerInv
    <3> QED BY <2>1, <3>2 DEF OwnedBy
  <2>8. ~Quiet /\ ~ \E g \in Graphs : ReconcileGraph(g)
    BY <1>2, <2>1 DEF Quiet, SamePass, ReconcileGraph, Dequeue, Busy, FullPass
  <2>9. \/ Quiet
        \/ Moves
        \/ \E r \in AllOf(name) : Puts(r)
        \/ \E r \in Stale : Prunes(r)
        \/ \E r \in Resources : CollectGarbage(r)
        \/ \E g \in Graphs : ReconcileGraph(g)
    BY <1>0, StepKinds DEF ControllerInv
  <2> QED BY <2>4, <2>5, <2>6, <2>7, <2>8, <2>9
<1> QED BY <1>0, <1>1, <1>2, PassKinds

LEMMA RoutedFollowsNext ==
  ASSUME ControllerInv, RInv, HasRouter, RoutedNext \/ UNCHANGED routedVars
  PROVE  RoutedFollows'
<1>0. [Next]_vars /\ Numbered /\ OrderInv /\ PassBacked /\ RoutedFollows /\ RoutedType
  BY RoutedChange DEF RInv
<1> SUFFICES ASSUME NEW g \in Graphs, routed'[g].uid # 0, routed'[g].uid = api'[g].uid
             PROVE  Follows(g)' /\ (FullPass' /\ name' = g => graph'.uid = api'[g].uid)
  BY DEF RoutedFollows
<1>1. CASE routed'[g] = routed[g]
  <2>0. routed[g].uid <= rev[g]
    BY RoutedNumbered DEF RInv
  <2>1. routed[g].uid \in Nat /\ routed[g].uid <= rev[g]
    BY <1>0, <2>0 DEF RoutedType
  <2>2. routed[g].uid = api[g].uid /\ api'[g].uid = api[g].uid
    BY <1>0, <1>1, <2>1, UidKept
  <2>3. Follows(g) /\ (FullPass /\ name = g => graph.uid = api[g].uid)
    BY <1>0, <1>1, <2>2 DEF RoutedFollows
  <2>4. Follows(g)'
    BY <1>0, <2>2, <2>3, InformerStep DEF ControllerInv
  <2>5. ASSUME FullPass', name' = g
        PROVE  graph'.uid = api'[g].uid
    <3>1. CASE SamePass
      BY <2>2, <2>3, <2>5, <3>1 DEF SamePass
    <3>2. CASE \E h \in Graphs : ReconcileGraph(h)
      BY <2>2, <2>3, <2>5, <3>2, PassBegins DEF Follows
    <3> QED BY <1>0, <2>5, <3>1, <3>2, PassKinds
  <2> QED BY <2>4, <2>5
<1>2. CASE RouterApplied /\ g = name
  <2>1. FullPass /\ routed'[g].uid = graph.uid /\ graph.uid \in Nat /\ graph.uid <= rev[g]
    BY <1>0, <1>2, RoutedChange, PassFacts DEF RouterApplied, FullPass
  <2>2. graph.uid = api[g].uid /\ api'[g].uid = api[g].uid
    BY <1>0, <1>2, <2>1, UidKept
  <2>3. Follows(g)'
    BY <1>0, <1>2, <2>1, <2>2, InformerStep DEF ControllerInv, PassBacked
  <2>4. FullPass' /\ name' = g => graph'.uid = api'[g].uid
    <3>1. ~ \E h \in Graphs : ReconcileGraph(h)
      BY <1>2 DEF RouterApplied, ReconcileGraph, Dequeue, Busy
    <3> QED BY <1>0, <2>2, <3>1, PassKinds DEF SamePass
  <2> QED BY <2>3, <2>4
<1> QED BY <1>1, <1>2, RoutedChange

LEMMA PassedRoutedNext ==
  ASSUME ControllerInv, RInv, HasRouter, RoutedNext \/ UNCHANGED routedVars
  PROVE  PassedRouted'
<1>0. [Next]_vars /\ PassedRouted
  BY RoutedChange DEF RInv
<1> SUFFICES ASSUME Passed'
             PROVE  routed'[name'] = [spec |-> graph'.spec, uid |-> graph'.uid]
  BY DEF PassedRouted
<1>1. FullPass' /\ ~ \E g \in Graphs : ReconcileGraph(g)
  BY DEF Passed, FullPass, ReconcileGraph
<1>2. SamePass
  BY <1>0, <1>1, PassKinds
<1>3. Passed \/ RouterApplied
  <2>1. CASE \E r \in Resources : CollectGarbage(r)
    BY <2>1 DEF CollectGarbage, Passed
  <2>2. CASE \E r \in Stale : Prunes(r)
    BY <2>2 DEF Prunes, Passed
  <2> QED BY <1>0, <1>1, <2>1, <2>2, StepKinds DEF ControllerInv, Quiet, Moves, Puts
<1>4. routed'[name] = [spec |-> graph.spec, uid |-> graph.uid]
  <2>1. CASE RouterApplied
    BY <2>1, RoutedChange
  <2>2. CASE ~RouterApplied
    BY <1>0, <1>3, <2>2, RoutedChange DEF PassedRouted
  <2> QED BY <2>1, <2>2
<1> QED BY <1>2, <1>4 DEF SamePass

LEMMA RouterBackedNext ==
  ASSUME Disjoint, ControllerInv, RInv, HasRouter, RoutedNext \/ UNCHANGED routedVars
  PROVE  RouterBacked'
<1>0. [Next]_vars /\ cluster \in [Resources -> Object]
  BY RoutedChange DEF ControllerInv, TypeOK
<1>i. /\ RoutedType /\ OrderInv /\ Numbered /\ PassBacked /\ RoutedFollows /\ PassedRouted
      /\ RouterBacked /\ TypeOK /\ WorkerInv
  BY DEF RInv, ControllerInv
<1> SUFFICES ASSUME NEW g \in Graphs, routed'[g].uid # 0, routed'[g].uid = api'[g].uid,
                    NEW x \in StepObjects(routed'[g].spec)
             PROVE  cluster'[x].owner = g /\ cluster'[x].uid = routed'[g].uid
  BY DEF RouterBacked, OwnedBy, StepObjects
<1> DEFINE u == routed'[g].uid
\* Before the step the object belongs to this incarnation of the graph.
<1>1. /\ u = api[g].uid /\ x \in AllOf(g) /\ x \in Resources
      /\ OwnedBy(x, g, u)
      /\ FullPass /\ name = g => graph.uid = u
      /\ pc = "prune" /\ name = g => x \in graph.annotations
  <2>1. CASE routed'[g] = routed[g]
    <3>1. routed[g].uid \in Nat /\ routed[g].uid <= rev[g] /\ routed[g].spec \in SpecsOf[g]
      BY <1>i, <2>1, RoutedNumbered DEF RoutedType
    <3>2. u = api[g].uid
      BY <1>0, <1>i, <2>1, <3>1, UidKept
    <3>3. x \in AllOf(g) /\ x \in Resources
      BY <2>1, <3>1, StepObjectsOf
    <3>4. OwnedBy(x, g, u)
      BY <1>i, <2>1, <3>2 DEF RouterBacked
    <3>5. FullPass /\ name = g => graph.uid = u
      BY <1>i, <2>1, <3>2 DEF RoutedFollows
    <3>6. pc = "prune" /\ name = g => x \in graph.annotations
      BY <1>i, <2>1, StepsApplied DEF PassedRouted, Passed
    <3> QED BY <3>2, <3>3, <3>4, <3>5, <3>6
  <2>2. CASE RouterApplied /\ g = name
    <3>1. /\ FullPass /\ routed'[g] = [spec |-> graph.spec, uid |-> graph.uid]
          /\ graph.uid \in Nat /\ graph.uid <= rev[g] /\ graph.spec \in SpecsOf[g]
          /\ pc = "router"
      BY <1>i, <2>2, RoutedChange, PassFacts DEF RouterApplied, FullPass
    <3>2. u = graph.uid /\ u = api[g].uid
      BY <1>0, <1>i, <3>1, UidKept
    <3>3. x \in AllOf(g) /\ x \in Resources
      BY <3>1, StepObjectsOf
    <3>4. x \in graph.annotations
      BY <1>i, <3>1, StepsApplied
    <3>5. OwnedBy(x, g, u)
      BY <1>i, <2>2, <3>1, <3>2, <3>3, <3>4 DEF PassBacked, Applied
    <3> QED BY <2>2, <3>1, <3>2, <3>3, <3>4, <3>5
  <2> QED BY <2>1, <2>2, RoutedChange
<1> HIDE DEF u
\* The step does not take it away.
<1>2. CASE Quiet \/ Moves
  BY <1>1, <1>2 DEF Quiet, Moves, SameOwners, OwnedBy, u
<1>3. ASSUME NEW r \in AllOf(name), Puts(r)
      PROVE  cluster'[x].owner = g /\ cluster'[x].uid = u
  <2>1. CASE x # r
    BY <1>0, <1>1, <1>3, <2>1 DEF Puts, OwnedBy
  <2>2. CASE x = r
    <3>1. FullPass /\ name \in Graphs
      BY <1>i, <1>3, PassFacts DEF Puts, SamePass, ControllerInv
    <3>2. name = g
      BY <1>1, <1>3, <2>2, <3>1 DEF Disjoint
    <3> QED BY <1>0, <1>1, <1>3, <2>2, <3>1, <3>2 DEF Puts
  <2> QED BY <2>1, <2>2
<1>4. ASSUME NEW r \in Stale, Prunes(r)
      PROVE  cluster'[x].owner = g /\ cluster'[x].uid = u
  <2>1. x # r
    <3>1. SUFFICES ASSUME x = r PROVE FALSE
      OBVIOUS
    <3>2. pc = "prune" /\ FullPass /\ name \in Graphs
      BY <1>i, <1>4, PassFacts DEF Prunes, FullPass, ControllerInv
    <3>3. x \in AllOf(name) /\ x \notin graph.annotations
      BY <1>i, <1>4, <3>1, <3>2 DEF Stale, WorkerInv
    <3>4. name = g
      BY <1>1, <3>2, <3>3 DEF Disjoint
    <3> QED BY <1>1, <3>2, <3>3, <3>4
  <2> QED BY <1>0, <1>1, <1>4, <2>1 DEF Prunes, OwnedBy
<1>5. ASSUME NEW r \in Resources, CollectGarbage(r)
      PROVE  cluster'[x].owner = g /\ cluster'[x].uid = u
  <2>1. OwnedBy(x, g, api[g].uid)' /\ api' = api
    BY <1>i, <1>1, <1>5, OwnedKept DEF CollectGarbage
  <2> QED BY <1>1, <2>1 DEF OwnedBy
<1>6. CASE \E h \in Graphs : ReconcileGraph(h)
  BY <1>1, <1>6, PassBegins DEF OwnedBy, u
<1> QED BY <1>0, <1>i, <1>2, <1>3, <1>4, <1>5, <1>6, StepKinds DEF ControllerInv, u

\* If no two graphs ask for the same object and every graph has a router, then
\* make before break: whenever a router pod starts, every object of every step
\* of the graph it is given is in the cluster (Reconcile, lines 385-432).
THEOREM RouterBackedCorrect == Disjoint /\ HasRouter => (RoutedSpec => []RouterBacked)
<1> SUFFICES ASSUME Disjoint, HasRouter
             PROVE  RoutedSpec => []RouterBacked
  OBVIOUS
<1>1. RoutedSpec => []ControllerInv
  <2>1. RoutedInit => Init
    BY DEF RoutedInit
  <2>2. [RoutedNext]_routedVars => [Next]_vars
    BY DEF RoutedNext, routedVars
  <2> QED BY <2>1, <2>2, ReconcilerInvariant, PTL DEF RoutedSpec, Spec, ControllerInv
<1>2. RInv /\ ControllerInv /\ [RoutedNext]_routedVars => RInv'
  <2> SUFFICES ASSUME RInv, ControllerInv, RoutedNext \/ UNCHANGED routedVars
               PROVE  RInv'
    OBVIOUS
  <2>1. OrderInv'
    BY RoutedChange, OrderNext DEF RInv, ControllerInv
  <2> QED BY <2>1, NumberedNext, PassBackedNext, RoutedFollowsNext, PassedRoutedNext,
             RouterBackedNext DEF RInv
<1>3. RInv => RouterBacked
  BY DEF RInv
<1> QED BY <1>1, <1>2, <1>3, RoutedInitInv, PTL DEF RoutedSpec
=============================================================================
