--------------------------- MODULE GMCServedProofs --------------------------
(***************************************************************************)
(* The inductive invariant of GMCReconciler and what follows from it: what *)
(* Reconcile records, and that a settled cluster has every wanted object.  *)
(***************************************************************************)
EXTENDS GMCInvariant, SequenceTheorems, FiniteSetTheorems, TLAPS

USE DEF apiVars, objVars, cacheVars, loopVars, countVars, workerVars
-----------------------------------------------------------------------------
(***************************************************************************)
(* Types.                                                                  *)
(***************************************************************************)
\* NoSpec is a spec: every node is empty.
LEMMA NoSpecType == NoSpec \in SpecType
  BY DEF NoSpec, SpecType

LEMMA NotFoundType == NotFound \in Version
  BY NoSpecType DEF NotFound, Version

\* Assignments to the fields of a version.
LEMMA VersionFields ==
  ASSUME NEW v \in Version, NEW spec \in SpecType, NEW rv \in Nat,
         NEW ann \in SUBSET Resources, NEW status \in Seq(Nat)
  PROVE  /\ [v EXCEPT !.spec = spec, !.rv = rv] \in Version
         /\ [v EXCEPT !.annotations = ann] \in Version
         /\ [v EXCEPT !.status = status] \in Version
         /\ [v EXCEPT !.status = status, !.rv = rv] \in Version
         /\ [v EXCEPT !.annotations = ann, !.status = status, !.rv = rv] \in Version
         /\ [uid |-> rv, rv |-> rv, spec |-> spec, annotations |-> ann,
             status |-> status] \in Version
  BY DEF Version

LEMMA AbsentType == Absent \in Object
  BY DEF Absent, Object, Replicas

\* The parts of TypeOK that an action may leave alone as a whole.
TypeApi == /\ api \in [Graphs -> Version]
           /\ rev \in [Graphs -> Nat]
           /\ watch \in [Graphs -> Seq(Version)]

TypeCaches == /\ cache \in [Graphs -> Version]
              /\ dcache \in [Deployments -> Object]

TypeObjects == /\ cluster \in [Resources -> Object]
               /\ dwatch \in [Deployments -> Seq(Object)]

TypeLoop == /\ doneNodes \subseteq Nodes
            /\ nodeName \in Nodes \cup {None}
            /\ i \in Nat \ {0}
            /\ j \in Nat \ {0}
            /\ externalService \in Nat

\* Storing a version keeps the API server's state well typed.
LEMMA WriteType ==
  ASSUME TypeApi, NEW g \in Graphs, NEW v \in Version, Write(g, v)
  PROVE  TypeApi'
  BY DEF TypeApi, Write

\* Storing an object keeps the cluster well typed.
LEMMA PutObjectType ==
  ASSUME TypeObjects, NEW r \in Resources, NEW o \in Object, PutObject(r, o)
  PROVE  TypeObjects'
  BY DEF TypeObjects, PutObject

LEMMA SpendType ==
  ASSUME used \in [BoundName -> Nat], NEW b \in BoundName, Spend(b)
  PROVE  used' \in [BoundName -> Nat]
  BY DEF Spend

\* Inside a template the step is one the node lists, with its manifest.
LEMMA StepType ==
  ASSUME TypeOK, WorkerInv, pc = "apply"
  PROVE  step \in Steps /\ Manifest[step] \in Seq(Resources)
<1>1. graph.spec.nodes[nodeName] \in Seq(Steps)
  BY DEF TypeOK, WorkerInv, Version, SpecType
<1>2. step \in Steps
  BY <1>1 DEF TypeOK, WorkerInv, step
<1> QED
  BY <1>2, SpecAssumption

\* The object applyResourceToK8s stores, owned by the graph being reconciled.
LEMMA AppliedType ==
  ASSUME TypeOK, WorkerInv, Busy, NEW r \in Resources
  PROVE  [owner |-> name, uid |-> graph.uid,
          available |-> cluster[r].available] \in Object
<1>1. name \in Graphs
  BY DEF WorkerInv
<1> QED
  BY <1>1 DEF TypeOK, Version, Object

LEMMA TypeInit == Init => TypeOK
  BY NotFoundType, AbsentType DEF Init, TypeOK

\* Every call of the worker or of its environment keeps the types; that the
\* worker is inside a node and a template, and the status it splits has three
\* parts, is WorkerInv.
LEMMA TypeNext == TypeOK /\ WorkerInv /\ [Next]_vars => TypeOK'
<1> SUFFICES ASSUME TypeOK, WorkerInv, [Next]_vars
             PROVE  TypeOK'
  OBVIOUS
<1> USE NamesAssumption, SpecAssumption
<1>t. TypeApi /\ TypeCaches /\ TypeObjects /\ TypeLoop
  BY DEF TypeOK, TypeApi, TypeCaches, TypeObjects, TypeLoop
<1>s. \A g \in Graphs : \A spec \in SpecsOf[g] : spec \in SpecType
  OBVIOUS
<1>1. ASSUME NEW g \in Graphs, NEW spec \in SpecsOf[g], UserCreate(g, spec)
      PROVE  TypeOK'
  <2>1. [uid |-> rev[g] + 1, rv |-> rev[g] + 1, spec |-> spec,
         annotations |-> {}, status |-> <<>>] \in Version
    <3>1. rev[g] + 1 \in Nat /\ {} \in SUBSET Resources /\ <<>> \in Seq(Nat)
      BY DEF TypeOK
    <3> QED
      BY <1>s, <3>1, NotFoundType, VersionFields
  <2>2. TypeApi'
    BY <1>1, <1>t, <2>1, WriteType DEF UserCreate
  <2>3. used' \in [BoundName -> Nat]
    BY <1>1, SpendType DEF UserCreate, TypeOK, BoundName
  <2> QED
    BY <1>1, <2>2, <2>3 DEF UserCreate, TypeOK, TypeApi
<1>2. ASSUME NEW g \in Graphs, NEW spec \in SpecsOf[g], UserEdit(g, spec)
      PROVE  TypeOK'
  <2>1. [api[g] EXCEPT !.spec = spec, !.rv = rev[g] + 1] \in Version
    <3>1. rev[g] + 1 \in Nat /\ api[g] \in Version
      BY DEF TypeOK
    <3>2. {} \in SUBSET Resources /\ <<>> \in Seq(Nat)
      OBVIOUS
    <3> QED
      BY <1>s, <3>1, <3>2, VersionFields
  <2>2. TypeApi'
    BY <1>2, <1>t, <2>1, WriteType DEF UserEdit
  <2>3. used' \in [BoundName -> Nat]
    BY <1>2, SpendType DEF UserEdit, TypeOK, BoundName
  <2> QED
    BY <1>2, <2>2, <2>3 DEF UserEdit, TypeOK, TypeApi
<1>3. ASSUME NEW g \in Graphs, UserDelete(g)
      PROVE  TypeOK'
  <2>2. TypeApi'
    BY <1>3, <1>t, NotFoundType, WriteType DEF UserDelete
  <2>3. used' \in [BoundName -> Nat]
    BY <1>3, SpendType DEF UserDelete, TypeOK, BoundName
  <2> QED
    BY <1>3, <2>2, <2>3 DEF UserDelete, TypeOK, TypeApi
<1>4. ASSUME NEW d \in Deployments, FlipDeployment(d)
      PROVE  TypeOK'
  <2>0. PICK n \in 0 .. Replicas + 1 : PutObject(d, [cluster[d] EXCEPT !.available = n])
    BY <1>4, Zenon DEF FlipDeployment
  <2>1. [cluster[d] EXCEPT !.available = n] \in Object
    <3>1. cluster[d] \in Object
      BY DEF TypeOK
    <3> QED
      BY <3>1 DEF Object
  <2>2. TypeObjects'
    BY <1>t, <2>0, <2>1, PutObjectType
  <2>3. used' \in [BoundName -> Nat]
    BY <1>4, SpendType DEF FlipDeployment, TypeOK, BoundName
  <2> QED
    BY <1>4, <2>2, <2>3 DEF FlipDeployment, TypeOK, TypeObjects
<1>5. CASE RestartManager
  <2>1. used' \in [BoundName -> Nat]
    BY <1>5, SpendType DEF RestartManager, TypeOK, BoundName
  <2>2. TypeApi' /\ TypeCaches' /\ TypeObjects'
    BY <1>5, <1>t DEF RestartManager, TypeApi, TypeCaches, TypeObjects
  <2> QED
    BY <1>5, <2>1, <2>2 DEF RestartManager, TypeOK, TypeApi, TypeCaches, TypeObjects
<1>6. ASSUME NEW g \in Graphs, DeliverGraph(g)
      PROVE  TypeOK'
  <2>1. Head(watch[g]) \in Version /\ Tail(watch[g]) \in Seq(Version)
    BY <1>6 DEF DeliverGraph, TypeOK
  <2> QED
    BY <1>6, <2>1 DEF DeliverGraph, TypeOK
<1>7. ASSUME NEW d \in Deployments, DeliverDeployment(d)
      PROVE  TypeOK'
  <2>1. Head(dwatch[d]) \in Object /\ Tail(dwatch[d]) \in Seq(Object)
    BY <1>7 DEF DeliverDeployment, TypeOK
  <2> QED
    BY <1>7, <2>1 DEF DeliverDeployment, TypeOK
<1>8. ASSUME NEW r \in Resources, CollectGarbage(r)
      PROVE  TypeOK'
  <2>1. TypeObjects'
    BY <1>8, <1>t, AbsentType, PutObjectType DEF CollectGarbage
  <2> QED
    BY <1>8, <2>1 DEF CollectGarbage, TypeOK, TypeObjects
<1>9. CASE Work
  <2>1. ASSUME NEW x \in queue, ReconcileIgnored(x)
        PROVE  TypeOK'
    BY <2>1 DEF ReconcileIgnored, Dequeue, TypeOK
  <2>2. ASSUME NEW g \in Graphs, ReconcileGraph(g)
        PROVE  TypeOK'
    <3>1. [cache[g] EXCEPT !.annotations = {}] \in Version
      BY DEF TypeOK, Version
    <3>2. cache[g].annotations \subseteq Resources
      BY DEF TypeOK, Version
    <3> QED
      BY <2>2, <3>1, <3>2 DEF ReconcileGraph, Dequeue, TypeOK
  <2>3. ASSUME NEW d \in Deployments, handleStatusUpdate(d)
        PROVE  TypeOK'
    <3>1. dcache[d].owner \in Graphs
      BY <2>3 DEF handleStatusUpdate, HasGraph, TypeOK, Object
    <3> QED
      BY <2>3, <3>1 DEF handleStatusUpdate, Dequeue, TypeOK
  <2>4. ASSUME NEW n \in Nodes, EnterNode(n)
        PROVE  TypeOK'
    BY <2>4 DEF EnterNode, TypeOK
  <2>5. CASE LeaveNode
    BY <2>5 DEF LeaveNode, TypeOK, WorkerInv
  <2>6. CASE SkipStep
    BY <2>6 DEF SkipStep, TypeOK
  <2>7. CASE EnterStep
    BY <2>7 DEF EnterStep, TypeOK
  <2>8. CASE reconcileResource
    <3>1. Manifest[step][j] \in Resources
      BY <2>8, StepType DEF reconcileResource, TypeOK
    <3>2. TypeObjects'
      BY <2>8, <1>t, <3>1, AppliedType, PutObjectType
      DEF reconcileResource, applyResourceToK8s, Busy
    <3> QED
      BY <2>8, <3>2 DEF reconcileResource, TypeOK, TypeObjects
  <2>9. CASE recordResources
    <3>1. Range(Manifest[step]) \subseteq Resources
      BY <2>9, StepType DEF recordResources, Range
    <3>2. [graph EXCEPT !.annotations = @ \cup Range(Manifest[step])] \in Version
      BY <3>1 DEF TypeOK, Version
    <3> QED
      BY <2>9, <3>2 DEF recordResources, TypeOK
  <2>10. CASE EnterRouter
    BY <2>10 DEF EnterRouter, TypeOK
  <2>11. CASE reconcileRouterService
    <3>1. graph.spec.router[j] \in Resources
      BY <2>11 DEF reconcileRouterService, TypeOK, Version, SpecType
    <3>2. TypeObjects'
      BY <2>11, <1>t, <3>1, AppliedType, PutObjectType
      DEF reconcileRouterService, applyResourceToK8s, Busy
    <3>3. [graph EXCEPT !.annotations = @ \cup {graph.spec.router[j]}] \in Version
      BY <3>1 DEF TypeOK, Version
    <3> QED
      BY <2>11, <3>2, <3>3 DEF reconcileRouterService, TypeOK, TypeObjects
  <2>12. CASE EnterPrune
    BY <2>12 DEF EnterPrune, TypeOK
  <2>13. ASSUME NEW r \in Resources, deleteRecordedResource(r)
         PROVE  TypeOK'
    <3>1. TypeObjects'
      BY <2>13, <1>t, AbsentType, PutObjectType DEF deleteRecordedResource
    <3> QED
      BY <2>13, <3>1 DEF deleteRecordedResource, TypeOK, TypeObjects
  <2>14. CASE ResetStatus
    <3>1. [graph EXCEPT !.status = <<0, externalService, 0>>] \in Version
      <4>1. graph \in Version /\ <<0, externalService, 0>> \in Seq(Nat)
        BY DEF TypeOK
      <4> QED
        BY <4>1 DEF Version
    <3> QED
      BY <2>14, <3>1 DEF ResetStatus, TypeOK
  <2>15. CASE collectResourceStatus
    BY <2>15 DEF collectResourceStatus, TypeOK
  <2>16. CASE collectResourceStatusFails
    BY <2>16 DEF collectResourceStatusFails, Fail, TypeOK
  <2>17. ASSUME NEW d \in Deployments, CountDeployment(d)
         PROVE  TypeOK'
    BY <2>17 DEF CountDeployment, TypeOK
  <2>18. CASE getLatestGraph
    <3>1. graph.status[2] \in Nat
      <4>1. Len(graph.status) = 3
        BY <2>18 DEF getLatestGraph, WorkerInv
      <4>2. graph.status \in Seq(Nat)
        BY DEF TypeOK, Version
      <4> QED
        BY <4>1, <4>2
    <3>2. Cardinality(graph.annotations \cap Deployments) \in Nat
      <4>1. IsFiniteSet(graph.annotations \cap Deployments)
        BY FS_Subset DEF TypeOK, Version
      <4> QED
        BY <4>1, FS_CardinalityType
    <3>3. name \in Graphs
      BY <2>18 DEF getLatestGraph, WorkerInv, Busy
    <3> DEFINE st == <<readyCnt, graph.status[2], Cardinality(graph.annotations \cap Deployments)>>
               rv(x) == IF cache[name].uid = 0 THEN x ELSE cache[name].rv
    <3>4. st \in Seq(Nat)
      BY <3>1, <3>2 DEF TypeOK
    <3>5. rv(graph.rv) \in Nat
      BY <3>3 DEF TypeOK, Version
    <3>6. graph' = [graph EXCEPT !.status = st, !.rv = rv(graph.rv)]
      BY <2>18 DEF getLatestGraph
    <3>7. graph' \in Version
      <4> HIDE DEF st, rv
      <4> QED
        BY <3>4, <3>5, <3>6 DEF TypeOK, Version
    <3> QED
      BY <2>18, <3>7 DEF getLatestGraph, TypeOK
  <2>19. CASE statusUpdate
    <3>1. name \in Graphs
      BY <2>19 DEF statusUpdate, WorkerInv, Busy
    <3>2. [api[name] EXCEPT !.annotations = graph.annotations,
                            !.status = graph.status,
                            !.rv = rev[name] + 1] \in Version
      <4>1. api[name] \in Version /\ rev[name] + 1 \in Nat
        BY <3>1 DEF TypeOK
      <4>2. graph.annotations \in SUBSET Resources /\ graph.status \in Seq(Nat)
        BY DEF TypeOK, Version
      <4> QED
        BY <4>1, <4>2, NoSpecType, VersionFields
    <3>3. TypeApi'
      BY <2>19, <1>t, <3>1, <3>2, WriteType DEF statusUpdate
    <3> QED
      BY <2>19, <3>3 DEF statusUpdate, TypeOK, TypeApi
  <2> QED
    BY <1>9, <2>1, <2>2, <2>3, <2>4, <2>5, <2>6, <2>7, <2>8, <2>9, <2>10, <2>11,
       <2>12, <2>13, <2>14, <2>15, <2>16, <2>17, <2>18, <2>19 DEF Work
<1>10. CASE WorkFails
  <2>1. CASE reconcileResourceFails
    <3>1. used' \in [BoundName -> Nat]
      BY <2>1, SpendType DEF reconcileResourceFails, applyResourceFails, TypeOK, BoundName
    <3> QED
      BY <2>1, <3>1 DEF reconcileResourceFails, Fail, TypeOK
  <2>2. CASE reconcileRouterServiceFails
    <3>1. used' \in [BoundName -> Nat]
      BY <2>2, SpendType DEF reconcileRouterServiceFails, applyResourceFails, TypeOK, BoundName
    <3> QED
      BY <2>2, <3>1 DEF reconcileRouterServiceFails, Fail, TypeOK
  <2>3. ASSUME NEW r \in Resources, deleteRecordedResourceFails(r)
        PROVE  TypeOK'
    <3>1. used' \in [BoundName -> Nat]
      BY <2>3, SpendType DEF deleteRecordedResourceFails, TypeOK, BoundName
    <3> QED
      BY <2>3, <3>1 DEF deleteRecordedResourceFails, TypeOK
  <2>4. CASE statusUpdateFails
    <3>1. used' \in [BoundName -> Nat]
      BY <2>4, SpendType DEF statusUpdateFails, TypeOK, BoundName
    <3> QED
      BY <2>4, <3>1 DEF statusUpdateFails, Fail, TypeOK
  <2> QED
    BY <1>10, <2>1, <2>2, <2>3, <2>4 DEF WorkFails
<1>11. CASE UNCHANGED vars
  BY <1>11 DEF vars, TypeOK
<1> QED
  BY <1>1, <1>2, <1>3, <1>4, <1>5, <1>6, <1>7, <1>8, <1>9, <1>10, <1>11
  DEF Next, Environment
-----------------------------------------------------------------------------
(***************************************************************************)
(* What a spec asks for.                                                   *)
(***************************************************************************)
LEMMA RouterWanted ==
  ASSUME NEW spec \in SpecType
  PROVE  Range(spec.router) \subseteq Wanted(spec)
  BY DEF Wanted, Range, SpecType

\* A step of some node contributes its manifest.
LEMMA StepWanted ==
  ASSUME NEW spec \in SpecType, NEW n \in Nodes,
         NEW k \in 1..Len(spec.nodes[n]), IsInternal(spec.nodes[n][k])
  PROVE  Range(Manifest[spec.nodes[n][k]]) \subseteq Wanted(spec)
<1>1. spec.nodes[n] \in Seq(Steps)
  BY DEF SpecType
<1>2. spec.nodes[n][k] \in Steps /\ spec.nodes[n][k] \in Range(spec.nodes[n])
  BY <1>1 DEF Range
<1>3. Range(Manifest[spec.nodes[n][k]]) \subseteq Resources
  BY <1>2, SpecAssumption DEF Range
<1> QED
  BY <1>2, <1>3 DEF Wanted

\* When all nodes and the router are recorded, everything wanted is.
LEMMA AllRecorded ==
  ASSUME NEW spec \in SpecType, NEW ann,
         \A n \in Nodes : StepsRecorded(spec.nodes[n], Len(spec.nodes[n]), ann),
         Range(spec.router) \subseteq ann
  PROVE  Wanted(spec) \subseteq ann
<1>1. ASSUME NEW n \in Nodes, NEW s \in Range(spec.nodes[n]), IsInternal(s)
      PROVE  Range(Manifest[s]) \subseteq ann
  <2>1. spec.nodes[n] \in Seq(Steps)
    BY DEF SpecType
  <2>2. PICK k \in 1..Len(spec.nodes[n]) : s = spec.nodes[n][k]
    BY <2>1 DEF Range
  <2> QED
    BY <1>1, <2>1, <2>2 DEF StepsRecorded
<1> QED
  BY <1>1 DEF Wanted

LEMMA WantedOfGraph ==
  ASSUME NEW g \in Graphs, NEW spec \in SpecsOf[g]
  PROVE  Wanted(spec) \subseteq AllOf(g)
  BY DEF AllOf
-----------------------------------------------------------------------------
(***************************************************************************)
(* The informer follows the API server.                                    *)
(***************************************************************************)
LEMMA WatchKept ==
  ASSUME WatchInv, UNCHANGED <<api, rev, watch, cache>>
  PROVE  WatchInv'
  BY DEF WatchInv

\* A version is stored and sent, of the same resource as the one before it.
LEMMA WatchWrite ==
  ASSUME TypeOK, WatchInv, NEW g \in Graphs, NEW v \in Version, Write(g, v),
         GoodVersion(g, v, rev[g] + 1), SameResource(api[g], v), UNCHANGED cache
  PROVE  WatchInv'
<1> SUFFICES ASSUME NEW h \in Graphs
             PROVE  /\ GoodVersion(h, api'[h], rev'[h])
                    /\ GoodVersion(h, cache[h], rev'[h])
                    /\ \A k \in 1..Len(watch'[h]) : GoodVersion(h, watch'[h][k], rev'[h])
                    /\ IF watch'[h] = <<>> THEN cache[h] = api'[h]
                       ELSE /\ watch'[h][Len(watch'[h])] = api'[h]
                            /\ SameResource(cache[h], watch'[h][1])
                    /\ \A k \in 1..(Len(watch'[h]) - 1) :
                         SameResource(watch'[h][k], watch'[h][k + 1])
  BY DEF WatchInv
<1>1. CASE h # g
  BY <1>1 DEF WatchInv, Write, TypeOK
<1>2. CASE h = g
  <2>1. /\ watch[g] \in Seq(Version) /\ rev[g] \in Nat /\ api[g] \in Version
        /\ cache[g] \in Version /\ cache[g].uid \in Nat /\ api[g].uid \in Nat
    BY DEF TypeOK, Version
  <2>2. /\ watch'[g] = Append(watch[g], v) /\ rev'[g] = rev[g] + 1 /\ api'[g] = v
    BY DEF Write, TypeOK
  <2>3. \A w \in Version : GoodVersion(g, w, rev[g]) => GoodVersion(g, w, rev[g] + 1)
    BY <2>1 DEF GoodVersion, Version
  <2>4. /\ Len(watch'[g]) = Len(watch[g]) + 1
        /\ \A k \in 1..Len(watch[g]) : watch'[g][k] = watch[g][k] /\ watch[g][k] \in Version
        /\ watch'[g][Len(watch[g]) + 1] = v
        /\ watch'[g] # <<>>
        /\ Len(watch[g]) \in Nat
    BY <2>1, <2>2
  <2>5. \A k \in 1..Len(watch'[g]) : GoodVersion(g, watch'[g][k], rev'[g])
    BY <2>2, <2>3, <2>4 DEF WatchInv
  <2>6. SameResource(cache[g], watch'[g][1])
    <3>1. CASE watch[g] = <<>>
      BY <2>4, <3>1 DEF WatchInv
    <3>2. CASE watch[g] # <<>>
      <4>1. Len(watch[g]) > 0
        BY <2>1, <3>2
      <4> QED
        BY <2>4, <3>2, <4>1 DEF WatchInv
    <3> QED
      BY <3>1, <3>2
  <2>7. \A k \in 1..(Len(watch'[g]) - 1) : SameResource(watch'[g][k], watch'[g][k + 1])
    <3> SUFFICES ASSUME NEW k \in 1..Len(watch[g])
                 PROVE  SameResource(watch'[g][k], watch'[g][k + 1])
      BY <2>4
    <3>1. CASE k = Len(watch[g])
      <4>1. watch[g] # <<>>
        BY <2>1
      <4> QED
        BY <2>4, <3>1, <4>1 DEF WatchInv
    <3>2. CASE k # Len(watch[g])
      BY <2>4, <3>2 DEF WatchInv
    <3> QED
      BY <3>1, <3>2
  <2> QED
    BY <1>2, <2>1, <2>2, <2>3, <2>4, <2>5, <2>6, <2>7 DEF WatchInv
<1> QED
  BY <1>1, <1>2

LEMMA WatchDeliver ==
  ASSUME TypeOK, WatchInv, NEW g \in Graphs, DeliverGraph(g)
  PROVE  WatchInv'
<1>1. /\ watch[g] \in Seq(Version) /\ watch[g] # <<>>
      /\ cache' = [cache EXCEPT ![g] = Head(watch[g])]
      /\ watch' = [watch EXCEPT ![g] = Tail(watch[g])]
      /\ UNCHANGED <<api, rev>>
      /\ cache \in [Graphs -> Version] /\ watch \in [Graphs -> Seq(Version)]
  BY DEF DeliverGraph, TypeOK
<1>2. /\ Len(watch[g]) \in Nat /\ Len(watch[g]) > 0
      /\ Head(watch[g]) = watch[g][1]
      /\ Len(Tail(watch[g])) = Len(watch[g]) - 1
      /\ \A k \in 1..(Len(watch[g]) - 1) : Tail(watch[g])[k] = watch[g][k + 1]
  BY <1>1
<1>3. /\ GoodVersion(g, cache'[g], rev'[g])
      /\ \A k \in 1..Len(watch'[g]) : GoodVersion(g, watch'[g][k], rev'[g])
  <2>1. \A k \in 1..Len(watch[g]) : GoodVersion(g, watch[g][k], rev[g])
    BY DEF WatchInv
  <2>2. \A k \in 1..(Len(watch[g]) - 1) : GoodVersion(g, Tail(watch[g])[k], rev[g])
    BY <1>2, <2>1
  <2> QED
    BY <1>1, <1>2, <2>1, <2>2
<1>4. \A k \in 1..(Len(watch'[g]) - 1) : SameResource(watch'[g][k], watch'[g][k + 1])
  <2> SUFFICES ASSUME NEW k \in 1..(Len(watch[g]) - 2)
               PROVE  SameResource(Tail(watch[g])[k], Tail(watch[g])[k + 1])
    BY <1>1, <1>2
  <2>1. k + 1 \in 1..(Len(watch[g]) - 1) /\ k \in 1..(Len(watch[g]) - 1)
    BY <1>2
  <2> QED
    BY <1>2, <2>1 DEF WatchInv
<1>5. IF watch'[g] = <<>> THEN cache'[g] = api'[g]
      ELSE /\ watch'[g][Len(watch'[g])] = api'[g]
           /\ SameResource(cache'[g], watch'[g][1])
  <2>1. CASE Len(watch[g]) = 1
    <3>1. Tail(watch[g]) = <<>>
      BY <1>1, <1>2, <2>1
    <3> QED
      BY <1>1, <1>2, <2>1, <3>1 DEF WatchInv
  <2>2. CASE Len(watch[g]) # 1
    <3>1. 1 \in 1..(Len(watch[g]) - 1) /\ Len(watch[g]) - 1 \in 1..(Len(watch[g]) - 1)
      <4> DEFINE n == Len(watch[g])
      <4>1. n \in Nat /\ n > 0 /\ n # 1
        BY <1>2, <2>2, Zenon
      <4> HIDE DEF n
      <4>2. 1 \in 1..(n - 1) /\ n - 1 \in 1..(n - 1)
        BY <4>1
      <4> QED
        BY <4>2 DEF n
    <3>2. /\ Tail(watch[g])[Len(watch[g]) - 1] = watch[g][Len(watch[g])]
          /\ Tail(watch[g])[1] = watch[g][1 + 1]
      BY <1>2, <3>1
    <3>3. Len(Tail(watch[g])) # 0
      BY <1>2, <2>2
    <3>4. Tail(watch[g]) # <<>>
      <4>1. Len(<<>>) = 0
        OBVIOUS
      <4> QED
        BY <3>3, <4>1, Zenon
    <3> QED
      BY <1>1, <1>2, <3>1, <3>2, <3>4 DEF WatchInv
  <2> QED
    BY <2>1, <2>2
<1>6. ASSUME NEW h \in Graphs, h # g
      PROVE  /\ cache'[h] = cache[h] /\ watch'[h] = watch[h]
             /\ api'[h] = api[h] /\ rev'[h] = rev[h]
  BY <1>1, <1>6
<1>7. GoodVersion(g, api'[g], rev'[g])
  BY <1>1 DEF WatchInv
<1> QED
  BY <1>3, <1>4, <1>5, <1>6, <1>7 DEF WatchInv

LEMMA WatchNext == TypeOK /\ WatchInv /\ WorkerInv /\ [Next]_vars => WatchInv'
<1> SUFFICES ASSUME TypeOK, WatchInv, WorkerInv, [Next]_vars
             PROVE  WatchInv'
  OBVIOUS
<1>0. \A g \in Graphs : /\ api[g] \in Version /\ rev[g] \in Nat /\ api[g].uid \in Nat
                        /\ GoodVersion(g, api[g], rev[g])
  BY DEF TypeOK, WatchInv, Version
<1>1. ASSUME NEW g \in Graphs, NEW spec \in SpecsOf[g], UserCreate(g, spec)
      PROVE  WatchInv'
  <2> DEFINE v == [uid |-> rev[g] + 1, rv |-> rev[g] + 1, spec |-> spec,
                   annotations |-> {}, status |-> <<>>]
  <2>1. rev[g] + 1 \in Nat /\ {} \in SUBSET Resources /\ <<>> \in Seq(Nat)
    BY <1>0
  <2>2. v \in Version
    BY <2>1, SpecAssumption, NotFoundType, VersionFields
  <2>3. GoodVersion(g, v, rev[g] + 1)
    BY <1>0 DEF GoodVersion
  <2>4. SameResource(api[g], v)
    BY <1>1 DEF UserCreate, SameResource
  <2>5. Write(g, v) /\ UNCHANGED cache
    BY <1>1 DEF UserCreate
  <2> HIDE DEF v
  <2> QED
    BY <2>2, <2>3, <2>4, <2>5, WatchWrite
<1>2. ASSUME NEW g \in Graphs, NEW spec \in SpecsOf[g], UserEdit(g, spec)
      PROVE  WatchInv'
  <2> DEFINE v == [api[g] EXCEPT !.spec = spec, !.rv = rev[g] + 1]
  <2>1. rev[g] + 1 \in Nat /\ {} \in SUBSET Resources /\ <<>> \in Seq(Nat)
    BY <1>0
  <2>2. v \in Version
    BY <1>0, <2>1, SpecAssumption, VersionFields
  <2>3. GoodVersion(g, v, rev[g] + 1) /\ SameResource(api[g], v)
    <3>1. /\ v.uid = api[g].uid /\ v.spec = spec /\ v.status = api[g].status
          /\ v.annotations = api[g].annotations
      BY <1>0 DEF Version
    <3> HIDE DEF v
    <3> QED
      BY <1>0, <3>1 DEF GoodVersion, SameResource
  <2>5. Write(g, v) /\ UNCHANGED cache
    BY <1>2 DEF UserEdit
  <2> HIDE DEF v
  <2> QED
    BY <2>2, <2>3, <2>5, WatchWrite
<1>3. ASSUME NEW g \in Graphs, UserDelete(g)
      PROVE  WatchInv'
  <2>1. GoodVersion(g, NotFound, rev[g] + 1) /\ SameResource(api[g], NotFound)
    BY <1>0 DEF GoodVersion, SameResource, NotFound
  <2>2. Write(g, NotFound) /\ UNCHANGED cache
    BY <1>3 DEF UserDelete
  <2> QED
    BY <2>1, <2>2, NotFoundType, WatchWrite
<1>4. CASE RestartManager
  BY <1>4 DEF RestartManager, WatchInv, TypeOK
<1>5. ASSUME NEW g \in Graphs, DeliverGraph(g)
      PROVE  WatchInv'
  BY <1>5, WatchDeliver
<1>6. CASE statusUpdate
  <2>1. /\ name \in Graphs /\ graph.annotations \subseteq AllOf(name)
        /\ Len(graph.status) = 3
    BY <1>6 DEF statusUpdate, WorkerInv, Busy
  <2> DEFINE v == [api[name] EXCEPT !.annotations = graph.annotations,
                                    !.status = graph.status, !.rv = rev[name] + 1]
  <2>2. /\ rev[name] + 1 \in Nat /\ graph.annotations \in SUBSET Resources
        /\ graph.status \in Seq(Nat)
    <3>1. rev[name] + 1 \in Nat
      BY <1>0, <2>1
    <3>2. graph.annotations \in SUBSET Resources /\ graph.status \in Seq(Nat)
      BY DEF TypeOK, Version
    <3> QED
      BY <3>1, <3>2
  <2>3. v \in Version
    BY <1>0, <2>1, <2>2, NoSpecType, VersionFields
  <2>4. GoodVersion(name, v, rev[name] + 1) /\ SameResource(api[name], v)
    <3>1. /\ v.uid = api[name].uid /\ v.spec = api[name].spec
          /\ v.status = graph.status /\ v.annotations = graph.annotations
      BY <1>0, <2>1 DEF Version
    <3> HIDE DEF v
    <3> QED
      BY <1>0, <2>1, <3>1 DEF GoodVersion, SameResource
  <2>5. Write(name, v) /\ UNCHANGED cache
    BY <1>6 DEF statusUpdate
  <2> HIDE DEF v
  <2> QED
    BY <2>1, <2>3, <2>4, <2>5, WatchWrite
<1>7. CASE Work /\ ~statusUpdate
  <2>1. UNCHANGED <<api, rev, watch, cache>>
    BY <1>7 DEF Work, ReconcileIgnored, Dequeue, ReconcileGraph, handleStatusUpdate,
         EnterNode, LeaveNode, SkipStep, EnterStep, reconcileResource, recordResources,
         EnterRouter, reconcileRouterService, EnterPrune, deleteRecordedResource,
         ResetStatus, collectResourceStatus, collectResourceStatusFails, Fail,
         CountDeployment, getLatestGraph
  <2> QED
    BY <2>1, WatchKept
<1>8. CASE WorkFails
  <2>1. UNCHANGED <<api, rev, watch, cache>>
    BY <1>8 DEF WorkFails, reconcileResourceFails, reconcileRouterServiceFails,
         deleteRecordedResourceFails, statusUpdateFails, Fail
  <2> QED
    BY <2>1, WatchKept
<1>9. ASSUME NEW d \in Deployments, FlipDeployment(d) \/ DeliverDeployment(d)
      PROVE  WatchInv'
  BY <1>9, WatchKept DEF FlipDeployment, DeliverDeployment
<1>10. ASSUME NEW r \in Resources, CollectGarbage(r)
       PROVE  WatchInv'
  BY <1>10, WatchKept DEF CollectGarbage
<1>11. CASE UNCHANGED vars
  BY <1>11, WatchKept DEF vars
<1> QED
  BY <1>1, <1>2, <1>3, <1>4, <1>5, <1>6, <1>7, <1>8, <1>9, <1>10, <1>11
  DEF Next, Environment
-----------------------------------------------------------------------------
(***************************************************************************)
(* What Reconcile has recorded, at every point of its pass.                *)
(***************************************************************************)
\* Walking through the steps of a node: none, one more, all.
LEMMA RecordedNone ==
  ASSUME NEW steps \in Seq(Steps), NEW ann
  PROVE  StepsRecorded(steps, 1 - 1, ann)
  BY DEF StepsRecorded

LEMMA RecordedNext ==
  ASSUME NEW steps \in Seq(Steps), NEW k \in Nat, NEW ann, NEW new,
         StepsRecorded(steps, k - 1, ann), ann \subseteq new,
         IsInternal(steps[k]) => Range(Manifest[steps[k]]) \subseteq new
  PROVE  StepsRecorded(steps, (k + 1) - 1, new)
<1> SUFFICES ASSUME NEW m \in 1..Len(steps), m <= (k + 1) - 1, IsInternal(steps[m])
             PROVE  Range(Manifest[steps[m]]) \subseteq new
  BY DEF StepsRecorded
<1>1. m = k \/ m <= k - 1
  OBVIOUS
<1> QED
  BY <1>1 DEF StepsRecorded

LEMMA RecordedAll ==
  ASSUME NEW steps \in Seq(Steps), NEW k \in Nat, NEW ann, k > Len(steps),
         StepsRecorded(steps, k - 1, ann)
  PROVE  StepsRecorded(steps, Len(steps), ann)
<1> SUFFICES ASSUME NEW m \in 1..Len(steps), IsInternal(steps[m])
             PROVE  Range(Manifest[steps[m]]) \subseteq ann
  BY DEF StepsRecorded
<1>1. m <= k - 1
  OBVIOUS
<1> QED
  BY <1>1 DEF StepsRecorded

LEMMA WorkerKept ==
  ASSUME WorkerInv, UNCHANGED workerVars
  PROVE  WorkerInv'
  BY DEF WorkerInv, FullPass, Collecting, Busy, step

LEMMA WorkerIdle ==
  ASSUME pc' = "idle"
  PROVE  WorkerInv'
  BY DEF WorkerInv, FullPass, Collecting, Busy

LEMMA WorkerNext == TypeOK /\ WatchInv /\ WorkerInv /\ [Next]_vars => WorkerInv'
<1> SUFFICES ASSUME TypeOK, WatchInv, WorkerInv, [Next]_vars
             PROVE  WorkerInv'
  OBVIOUS
<1> USE NamesAssumption, SpecAssumption DEF FullPass, Collecting, Busy
<1>0. /\ graph \in Version /\ graph.spec \in SpecType /\ graph.annotations \subseteq Resources
      /\ \A n \in Nodes : graph.spec.nodes[n] \in Seq(Steps)
      /\ graph.spec.router \in Seq(Resources)
      /\ i \in Nat /\ j \in Nat
  BY DEF TypeOK, Version, SpecType
<1>1. CASE Work
  <2>1. ASSUME NEW x \in queue, ReconcileIgnored(x)
        PROVE  WorkerInv'
    BY <2>1, WorkerKept DEF ReconcileIgnored, Dequeue
  <2>2. ASSUME NEW g \in Graphs, ReconcileGraph(g)
        PROVE  WorkerInv'
    <3>1. /\ cache[g] \in Version /\ cache[g].spec \in SpecsOf[g]
          /\ cache[g].annotations \subseteq AllOf(g)
      BY <2>2 DEF ReconcileGraph, WatchInv, GoodVersion, TypeOK
    <3>2. /\ graph'.spec = cache[g].spec /\ graph'.annotations = {}
          /\ pc' = "nodes" /\ req' = g /\ name' = g /\ doneNodes' = {}
          /\ oldAnnotations' = cache[g].annotations
      BY <2>2, <3>1 DEF ReconcileGraph, Version
    <3> QED
      BY <3>1, <3>2 DEF WorkerInv
  <2>3. ASSUME NEW d \in Deployments, handleStatusUpdate(d)
        PROVE  WorkerInv'
    <3> DEFINE g == dcache[d].owner
    <3>1. g \in Graphs
      BY <2>3 DEF handleStatusUpdate, HasGraph, TypeOK, Object
    <3>2. /\ cache[g].spec \in SpecsOf[g]
          /\ cache[g].annotations \subseteq AllOf(g)
          /\ cache[g].annotations # {} => Len(cache[g].status) = 3
      BY <2>3, <3>1 DEF handleStatusUpdate, HasGraph, WatchInv, GoodVersion
    <3>3. /\ graph' = cache[g] /\ name' = g /\ pc' = "collect" /\ req' = d
          /\ req' \notin Graphs
      BY <2>3 DEF handleStatusUpdate
    <3> HIDE DEF g
    <3> QED
      BY <3>1, <3>2, <3>3 DEF WorkerInv
  <2>4. ASSUME NEW n \in Nodes, EnterNode(n)
        PROVE  WorkerInv'
    <3>1. StepsRecorded(graph.spec.nodes[n], 1 - 1, graph.annotations)
      BY <1>0, RecordedNone
    <3>2. /\ pc = "nodes" /\ pc' = "steps" /\ nodeName' = n /\ i' = 1
          /\ UNCHANGED <<req, name, graph, oldAnnotations, doneNodes>>
      BY <2>4 DEF EnterNode
    <3> QED
      BY <3>1, <3>2 DEF WorkerInv
  <2>5. CASE LeaveNode
    <3>1. /\ pc = "steps" /\ pc' = "nodes" /\ doneNodes' = doneNodes \cup {nodeName}
          /\ UNCHANGED <<req, name, graph, oldAnnotations>>
      BY <2>5 DEF LeaveNode
    <3>2. StepsRecorded(graph.spec.nodes[nodeName],
                        Len(graph.spec.nodes[nodeName]), graph.annotations)
      BY <2>5, <1>0, RecordedAll DEF LeaveNode, WorkerInv
    <3> QED
      BY <3>1, <3>2 DEF WorkerInv
  <2>6. CASE SkipStep
    <3>1. /\ pc = "steps" /\ i' = i + 1 /\ ~IsInternal(graph.spec.nodes[nodeName][i])
          /\ UNCHANGED <<pc, req, name, graph, oldAnnotations, doneNodes, nodeName>>
      BY <2>6 DEF SkipStep, AtStep, step
    <3>2. StepsRecorded(graph.spec.nodes[nodeName], (i + 1) - 1, graph.annotations)
      BY <3>1, <1>0, RecordedNext DEF WorkerInv
    <3> QED
      BY <3>1, <3>2 DEF WorkerInv
  <2>7. CASE EnterStep
    BY <2>7, <1>0 DEF EnterStep, AtStep, step, WorkerInv
  <2>8. CASE reconcileResource
    BY <2>8 DEF reconcileResource, step, WorkerInv
  <2>9. CASE recordResources
    <3>1. /\ graph'.spec = graph.spec
          /\ graph'.annotations = graph.annotations \cup Range(Manifest[step])
          /\ graph.annotations \subseteq graph'.annotations
      BY <2>9, <1>0 DEF recordResources, Version
    <3>2. Range(Manifest[step]) \subseteq Wanted(graph.spec)
      <4>1. /\ nodeName \in Nodes /\ i \in 1..Len(graph.spec.nodes[nodeName])
            /\ IsInternal(graph.spec.nodes[nodeName][i])
        BY <2>9, <1>0 DEF recordResources, step, WorkerInv, TypeOK
      <4> QED
        BY <4>1, <1>0, StepWanted DEF step
    <3>3. Wanted(graph.spec) \subseteq AllOf(name)
      BY <2>9, WantedOfGraph DEF recordResources, WorkerInv
    <3>4. \A n \in doneNodes : StepsRecorded(graph.spec.nodes[n],
                  Len(graph.spec.nodes[n]), graph'.annotations)
      BY <2>9, <3>1 DEF recordResources, WorkerInv, StepsRecorded
    <3>5. StepsRecorded(graph.spec.nodes[nodeName], i' - 1, graph'.annotations)
      <4>1. /\ nodeName \in Nodes /\ i' = i + 1
            /\ StepsRecorded(graph.spec.nodes[nodeName], i - 1, graph.annotations)
        BY <2>9 DEF recordResources, WorkerInv
      <4>2. Range(Manifest[graph.spec.nodes[nodeName][i]]) \subseteq graph'.annotations
        BY <3>1 DEF step
      <4> QED
        BY <4>1, <4>2, <1>0, <3>1, RecordedNext
    <3> QED
      BY <2>9, <3>1, <3>2, <3>3, <3>4, <3>5 DEF recordResources, WorkerInv
  <2>10. CASE EnterRouter
    BY <2>10, <1>0 DEF EnterRouter, WorkerInv
  <2>11. CASE reconcileRouterService
    <3>1. /\ graph'.spec = graph.spec
          /\ graph'.annotations = graph.annotations \cup {graph.spec.router[j]}
          /\ graph.annotations \subseteq graph'.annotations
      BY <2>11, <1>0 DEF reconcileRouterService, Version
    <3>2. graph.spec.router[j] \in Wanted(graph.spec)
      BY <2>11, <1>0, RouterWanted DEF reconcileRouterService, Range, TypeOK
    <3>3. Wanted(graph.spec) \subseteq AllOf(name)
      BY <2>11, WantedOfGraph DEF reconcileRouterService, WorkerInv
    <3>4. \A n \in doneNodes : StepsRecorded(graph.spec.nodes[n],
                  Len(graph.spec.nodes[n]), graph'.annotations)
      BY <2>11, <3>1 DEF reconcileRouterService, WorkerInv, StepsRecorded
    <3>5. \A k \in 1..Len(graph.spec.router) :
            k < j' => graph.spec.router[k] \in graph'.annotations
      BY <2>11, <1>0, <3>1 DEF reconcileRouterService, WorkerInv
    <3> QED
      BY <2>11, <3>1, <3>2, <3>3, <3>4, <3>5 DEF reconcileRouterService, WorkerInv
  <2>12. CASE EnterPrune
    <3>1. Range(graph.spec.router) \subseteq graph.annotations
      BY <2>12, <1>0 DEF EnterPrune, WorkerInv, Range
    <3> QED
      BY <2>12, <3>1 DEF EnterPrune, WorkerInv
  <2>13. ASSUME NEW r \in Resources, deleteRecordedResource(r)
         PROVE  WorkerInv'
    BY <2>13 DEF deleteRecordedResource, WorkerInv
  <2>14. CASE ResetStatus
    <3>1. Wanted(graph.spec) \subseteq graph.annotations
      BY <2>14, <1>0, AllRecorded DEF ResetStatus, WorkerInv
    <3>2. /\ graph'.spec = graph.spec /\ graph'.annotations = graph.annotations
          /\ graph'.status = <<0, externalService, 0>>
      BY <2>14, <1>0 DEF ResetStatus, Version
    <3>3. Len(<<0, externalService, 0>>) = 3
      OBVIOUS
    <3> QED
      <4>1. /\ pc = "prune" /\ pc' = "collect" /\ UNCHANGED <<req, name>>
            /\ graph.annotations = Wanted(graph.spec) /\ Len(graph'.status) = 3
        BY <2>14, <3>1, <3>2, <3>3 DEF ResetStatus, WorkerInv
      <4> QED
        BY <4>1, <3>2 DEF WorkerInv
  <2>15. CASE collectResourceStatus
    BY <2>15 DEF collectResourceStatus, WorkerInv
  <2>16. CASE collectResourceStatusFails
    BY <2>16, WorkerIdle DEF collectResourceStatusFails, Fail
  <2>17. ASSUME NEW d \in Deployments, CountDeployment(d)
         PROVE  WorkerInv'
    BY <2>17 DEF CountDeployment, WorkerInv
  <2>18. CASE getLatestGraph
    <3>1. /\ graph'.spec = graph.spec /\ graph'.annotations = graph.annotations
          /\ graph'.status = <<readyCnt, graph.status[2],
                               Cardinality(graph.annotations \cap Deployments)>>
      BY <2>18, <1>0 DEF getLatestGraph, Version
    <3>2. Len(graph'.status) = 3
      BY <3>1
    <3> QED
      BY <2>18, <3>1, <3>2 DEF getLatestGraph, WorkerInv
  <2>19. CASE statusUpdate
    BY <2>19, WorkerIdle DEF statusUpdate
  <2> QED
    BY <1>1, <2>1, <2>2, <2>3, <2>4, <2>5, <2>6, <2>7, <2>8, <2>9, <2>10, <2>11,
       <2>12, <2>13, <2>14, <2>15, <2>16, <2>17, <2>18, <2>19 DEF Work
<1>2. CASE WorkFails
  <2>1. CASE \E r \in Resources : deleteRecordedResourceFails(r)
    BY <2>1 DEF deleteRecordedResourceFails, WorkerInv
  <2>2. CASE ~ \E r \in Resources : deleteRecordedResourceFails(r)
    BY <1>2, <2>2, WorkerIdle DEF WorkFails, reconcileResourceFails,
         reconcileRouterServiceFails, statusUpdateFails, Fail
  <2> QED
    BY <2>1, <2>2
<1>3. CASE Environment
  <2>1. CASE RestartManager
    BY <2>1, WorkerIdle DEF RestartManager
  <2>2. CASE ~RestartManager
    <3>1. UNCHANGED workerVars
      BY <1>3, <2>2 DEF Environment, UserCreate, UserEdit, UserDelete, FlipDeployment
    <3> QED
      BY <3>1, WorkerKept
  <2> QED
    BY <2>1, <2>2
<1>4. CASE \/ \E g \in Graphs : DeliverGraph(g)
           \/ \E d \in Deployments : DeliverDeployment(d)
           \/ \E r \in Resources : CollectGarbage(r)
  <2>1. UNCHANGED workerVars
    BY <1>4 DEF DeliverGraph, DeliverDeployment, CollectGarbage
  <2> QED
    BY <2>1, WorkerKept
<1>5. CASE UNCHANGED vars
  BY <1>5, WorkerKept DEF vars
<1> QED
  BY <1>1, <1>2, <1>3, <1>4, <1>5 DEF Next
-----------------------------------------------------------------------------
(***************************************************************************)
(* What a graph that is not queued is owed.                                *)
(***************************************************************************)
\* A step inside a pass that applies nothing new and changes no object.
LEMMA ServedFrame ==
  ASSUME ServedInv, UNCHANGED <<api, cache, cluster, queue, req>>, Busy, Busy',
         graph'.uid = graph.uid, graph'.spec = graph.spec,
         \A r \in Resources : Applied(r)' => Applied(r)
  PROVE  ServedInv'
  BY DEF ServedInv, Owed, Served, InPass, OwnedBy

\* A step that leaves the worker idle without changing an object: the graph it
\* was working on, if any, is queued again.
LEMMA ServedFail ==
  ASSUME ServedInv, UNCHANGED <<api, cache, cluster, req>>, pc' = "idle",
         queue' = IF req \in Graphs THEN queue \cup {req} ELSE queue
  PROVE  ServedInv'
  BY DEF ServedInv, Owed, Served, InPass, OwnedBy, Busy

\* A step of somebody else that keeps the owner of every object.
LEMMA ServedOthers ==
  ASSUME ServedInv, UNCHANGED <<cache, workerVars>>, queue \subseteq queue',
         \A r \in Resources : /\ cluster'[r].owner = cluster[r].owner
                              /\ cluster'[r].uid = cluster[r].uid,
         \A g \in Graphs : cache[g].uid # 0 /\ api'[g].uid = cache[g].uid =>
           api[g].uid = cache[g].uid
  PROVE  ServedInv'
<1> SUFFICES ASSUME NEW g \in Graphs, Owed(g)'
             PROVE  Served(g)'
  BY DEF ServedInv
<1>1. Owed(g)
  BY DEF Owed
<1>2. Served(g)
  BY <1>1 DEF ServedInv
<1>3. \A r \in Resources : Applied(r)' = Applied(r)
  BY DEF Applied, step
<1>4. InPass(g)' = InPass(g)
  BY DEF InPass, Busy
<1>5. Wanted(cache[g].spec) \subseteq Resources
  BY DEF Wanted
<1> QED
  BY <1>2, <1>3, <1>4, <1>5 DEF Served, OwnedBy

\* Reconcile changes one object of its own graph: it applies a wanted one, or
\* deletes one that it has not applied.
LEMMA ServedPut ==
  ASSUME Disjoint, TypeOK, WatchInv, WorkerInv, ServedInv, FullPass, FullPass',
         UNCHANGED <<api, cache, queue, req, name>>,
         NEW r \in AllOf(name), NEW o, PutObject(r, o),
         graph'.uid = graph.uid, graph'.spec = graph.spec,
         \A x \in Resources : Applied(x)' =>
           IF x = r THEN o.owner = name /\ o.uid = graph.uid ELSE Applied(x)
  PROVE  ServedInv'
<1> SUFFICES ASSUME NEW g \in Graphs, Owed(g)'
             PROVE  Served(g)'
  BY DEF ServedInv
<1>1. Owed(g) /\ Served(g)
  BY DEF Owed, ServedInv
<1>2. /\ Busy /\ Busy' /\ name = req /\ name \in Graphs
      /\ \A x \in Resources : cluster'[x] = IF x = r THEN o ELSE cluster[x]
  BY DEF WorkerInv, FullPass, Busy, PutObject, TypeOK
<1>3. CASE g = req
  BY <1>1, <1>2, <1>3 DEF Served, InPass, OwnedBy
<1>4. CASE g # req
  <2>1. cache[g].spec \in SpecsOf[g]
    BY <1>1 DEF Owed, WatchInv, GoodVersion
  <2>2. r \notin Wanted(cache[g].spec)
    BY <1>2, <1>4, <2>1, WantedOfGraph DEF Disjoint
  <2>3. Wanted(cache[g].spec) \subseteq Resources
    BY DEF Wanted
  <2> QED
    BY <1>1, <1>2, <1>4, <2>2, <2>3 DEF Served, InPass, OwnedBy
<1> QED
  BY <1>3, <1>4

LEMMA ServedNext ==
  Disjoint /\ TypeOK /\ WatchInv /\ WorkerInv /\ ServedInv /\ [Next]_vars => ServedInv'
<1> SUFFICES ASSUME Disjoint, TypeOK, WatchInv, WorkerInv, ServedInv, [Next]_vars
             PROVE  ServedInv'
  OBVIOUS
<1> USE NamesAssumption, SpecAssumption
<1>0. /\ graph \in Version /\ graph.spec \in SpecType
      /\ \A n \in Nodes : graph.spec.nodes[n] \in Seq(Steps)
      /\ graph.spec.router \in Seq(Resources) /\ j \in Nat \ {0}
  BY DEF TypeOK, Version, SpecType
<1>1. CASE Work
  <2>1. ASSUME NEW x \in queue, ReconcileIgnored(x)
        PROVE  ServedInv'
    BY <2>1 DEF ReconcileIgnored, Dequeue, ServedInv, Owed, Served, InPass, OwnedBy, Busy
  <2>2. ASSUME NEW g \in Graphs, ReconcileGraph(g)
        PROVE  ServedInv'
    <3>1. /\ UNCHANGED <<api, cache, cluster>> /\ queue' = queue \ {g} /\ ~Busy
          /\ pc' = "nodes" /\ req' = g /\ graph' = [cache[g] EXCEPT !.annotations = {}]
      BY <2>2 DEF ReconcileGraph, Dequeue
    <3>2. cache[g] \in Version
      BY DEF TypeOK
    <3>3. graph'.uid = cache[g].uid /\ graph'.spec = cache[g].spec /\ graph'.annotations = {}
      BY <3>1, <3>2 DEF Version
    <3>4. \A r \in Resources : ~Applied(r)'
      BY <3>1, <3>3 DEF Applied
    <3> QED
      <4>1. \A h \in Graphs : h # g /\ Owed(h)' => Served(h)'
        BY <3>1 DEF ServedInv, Owed, Served, InPass, OwnedBy
      <4>2. Served(g)'
        BY <3>1, <3>3, <3>4 DEF Served, InPass, Busy
      <4> QED
        BY <4>1, <4>2 DEF ServedInv
  <2>3. ASSUME NEW d \in Deployments, handleStatusUpdate(d)
        PROVE  ServedInv'
    BY <2>3 DEF handleStatusUpdate, Dequeue, ServedInv, Owed, Served, InPass, OwnedBy, Busy
  <2>4. ASSUME NEW n \in Nodes, EnterNode(n)
        PROVE  ServedInv'
    BY <2>4, ServedFrame DEF EnterNode, Applied, Busy
  <2>5. CASE LeaveNode
    BY <2>5, ServedFrame DEF LeaveNode, Applied, Busy
  <2>6. CASE SkipStep
    BY <2>6, ServedFrame DEF SkipStep, AtStep, Applied, Busy
  <2>7. CASE EnterStep
    <3>1. \A r \in Resources : Applied(r)' => Applied(r)
      BY <2>7 DEF EnterStep, Applied
    <3> QED
      BY <2>7, <3>1, ServedFrame DEF EnterStep, AtStep, Busy
  <2>8. CASE reconcileResource
    <3> DEFINE r == Manifest[step][j]
               o == [owner |-> name, uid |-> graph.uid, available |-> cluster[r].available]
    <3>1. /\ nodeName \in Nodes /\ i \in 1..Len(graph.spec.nodes[nodeName])
          /\ IsInternal(graph.spec.nodes[nodeName][i]) /\ name \in Graphs
          /\ graph.spec \in SpecsOf[name]
      BY <2>8, <1>0 DEF reconcileResource, step, WorkerInv, TypeOK, Busy
    <3>2. r \in Range(Manifest[step])
      BY <2>8, <1>0, StepType DEF reconcileResource, Range
    <3>3. r \in AllOf(name)
      BY <1>0, <3>1, <3>2, StepWanted, WantedOfGraph DEF step
    <3>4. ASSUME NEW x \in Resources, Applied(x)'
          PROVE  x = r \/ Applied(x)
      <4>1. /\ pc = "apply" /\ pc' = "apply" /\ j' = j + 1 /\ graph' = graph
            /\ step' = step
        BY <2>8 DEF reconcileResource, step
      <4>2. CASE x \in graph'.annotations
        BY <4>1, <4>2 DEF Applied
      <4>3. CASE x \notin graph'.annotations
        <5>1. PICK k \in 1..Len(Manifest[step]) : k < j + 1 /\ x = Manifest[step][k]
          BY <3>4, <4>1, <4>3 DEF Applied
        <5>2. k = j \/ k < j
          BY <1>0, <5>1
        <5> QED
          BY <4>1, <5>1, <5>2 DEF Applied
      <4> QED
        BY <4>2, <4>3
    <3>5. /\ PutObject(r, o) /\ o.owner = name /\ o.uid = graph.uid
          /\ UNCHANGED <<api, cache, queue, req, name, graph>> /\ FullPass /\ FullPass'
      BY <2>8 DEF reconcileResource, applyResourceToK8s, FullPass
    <3> HIDE DEF r, o
    <3> QED
      BY <3>3, <3>4, <3>5, ServedPut
  <2>9. CASE recordResources
    <3>1. /\ graph'.spec = graph.spec /\ graph'.uid = graph.uid
          /\ graph'.annotations = graph.annotations \cup Range(Manifest[step])
      BY <2>9, <1>0 DEF recordResources, Version
    <3>2. Manifest[step] \in Seq(Resources)
      BY <2>9, StepType DEF recordResources
    <3>3. ASSUME NEW x \in Range(Manifest[step])
          PROVE  \E k \in 1..Len(Manifest[step]) : k < j /\ x = Manifest[step][k]
      <4>1. PICK k \in 1..Len(Manifest[step]) : x = Manifest[step][k]
        BY <3>2 DEF Range
      <4>2. k < j
        BY <2>9, <1>0, <3>2 DEF recordResources
      <4> QED
        BY <4>1, <4>2
    <3>4. \A r \in Resources : Applied(r)' => Applied(r)
      BY <2>9, <3>1, <3>3 DEF recordResources, Applied
    <3> QED
      BY <2>9, <3>1, <3>4, ServedFrame DEF recordResources, Busy
  <2>10. CASE EnterRouter
    BY <2>10, ServedFrame DEF EnterRouter, Applied, Busy
  <2>11. CASE reconcileRouterService
    <3> DEFINE r == graph.spec.router[j]
               o == [owner |-> name, uid |-> graph.uid, available |-> cluster[r].available]
    <3>1. name \in Graphs /\ graph.spec \in SpecsOf[name]
      BY <2>11 DEF reconcileRouterService, WorkerInv, Busy
    <3>2. r \in AllOf(name)
      BY <2>11, <1>0, <3>1, RouterWanted, WantedOfGraph DEF reconcileRouterService, Range
    <3>3. /\ graph'.spec = graph.spec /\ graph'.uid = graph.uid
          /\ graph'.annotations = graph.annotations \cup {r}
      BY <2>11, <1>0 DEF reconcileRouterService, Version
    <3>4. \A x \in Resources : Applied(x)' => x = r \/ Applied(x)
      BY <2>11, <3>3 DEF reconcileRouterService, Applied
    <3>5. /\ PutObject(r, o) /\ o.owner = name /\ o.uid = graph.uid
          /\ UNCHANGED <<api, cache, queue, req, name>> /\ FullPass /\ FullPass'
      BY <2>11 DEF reconcileRouterService, applyResourceToK8s, FullPass
    <3> HIDE DEF r, o
    <3> QED
      BY <3>2, <3>3, <3>4, <3>5, ServedPut
  <2>12. CASE EnterPrune
    BY <2>12, ServedFrame DEF EnterPrune, Applied, Busy
  <2>13. ASSUME NEW r \in Resources, deleteRecordedResource(r)
         PROVE  ServedInv'
    <3>1. /\ r \in AllOf(name) /\ r \notin graph.annotations
      BY <2>13 DEF deleteRecordedResource, Stale, WorkerInv, FullPass
    <3>2. /\ PutObject(r, Absent) /\ pc = "prune" /\ pc' = "prune"
          /\ UNCHANGED <<api, cache, queue, req, name, graph>> /\ FullPass /\ FullPass'
      BY <2>13 DEF deleteRecordedResource, FullPass
    <3>3. \A x \in Resources : Applied(x)' => x # r /\ Applied(x)
      BY <3>1, <3>2 DEF Applied
    <3> QED
      BY <3>1, <3>2, <3>3, ServedPut
  <2>14. CASE ResetStatus
    <3>1. /\ graph'.spec = graph.spec /\ graph'.uid = graph.uid
          /\ graph'.annotations = graph.annotations
      BY <2>14, <1>0 DEF ResetStatus, Version
    <3> QED
      BY <2>14, <3>1, ServedFrame DEF ResetStatus, Applied, Busy
  <2>15. CASE collectResourceStatus
    BY <2>15, ServedFrame DEF collectResourceStatus, Applied, Busy
  <2>16. CASE collectResourceStatusFails
    BY <2>16, ServedFail DEF collectResourceStatusFails, Fail
  <2>17. ASSUME NEW d \in Deployments, CountDeployment(d)
         PROVE  ServedInv'
    BY <2>17, ServedFrame DEF CountDeployment, Applied, Busy
  <2>18. CASE getLatestGraph
    <3>1. /\ graph'.spec = graph.spec /\ graph'.uid = graph.uid
          /\ graph'.annotations = graph.annotations
      BY <2>18, <1>0 DEF getLatestGraph, Version
    <3> QED
      BY <2>18, <3>1, ServedFrame DEF getLatestGraph, Applied, Busy
  <2>19. CASE statusUpdate
    <3>1. /\ name \in Graphs /\ Busy /\ pc' = "idle" /\ UNCHANGED <<cache, cluster, queue, req>>
          /\ req \in Graphs => name = req /\ graph.annotations = Wanted(graph.spec)
      BY <2>19 DEF statusUpdate, WorkerInv, Busy, Collecting
    <3>2. \A g \in Graphs : api'[g].uid = api[g].uid
      BY <2>19, <3>1 DEF statusUpdate, Write, TypeOK, Version
    <3> SUFFICES ASSUME NEW g \in Graphs, Owed(g)'
                 PROVE  Served(g)'
      BY DEF ServedInv
    <3>3. Owed(g) /\ Served(g)
      BY <3>1, <3>2 DEF Owed, ServedInv
    <3>4. \A r \in Wanted(cache[g].spec) : OwnedBy(r, g, cache[g].uid)
      <4>1. CASE req = g
        <5>1. \A r \in Resources : r \in Wanted(cache[g].spec) => Applied(r)
          BY <3>1, <3>3, <4>1 DEF Served, InPass, Applied
        <5>2. Wanted(cache[g].spec) \subseteq Resources
          BY DEF Wanted
        <5> QED
          BY <3>1, <3>3, <4>1, <5>1, <5>2 DEF Served, InPass
      <4>2. CASE req # g
        BY <3>3, <4>2 DEF Served, InPass
      <4> QED
        BY <4>1, <4>2
    <3> QED
      BY <3>1, <3>4 DEF Served, InPass, Busy, OwnedBy
  <2> QED
    BY <1>1, <2>1, <2>2, <2>3, <2>4, <2>5, <2>6, <2>7, <2>8, <2>9, <2>10, <2>11,
       <2>12, <2>13, <2>14, <2>15, <2>16, <2>17, <2>18, <2>19 DEF Work
<1>2. CASE WorkFails
  <2>1. ASSUME NEW r \in Resources, deleteRecordedResourceFails(r)
        PROVE  ServedInv'
    BY <2>1, ServedFrame DEF deleteRecordedResourceFails, Applied, Busy
  <2>2. CASE reconcileResourceFails \/ reconcileRouterServiceFails \/ statusUpdateFails
    BY <2>2, ServedFail DEF reconcileResourceFails, reconcileRouterServiceFails,
         statusUpdateFails, Fail
  <2> QED
    BY <1>2, <2>1, <2>2 DEF WorkFails
<1>3. CASE RestartManager
  BY <1>3 DEF RestartManager, ServedInv, Owed
<1>4. ASSUME NEW g \in Graphs, NEW spec \in SpecsOf[g], UserCreate(g, spec)
      PROVE  ServedInv'
  <2>1. /\ \A h \in Graphs : h # g => api'[h] = api[h]
        /\ api'[g].uid = rev[g] + 1
    BY <1>4 DEF UserCreate, Write, TypeOK
  <2>2. cache[g].uid <= rev[g] /\ cache[g].uid \in Nat /\ rev[g] \in Nat
    BY DEF WatchInv, GoodVersion, TypeOK, Version
  <2>3. \A h \in Graphs : cache[h].uid # 0 /\ api'[h].uid = cache[h].uid =>
          api[h].uid = cache[h].uid
    BY <2>1, <2>2
  <2> QED
    BY <1>4, <2>3, ServedOthers DEF UserCreate
<1>5. ASSUME NEW g \in Graphs, NEW spec \in SpecsOf[g], UserEdit(g, spec)
      PROVE  ServedInv'
  <2>1. \A h \in Graphs : api'[h].uid = api[h].uid
    BY <1>5 DEF UserEdit, Write, TypeOK, Version
  <2> QED
    BY <1>5, <2>1, ServedOthers DEF UserEdit
<1>6. ASSUME NEW g \in Graphs, UserDelete(g)
      PROVE  ServedInv'
  <2>1. /\ \A h \in Graphs : h # g => api'[h] = api[h]
        /\ api'[g].uid = 0
    BY <1>6 DEF UserDelete, Write, TypeOK, NotFound
  <2> QED
    BY <1>6, <2>1, ServedOthers DEF UserDelete
<1>7. ASSUME NEW d \in Deployments, FlipDeployment(d)
      PROVE  ServedInv'
  <2>1. cluster[d] \in Object /\ cluster \in [Resources -> Object]
    BY DEF TypeOK
  <2>2. PICK n : cluster' = [cluster EXCEPT ![d] = [cluster[d] EXCEPT !.available = n]]
    BY <1>7, Zenon DEF FlipDeployment, PutObject
  <2>3. \A r \in Resources : /\ cluster'[r].owner = cluster[r].owner
                             /\ cluster'[r].uid = cluster[r].uid
    BY <2>1, <2>2 DEF Object
  <2> QED
    BY <1>7, <2>3, ServedOthers DEF FlipDeployment
<1>8. ASSUME NEW g \in Graphs, DeliverGraph(g)
      PROVE  ServedInv'
  <2> DEFINE new == Head(watch[g])
  <2>1. /\ cache' = [cache EXCEPT ![g] = new] /\ UNCHANGED <<api, cluster, workerVars>>
        /\ queue' = IF cache[g].uid = 0 \/ new.uid = 0 \/ cache[g].spec # new.spec
                    THEN queue \cup {g} ELSE queue
        /\ watch[g] # <<>> /\ watch[g] \in Seq(Version)
    BY <1>8 DEF DeliverGraph, isGMCSpecOrMetadataChanged, TypeOK
  <2>2. new = watch[g][1]
    BY <2>1
  <2>3. SameResource(cache[g], new)
    BY <2>1, <2>2 DEF WatchInv
  <2> HIDE DEF new
  <2> SUFFICES ASSUME NEW h \in Graphs, Owed(h)'
               PROVE  Served(h)'
    BY DEF ServedInv
  <2>4. h \notin queue /\ cache'[h].uid = cache[h].uid /\ cache'[h].spec = cache[h].spec
    BY <2>1, <2>3 DEF Owed, SameResource, TypeOK
  <2>5. Served(h)
    BY <2>1, <2>4 DEF Owed, ServedInv
  <2>6. \A r \in Resources : Applied(r)' = Applied(r)
    BY <2>1 DEF Applied, step
  <2> QED
    BY <2>1, <2>4, <2>5, <2>6 DEF Served, InPass, Busy, OwnedBy
<1>9. ASSUME NEW d \in Deployments, DeliverDeployment(d)
      PROVE  ServedInv'
  <2>1. queue \subseteq queue' /\ UNCHANGED <<api, cache, cluster, workerVars>>
    BY <1>9 DEF DeliverDeployment
  <2> QED
    BY <2>1, ServedOthers
<1>10. ASSUME NEW r \in Resources, CollectGarbage(r)
       PROVE  ServedInv'
  <2>1. /\ IsGarbage(r) /\ UNCHANGED <<api, cache, queue, workerVars>>
        /\ \A x \in Resources : x # r => cluster'[x] = cluster[x]
    BY <1>10 DEF CollectGarbage, PutObject, TypeOK
  <2> SUFFICES ASSUME NEW g \in Graphs, Owed(g)'
               PROVE  Served(g)'
    BY DEF ServedInv
  <2>2. Owed(g) /\ Served(g)
    BY <2>1 DEF Owed, ServedInv
  <2>3. \A x \in Resources : OwnedBy(x, g, cache[g].uid) => OwnedBy(x, g, cache[g].uid)'
    BY <2>1, <2>2 DEF OwnedBy, IsGarbage, Owed
  <2>4. \A x \in Resources : Applied(x)' = Applied(x)
    BY <2>1 DEF Applied, step
  <2>5. Wanted(cache[g].spec) \subseteq Resources
    BY DEF Wanted
  <2> QED
    BY <2>1, <2>2, <2>3, <2>4, <2>5 DEF Served, InPass, Busy
<1>11. CASE UNCHANGED vars
  BY <1>11, ServedOthers DEF vars
<1> QED
  BY <1>1, <1>2, <1>3, <1>4, <1>5, <1>6, <1>7, <1>8, <1>9, <1>10, <1>11
  DEF Next, Environment
-----------------------------------------------------------------------------
(***************************************************************************)
(* The theorems.                                                           *)
(***************************************************************************)
\* All reachable states are well typed; the informers, the cache and the API
\* server agree on what comes next (WatchInv); and what Reconcile has recorded is
\* what it has got to in the spec (WorkerInv), however its calls interleave with
\* users, informers, failures and restarts.
THEOREM ReconcilerInvariant == Spec => [](TypeOK /\ WatchInv /\ WorkerInv)
<1>1. Init => TypeOK /\ WatchInv /\ WorkerInv
  BY TypeInit, NamesAssumption DEF Init, WatchInv, WorkerInv, GoodVersion, FullPass,
     Collecting, Busy, NotFound
<1>2. TypeOK /\ WatchInv /\ WorkerInv /\ [Next]_vars => (TypeOK /\ WatchInv /\ WorkerInv)'
  BY TypeNext, WatchNext, WorkerNext
<1> QED
  BY <1>1, <1>2, PTL DEF Spec

\* The state of the cluster, the caches and the worker stays well typed.
THEOREM TypeCorrect == Spec => []TypeOK
  BY ReconcilerInvariant, PTL

\* The annotations Reconcile compares the old ones with (lines 424-432) are
\* exactly what the spec asks for, so it never deletes a wanted object.
THEOREM RecordsWantedCorrect == Spec => []RecordsWanted
<1>1. TypeOK /\ WorkerInv => RecordsWanted
  <2> SUFFICES ASSUME TypeOK, WorkerInv, pc \in {"prune", "collect", "count", "update"},
                      req \in Graphs
               PROVE  graph.annotations = Wanted(graph.spec)
    BY DEF RecordsWanted
  <2>1. CASE pc = "prune"
    <3>1. graph.spec \in SpecType
      BY DEF TypeOK, Version
    <3> QED
      BY <2>1, <3>1, AllRecorded DEF WorkerInv, FullPass
  <2>2. CASE pc # "prune"
    BY <2>2 DEF WorkerInv, Collecting
  <2> QED
    BY <2>1, <2>2
<1> QED
  BY <1>1, ReconcilerInvariant, PTL

\* collectResourceStatus always finds the three parts of the status (line 521).
THEOREM StatusParsesCorrect == Spec => []StatusParses
<1>1. WorkerInv => StatusParses
  BY DEF WorkerInv, StatusParses
<1> QED
  BY <1>1, ReconcilerInvariant, PTL

\* If no two graphs ask for the same object, a graph that is not in the queue has
\* what its cached spec asks for, or the pass in progress is about that very spec
\* and what it has applied so far is in place: no edit, conflict, failed call,
\* restart or other graph makes Reconcile forget a graph it still owes something.
THEOREM ServedInvCorrect == Disjoint => (Spec => []ServedInv)
<1> SUFFICES ASSUME Disjoint
             PROVE  Spec => []ServedInv
  OBVIOUS
<1>1. Init => ServedInv
  BY DEF Init, ServedInv, Owed, NotFound
<1>2. TypeOK /\ WatchInv /\ WorkerInv /\ ServedInv /\ [Next]_vars => ServedInv'
  BY ServedNext
<1> QED
  BY <1>1, <1>2, ReconcilerInvariant, PTL DEF Spec

\* If no two graphs ask for the same object, then once everything has settled
\* every object a graph's stored spec asks for exists and belongs to it.
THEOREM SettledCompleteCorrect == Disjoint => (Spec => []SettledComplete)
<1> SUFFICES ASSUME Disjoint
             PROVE  Spec => []SettledComplete
  OBVIOUS
<1>1. WatchInv /\ ServedInv => SettledComplete
  <2> SUFFICES ASSUME WatchInv, ServedInv, Quiescent, NEW g \in Graphs, api[g].uid # 0,
                      NEW r \in Wanted(api[g].spec)
               PROVE  cluster[r].owner = g /\ cluster[r].uid = api[g].uid
    BY DEF SettledComplete
  <2>1. cache[g] = api[g]
    BY DEF Quiescent, WatchInv
  <2>2. Owed(g) /\ ~InPass(g)
    BY <2>1 DEF Quiescent, Owed, InPass, Busy
  <2> QED
    BY <2>1, <2>2 DEF ServedInv, Served, OwnedBy
<1> QED
  BY <1>1, ServedInvCorrect, ReconcilerInvariant, PTL
=============================================================================
