--------------------------- MODULE GMCCalmProofs ----------------------------
(***************************************************************************)
(* A calm cluster: users change a graph only when everything has settled,  *)
(* and a pass starts with an up-to-date cache.  Then what a graph asked    *)
(* for before an edit is deleted, its record is exact and its READY column *)
(* is true once everything has settled again.                              *)
(***************************************************************************)
EXTENDS GMCServedProofs

USE DEF apiVars, objVars, cacheVars, loopVars, countVars, workerVars

Calm == ~EagerUser /\ PromptInformers
-----------------------------------------------------------------------------
(***************************************************************************)
(* The steps of the controller, by what they may change.                   *)
(***************************************************************************)
\* The worker goes on with its pass.
Working ==
  \/ \E n \in Nodes : EnterNode(n)
  \/ LeaveNode
  \/ SkipStep
  \/ EnterStep
  \/ reconcileResource
  \/ recordResources
  \/ EnterRouter
  \/ reconcileRouterService
  \/ EnterPrune
  \/ \E r \in Resources : deleteRecordedResource(r)
  \/ \E r \in Resources : deleteRecordedResourceFails(r)
  \/ ResetStatus
  \/ collectResourceStatus
  \/ \E d \in Deployments : CountDeployment(d)
  \/ getLatestGraph

\* The pass ends with an error.
Failing ==
  \/ reconcileResourceFails
  \/ reconcileRouterServiceFails
  \/ collectResourceStatusFails
  \/ statusUpdateFails

LEMMA NextCases ==
  ASSUME [Next]_vars
  PROVE  \/ Working
         \/ Failing
         \/ statusUpdate
         \/ \E x \in queue : ReconcileIgnored(x)
         \/ \E g \in Graphs : ReconcileGraph(g)
         \/ \E d \in Deployments : handleStatusUpdate(d)
         \/ Environment
         \/ \E g \in Graphs : DeliverGraph(g)
         \/ \E d \in Deployments : DeliverDeployment(d)
         \/ \E r \in Resources : CollectGarbage(r)
         \/ UNCHANGED vars
  BY DEF Next, Work, WorkFails, Working, Failing

\* What does not change while the worker goes on.
LEMMA WorkingFrame ==
  ASSUME TypeOK, Working
  PROVE  /\ Busy /\ Busy'
         /\ UNCHANGED <<api, rev, watch, cache, dcache, queue, req, name>>
         /\ graph'.uid = graph.uid /\ graph'.spec = graph.spec
         /\ oldAnnotations' \subseteq oldAnnotations
         /\ FullPass' => FullPass
         /\ FullPass \/ Collecting
         /\ Collecting => /\ Collecting' /\ graph'.annotations = graph.annotations
                          /\ UNCHANGED <<oldAnnotations, cluster, dwatch>>
<1>1. graph \in Version
  BY DEF TypeOK
<1>2. /\ Busy /\ Busy' /\ UNCHANGED <<api, rev, watch, cache, dcache, queue, req, name>>
      /\ oldAnnotations' \subseteq oldAnnotations
      /\ FullPass' => FullPass
      /\ FullPass \/ Collecting
  BY DEF Working, EnterNode, LeaveNode, SkipStep, EnterStep, AtStep, reconcileResource,
     recordResources, EnterRouter, reconcileRouterService, EnterPrune,
     deleteRecordedResource, deleteRecordedResourceFails, ResetStatus,
     collectResourceStatus, CountDeployment, getLatestGraph, Busy, FullPass, Collecting
<1>3. /\ graph'.uid = graph.uid /\ graph'.spec = graph.spec
      /\ Collecting => graph'.annotations = graph.annotations
  <2>1. CASE UNCHANGED graph
    BY <2>1
  <2>2. CASE ~UNCHANGED graph
    <3>1. recordResources \/ reconcileRouterService \/ ResetStatus \/ getLatestGraph
      BY <2>2 DEF Working, EnterNode, LeaveNode, SkipStep, EnterStep, reconcileResource,
         EnterRouter, EnterPrune, deleteRecordedResource, deleteRecordedResourceFails,
         collectResourceStatus, CountDeployment
    <3> QED
      BY <1>1, <3>1 DEF recordResources, reconcileRouterService, ResetStatus,
         getLatestGraph, Version, Collecting
  <2> QED
    BY <2>1, <2>2
<1>4. Collecting => Collecting' /\ UNCHANGED <<oldAnnotations, cluster, dwatch>>
  BY DEF Working, EnterNode, LeaveNode, SkipStep, EnterStep, AtStep, reconcileResource,
     recordResources, EnterRouter, reconcileRouterService, EnterPrune,
     deleteRecordedResource, deleteRecordedResourceFails, ResetStatus,
     collectResourceStatus, CountDeployment, getLatestGraph, Busy, FullPass, Collecting
<1> QED
  BY <1>2, <1>3, <1>4

LEMMA FailingFrame ==
  ASSUME Failing
  PROVE  /\ Busy /\ pc' = "idle"
         /\ UNCHANGED <<api, rev, watch, cache, dcache, cluster, dwatch, req, name, graph>>
         /\ queue' = IF req \in Graphs THEN queue \cup {req} ELSE queue
  BY DEF Failing, reconcileResourceFails, reconcileRouterServiceFails,
     collectResourceStatusFails, statusUpdateFails, Fail, Busy

\* When pruning begins the record is complete.
LEMMA PruneRecorded ==
  ASSUME TypeOK, WorkerInv, pc = "prune"
  PROVE  graph.annotations = Wanted(graph.spec)
<1>1. graph.spec \in SpecType
  BY DEF TypeOK, Version
<1> QED
  BY <1>1, AllRecorded DEF WorkerInv, FullPass

\* What the worker does to an object: nothing, apply it because the spec asks
\* for it, or delete it because the spec does not.
Touches(r, o) ==
  \/ o = cluster[r]
  \/ /\ r \in Wanted(graph.spec)
     /\ o = [owner |-> name, uid |-> graph.uid, available |-> cluster[r].available]
  \/ /\ r \in oldAnnotations \ Wanted(graph.spec)
     /\ o = Absent

\* One object is touched, and its watchers are told.
LEMMA WorkingObjects ==
  ASSUME TypeOK, WorkerInv, Working
  PROVE  \/ UNCHANGED <<cluster, dwatch>>
         \/ \E r \in Resources : \E o \in Object :
              /\ FullPass /\ FullPass' /\ Touches(r, o) /\ PutObject(r, o)
<1> USE NamesAssumption, SpecAssumption
<1>0. /\ graph \in Version /\ graph.spec \in SpecType
      /\ \A n \in Nodes : graph.spec.nodes[n] \in Seq(Steps)
      /\ graph.spec.router \in Seq(Resources) /\ j \in Nat \ {0} /\ i \in Nat \ {0}
  BY DEF TypeOK, Version, SpecType
<1>1. CASE reconcileResource
  <2> DEFINE r == Manifest[step][j]
             o == [owner |-> name, uid |-> graph.uid, available |-> cluster[r].available]
  <2>1. /\ nodeName \in Nodes /\ i \in 1..Len(graph.spec.nodes[nodeName])
        /\ IsInternal(graph.spec.nodes[nodeName][i]) /\ name \in Graphs
    BY <1>1, <1>0 DEF reconcileResource, step, WorkerInv, TypeOK, Busy
  <2>2. r \in Range(Manifest[step])
    BY <1>1, <1>0, StepType DEF reconcileResource, Range
  <2>3. r \in Wanted(graph.spec)
    BY <1>0, <2>1, <2>2, StepWanted DEF step
  <2>4. r \in Resources
    BY <2>3 DEF Wanted
  <2>5. o \in Object
    BY <1>1, <2>4, AppliedType DEF reconcileResource, Busy
  <2>6. FullPass /\ FullPass' /\ PutObject(r, o)
    BY <1>1 DEF reconcileResource, applyResourceToK8s, FullPass
  <2>7. Touches(r, o)
    BY <2>3 DEF Touches
  <2> HIDE DEF r, o
  <2> QED
    BY <2>4, <2>5, <2>6, <2>7
<1>2. CASE reconcileRouterService
  <2> DEFINE r == graph.spec.router[j]
             o == [owner |-> name, uid |-> graph.uid, available |-> cluster[r].available]
  <2>1. r \in Range(graph.spec.router)
    BY <1>2, <1>0 DEF reconcileRouterService, Range
  <2>2. r \in Wanted(graph.spec)
    BY <1>0, <2>1, RouterWanted
  <2>3. r \in Resources
    BY <2>2 DEF Wanted
  <2>4. o \in Object
    BY <1>2, <2>3, AppliedType DEF reconcileRouterService, Busy
  <2>5. FullPass /\ FullPass' /\ PutObject(r, o)
    BY <1>2 DEF reconcileRouterService, applyResourceToK8s, FullPass
  <2>6. Touches(r, o)
    BY <2>2 DEF Touches
  <2> HIDE DEF r, o
  <2> QED
    BY <2>3, <2>4, <2>5, <2>6
<1>3. ASSUME NEW r \in Resources, deleteRecordedResource(r)
      PROVE  /\ FullPass /\ FullPass' /\ Touches(r, Absent) /\ PutObject(r, Absent)
  BY <1>3, PruneRecorded DEF deleteRecordedResource, Stale, FullPass, Touches
<1>4. CASE ~reconcileResource /\ ~reconcileRouterService
           /\ ~ \E r \in Resources : deleteRecordedResource(r)
  BY <1>4 DEF Working, EnterNode, LeaveNode, SkipStep, EnterStep,
     recordResources, EnterRouter, EnterPrune,
     deleteRecordedResourceFails, ResetStatus,
     collectResourceStatus, CountDeployment, getLatestGraph
<1> QED
  BY <1>1, <1>2, <1>3, <1>4, AbsentType
-----------------------------------------------------------------------------
(***************************************************************************)
(* While a pass is going on nothing else writes to the API server: the     *)
(* pass works on what is stored.                                           *)
(***************************************************************************)
PassCurrent ==
  Busy => /\ CachesSynced
          /\ api[name].uid # 0
          /\ graph.uid = api[name].uid
          /\ graph.spec = api[name].spec
          /\ FullPass => oldAnnotations \subseteq api[name].annotations
          /\ req \notin Graphs => graph.annotations = api[name].annotations
          /\ pc = "update" => graph.rv = api[name].rv
          /\ pc \in {"count", "update"} => graph.annotations # {}

\* At most the last write to a graph is on its way to the informer.
OneBehind == \A g \in Graphs : Len(watch[g]) <= 1

\* The informer has seen every write.
LEMMA SyncedCache ==
  ASSUME WatchInv, CachesSynced
  PROVE  \A g \in Graphs : cache[g] = api[g]
  BY DEF WatchInv, CachesSynced

LEMMA CalmUser ==
  ASSUME Calm, UserMayAct, WatchInv
  PROVE  /\ Quiescent /\ pc = "idle" /\ queue = {} /\ CachesSynced /\ ~Busy
         /\ \A g \in Graphs : cache[g] = api[g]
  BY SyncedCache DEF Calm, UserMayAct, Quiescent, CachesSynced, Busy

LEMMA LastOne ==
  ASSUME NEW S, NEW s \in Seq(S), s # <<>>, Len(s) <= 1
  PROVE  Len(s) = 1 /\ Head(s) = s[1] /\ Tail(s) = <<>>
<1>1. Len(s) \in Nat /\ Len(s) # 0
  BY EmptySeq
<1> DEFINE n == Len(s)
<1>2. n = 1
  <2>1. n \in Nat /\ n # 0 /\ n <= 1
    BY <1>1
  <2> HIDE DEF n
  <2> QED
    BY <2>1
<1>3. Tail(s) \in Seq(S) /\ Len(Tail(s)) = 0
  BY <1>2, HeadTailProperties
<1>4. Tail(s) = <<>>
  <2>1. Tail(s) # <<>> => Len(Tail(s)) \in Nat \ {0}
    BY <1>3, EmptySeq, Zenon
  <2> DEFINE m == Len(Tail(s))
  <2>2. m = 0 => ~(m \in Nat \ {0})
    OBVIOUS
  <2> QED
    BY <1>3, <2>1, <2>2, Zenon
<1>5. Head(s) = s[1]
  OBVIOUS
<1> QED
  BY <1>2, <1>4, <1>5, Zenon

\* What is delivered is what is stored.
LEMMA DeliverLast ==
  ASSUME TypeOK, WatchInv, OneBehind, NEW g \in Graphs, DeliverGraph(g)
  PROVE  /\ cache' = [cache EXCEPT ![g] = api[g]]
         /\ watch' = [watch EXCEPT ![g] = <<>>]
         /\ ~CachesSynced
         /\ queue' = IF \/ cache[g].uid = 0 \/ api[g].uid = 0 \/ cache[g].spec # api[g].spec
                     THEN queue \cup {g} ELSE queue
         /\ UNCHANGED <<api, rev, dcache, cluster, dwatch, workerVars>>
<1>1. watch[g] \in Seq(Version) /\ watch[g] # <<>> /\ Len(watch[g]) <= 1
  BY DEF TypeOK, DeliverGraph, OneBehind
<1>2. Len(watch[g]) = 1 /\ Head(watch[g]) = watch[g][1] /\ Tail(watch[g]) = <<>>
  BY <1>1, LastOne
<1>3. Head(watch[g]) = api[g]
  BY <1>1, <1>2 DEF WatchInv
<1>4. /\ cache' = [cache EXCEPT ![g] = api[g]]
      /\ queue' = IF \/ cache[g].uid = 0 \/ api[g].uid = 0 \/ cache[g].spec # api[g].spec
                  THEN queue \cup {g} ELSE queue
      /\ UNCHANGED <<api, rev, dcache, cluster, dwatch, workerVars>>
  BY <1>3 DEF DeliverGraph, isGMCSpecOrMetadataChanged
<1>5. watch' = [watch EXCEPT ![g] = <<>>]
  BY <1>2, Zenon DEF DeliverGraph
<1>6. ~CachesSynced
  BY <1>1 DEF CachesSynced
<1> QED
  BY <1>4, <1>5, <1>6

LEMMA PassIdle ==
  ASSUME pc' = "idle"
  PROVE  PassCurrent'
  BY DEF PassCurrent, Busy

LEMMA PassKept ==
  ASSUME PassCurrent, UNCHANGED <<api, watch, workerVars>>
  PROVE  PassCurrent'
  BY DEF PassCurrent, Busy, FullPass, CachesSynced

LEMMA PassNext ==
  ASSUME Calm, TypeOK, WatchInv, WorkerInv, OneBehind, PassCurrent, [Next]_vars
  PROVE  PassCurrent'
<1> USE NamesAssumption, SpecAssumption
<1>1. CASE Working
  <2>1. name \in Graphs
    BY <1>1, WorkingFrame DEF WorkerInv
  <2>2. req \notin Graphs => Collecting
    BY <1>1, WorkingFrame DEF WorkerInv
  <2>3. pc' = "update" => graph'.rv = api[name].rv
    <3>1. CASE getLatestGraph
      <4>1. cache[name] = api[name] /\ api[name].uid # 0
        BY <1>1, <2>1, WorkingFrame, SyncedCache DEF PassCurrent
      <4>2. graph \in Version
        BY DEF TypeOK
      <4> QED
        BY <3>1, <4>1, <4>2 DEF getLatestGraph, Version
    <3>2. CASE ~getLatestGraph
      BY <1>1, <3>2 DEF Working, EnterNode, LeaveNode, SkipStep, EnterStep, AtStep,
         reconcileResource, recordResources, EnterRouter, reconcileRouterService, EnterPrune,
         deleteRecordedResource, deleteRecordedResourceFails, ResetStatus,
         collectResourceStatus, CountDeployment
    <3> QED
      BY <3>1, <3>2
  <2>4. pc' \in {"count", "update"} => graph'.annotations # {}
    <3>1. pc' \in {"count", "update"} => Collecting
      BY <1>1 DEF Working, EnterNode, LeaveNode, SkipStep, EnterStep, AtStep,
         reconcileResource, recordResources, EnterRouter, reconcileRouterService, EnterPrune,
         deleteRecordedResource, deleteRecordedResourceFails, ResetStatus,
         collectResourceStatus, CountDeployment, getLatestGraph, Collecting
    <3>2. pc' \in {"count", "update"} => collectResourceStatus \/ pc \in {"count", "update"}
      BY <1>1 DEF Working, EnterNode, LeaveNode, SkipStep, EnterStep, AtStep,
         reconcileResource, recordResources, EnterRouter, reconcileRouterService, EnterPrune,
         deleteRecordedResource, deleteRecordedResourceFails, ResetStatus,
         collectResourceStatus, CountDeployment, getLatestGraph
    <3> QED
      BY <1>1, <3>1, <3>2, WorkingFrame DEF PassCurrent, collectResourceStatus
  <2> QED
    BY <1>1, <2>1, <2>2, <2>3, <2>4, WorkingFrame DEF PassCurrent, CachesSynced
<1>2. CASE Failing
  BY <1>2, FailingFrame, PassIdle
<1>3. CASE statusUpdate
  BY <1>3, PassIdle DEF statusUpdate
<1>4. ASSUME NEW x \in queue, ReconcileIgnored(x)
      PROVE  PassCurrent'
  BY <1>4, PassKept DEF ReconcileIgnored, Dequeue
<1>5. ASSUME NEW g \in Graphs, ReconcileGraph(g)
      PROVE  PassCurrent'
  <2>1. /\ CachesSynced /\ cache[g] = api[g] /\ api[g] \in Version
        /\ UNCHANGED <<api, watch>>
    BY <1>5, SyncedCache DEF ReconcileGraph, Dequeue, Calm, TypeOK
  <2>2. /\ graph'.uid = api[g].uid /\ graph'.spec = api[g].spec /\ api[g].uid # 0
        /\ pc' = "nodes" /\ req' = g /\ name' = g /\ oldAnnotations' = api[g].annotations
    BY <1>5, <2>1 DEF ReconcileGraph, Version
  <2> QED
    BY <2>1, <2>2 DEF PassCurrent, CachesSynced
<1>6. ASSUME NEW d \in Deployments, handleStatusUpdate(d)
      PROVE  PassCurrent'
  <2>1. PICK g \in Graphs : g = dcache[d].owner
    BY <1>6 DEF handleStatusUpdate, HasGraph, TypeOK, Object
  <2>2. /\ CachesSynced /\ cache[g] = api[g] /\ UNCHANGED <<api, watch>>
    BY <1>6, SyncedCache DEF handleStatusUpdate, Dequeue, Calm
  <2>3. /\ graph' = api[g] /\ api[g].uid # 0 /\ pc' = "collect" /\ req' = d /\ name' = g
    BY <1>6, <2>1, <2>2 DEF handleStatusUpdate, HasGraph
  <2> QED
    BY <2>2, <2>3 DEF PassCurrent, CachesSynced, FullPass
<1>7. CASE Environment
  <2>1. ASSUME NEW g \in Graphs,
               UserDelete(g) \/ \E spec \in SpecsOf[g] : UserCreate(g, spec) \/ UserEdit(g, spec)
        PROVE  PassCurrent'
    BY <2>1, CalmUser, PassIdle DEF UserDelete, UserCreate, UserEdit
  <2>2. ASSUME NEW d \in Deployments, FlipDeployment(d)
        PROVE  PassCurrent'
    BY <2>2, PassKept DEF FlipDeployment
  <2>3. CASE RestartManager
    BY <2>3, PassIdle DEF RestartManager
  <2> QED
    BY <1>7, <2>1, <2>2, <2>3 DEF Environment
<1>8. ASSUME NEW g \in Graphs, DeliverGraph(g)
      PROVE  PassCurrent'
  BY <1>8, DeliverLast, PassIdle DEF PassCurrent, Busy
<1>9. ASSUME NEW d \in Deployments, DeliverDeployment(d)
      PROVE  PassCurrent'
  BY <1>9, PassKept DEF DeliverDeployment
<1>10. ASSUME NEW r \in Resources, CollectGarbage(r)
       PROVE  PassCurrent'
  BY <1>10, PassKept DEF CollectGarbage
<1>11. CASE UNCHANGED vars
  BY <1>11, PassKept DEF vars
<1> QED
  BY <1>1, <1>2, <1>3, <1>4, <1>5, <1>6, <1>7, <1>8, <1>9, <1>10, <1>11, NextCases

\* A write finds the informer up to date.
LEMMA BehindWrite ==
  ASSUME TypeOK, OneBehind, CachesSynced, NEW g \in Graphs, NEW v, Write(g, v)
  PROVE  OneBehind'
<1> SUFFICES ASSUME NEW h \in Graphs PROVE Len(watch'[h]) <= 1
  BY DEF OneBehind
<1>1. watch' = [watch EXCEPT ![g] = Append(watch[g], v)] /\ watch[g] = <<>>
      /\ watch \in [Graphs -> Seq(Version)]
  BY DEF Write, CachesSynced, TypeOK
<1>2. Len(Append(<<>>, v)) = 1
  OBVIOUS
<1>3. watch'[h] = IF h = g THEN Append(<<>>, v) ELSE watch[h]
  BY <1>1
<1> QED
  BY <1>2, <1>3 DEF OneBehind

LEMMA BehindNext ==
  ASSUME Calm, TypeOK, WatchInv, WorkerInv, OneBehind, PassCurrent, [Next]_vars
  PROVE  OneBehind'
<1>1. ASSUME UNCHANGED watch PROVE OneBehind'
  BY <1>1 DEF OneBehind
<1>2. CASE Working \/ Failing
  BY <1>1, <1>2, WorkingFrame, FailingFrame
<1>3. CASE statusUpdate
  <2>1. name \in Graphs /\ CachesSynced
    BY <1>3 DEF statusUpdate, WorkerInv, PassCurrent, Busy
  <2> QED
    BY <1>3, <2>1, BehindWrite DEF statusUpdate
<1>4. CASE \/ \E x \in queue : ReconcileIgnored(x)
           \/ \E g \in Graphs : ReconcileGraph(g)
           \/ \E d \in Deployments : handleStatusUpdate(d)
           \/ \E d \in Deployments : DeliverDeployment(d)
           \/ \E r \in Resources : CollectGarbage(r)
           \/ UNCHANGED vars
  BY <1>1, <1>4 DEF ReconcileIgnored, ReconcileGraph, handleStatusUpdate, Dequeue,
     DeliverDeployment, CollectGarbage, vars
<1>5. CASE Environment
  <2>1. ASSUME NEW g \in Graphs,
               UserDelete(g) \/ \E spec \in SpecsOf[g] : UserCreate(g, spec) \/ UserEdit(g, spec)
        PROVE  OneBehind'
    <3>1. CachesSynced
      BY <2>1, CalmUser DEF UserDelete, UserCreate, UserEdit
    <3>2. CASE UserDelete(g)
      BY <3>1, <3>2, BehindWrite DEF UserDelete
    <3>3. ASSUME NEW spec \in SpecsOf[g], UserCreate(g, spec)
          PROVE  OneBehind'
      BY <3>1, <3>3, BehindWrite DEF UserCreate
    <3>4. ASSUME NEW spec \in SpecsOf[g], UserEdit(g, spec)
          PROVE  OneBehind'
      BY <3>1, <3>4, BehindWrite DEF UserEdit
    <3> QED
      BY <2>1, <3>2, <3>3, <3>4
  <2>2. ASSUME NEW d \in Deployments, FlipDeployment(d)
        PROVE  OneBehind'
    BY <1>1, <2>2 DEF FlipDeployment
  <2>3. CASE RestartManager
    BY <2>3 DEF RestartManager, OneBehind
  <2> QED
    BY <1>5, <2>1, <2>2, <2>3 DEF Environment
<1>6. ASSUME NEW g \in Graphs, DeliverGraph(g)
      PROVE  OneBehind'
  <2>1. watch' = [watch EXCEPT ![g] = <<>>] /\ watch \in [Graphs -> Seq(Version)]
    BY <1>6, DeliverLast DEF TypeOK
  <2>2. Len(<<>>) <= 1
    OBVIOUS
  <2>3. \A h \in Graphs : watch'[h] = IF h = g THEN <<>> ELSE watch[h]
    BY <2>1
  <2> QED
    BY <2>2, <2>3 DEF OneBehind
<1> QED
  BY <1>2, <1>3, <1>4, <1>5, <1>6, NextCases
-----------------------------------------------------------------------------
(***************************************************************************)
(* What is recorded.                                                       *)
(***************************************************************************)
\* Reconcile still has to look at g, or is about to.
Due(g) ==
  \/ g \in queue
  \/ InPass(g)
  \/ cache[g].uid = 0
  \/ cache[g].spec # api[g].spec

\* Otherwise its record is what its spec asks for, and not empty.
Recorded(g) ==
  api[g].uid # 0 /\ ~Due(g) => /\ api[g].annotations = Wanted(api[g].spec)
                               /\ api[g].annotations # {}

RecordedInv == \A g \in Graphs : Recorded(g)

\* A user's change makes a graph due.
LEMMA UserDue ==
  ASSUME Calm, TypeOK, WatchInv, NEW g \in Graphs,
         UserDelete(g) \/ \E spec \in SpecsOf[g] : UserCreate(g, spec) \/ UserEdit(g, spec)
  PROVE  /\ api'[g].uid # 0 => Due(g)'
         /\ \A h \in Graphs : h # g => api'[h] = api[h]
         /\ Quiescent /\ ~Busy
         /\ UNCHANGED <<cache, queue, cluster, dcache, dwatch, workerVars>>
<1>1. /\ UserMayAct /\ UNCHANGED <<cache, queue, cluster, dcache, dwatch, workerVars>>
      /\ \A h \in Graphs : h # g => api'[h] = api[h]
  BY DEF UserDelete, UserCreate, UserEdit, Write, TypeOK
<1>2. Quiescent /\ ~Busy /\ cache[g] = api[g]
  BY <1>1, CalmUser
<1>3. ASSUME UserDelete(g) PROVE api'[g].uid = 0
  <2>1. api' = [api EXCEPT ![g] = NotFound] /\ api \in [Graphs -> Version]
    BY <1>3 DEF UserDelete, Write, TypeOK
  <2> QED
    BY <2>1 DEF NotFound
<1>4. ASSUME NEW spec \in SpecsOf[g], UserCreate(g, spec)
      PROVE  Due(g)'
  BY <1>1, <1>2, <1>4 DEF UserCreate, Due
<1>5. ASSUME NEW spec \in SpecsOf[g], UserEdit(g, spec)
      PROVE  Due(g)'
  <2>1. api'[g].spec = spec /\ api[g].spec # spec
    BY <1>5 DEF UserEdit, Write, TypeOK, Version
  <2> QED
    BY <1>1, <1>2, <2>1 DEF Due
<1> QED
  BY <1>1, <1>2, <1>3, <1>4, <1>5

\* A graph is due as long as nobody takes it from the queue.
LEMMA DueKept ==
  ASSUME UNCHANGED <<api, cache, pc, req>>, queue \subseteq queue', NEW g \in Graphs
  PROVE  Due(g) => Due(g)'
  BY DEF Due, InPass, Busy

LEMMA DueWorking ==
  ASSUME TypeOK, Working, NEW g \in Graphs
  PROVE  Due(g)' <=> Due(g)
  BY WorkingFrame DEF Due, InPass

LEMMA DueFailing ==
  ASSUME Failing, NEW g \in Graphs, Due(g)
  PROVE  Due(g)'
  BY FailingFrame DEF Due, InPass

LEMMA DueDeliver ==
  ASSUME TypeOK, WatchInv, OneBehind, NEW h \in Graphs, DeliverGraph(h),
         NEW g \in Graphs, api[g].uid # 0, Due(g)
  PROVE  Due(g)'
<1>1. /\ cache' = [cache EXCEPT ![h] = api[h]] /\ cache \in [Graphs -> Version]
      /\ queue' = IF \/ cache[h].uid = 0 \/ api[h].uid = 0 \/ cache[h].spec # api[h].spec
                  THEN queue \cup {h} ELSE queue
      /\ UNCHANGED <<api, pc, req>>
  BY DeliverLast DEF TypeOK
<1> QED
  BY <1>1 DEF Due, InPass, Busy

\* A request that is ignored is not one for a graph that exists.
LEMMA DueIgnored ==
  ASSUME NEW x \in queue, ReconcileIgnored(x), NEW g \in Graphs, Due(g)
  PROVE  Due(g)'
<1>1. /\ UNCHANGED <<api, cache, pc, req>> /\ queue' = queue \ {x}
      /\ x \in Graphs => cache[x].uid = 0
  BY DEF ReconcileIgnored, Dequeue
<1> QED
  BY <1>1 DEF Due, InPass, Busy

\* Taking a request makes its graph the one of the pass.
LEMMA DueStart ==
  ASSUME NEW h \in Graphs, ReconcileGraph(h), NEW g \in Graphs, Due(g)
  PROVE  Due(g)'
<1>1. /\ UNCHANGED <<api, cache>> /\ queue' = queue \ {h} /\ pc' = "nodes" /\ req' = h
      /\ ~Busy
  BY DEF ReconcileGraph, Dequeue
<1> QED
  BY <1>1 DEF Due, InPass, Busy

LEMMA DueStatus ==
  ASSUME NEW d \in Deployments, handleStatusUpdate(d), NEW g \in Graphs
  PROVE  Due(g)' <=> Due(g)
<1>1. /\ UNCHANGED <<api, cache>> /\ queue' = queue \ {d} /\ pc' = "collect" /\ req' = d
      /\ ~Busy /\ d # g
  BY NamesAssumption DEF handleStatusUpdate, Dequeue
<1> QED
  BY <1>1 DEF Due, InPass, Busy

\* The status that is stored has the record of the pass.
LEMMA StatusStored ==
  ASSUME TypeOK, WorkerInv, PassCurrent, statusUpdate
  PROVE  /\ name \in Graphs /\ Busy /\ pc' = "idle"
         /\ api'[name].annotations = graph.annotations
         /\ api'[name].status = graph.status
         /\ \A g \in Graphs : /\ api'[g].spec = api[g].spec /\ api'[g].uid = api[g].uid
                              /\ g # name => api'[g] = api[g]
         /\ graph.annotations # {}
         /\ graph.annotations = IF req \in Graphs THEN Wanted(api[name].spec)
                                ELSE api[name].annotations
         /\ req \in Graphs => name = req
         /\ UNCHANGED <<cache, dcache, cluster, dwatch, queue, req, name, graph>>
<1>1. name \in Graphs /\ Busy /\ pc' = "idle"
  BY DEF statusUpdate, WorkerInv, Busy
<1>2. api[name] \in Version /\ api \in [Graphs -> Version]
  BY <1>1 DEF TypeOK
<1>3. api' = [api EXCEPT ![name] = [api[name] EXCEPT !.annotations = graph.annotations,
                                                   !.status = graph.status,
                                                   !.rv = rev[name] + 1]]
  BY DEF statusUpdate, Write
<1>4. /\ api'[name].annotations = graph.annotations /\ api'[name].status = graph.status
      /\ \A g \in Graphs : /\ api'[g].spec = api[g].spec /\ api'[g].uid = api[g].uid
                           /\ g # name => api'[g] = api[g]
  BY <1>1, <1>2, <1>3 DEF Version
<1>5. /\ graph.annotations # {}
      /\ graph.annotations = IF req \in Graphs THEN Wanted(api[name].spec)
                             ELSE api[name].annotations
      /\ req \in Graphs => name = req
  BY <1>1 DEF PassCurrent, WorkerInv, statusUpdate, Collecting
<1> QED
  BY <1>1, <1>4, <1>5 DEF statusUpdate

LEMMA RecordNext ==
  ASSUME Calm, TypeOK, WatchInv, WorkerInv, OneBehind, PassCurrent, RecordedInv, [Next]_vars
  PROVE  RecordedInv'
<1> USE NamesAssumption, SpecAssumption
<1> SUFFICES ASSUME NEW g \in Graphs, api'[g].uid # 0, ~Due(g)'
             PROVE  /\ api'[g].annotations = Wanted(api'[g].spec)
                    /\ api'[g].annotations # {}
  BY DEF RecordedInv, Recorded
<1>0. ASSUME UNCHANGED api, Due(g) => Due(g)'
      PROVE  /\ api'[g].annotations = Wanted(api'[g].spec)
             /\ api'[g].annotations # {}
  BY <1>0 DEF RecordedInv, Recorded
<1>1. CASE Working
  BY <1>0, <1>1, DueWorking, WorkingFrame
<1>2. CASE Failing
  BY <1>0, <1>2, DueFailing, FailingFrame
<1>3. CASE statusUpdate
  <2>1. CASE req = g
    BY <1>3, <2>1, StatusStored
  <2>2. CASE req # g
    <3>1. api[g].uid # 0 /\ ~Due(g)
      BY <1>3, <2>2, StatusStored DEF Due, InPass
    <3>2. CASE g = name
      BY <1>3, <2>2, <3>1, <3>2, StatusStored DEF RecordedInv, Recorded
    <3>3. CASE g # name
      BY <1>3, <3>1, <3>3, StatusStored DEF RecordedInv, Recorded
    <3> QED
      BY <3>2, <3>3
  <2> QED
    BY <2>1, <2>2
<1>4. CASE \E x \in queue : ReconcileIgnored(x)
  BY <1>0, <1>4, DueIgnored DEF ReconcileIgnored, Dequeue
<1>5. CASE \E h \in Graphs : ReconcileGraph(h)
  BY <1>0, <1>5, DueStart DEF ReconcileGraph, Dequeue
<1>6. CASE \E d \in Deployments : handleStatusUpdate(d)
  BY <1>0, <1>6, DueStatus DEF handleStatusUpdate, Dequeue
<1>7. CASE Environment
  <2>1. ASSUME NEW h \in Graphs,
               UserDelete(h) \/ \E spec \in SpecsOf[h] : UserCreate(h, spec) \/ UserEdit(h, spec)
        PROVE  /\ api'[g].annotations = Wanted(api'[g].spec)
               /\ api'[g].annotations # {}
    <3>1. h # g /\ api'[g] = api[g]
      BY <2>1, UserDue
    <3>2. Due(g) => Due(g)'
      BY <2>1, <3>1, UserDue DEF Due, InPass, Busy
    <3> QED
      BY <3>1, <3>2 DEF RecordedInv, Recorded
  <2>2. ASSUME NEW d \in Deployments, FlipDeployment(d)
        PROVE  /\ api'[g].annotations = Wanted(api'[g].spec)
               /\ api'[g].annotations # {}
    BY <1>0, <2>2, DueKept DEF FlipDeployment
  <2>3. CASE RestartManager
    BY <2>3 DEF RestartManager, Due
  <2> QED
    BY <1>7, <2>1, <2>2, <2>3 DEF Environment
<1>8. CASE \E h \in Graphs : DeliverGraph(h)
  BY <1>0, <1>8, DueDeliver, DeliverLast
<1>9. CASE \E d \in Deployments : DeliverDeployment(d)
  BY <1>0, <1>9, DueKept DEF DeliverDeployment
<1>10. CASE \E r \in Resources : CollectGarbage(r)
  BY <1>0, <1>10, DueKept DEF CollectGarbage
<1>11. CASE UNCHANGED vars
  BY <1>0, <1>11, DueKept DEF vars
<1> QED
  BY <1>1, <1>2, <1>3, <1>4, <1>5, <1>6, <1>7, <1>8, <1>9, <1>10, <1>11, NextCases

\* When everything has settled nothing is due.
LEMMA QuiescentNotDue ==
  ASSUME WatchInv, Quiescent, NEW g \in Graphs, api[g].uid # 0
  PROVE  ~Due(g)
<1>1. cache[g] = api[g]
  BY SyncedCache DEF Quiescent, CachesSynced
<1> QED
  BY <1>1 DEF Due, Quiescent, InPass, Busy
-----------------------------------------------------------------------------
(***************************************************************************)
(* What is in the cluster.                                                 *)
(***************************************************************************)
\* An object belongs to a graph that may ask for it.
OwnedInv ==
  \A r \in Resources : cluster[r].owner # None =>
    /\ cluster[r].owner \in Graphs
    /\ cluster[r].uid # 0
    /\ r \in AllOf(cluster[r].owner)

LEMMA OwnedPut ==
  ASSUME TypeOK, OwnedInv, NEW x \in Resources, NEW o, PutObject(x, o),
         o.owner # None => o.owner \in Graphs /\ o.uid # 0 /\ x \in AllOf(o.owner)
  PROVE  OwnedInv'
<1>1. \A r \in Resources : cluster'[r] = IF r = x THEN o ELSE cluster[r]
  BY DEF PutObject, TypeOK
<1> QED
  BY <1>1 DEF OwnedInv

\* A Deployment that flips keeps its owner.
LEMMA Flipped ==
  ASSUME TypeOK, NEW d \in Deployments, FlipDeployment(d)
  PROVE  \E o \in Object : /\ PutObject(d, o) /\ cluster[d].owner # None
                           /\ o.owner = cluster[d].owner /\ o.uid = cluster[d].uid
                           /\ (o.available > Replicas => d \in Surging)
<1>1. cluster[d] \in Object
  BY NamesAssumption DEF TypeOK
<1>0. PICK n \in 0 .. Replicas + 1 :
             /\ n > Replicas => d \in Surging
             /\ PutObject(d, [cluster[d] EXCEPT !.available = n])
  BY Zenon DEF FlipDeployment
<1> DEFINE o == [cluster[d] EXCEPT !.available = n]
<1>2. /\ o \in Object /\ o.owner = cluster[d].owner /\ o.uid = cluster[d].uid
      /\ (o.available > Replicas => d \in Surging)
  <2>1. /\ o \in Object /\ o.owner = cluster[d].owner /\ o.uid = cluster[d].uid
        /\ o.available = n
    BY <1>1 DEF Object
  <2> QED
    BY <1>0, <2>1
<1>3. PutObject(d, o) /\ cluster[d].owner # None
  BY <1>0, Zenon DEF FlipDeployment
<1> HIDE DEF o
<1> QED
  BY <1>2, <1>3

LEMMA OwnedNext ==
  ASSUME TypeOK, WorkerInv, PassCurrent, OwnedInv, [Next]_vars
  PROVE  OwnedInv'
<1> USE NamesAssumption, SpecAssumption
<1>0. ASSUME UNCHANGED cluster PROVE OwnedInv'
  BY <1>0 DEF OwnedInv
<1>1. CASE Working
  <2>1. /\ name \in Graphs /\ graph.uid # 0 /\ Wanted(graph.spec) \subseteq AllOf(name)
    BY <1>1, WorkingFrame, WantedOfGraph DEF WorkerInv, PassCurrent
  <2>2. ASSUME NEW r \in Resources, NEW o \in Object, Touches(r, o), PutObject(r, o)
        PROVE  OwnedInv'
    <3>1. CASE o = cluster[r]
      BY <2>2, <3>1, OwnedPut DEF OwnedInv
    <3>2. CASE o = Absent
      BY <2>2, <3>2, OwnedPut DEF Absent
    <3>3. CASE /\ r \in Wanted(graph.spec)
               /\ o = [owner |-> name, uid |-> graph.uid, available |-> cluster[r].available]
      <4>1. o.owner = name /\ o.uid = graph.uid /\ r \in AllOf(name)
        BY <2>1, <3>3
      <4> QED
        BY <2>1, <2>2, <4>1, OwnedPut
    <3> QED
      BY <2>2, <3>1, <3>2, <3>3 DEF Touches
  <2> QED
    BY <1>0, <1>1, <2>2, WorkingObjects
<1>2. CASE \/ Failing
           \/ statusUpdate
           \/ \E x \in queue : ReconcileIgnored(x)
           \/ \E g \in Graphs : ReconcileGraph(g)
           \/ \E d \in Deployments : handleStatusUpdate(d)
           \/ \E g \in Graphs : DeliverGraph(g)
           \/ \E d \in Deployments : DeliverDeployment(d)
           \/ UNCHANGED vars
  BY <1>0, <1>2, FailingFrame DEF statusUpdate, ReconcileIgnored, ReconcileGraph,
     handleStatusUpdate, Dequeue, DeliverGraph, DeliverDeployment, vars
<1>3. CASE Environment
  <2>1. ASSUME NEW d \in Deployments, FlipDeployment(d)
        PROVE  OwnedInv'
    <3>1. PICK o \in Object : /\ PutObject(d, o) /\ cluster[d].owner # None
                              /\ o.owner = cluster[d].owner /\ o.uid = cluster[d].uid
      BY <2>1, Flipped
    <3> QED
      BY <3>1, OwnedPut DEF OwnedInv
  <2> QED
    BY <1>0, <1>3, <2>1 DEF Environment, UserCreate, UserEdit, UserDelete, RestartManager
<1>4. ASSUME NEW r \in Resources, CollectGarbage(r)
      PROVE  OwnedInv'
  BY <1>4, OwnedPut DEF CollectGarbage, Absent
<1> QED
  BY <1>1, <1>2, <1>3, <1>4, NextCases

\* What may be left of what g asked for before: what its record names, and
\* during a pass what the pass has not deleted yet.
Leftover(g) ==
  IF InPass(g) THEN IF FullPass THEN oldAnnotations ELSE {}
  ELSE api[g].annotations

ExactInv ==
  \A r \in Resources : LET g == cluster[r].owner IN
    g # None /\ cluster[r].uid = api[g].uid => r \in Wanted(api[g].spec) \cup Leftover(g)

\* Nothing is touched, and nothing that may be left is forgotten.
LEMMA ExactFrame ==
  ASSUME ExactInv, OwnedInv,
         \A r \in Resources : /\ cluster'[r].owner = cluster[r].owner
                              /\ cluster'[r].uid = cluster[r].uid,
         \A g \in Graphs : /\ api'[g].uid = api[g].uid /\ api'[g].spec = api[g].spec
                           /\ Leftover(g) \subseteq Wanted(api[g].spec) \cup Leftover(g)'
  PROVE  ExactInv'
<1> SUFFICES ASSUME NEW r \in Resources, NEW g \in Graphs, g = cluster'[r].owner,
                    cluster'[r].uid = api'[g].uid
             PROVE  r \in Wanted(api'[g].spec) \cup Leftover(g)'
  <2>1. \A r \in Resources : cluster'[r].owner # None => cluster'[r].owner \in Graphs
    BY DEF OwnedInv
  <2> QED
    BY <2>1 DEF ExactInv
<1>1. g # None
  BY NamesAssumption
<1>2. r \in Wanted(api[g].spec) \cup Leftover(g)
  BY <1>1 DEF ExactInv
<1> QED
  BY <1>2

\* One object is applied for the graph of the pass, or deleted.
LEMMA ExactPut ==
  ASSUME ExactInv, TypeOK, WorkerInv, PassCurrent, OwnedInv, FullPass,
         NEW x \in Resources, NEW o, PutObject(x, o), UNCHANGED api,
         \/ o.owner = None
         \/ x \in Wanted(graph.spec) /\ o.owner = name
         \/ o = cluster[x],
         \A g \in Graphs : Leftover(g) \subseteq Wanted(api[g].spec) \cup Leftover(g)' \cup {x},
         (\E g \in Graphs : x \in Leftover(g) /\ x \notin Leftover(g)') => o.owner = None
  PROVE  ExactInv'
<1> SUFFICES ASSUME NEW r \in Resources, cluster'[r].owner # None,
                    NEW g, g = cluster'[r].owner, cluster'[r].uid = api[g].uid
             PROVE  r \in Wanted(api[g].spec) \cup Leftover(g)'
  BY DEF ExactInv
<1>1. \A y \in Resources : cluster'[y] = IF y = x THEN o ELSE cluster[y]
  BY DEF PutObject, TypeOK
<1>2. name \in Graphs /\ graph.spec = api[name].spec
  BY DEF FullPass, Busy, WorkerInv, PassCurrent
<1>3. CASE r # x
  <2>1. g \in Graphs /\ r \in Wanted(api[g].spec) \cup Leftover(g)
    BY <1>1, <1>3 DEF ExactInv, OwnedInv
  <2> QED
    BY <1>3, <2>1
<1>4. CASE r = x
  <2>1. CASE x \in Wanted(graph.spec) /\ o.owner = name
    BY <1>1, <1>2, <1>4, <2>1
  <2>2. CASE o = cluster[x] /\ o.owner # None
    <3>1. g \in Graphs /\ r \in Wanted(api[g].spec) \cup Leftover(g)
      BY <1>1, <1>4, <2>2 DEF ExactInv, OwnedInv
    <3> QED
      BY <1>4, <2>2, <3>1
  <2> QED
    BY <1>1, <1>4, <2>1, <2>2
<1> QED
  BY <1>3, <1>4

LEMMA ExactNext ==
  ASSUME Calm, "delete" \notin Faults, TypeOK, WatchInv, WorkerInv, OneBehind, PassCurrent,
         RecordedInv, OwnedInv, ExactInv, [Next]_vars
  PROVE  ExactInv'
<1> USE NamesAssumption, SpecAssumption
<1>1. CASE Working
  <2>0. /\ name \in Graphs /\ graph.spec = api[name].spec /\ Busy /\ Busy'
        /\ UNCHANGED <<api, req, name>> /\ (req \in Graphs => name = req)
    BY <1>1, WorkingFrame DEF WorkerInv, PassCurrent
  <2>1. ASSUME NEW r \in Resources, deleteRecordedResource(r)
        PROVE  ExactInv'
    <3>1. /\ FullPass /\ FullPass' /\ oldAnnotations' = oldAnnotations \ {r}
          /\ PutObject(r, Absent)
      BY <2>1 DEF deleteRecordedResource, FullPass
    <3>2. \A g \in Graphs : Leftover(g) \subseteq Leftover(g)' \cup {r}
      BY <2>0, <3>1 DEF Leftover, InPass
    <3>3. Absent.owner = None
      BY DEF Absent
    <3> QED
      BY <2>0, <3>1, <3>2, <3>3, ExactPut
  <2>2. CASE ResetStatus
    <3>1. /\ pc = "prune" /\ FullPass /\ ~FullPass' /\ UNCHANGED <<cluster, oldAnnotations>>
          /\ oldAnnotations \subseteq graph.annotations
      BY <2>2 DEF ResetStatus, FullPass, Stale
    <3>2. graph.annotations = Wanted(api[name].spec) /\ name = req
      BY <2>0, <3>1, PruneRecorded DEF WorkerInv
    <3>3. \A g \in Graphs : Leftover(g) \subseteq Wanted(api[g].spec) \cup Leftover(g)'
      BY <2>0, <3>1, <3>2 DEF Leftover, InPass
    <3> QED
      BY <2>0, <3>1, <3>3, ExactFrame
  <2>3. CASE ~ResetStatus /\ ~ \E r \in Resources : deleteRecordedResource(r)
    <3>1. UNCHANGED oldAnnotations /\ (FullPass' <=> FullPass)
      BY <1>1, <2>3 DEF Working, EnterNode, LeaveNode, SkipStep, EnterStep, AtStep,
         reconcileResource, recordResources, EnterRouter, reconcileRouterService, EnterPrune,
         deleteRecordedResourceFails, collectResourceStatus, CountDeployment,
         getLatestGraph, FullPass
    <3>2. \A g \in Graphs : Leftover(g)' = Leftover(g)
      BY <2>0, <3>1 DEF Leftover, InPass
    <3>3. CASE UNCHANGED cluster
      BY <2>0, <3>2, <3>3, ExactFrame
    <3>4. ASSUME NEW r \in Resources, NEW o \in Object, FullPass, Touches(r, o), PutObject(r, o)
          PROVE  ExactInv'
      <4>1. \/ o.owner = None
            \/ r \in Wanted(graph.spec) /\ o.owner = name
            \/ o = cluster[r]
        BY <3>4 DEF Touches, Absent
      <4> QED
        BY <2>0, <3>2, <3>4, <4>1, ExactPut
    <3> QED
      BY <1>1, <3>3, <3>4, WorkingObjects
  <2> QED
    BY <2>1, <2>2, <2>3
<1>2. ASSUME pc' = "idle", UNCHANGED <<api, cluster>>
      PROVE  ExactInv'
  <2>1. \A g \in Graphs : Leftover(g) \subseteq Leftover(g)'
    <3> SUFFICES ASSUME NEW g \in Graphs PROVE Leftover(g) \subseteq api[g].annotations
      BY <1>2 DEF Leftover, InPass, Busy
    <3>1. InPass(g) => name = g
      BY DEF InPass, WorkerInv
    <3> QED
      BY <3>1 DEF Leftover, PassCurrent, InPass
  <2> QED
    BY <1>2, <2>1, ExactFrame
<1>3. CASE Failing
  BY <1>2, <1>3, FailingFrame
<1>4. CASE statusUpdate
  <2>1. \A g \in Graphs : Leftover(g) \subseteq Leftover(g)'
    <3> SUFFICES ASSUME NEW g \in Graphs PROVE Leftover(g) \subseteq api'[g].annotations
      BY <1>4, StatusStored DEF Leftover, InPass, Busy
    <3>1. ~FullPass /\ Busy
      BY <1>4 DEF statusUpdate, FullPass, Busy
    <3>2. CASE g = name /\ req \notin Graphs
      BY <1>4, <3>2, StatusStored DEF Leftover, InPass
    <3>3. CASE g = name /\ req \in Graphs
      BY <1>4, <3>1, <3>3, StatusStored DEF Leftover, InPass
    <3>4. CASE g # name
      <4>1. req # g /\ api'[g] = api[g]
        BY <1>4, <3>4, StatusStored
      <4> QED
        BY <4>1 DEF Leftover, InPass
    <3> QED
      BY <3>2, <3>3, <3>4
  <2> QED
    BY <1>4, <2>1, StatusStored, ExactFrame
<1>5. ASSUME ~Busy, UNCHANGED <<api, cluster>>,
             \A g \in Graphs : InPass(g)' => FullPass' /\ api[g].annotations \subseteq oldAnnotations'
      PROVE  ExactInv'
  <2>1. \A g \in Graphs : Leftover(g) \subseteq Leftover(g)'
    BY <1>5 DEF Leftover, InPass
  <2> QED
    BY <1>5, <2>1, ExactFrame
<1>6. ASSUME NEW x \in queue, ReconcileIgnored(x)
      PROVE  ExactInv'
  BY <1>5, <1>6 DEF ReconcileIgnored, Dequeue, InPass, Busy
<1>7. ASSUME NEW g \in Graphs, ReconcileGraph(g)
      PROVE  ExactInv'
  <2>1. cache[g] = api[g]
    BY <1>7, SyncedCache DEF ReconcileGraph, Dequeue, Calm
  <2> QED
    BY <1>5, <1>7, <2>1 DEF ReconcileGraph, Dequeue, InPass, FullPass
<1>8. ASSUME NEW d \in Deployments, handleStatusUpdate(d)
      PROVE  ExactInv'
  <2>1. d \notin Graphs
    OBVIOUS
  <2> QED
    BY <1>5, <1>8, <2>1 DEF handleStatusUpdate, Dequeue, InPass
<1>9. CASE Environment
  <2>1. ASSUME NEW g \in Graphs,
               UserDelete(g) \/ \E spec \in SpecsOf[g] : UserCreate(g, spec) \/ UserEdit(g, spec)
        PROVE  ExactInv'
    <3>0. /\ Quiescent /\ ~Busy /\ ~Busy' /\ UNCHANGED cluster
          /\ \A h \in Graphs : h # g => api'[h] = api[h]
      BY <2>1, UserDue DEF Busy
    <3>1. /\ \A h \in Graphs : Leftover(h) = api[h].annotations
          /\ \A h \in Graphs : Leftover(h)' = api'[h].annotations
      BY <3>0 DEF Leftover, InPass
    <3> SUFFICES ASSUME NEW r \in Resources, cluster[r].owner # None,
                        NEW h, h = cluster[r].owner, cluster[r].uid = api'[h].uid
                 PROVE  r \in Wanted(api'[h].spec) \cup Leftover(h)'
      BY <3>0 DEF ExactInv
    <3>2. /\ h \in Graphs /\ cluster[r].uid # 0 /\ cluster[r].uid = api[h].uid
      BY <3>0 DEF OwnedInv, Quiescent, IsGarbage
    <3>3. r \in Wanted(api[h].spec) \cup Leftover(h)
      BY <3>2 DEF ExactInv
    <3>4. CASE h # g
      BY <3>0, <3>1, <3>2, <3>3, <3>4
    <3>5. CASE h = g
      <4>1. r \in api[g].annotations
        BY <3>0, <3>1, <3>2, <3>3, <3>5, QuiescentNotDue DEF RecordedInv, Recorded
      <4>2. ~UserDelete(g)
        <5>1. ASSUME UserDelete(g) PROVE api'[g].uid = 0
          <6>1. api' = [api EXCEPT ![g] = NotFound] /\ api \in [Graphs -> Version]
            BY <5>1 DEF UserDelete, Write, TypeOK
          <6> QED
            BY <6>1 DEF NotFound
        <5> QED
          BY <3>2, <3>5, <5>1
      <4>3. PICK spec \in SpecsOf[g] : UserEdit(g, spec)
        BY <2>1, <3>2, <3>5, <4>2 DEF UserCreate
      <4>4. api'[g].annotations = api[g].annotations
        BY <4>3 DEF UserEdit, Write, TypeOK, Version
      <4> QED
        BY <3>1, <3>5, <4>1, <4>4
    <3> QED
      BY <3>4, <3>5
  <2>2. ASSUME NEW d \in Deployments, FlipDeployment(d)
        PROVE  ExactInv'
    <3>1. PICK o \in Object : /\ PutObject(d, o)
                              /\ o.owner = cluster[d].owner /\ o.uid = cluster[d].uid
      BY <2>2, Flipped
    <3>2. \A r \in Resources : /\ cluster'[r].owner = cluster[r].owner
                               /\ cluster'[r].uid = cluster[r].uid
      BY <3>1 DEF PutObject, TypeOK
    <3>3. UNCHANGED <<api, workerVars>>
      BY <2>2 DEF FlipDeployment
    <3>4. \A g \in Graphs : Leftover(g)' = Leftover(g)
      BY <3>3 DEF Leftover, InPass, Busy, FullPass
    <3> QED
      BY <3>2, <3>3, <3>4, ExactFrame
  <2>3. CASE RestartManager
    BY <1>2, <2>3 DEF RestartManager
  <2> QED
    BY <1>9, <2>1, <2>2, <2>3 DEF Environment
<1>10. ASSUME UNCHANGED <<api, cluster, workerVars>>
       PROVE  ExactInv'
  <2>1. \A g \in Graphs : Leftover(g)' = Leftover(g)
    BY <1>10 DEF Leftover, InPass, Busy, FullPass
  <2> QED
    BY <1>10, <2>1, ExactFrame
<1>11. CASE \/ \E g \in Graphs : DeliverGraph(g)
            \/ \E d \in Deployments : DeliverDeployment(d)
            \/ UNCHANGED vars
  BY <1>10, <1>11 DEF DeliverGraph, DeliverDeployment, vars
<1>12. ASSUME NEW x \in Resources, CollectGarbage(x)
       PROVE  ExactInv'
  <2>1. /\ \A r \in Resources : cluster'[r] = IF r = x THEN Absent ELSE cluster[r]
        /\ UNCHANGED <<api, workerVars>>
    BY <1>12 DEF CollectGarbage, PutObject, TypeOK
  <2>2. \A g \in Graphs : Leftover(g)' = Leftover(g)
    BY <2>1 DEF Leftover, InPass, Busy, FullPass
  <2> SUFFICES ASSUME NEW r \in Resources, cluster'[r].owner # None,
                      NEW g, g = cluster'[r].owner, cluster'[r].uid = api[g].uid
               PROVE  r \in Wanted(api[g].spec) \cup Leftover(g)'
    BY <2>1 DEF ExactInv
  <2>3. cluster'[r] = cluster[r]
    BY <2>1 DEF Absent
  <2> QED
    BY <2>1, <2>2, <2>3 DEF ExactInv, OwnedInv
<1> QED
  BY <1>1, <1>3, <1>4, <1>6, <1>7, <1>8, <1>9, <1>11, <1>12, NextCases

\* What the three theorems share.
CalmInv == PassCurrent /\ OneBehind /\ RecordedInv /\ OwnedInv

LEMMA CalmCorrect == Calm => (Spec => []CalmInv)
<1> SUFFICES ASSUME Calm PROVE Spec => []CalmInv
  OBVIOUS
<1>1. Init => CalmInv
  <2> SUFFICES ASSUME Init PROVE CalmInv
    OBVIOUS
  <2>1. PassCurrent /\ OneBehind
    BY DEF Init, PassCurrent, Busy, OneBehind
  <2>2. RecordedInv
    BY DEF Init, RecordedInv, Recorded, NotFound
  <2>3. OwnedInv
    BY DEF Init, OwnedInv, Absent
  <2> QED
    BY <2>1, <2>2, <2>3 DEF CalmInv
<1>2. TypeOK /\ WatchInv /\ WorkerInv /\ CalmInv /\ [Next]_vars => CalmInv'
  BY PassNext, BehindNext, RecordNext, OwnedNext DEF CalmInv
<1> QED
  BY <1>1, <1>2, ReconcilerInvariant, PTL DEF Spec

\* If users wait until everything has settled and passes start with up-to-date
\* caches, then once everything has settled the annotations stored with a graph
\* (Status().Update, line 538) are what its spec asks for, whatever calls failed
\* and however often the manager was restarted.
THEOREM SettledRecordedCorrect == Calm => (Spec => []SettledRecorded)
<1> SUFFICES ASSUME Calm PROVE Spec => []SettledRecorded
  OBVIOUS
<1>1. WatchInv /\ CalmInv => SettledRecorded
  BY QuiescentNotDue DEF CalmInv, RecordedInv, Recorded, SettledRecorded
<1> QED
  BY <1>1, CalmCorrect, ReconcilerInvariant, PTL

\* If moreover no deletion fails, then once everything has settled nothing is left
\* of what an edit removed: the loop at lines 424-432 has deleted it, in this
\* pass or in one that was tried again.
THEOREM SettledExactCorrect ==
  Calm /\ "delete" \notin Faults => (Spec => []SettledExact)
<1> SUFFICES ASSUME Calm, "delete" \notin Faults PROVE Spec => []SettledExact
  OBVIOUS
<1>1. Init => ExactInv
  BY DEF Init, ExactInv, Absent
<1>2. TypeOK /\ WatchInv /\ WorkerInv /\ CalmInv /\ ExactInv /\ [Next]_vars => ExactInv'
  BY ExactNext DEF CalmInv
<1>3. WatchInv /\ CalmInv /\ ExactInv => SettledExact
  <2> SUFFICES ASSUME WatchInv, CalmInv, ExactInv, Quiescent,
                      NEW r \in Resources, cluster[r].owner # None,
                      NEW g, g = cluster[r].owner
               PROVE  r \in Wanted(api[g].spec)
    BY DEF SettledExact
  <2>1. g \in Graphs /\ cluster[r].uid = api[g].uid /\ api[g].uid # 0
    BY DEF Quiescent, IsGarbage, CalmInv, OwnedInv
  <2>2. Leftover(g) = Wanted(api[g].spec)
    BY <2>1, QuiescentNotDue DEF Leftover, InPass, Busy, Quiescent, CalmInv, RecordedInv,
       Recorded
  <2> QED
    BY <2>1, <2>2 DEF ExactInv
<1> QED
  BY <1>1, <1>2, <1>3, CalmCorrect, ReconcilerInvariant, PTL DEF Spec
-----------------------------------------------------------------------------
(***************************************************************************)
(* The services that are external.                                         *)
(***************************************************************************)
Positions(spec) == UNION {{n} \X DOMAIN spec.nodes[n] : n \in Nodes}

IsExternalAt(spec, p) == spec.nodes[p[1]][p[2]] \in External \ Nested

\* The pass has been there.
Passed(p) == \/ p[1] \in doneNodes
             \/ pc \in {"steps", "apply"} /\ p[1] = nodeName /\ p[2] < i

SeenExternal == {p \in Positions(graph.spec) : Passed(p) /\ IsExternalAt(graph.spec, p)}

\* externalService counts the external steps the pass has been to; the status
\* has the number of a complete pass.
ExternalInv ==
  /\ pc \in {"steps", "apply"} => nodeName \notin doneNodes
  /\ FullPass => /\ IsFiniteSet(SeenExternal)
                 /\ externalService = Cardinality(SeenExternal)
  /\ Collecting => graph.status[2] = IF req \in Graphs THEN ExternalCount(graph.spec)
                                     ELSE api[name].status[2]

LEMMA ExternalCountIs ==
  ASSUME NEW spec
  PROVE  ExternalCount(spec) = Cardinality({p \in Positions(spec) : IsExternalAt(spec, p)})
  BY DEF ExternalCount, Positions, IsExternalAt

LEMMA PositionIs ==
  ASSUME NEW spec, NEW p
  PROVE  p \in Positions(spec) <=> \E n \in Nodes : \E k \in DOMAIN spec.nodes[n] : p = <<n, k>>
  BY DEF Positions

LEMMA ExternalIdle ==
  ASSUME pc' = "idle"
  PROVE  ExternalInv'
  BY DEF ExternalInv, FullPass, Collecting

LEMMA ExternalKept ==
  ASSUME ExternalInv, UNCHANGED <<api, workerVars>>
  PROVE  ExternalInv'
<1>1. SeenExternal' = SeenExternal
  BY DEF SeenExternal, Passed, Positions, IsExternalAt
<1> QED
  BY <1>1 DEF ExternalInv, FullPass, Collecting, ExternalCount

\* A step that leads to no other external service.
LEMMA ExternalFrame ==
  ASSUME ExternalInv, UNCHANGED <<api, req, name, externalService>>, FullPass, FullPass',
         pc' \in {"steps", "apply"} => nodeName' \notin doneNodes',
         SeenExternal' = SeenExternal
  PROVE  ExternalInv'
  BY DEF ExternalInv, FullPass, Collecting

LEMMA ExternalWorking ==
  ASSUME TypeOK, WorkerInv, ExternalInv, Working
  PROVE  ExternalInv'
<1> USE NamesAssumption, SpecAssumption
<1>0. /\ graph \in Version /\ graph.spec \in SpecType
      /\ \A n \in Nodes : graph.spec.nodes[n] \in Seq(Steps)
      /\ j \in Nat \ {0} /\ i \in Nat \ {0} /\ doneNodes \subseteq Nodes
      /\ externalService \in Nat
  BY DEF TypeOK, Version, SpecType
<1>s. /\ graph'.spec = graph.spec /\ UNCHANGED <<api, req, name>>
  BY WorkingFrame
<1>p. ASSUME NEW p \in Positions(graph.spec)
      PROVE  /\ p = <<p[1], p[2]>> /\ p[1] \in Nodes
             /\ p[2] \in 1..Len(graph.spec.nodes[p[1]])
  <2>1. PICK n \in Nodes : \E k \in DOMAIN graph.spec.nodes[n] : p = <<n, k>>
    BY PositionIs
  <2>2. PICK k \in DOMAIN graph.spec.nodes[n] : p = <<n, k>>
    BY <2>1
  <2>3. DOMAIN graph.spec.nodes[n] = 1..Len(graph.spec.nodes[n])
    BY <1>0
  <2>4. p[1] = n /\ p[2] = k
    BY <2>2
  <2> QED
    BY <2>2, <2>3, <2>4
<1>q. ASSUME \A p \in Positions(graph.spec) :
               IsExternalAt(graph.spec, p) => (Passed(p)' <=> Passed(p))
      PROVE  SeenExternal' = SeenExternal
  BY <1>s, <1>q DEF SeenExternal, Positions, IsExternalAt
<1>1. ASSUME NEW n \in Nodes, EnterNode(n)
      PROVE  ExternalInv'
  <2>1. /\ pc = "nodes" /\ pc' = "steps" /\ nodeName' = n /\ i' = 1 /\ n \notin doneNodes
        /\ UNCHANGED <<doneNodes, externalService>>
    BY <1>1 DEF EnterNode
  <2>2. \A p \in Positions(graph.spec) : ~(p[2] < 1)
    BY <1>p, <1>0
  <2>3. \A p \in Positions(graph.spec) : Passed(p)' <=> Passed(p)
    BY <2>1, <2>2 DEF Passed
  <2> QED
    BY <1>s, <1>q, <2>1, <2>3, ExternalFrame DEF FullPass
<1>2. CASE LeaveNode
  <2>1. /\ pc = "steps" /\ pc' = "nodes" /\ doneNodes' = doneNodes \cup {nodeName}
        /\ i > Len(graph.spec.nodes[nodeName]) /\ UNCHANGED <<nodeName, i, externalService>>
        /\ nodeName \in Nodes
    BY <1>2 DEF LeaveNode, WorkerInv
  <2>2. \A p \in Positions(graph.spec) : p[1] = nodeName => p[2] < i
    BY <1>0, <1>p, <2>1
  <2>3. \A p \in Positions(graph.spec) : Passed(p)' <=> Passed(p)
    BY <2>1, <2>2 DEF Passed
  <2> QED
    BY <1>s, <1>q, <2>1, <2>3, ExternalFrame DEF FullPass
<1>3. CASE SkipStep
  <2> DEFINE here == <<nodeName, i>>
  <2>1. /\ pc = "steps" /\ pc' = "steps" /\ i <= Len(graph.spec.nodes[nodeName])
        /\ ~IsInternal(step) /\ i' = i + 1 /\ UNCHANGED <<nodeName, doneNodes>>
        /\ externalService' = IF step \in Nested THEN externalService ELSE externalService + 1
        /\ nodeName \in Nodes /\ nodeName \notin doneNodes
    BY <1>3 DEF SkipStep, AtStep, WorkerInv, ExternalInv
  <2>2. here \in Positions(graph.spec) /\ here[1] = nodeName /\ here[2] = i
    <3>1. i \in DOMAIN graph.spec.nodes[nodeName]
      BY <1>0, <2>1
    <3> QED
      BY <2>1, <3>1, PositionIs
  <2>3. IsExternalAt(graph.spec, here) <=> step \notin Nested
    BY <2>1, <2>2 DEF IsExternalAt, step, IsInternal
  <2>4. ~Passed(here)
    BY <1>0, <2>1, <2>2 DEF Passed
  <2>5. ASSUME NEW p \in Positions(graph.spec)
        PROVE  Passed(p)' <=> Passed(p) \/ p = here
    <3>1. p[2] \in Nat /\ p = <<p[1], p[2]>>
      BY <1>0, <1>p
    <3>2. p[1] = nodeName => (p[2] < i + 1 <=> p[2] < i \/ p = here)
      BY <1>0, <3>1
    <3>3. p = here => p[1] = nodeName
      BY <2>2
    <3> QED
      BY <2>1, <3>2, <3>3 DEF Passed
  <2>6. CASE step \in Nested
    <3>1. SeenExternal' = SeenExternal
      BY <1>q, <2>3, <2>5, <2>6
    <3> QED
      BY <1>s, <2>1, <2>6, <3>1, ExternalFrame DEF FullPass
  <2>7. CASE step \notin Nested
    <3>1. SeenExternal' = SeenExternal \cup {here}
      BY <1>s, <2>2, <2>3, <2>5, <2>7 DEF SeenExternal, Positions, IsExternalAt
    <3>2. here \notin SeenExternal
      BY <2>4 DEF SeenExternal
    <3>3. IsFiniteSet(SeenExternal) /\ externalService = Cardinality(SeenExternal)
      BY <2>1 DEF ExternalInv, FullPass
    <3>4. /\ IsFiniteSet(SeenExternal \cup {here})
          /\ Cardinality(SeenExternal \cup {here}) = Cardinality(SeenExternal) + 1
      BY <3>2, <3>3, FS_AddElement
    <3> QED
      BY <2>1, <2>7, <3>1, <3>3, <3>4 DEF ExternalInv, FullPass, Collecting
  <2> QED
    BY <2>6, <2>7
<1>4. CASE EnterStep
  <2>1. /\ pc = "steps" /\ pc' = "apply" /\ UNCHANGED <<nodeName, i, doneNodes, externalService>>
    BY <1>4 DEF EnterStep, AtStep
  <2>2. \A p \in Positions(graph.spec) : Passed(p)' <=> Passed(p)
    BY <2>1 DEF Passed
  <2> QED
    BY <1>s, <1>q, <2>1, <2>2, ExternalFrame DEF FullPass, ExternalInv
<1>5. CASE recordResources
  <2>1. /\ pc = "apply" /\ pc' = "steps" /\ i' = i + 1
        /\ UNCHANGED <<nodeName, doneNodes, externalService>> /\ IsInternal(step)
    BY <1>5 DEF recordResources, WorkerInv
  <2>2. ASSUME NEW p \in Positions(graph.spec), IsExternalAt(graph.spec, p)
        PROVE  Passed(p)' <=> Passed(p)
    <3>1. ~(p[1] = nodeName /\ p[2] = i)
      BY <2>1, <2>2 DEF IsExternalAt, step, IsInternal
    <3>2. p[2] \in Nat
      BY <1>0, <1>p
    <3>3. p[1] = nodeName => (p[2] < i + 1 <=> p[2] < i)
      BY <1>0, <3>1, <3>2
    <3> QED
      BY <2>1, <3>3 DEF Passed
  <2> QED
    BY <1>s, <1>q, <2>1, <2>2, ExternalFrame DEF FullPass, ExternalInv
<1>6. CASE ResetStatus
  <2>1. /\ pc = "prune" /\ pc' = "collect" /\ req \in Graphs /\ doneNodes = Nodes
        /\ graph' = [graph EXCEPT !.status = <<0, externalService, 0>>]
    BY <1>6 DEF ResetStatus, WorkerInv, FullPass
  <2>2. SeenExternal = {p \in Positions(graph.spec) : IsExternalAt(graph.spec, p)}
    BY <1>p, <2>1 DEF SeenExternal, Passed
  <2>3. externalService = ExternalCount(graph.spec)
    BY <2>1, <2>2, ExternalCountIs DEF ExternalInv, FullPass
  <2>4. graph'.status[2] = externalService
    BY <1>0, <2>1 DEF Version
  <2> QED
    BY <1>s, <2>1, <2>3, <2>4 DEF ExternalInv, FullPass, Collecting
<1>7. CASE getLatestGraph
  <2>1. /\ pc = "count" /\ pc' = "update" /\ graph'.status[2] = graph.status[2]
    BY <1>7, <1>0 DEF getLatestGraph, Version
  <2> QED
    BY <1>s, <2>1 DEF ExternalInv, FullPass, Collecting
<1>8. CASE collectResourceStatus \/ \E d \in Deployments : CountDeployment(d)
  <2>1. pc \in {"collect", "count"} /\ pc' = "count" /\ UNCHANGED graph
    BY <1>8 DEF collectResourceStatus, CountDeployment
  <2> QED
    BY <1>s, <2>1 DEF ExternalInv, FullPass, Collecting
<1>9. CASE \/ reconcileResource
           \/ EnterRouter
           \/ reconcileRouterService
           \/ EnterPrune
           \/ \E r \in Resources : deleteRecordedResource(r)
           \/ \E r \in Resources : deleteRecordedResourceFails(r)
  <2>1. /\ pc' \in {"steps", "apply"} <=> pc \in {"steps", "apply"}
        /\ FullPass /\ FullPass' /\ UNCHANGED <<nodeName, i, doneNodes, externalService>>
    BY <1>9 DEF reconcileResource, EnterRouter, reconcileRouterService, EnterPrune,
       deleteRecordedResource, deleteRecordedResourceFails, FullPass
  <2>2. \A p \in Positions(graph.spec) : Passed(p)' <=> Passed(p)
    BY <2>1 DEF Passed
  <2> QED
    BY <1>s, <1>q, <2>1, <2>2, ExternalFrame DEF ExternalInv
<1> QED
  BY <1>1, <1>2, <1>3, <1>4, <1>5, <1>6, <1>7, <1>8, <1>9 DEF Working

LEMMA ExternalNext ==
  ASSUME Calm, TypeOK, WatchInv, WorkerInv, PassCurrent, OneBehind, ExternalInv, [Next]_vars
  PROVE  ExternalInv'
<1> USE NamesAssumption, SpecAssumption
<1>1. CASE Working
  BY <1>1, ExternalWorking
<1>2. CASE Failing \/ statusUpdate
  BY <1>2, FailingFrame, ExternalIdle DEF statusUpdate
<1>3. ASSUME NEW x \in queue, ReconcileIgnored(x)
      PROVE  ExternalInv'
  BY <1>3, ExternalKept DEF ReconcileIgnored, Dequeue
<1>4. ASSUME NEW g \in Graphs, ReconcileGraph(g)
      PROVE  ExternalInv'
  <2>1. pc' = "nodes" /\ doneNodes' = {} /\ externalService' = 0
    BY <1>4 DEF ReconcileGraph
  <2>2. SeenExternal' = {}
    BY <2>1 DEF SeenExternal, Passed
  <2> QED
    BY <2>1, <2>2, FS_EmptySet DEF ExternalInv, FullPass, Collecting
<1>5. ASSUME NEW d \in Deployments, handleStatusUpdate(d)
      PROVE  ExternalInv'
  <2>1. PICK g \in Graphs : g = dcache[d].owner
    BY <1>5 DEF handleStatusUpdate, HasGraph, TypeOK, Object
  <2>2. cache[g] = api[g] /\ UNCHANGED api
    BY <1>5, SyncedCache DEF handleStatusUpdate, Dequeue, Calm
  <2>3. graph' = api[g] /\ pc' = "collect" /\ req' = d /\ name' = g /\ d \notin Graphs
    BY <1>5, <2>1, <2>2 DEF handleStatusUpdate
  <2> QED
    BY <2>2, <2>3 DEF ExternalInv, FullPass
<1>6. CASE Environment
  <2>1. ASSUME NEW g \in Graphs,
               UserDelete(g) \/ \E spec \in SpecsOf[g] : UserCreate(g, spec) \/ UserEdit(g, spec)
        PROVE  ExternalInv'
    BY <2>1, UserDue, ExternalIdle DEF Busy
  <2> QED
    BY <1>6, <2>1, ExternalKept, ExternalIdle DEF Environment, FlipDeployment, RestartManager
<1>7. CASE \/ \E g \in Graphs : DeliverGraph(g)
           \/ \E d \in Deployments : DeliverDeployment(d)
           \/ \E r \in Resources : CollectGarbage(r)
           \/ UNCHANGED vars
  BY <1>7, ExternalKept DEF DeliverGraph, DeliverDeployment, CollectGarbage, vars
<1> QED
  BY <1>1, <1>2, <1>3, <1>4, <1>5, <1>6, <1>7, NextCases
-----------------------------------------------------------------------------
(***************************************************************************)
(* Deployments and the informer that follows them.                         *)
(***************************************************************************)
\* What does not exist is not available, and only a Deployment that is rolled out
\* with a surge has a pod too many.
Sound(d, o) == /\ o.owner = None => ~IsAvailable(o)
               /\ o.available > Replicas => d \in Surging

\* The informer's copy and the versions on their way lead up to the Deployment.
Follows(d) ==
  /\ Sound(d, cluster[d])
  /\ Sound(d, dcache[d])
  /\ \A k \in 1..Len(dwatch[d]) : Sound(d, dwatch[d][k])
  /\ IF dwatch[d] = <<>> THEN dcache[d] = cluster[d]
     ELSE dwatch[d][Len(dwatch[d])] = cluster[d]

FollowsInv == \A d \in Deployments : Follows(d)

Deployed(g) == Wanted(api[g].spec) \cap Deployments

\* Nobody but g has an object that g asks for; and its Deployments are not
\* taken away, so that only the first version the informer sees of one may pass
\* unnoticed, which is not available yet.
Mine(g) ==
  api[g].uid # 0 =>
    /\ \A r \in Wanted(api[g].spec) : cluster[r].owner # None =>
         cluster[r].owner = g /\ cluster[r].uid = api[g].uid
    /\ \A d \in Deployed(g) :
         /\ \A k \in 1..Len(dwatch[d]) : dwatch[d][k].owner = g
         /\ dcache[d].owner = None /\ dwatch[d] # <<>> => ~IsAvailable(dwatch[d][1])
         /\ d \in queue => dcache[d].owner = g

MineInv == \A g \in Graphs : Mine(g)

\* A version is appended, or none.
LEMMA PutVersion ==
  ASSUME TypeOK, NEW r \in Resources, NEW o \in Object, PutObject(r, o), NEW d \in Deployments
  PROVE  /\ dwatch[d] \in Seq(Object)
         /\ cluster'[d] = IF d = r THEN o ELSE cluster[d]
         /\ dwatch'[d] = IF d = r /\ cluster[r] # o THEN Append(dwatch[d], o) ELSE dwatch[d]
  BY NamesAssumption DEF TypeOK, PutObject

LEMMA AppendedVersion ==
  ASSUME NEW s \in Seq(Object), NEW o \in Object
  PROVE  LET t == Append(s, o) IN
         /\ t # <<>> /\ t[Len(t)] = o
         /\ s # <<>> => t[1] = s[1]
         /\ s = <<>> => t[1] = o
         /\ \A k \in 1..Len(t) : t[k] = o \/ \E m \in 1..Len(s) : t[k] = s[m]
<1> DEFINE t == Append(s, o)
<1>1. /\ Len(s) \in Nat /\ Len(t) = Len(s) + 1 /\ t[Len(s) + 1] = o
      /\ \A k \in 1..Len(s) : t[k] = s[k]
      /\ t \in Seq(Object)
  OBVIOUS
<1>2. t # <<>>
  <2>1. Len(t) # 0
    BY <1>1
  <2> QED
    BY <2>1, EmptySeq
<1>3. s # <<>> => t[1] = s[1]
  <2> SUFFICES ASSUME s # <<>> PROVE t[1] = s[1]
    OBVIOUS
  <2>1. Len(s) \in Nat \ {0}
    BY EmptySeq
  <2> DEFINE n == Len(s)
  <2>2. n \in Nat \ {0} => 1 \in 1..n
    <3> HIDE DEF n
    <3> QED
      OBVIOUS
  <2> QED
    BY <1>1, <2>1, <2>2
<1>4. s = <<>> => t[1] = o
  OBVIOUS
<1>5. ASSUME NEW k \in 1..Len(t) PROVE t[k] = o \/ \E m \in 1..Len(s) : t[k] = s[m]
  <2> DEFINE n == Len(s)
  <2>1. k \in 1..(n + 1) /\ n \in Nat
    BY <1>1
  <2> HIDE DEF n
  <2>2. k = n + 1 \/ k \in 1..n
    BY <2>1
  <2> QED
    BY <1>1, <2>2 DEF n
<1> QED
  BY <1>1, <1>2, <1>3, <1>4, <1>5

LEMMA FollowsPut ==
  ASSUME TypeOK, FollowsInv, NEW r \in Resources, NEW o \in Object, PutObject(r, o),
         r \in Deployments => Sound(r, o), UNCHANGED dcache
  PROVE  FollowsInv'
<1> SUFFICES ASSUME NEW d \in Deployments PROVE Follows(d)'
  BY DEF FollowsInv
<1>1. /\ dwatch[d] \in Seq(Object)
      /\ cluster'[d] = IF d = r THEN o ELSE cluster[d]
      /\ dwatch'[d] = IF d = r /\ cluster[r] # o THEN Append(dwatch[d], o) ELSE dwatch[d]
  BY PutVersion
<1>2. Follows(d)
  BY DEF FollowsInv
<1>3. CASE ~(d = r /\ cluster[r] # o)
  <2>1. cluster'[d] = cluster[d] /\ dwatch'[d] = dwatch[d] /\ dcache'[d] = dcache[d]
    BY <1>1, <1>3
  <2> QED
    BY <1>2, <2>1 DEF Follows, Sound
<1>4. CASE d = r /\ cluster[r] # o
  <2> DEFINE t == Append(dwatch[d], o)
  <2>1. cluster'[d] = o /\ dwatch'[d] = t /\ dcache'[d] = dcache[d] /\ Sound(d, o)
    BY <1>1, <1>4
  <2>2. /\ t # <<>> /\ t[Len(t)] = o
        /\ \A k \in 1..Len(t) : t[k] = o \/ \E m \in 1..Len(dwatch[d]) : t[k] = dwatch[d][m]
    BY <1>1, AppendedVersion
  <2> HIDE DEF t
  <2>3. \A k \in 1..Len(t) : Sound(d, t[k])
    BY <1>2, <2>1, <2>2 DEF Follows
  <2> QED
    BY <1>2, <2>1, <2>2, <2>3 DEF Follows, Sound
<1> QED
  BY <1>3, <1>4

\* What DeliverDeployment does to the versions of a Deployment.
LEMMA DeliverVersion ==
  ASSUME NEW s \in Seq(Object), s # <<>>
  PROVE  /\ Head(s) = s[1] /\ 1 \in 1..Len(s)
         /\ \A k \in 1..Len(Tail(s)) : \E m \in 1..Len(s) : Tail(s)[k] = s[m]
         /\ IF Tail(s) = <<>> THEN s[Len(s)] = s[1] ELSE Tail(s)[Len(Tail(s))] = s[Len(s)]
<1> DEFINE n == Len(s)
           t == Tail(s)
<1>1. /\ n \in Nat \ {0} /\ Len(t) = n - 1 /\ t \in Seq(Object)
      /\ \A k \in 1..Len(t) : t[k] = s[k + 1]
  BY EmptySeq, HeadTailProperties
<1>2. Head(s) = s[1]
  OBVIOUS
<1>3. (t = <<>>) <=> (n = 1)
  <2>1. t = <<>> => Len(t) = 0
    BY EmptySeq
  <2>2. t # <<>> => Len(t) \in Nat \ {0}
    BY <1>1, EmptySeq, Zenon
  <2> DEFINE m == Len(t)
  <2>3. (t = <<>> => m = 0) /\ (t # <<>> => m \in Nat \ {0}) /\ m = n - 1 /\ n \in Nat \ {0}
    BY <1>1, <2>1, <2>2
  <2> HIDE DEF m, n, t
  <2> QED
    BY <2>3
<1> HIDE DEF n, t
<1>4. 1 \in 1..n
  BY <1>1
<1>5. \A k \in 1..Len(t) : k + 1 \in 1..n
  BY <1>1
<1>6. n # 1 => Len(t) \in 1..Len(t) /\ Len(t) + 1 = n
  BY <1>1
<1>7. \A k \in 1..Len(t) : \E m \in 1..n : t[k] = s[m]
  BY <1>1, <1>5
<1>8. IF t = <<>> THEN s[n] = s[1] ELSE t[Len(t)] = s[n]
  BY <1>1, <1>3, <1>6
<1> QED
  BY <1>2, <1>4, <1>7, <1>8 DEF n, t

LEMMA FollowsDeliver ==
  ASSUME TypeOK, FollowsInv, NEW x \in Deployments, DeliverDeployment(x)
  PROVE  FollowsInv'
<1> SUFFICES ASSUME NEW d \in Deployments PROVE Follows(d)'
  BY DEF FollowsInv
<1>1. /\ dwatch \in [Deployments -> Seq(Object)] /\ dcache \in [Deployments -> Object]
      /\ dwatch[x] # <<>> /\ UNCHANGED cluster
      /\ dcache' = [dcache EXCEPT ![x] = Head(dwatch[x])]
      /\ dwatch' = [dwatch EXCEPT ![x] = Tail(dwatch[x])]
  BY DEF TypeOK, DeliverDeployment
<1>2. Follows(d)
  BY DEF FollowsInv
<1>3. CASE d # x
  <2>1. dwatch'[d] = dwatch[d] /\ dcache'[d] = dcache[d]
    BY <1>1, <1>3
  <2> QED
    BY <1>1, <1>2, <2>1 DEF Follows, Sound
<1>4. CASE d = x
  <2> DEFINE s == dwatch[d]
             t == Tail(s)
  <2>1. s \in Seq(Object) /\ s # <<>> /\ dwatch'[d] = t /\ dcache'[d] = Head(s)
    BY <1>1, <1>4
  <2>2. /\ Head(s) = s[1] /\ 1 \in 1..Len(s)
        /\ \A k \in 1..Len(t) : \E m \in 1..Len(s) : t[k] = s[m]
        /\ IF t = <<>> THEN s[Len(s)] = s[1] ELSE t[Len(t)] = s[Len(s)]
    BY <2>1, DeliverVersion
  <2>3. /\ Sound(d, cluster[d]) /\ \A k \in 1..Len(s) : Sound(d, s[k])
        /\ s[Len(s)] = cluster[d]
    BY <1>2, <2>1 DEF Follows
  <2> HIDE DEF s, t
  <2>4. Sound(d, s[1]) /\ \A k \in 1..Len(t) : Sound(d, t[k])
    BY <2>2, <2>3
  <2>5. IF t = <<>> THEN Head(s) = cluster[d] ELSE t[Len(t)] = cluster[d]
    BY <2>2, <2>3
  <2>6. (\A k \in 1..Len(dwatch[d]) : Sound(d, dwatch[d][k]))'
    BY <2>1, <2>4 DEF Sound
  <2>7. Sound(d, dcache[d])' /\ Sound(d, cluster[d])'
    BY <1>1, <2>1, <2>2, <2>3, <2>4 DEF Sound
  <2> QED
    BY <1>1, <2>1, <2>5, <2>6, <2>7 DEF Follows
<1> QED
  BY <1>3, <1>4

LEMMA FollowsNext ==
  ASSUME TypeOK, WorkerInv, FollowsInv, [Next]_vars
  PROVE  FollowsInv'
<1> USE NamesAssumption, SpecAssumption
<1>0. ASSUME UNCHANGED <<cluster, dwatch, dcache>> PROVE FollowsInv'
  BY <1>0 DEF FollowsInv, Follows, Sound
<1>1. CASE Working
  <2>1. name \in Graphs /\ UNCHANGED dcache
    BY <1>1, WorkingFrame DEF WorkerInv
  <2>2. ASSUME NEW r \in Resources, NEW o \in Object, Touches(r, o), PutObject(r, o)
        PROVE  FollowsInv'
    <3>1. r \in Deployments => Sound(r, o)
      BY <2>1, <2>2 DEF IsAvailable, Replicas, Touches, Sound, Absent, FollowsInv, Follows
    <3> QED
      BY <2>1, <2>2, <3>1, FollowsPut
  <2> QED
    BY <1>0, <1>1, <2>1, <2>2, WorkingObjects
<1>2. CASE \/ Failing
           \/ statusUpdate
           \/ \E x \in queue : ReconcileIgnored(x)
           \/ \E g \in Graphs : ReconcileGraph(g)
           \/ \E d \in Deployments : handleStatusUpdate(d)
           \/ \E g \in Graphs : DeliverGraph(g)
           \/ UNCHANGED vars
  BY <1>0, <1>2, FailingFrame DEF statusUpdate, ReconcileIgnored, ReconcileGraph,
     handleStatusUpdate, Dequeue, DeliverGraph, vars
<1>3. CASE Environment
  <2>1. ASSUME NEW d \in Deployments, FlipDeployment(d)
        PROVE  FollowsInv'
    <3>1. PICK o \in Object : /\ PutObject(d, o) /\ cluster[d].owner # None
                              /\ o.owner = cluster[d].owner
                              /\ (o.available > Replicas => d \in Surging)
      BY <2>1, Flipped
    <3>2. Sound(d, o) /\ UNCHANGED dcache
      BY <2>1, <3>1 DEF Sound, FlipDeployment
    <3> QED
      BY <3>1, <3>2, FollowsPut
  <2>2. CASE RestartManager
    BY <2>2 DEF RestartManager, FollowsInv, Follows, Sound
  <2> QED
    BY <1>0, <1>3, <2>1, <2>2 DEF Environment, UserCreate, UserEdit, UserDelete
<1>4. ASSUME NEW r \in Resources, CollectGarbage(r)
      PROVE  FollowsInv'
  BY <1>4, FollowsPut, AbsentType DEF CollectGarbage, Absent, Sound, IsAvailable, Replicas
<1>5. ASSUME NEW d \in Deployments, DeliverDeployment(d)
      PROVE  FollowsInv'
  BY <1>5, FollowsDeliver
<1> QED
  BY <1>1, <1>2, <1>3, <1>4, <1>5, NextCases

\* Only one object changes: it is not one g asks for, or g's own is stored, not
\* available if it is new.
LEMMA MinePut ==
  ASSUME TypeOK, FollowsInv, NEW g \in Graphs, Mine(g),
         NEW r \in Resources, NEW o \in Object, PutObject(r, o),
         UNCHANGED <<api, dcache, queue>>,
         api[g].uid # 0 /\ r \in Wanted(api[g].spec) =>
           /\ o.owner = g /\ o.uid = api[g].uid
           /\ cluster[r].owner = None => ~IsAvailable(o)
  PROVE  Mine(g)'
<1> USE NamesAssumption
<1> SUFFICES ASSUME api[g].uid # 0 PROVE Mine(g)'
  BY DEF Mine
<1>1. \A x \in Resources : cluster'[x] = IF x = r THEN o ELSE cluster[x]
  BY DEF PutObject, TypeOK
<1>2. Wanted(api[g].spec) \subseteq Resources
  BY DEF Wanted
<1>3. ASSUME NEW x \in Wanted(api[g].spec), cluster'[x].owner # None
      PROVE  cluster'[x].owner = g /\ cluster'[x].uid = api[g].uid
  BY <1>1, <1>2, <1>3 DEF Mine
<1>4. ASSUME NEW d \in Deployed(g)
      PROVE  /\ \A k \in 1..Len(dwatch'[d]) : dwatch'[d][k].owner = g
             /\ dcache[d].owner = None /\ dwatch'[d] # <<>> => ~IsAvailable(dwatch'[d][1])
             /\ d \in queue => dcache[d].owner = g
  <2>0. /\ \A k \in 1..Len(dwatch[d]) : dwatch[d][k].owner = g
        /\ dcache[d].owner = None /\ dwatch[d] # <<>> => ~IsAvailable(dwatch[d][1])
        /\ d \in queue => dcache[d].owner = g
        /\ d \in Deployments
    BY DEF Mine, Deployed
  <2>1. /\ dwatch[d] \in Seq(Object)
        /\ dwatch'[d] = IF d = r /\ cluster[r] # o THEN Append(dwatch[d], o) ELSE dwatch[d]
    BY <2>0, PutVersion
  <2>2. CASE ~(d = r /\ cluster[r] # o)
    BY <2>0, <2>1, <2>2
  <2>3. CASE d = r /\ cluster[r] # o
    <3> DEFINE t == Append(dwatch[d], o)
    <3>1. /\ t # <<>>
          /\ dwatch[d] # <<>> => t[1] = dwatch[d][1]
          /\ dwatch[d] = <<>> => t[1] = o
          /\ \A k \in 1..Len(t) : t[k] = o \/ \E m \in 1..Len(dwatch[d]) : t[k] = dwatch[d][m]
      BY <2>1, AppendedVersion
    <3>2. dwatch'[d] = t /\ o.owner = g /\ (cluster[d].owner = None => ~IsAvailable(o))
      BY <2>1, <2>3 DEF Deployed
    <3>3. dwatch[d] = <<>> => dcache[d] = cluster[d]
      BY <2>0 DEF FollowsInv, Follows
    <3> HIDE DEF t
    <3>4. \A k \in 1..Len(t) : t[k].owner = g
      BY <2>0, <3>1, <3>2
    <3>5. dcache[d].owner = None => ~IsAvailable(t[1])
      BY <2>0, <3>1, <3>2, <3>3
    <3> QED
      BY <2>0, <3>2, <3>4, <3>5
  <2> QED
    BY <2>2, <2>3
<1>5. Deployed(g)' = Deployed(g)
  BY DEF Deployed
<1> QED
  BY <1>3, <1>4, <1>5 DEF Mine

LEMMA MineKept ==
  ASSUME NEW g \in Graphs, Mine(g), UNCHANGED <<cluster, dwatch, dcache>>,
         api'[g].uid = api[g].uid, api'[g].spec = api[g].spec,
         \A d \in Deployments : d \in queue' => d \in queue
  PROVE  Mine(g)'
  BY DEF Mine, Deployed

\* Two graphs do not ask for the same object.
LEMMA NotShared ==
  ASSUME Disjoint, WatchInv, NEW g \in Graphs, NEW h \in Graphs, api[g].uid # 0,
         NEW r \in Wanted(api[g].spec), r \in AllOf(h)
  PROVE  g = h
<1>1. r \in AllOf(g)
  BY WantedOfGraph DEF WatchInv, GoodVersion
<1> QED
  BY <1>1 DEF Disjoint

LEMMA MineUser ==
  ASSUME Calm, Disjoint, TypeOK, WatchInv, WatchInv', OwnedInv, MineInv, NEW h \in Graphs,
         UserDelete(h) \/ \E spec \in SpecsOf[h] : UserCreate(h, spec) \/ UserEdit(h, spec)
  PROVE  MineInv'
<1> USE NamesAssumption
<1>0. /\ Quiescent /\ UNCHANGED <<cluster, dwatch, dcache, queue>>
      /\ \A k \in Graphs : k # h => api'[k] = api[k]
  BY UserDue
<1> SUFFICES ASSUME NEW g \in Graphs, api'[g].uid # 0 PROVE Mine(g)'
  BY DEF MineInv, Mine
<1>1. \A d \in Deployments : dwatch'[d] = <<>> /\ d \notin queue'
  BY <1>0 DEF Quiescent
<1>2. ASSUME NEW r \in Wanted(api'[g].spec), cluster'[r].owner # None
      PROVE  cluster'[r].owner = g /\ cluster'[r].uid = api'[g].uid
  <2>1. r \in AllOf(g)
    <3>1. api'[g].spec \in SpecsOf[g]
      BY DEF WatchInv, GoodVersion
    <3> QED
      BY <3>1, WantedOfGraph
  <2>2. r \in Resources
    BY DEF Wanted
  <2>3. /\ cluster[r].owner \in Graphs /\ cluster[r].uid # 0 /\ r \in AllOf(cluster[r].owner)
        /\ cluster[r].uid = api[cluster[r].owner].uid
    BY <1>0, <1>2, <2>2 DEF OwnedInv, Quiescent, IsGarbage
  <2>4. cluster[r].owner = g
    BY <2>1, <2>3 DEF Disjoint
  <2>5. api'[g].uid = api[g].uid
    <3>1. CASE g # h
      BY <1>0, <3>1
    <3>2. CASE g = h
      <4>1. api[h].uid # 0
        BY <2>3, <2>4, <3>2
      <4>2. ASSUME UserDelete(h) PROVE FALSE
        <5>1. api' = [api EXCEPT ![h] = NotFound] /\ api \in [Graphs -> Version]
          BY <4>2 DEF UserDelete, Write, TypeOK
        <5> QED
          BY <3>2, <5>1 DEF NotFound
      <4>3. PICK spec \in SpecsOf[h] : UserEdit(h, spec)
        BY <4>1, <4>2 DEF UserCreate
      <4> QED
        BY <3>2, <4>3 DEF UserEdit, Write, TypeOK, Version
    <3> QED
      BY <3>1, <3>2
  <2> QED
    BY <1>0, <2>3, <2>4, <2>5
<1>3. \A d \in Deployed(g)' : d \in Deployments
  BY DEF Deployed
<1> QED
  BY <1>1, <1>2, <1>3 DEF Mine

LEMMA MineDeliver ==
  ASSUME TypeOK, FollowsInv, NEW g \in Graphs, Mine(g), NEW x \in Deployments,
         DeliverDeployment(x)
  PROVE  Mine(g)'
<1> USE NamesAssumption
<1>1. /\ dwatch \in [Deployments -> Seq(Object)] /\ dcache \in [Deployments -> Object]
      /\ dwatch[x] # <<>> /\ UNCHANGED <<cluster, api>>
      /\ dcache' = [dcache EXCEPT ![x] = Head(dwatch[x])]
      /\ dwatch' = [dwatch EXCEPT ![x] = Tail(dwatch[x])]
      /\ queue' \subseteq queue \cup {x}
  BY DEF TypeOK, DeliverDeployment
<1> SUFFICES ASSUME api[g].uid # 0 PROVE Mine(g)'
  BY <1>1 DEF Mine
<1>2. ASSUME NEW d \in Deployed(g)
      PROVE  /\ \A k \in 1..Len(dwatch'[d]) : dwatch'[d][k].owner = g
             /\ dcache'[d].owner = None /\ dwatch'[d] # <<>> => ~IsAvailable(dwatch'[d][1])
             /\ d \in queue' => dcache'[d].owner = g
  <2>0. /\ \A k \in 1..Len(dwatch[d]) : dwatch[d][k].owner = g
        /\ dcache[d].owner = None /\ dwatch[d] # <<>> => ~IsAvailable(dwatch[d][1])
        /\ d \in queue => dcache[d].owner = g
        /\ d \in Deployments
    BY DEF Mine, Deployed
  <2>1. CASE d # x
    <3>1. dwatch'[d] = dwatch[d] /\ dcache'[d] = dcache[d] /\ (d \in queue' => d \in queue)
      BY <1>1, <2>0, <2>1
    <3> QED
      BY <2>0, <3>1
  <2>2. CASE d = x
    <3> DEFINE s == dwatch[d]
               t == Tail(s)
    <3>1. s \in Seq(Object) /\ s # <<>> /\ dwatch'[d] = t /\ dcache'[d] = Head(s)
      BY <1>1, <2>2
    <3>2. /\ Head(s) = s[1] /\ 1 \in 1..Len(s)
          /\ \A k \in 1..Len(t) : \E m \in 1..Len(s) : t[k] = s[m]
      BY <3>1, DeliverVersion
    <3>3. \A k \in 1..Len(s) : s[k].owner = g
      BY <2>0
    <3> HIDE DEF s, t
    <3>4. (\A k \in 1..Len(t) : t[k].owner = g) /\ dcache'[d].owner = g
      BY <3>1, <3>2, <3>3
    <3> QED
      BY <3>1, <3>4
  <2> QED
    BY <2>1, <2>2
<1>3. Deployed(g)' = Deployed(g)
  BY <1>1 DEF Deployed
<1> QED
  BY <1>1, <1>2, <1>3 DEF Mine

LEMMA MineNext ==
  ASSUME Calm, Disjoint, TypeOK, WatchInv, WorkerInv, OneBehind, PassCurrent, OwnedInv,
         FollowsInv, MineInv, [Next]_vars
  PROVE  MineInv'
<1> USE NamesAssumption, SpecAssumption
<1>0. ASSUME UNCHANGED <<cluster, dwatch, dcache>>, queue' \subseteq queue \cup Graphs,
             \A g \in Graphs : api'[g].uid = api[g].uid /\ api'[g].spec = api[g].spec
      PROVE  MineInv'
  BY <1>0, MineKept DEF MineInv
<1>q. queue \subseteq Graphs \cup Deployments
  BY DEF TypeOK
<1>1. CASE Working
  <2>1. /\ name \in Graphs /\ graph.spec = api[name].spec /\ graph.uid = api[name].uid
        /\ api[name].uid # 0 /\ UNCHANGED <<api, dcache, queue>>
        /\ Wanted(graph.spec) \subseteq AllOf(name)
        /\ FullPass => oldAnnotations \subseteq AllOf(name)
    BY <1>1, WorkingFrame, WantedOfGraph DEF WorkerInv, PassCurrent
  <2>2. ASSUME NEW r \in Resources, NEW o \in Object, FullPass, Touches(r, o), PutObject(r, o),
               NEW g \in Graphs
        PROVE  Mine(g)'
    <3>1. CASE o = cluster[r]
      <4>1. UNCHANGED <<cluster, dwatch>>
        BY <2>2, <3>1 DEF PutObject, TypeOK
      <4> QED
        BY <2>1, <4>1, MineKept DEF MineInv
    <3>2. CASE r \in oldAnnotations \ Wanted(graph.spec) /\ o = Absent
      <4>1. api[g].uid # 0 => r \notin Wanted(api[g].spec)
        BY <2>1, <2>2, <3>2, NotShared
      <4> QED
        BY <2>1, <2>2, <4>1, MinePut DEF MineInv
    <3>3. CASE /\ r \in Wanted(graph.spec)
               /\ o = [owner |-> name, uid |-> graph.uid, available |-> cluster[r].available]
      <4>1. api[g].uid # 0 /\ r \in Wanted(api[g].spec) => g = name
        BY <2>1, <3>3, NotShared
      <4>2. o.owner = name /\ o.uid = api[name].uid /\ o.available = cluster[r].available
        BY <2>1, <3>3
      <4>3. CASE r \in Deployments
        <5>1. cluster[r].owner = None => ~IsAvailable(o)
          BY <4>2, <4>3 DEF FollowsInv, Follows, Sound, IsAvailable
        <5> QED
          BY <2>1, <2>2, <4>1, <4>2, <5>1, MinePut DEF MineInv
      <4>4. CASE r \notin Deployments
        <5>1. dwatch' = dwatch
          BY <2>2, <4>4 DEF PutObject
        <5>2. cluster' = [cluster EXCEPT ![r] = o] /\ cluster \in [Resources -> Object]
          BY <2>2 DEF PutObject, TypeOK
        <5>3. \A y \in Wanted(api[g].spec) : y \in Resources
          BY DEF Wanted
        <5> QED
          BY <2>1, <4>1, <4>2, <5>1, <5>2, <5>3 DEF MineInv, Mine, Deployed
      <4> QED
        BY <4>3, <4>4
    <3> QED
      BY <2>2, <3>1, <3>2, <3>3 DEF Touches
  <2>3. CASE UNCHANGED <<cluster, dwatch>>
    BY <1>0, <2>1, <2>3
  <2> QED
    BY <1>1, <2>2, <2>3, WorkingObjects DEF MineInv
<1>2. CASE Failing
  BY <1>0, <1>2, FailingFrame
<1>3. CASE statusUpdate
  BY <1>0, <1>3, StatusStored
<1>4. CASE \/ \E x \in queue : ReconcileIgnored(x)
           \/ \E g \in Graphs : ReconcileGraph(g)
           \/ \E d \in Deployments : handleStatusUpdate(d)
           \/ UNCHANGED vars
  BY <1>0, <1>4 DEF ReconcileIgnored, ReconcileGraph, handleStatusUpdate, Dequeue, vars
<1>5. ASSUME NEW g \in Graphs, DeliverGraph(g)
      PROVE  MineInv'
  BY <1>0, <1>5, DeliverLast
<1>6. CASE Environment
  <2>1. ASSUME NEW h \in Graphs,
               UserDelete(h) \/ \E spec \in SpecsOf[h] : UserCreate(h, spec) \/ UserEdit(h, spec)
        PROVE  MineInv'
    BY <2>1, MineUser, WatchNext
  <2>2. ASSUME NEW d \in Deployments, FlipDeployment(d)
        PROVE  MineInv'
    <3>1. PICK o \in Object : /\ PutObject(d, o) /\ cluster[d].owner # None
                              /\ o.owner = cluster[d].owner /\ o.uid = cluster[d].uid
      BY <2>2, Flipped
    <3>2. UNCHANGED <<api, dcache, queue>>
      BY <2>2 DEF FlipDeployment
    <3> SUFFICES ASSUME NEW g \in Graphs PROVE Mine(g)'
      BY DEF MineInv
    <3>3. api[g].uid # 0 /\ d \in Wanted(api[g].spec) => o.owner = g /\ o.uid = api[g].uid
      BY <3>1 DEF MineInv, Mine
    <3> QED
      BY <3>1, <3>2, <3>3, MinePut DEF MineInv
  <2>3. CASE RestartManager
    <3>1. /\ UNCHANGED <<api, cluster>> /\ \A d \in Deployments : dwatch'[d] = <<>>
          /\ \A d \in Deployments : d \notin queue'
      BY <2>3 DEF RestartManager
    <3> SUFFICES ASSUME NEW g \in Graphs PROVE Mine(g)'
      BY DEF MineInv
    <3>2. \A d \in Deployed(g)' : d \in Deployments
      BY DEF Deployed
    <3> QED
      BY <3>1, <3>2 DEF MineInv, Mine
  <2> QED
    BY <1>6, <2>1, <2>2, <2>3 DEF Environment
<1>7. ASSUME NEW d \in Deployments, DeliverDeployment(d)
      PROVE  MineInv'
  BY <1>7, MineDeliver DEF MineInv
<1>8. ASSUME NEW r \in Resources, CollectGarbage(r)
      PROVE  MineInv'
  <2> SUFFICES ASSUME NEW g \in Graphs PROVE Mine(g)'
    BY DEF MineInv
  <2>1. api[g].uid # 0 => r \notin Wanted(api[g].spec)
    BY <1>8 DEF CollectGarbage, IsGarbage, MineInv, Mine
  <2> QED
    BY <1>8, <2>1, MinePut, AbsentType DEF CollectGarbage, MineInv
<1> QED
  BY <1>1, <1>2, <1>3, <1>4, <1>5, <1>6, <1>7, <1>8, NextCases
-----------------------------------------------------------------------------
(***************************************************************************)
(* The READY column.                                                       *)
(***************************************************************************)
\* The status will be collected again because a Deployment of g has changed.
Noticed(g) == \E d \in Deployed(g) : d \in queue

Available(S) == {d \in S : IsAvailable(dcache[d])}

\* A count of available Deployments that may miss those rolled out with a surge.
Counts(n, A) == n \in Cardinality(A \ Surging) .. Cardinality(A)

\* So many of these Deployments of g are available, or it will be noticed.
Right(g, n, S) == Noticed(g) \/ Counts(n, Available(S))

\* What is stored, unless it is being collected.
StatusOK(g) ==
  api[g].uid # 0 /\ ~Due(g) =>
    /\ api[g].status[2] = ExternalCount(api[g].spec)
    /\ api[g].status[3] = Cardinality(Deployed(g))
    /\ (Busy /\ name = g) \/ Right(g, api[g].status[1], Deployed(g))

\* What is collected will still be wanted when it is stored.
Telling == req \in Graphs \/ ~Due(name)

CountingOK ==
  /\ pc = "count" /\ Telling => /\ unread \subseteq Deployed(name)
                                /\ Right(name, readyCnt, Deployed(name) \ unread)
  /\ pc = "update" => graph.status[3] = Cardinality(graph.annotations \cap Deployments)
  /\ pc = "update" /\ Telling => Right(name, graph.status[1], Deployed(name))

ReadyInv == CountingOK /\ \A g \in Graphs : StatusOK(g)

\* The Deployments and everything that is known of them stay.
LEMMA RightKept ==
  ASSUME NEW g \in Graphs, NEW n, NEW S, api'[g].spec = api[g].spec, UNCHANGED dcache,
         \A d \in Deployed(g) : d \in queue => d \in queue'
  PROVE  Right(g, n, S) => Right(g, n, S)'
<1>1. Deployed(g)' = Deployed(g) /\ Available(S)' = Available(S)
  BY DEF Deployed, Available
<1> QED
  BY <1>1 DEF Right, Noticed

\* The informer's copy of a Deployment is replaced: if that changes the number of
\* available ones the Deployment is queued.
LEMMA RightDeliver ==
  ASSUME TypeOK, FollowsInv, MineInv, NEW x \in Deployments, DeliverDeployment(x),
         NEW g \in Graphs, api[g].uid # 0, NEW n, NEW S, S \subseteq Deployed(g), Right(g, n, S)
  PROVE  Right(g, n, S)'
<1> USE NamesAssumption
<1> DEFINE new == Head(dwatch[x])
<1>1. /\ dwatch[x] \in Seq(Object) /\ dwatch[x] # <<>> /\ dcache \in [Deployments -> Object]
      /\ dcache' = [dcache EXCEPT ![x] = new] /\ UNCHANGED api
      /\ queue' = IF /\ dcache[x].owner # None /\ new.owner # None
                     /\ IsAvailable(dcache[x]) # IsAvailable(new)
                  THEN queue \cup {x} ELSE queue
  BY DEF TypeOK, DeliverDeployment, isDeploymentStatusChanged
<1>2. new = dwatch[x][1] /\ 1 \in 1..Len(dwatch[x])
  BY <1>1, DeliverVersion
<1> HIDE DEF new
<1>3. Deployed(g)' = Deployed(g) /\ queue \subseteq queue'
  BY <1>1 DEF Deployed
<1>4. CASE Noticed(g)
  BY <1>3, <1>4 DEF Right, Noticed
<1>5. CASE x \in Deployed(g) /\ IsAvailable(dcache[x]) # IsAvailable(new)
  <2>1. /\ \A k \in 1..Len(dwatch[x]) : dwatch[x][k].owner = g
        /\ dcache[x].owner = None => ~IsAvailable(dwatch[x][1])
        /\ dcache[x].owner = None => ~IsAvailable(dcache[x])
    BY <1>1, <1>5 DEF MineInv, Mine, FollowsInv, Follows, Sound
  <2>2. new.owner = g
    BY <1>2, <2>1
  <2>5. dcache[x].owner # None
    BY <1>2, <1>5, <2>1 DEF IsAvailable
  <2>6. x \in queue'
    BY <1>1, <1>5, <2>2, <2>5
  <2> QED
    BY <1>3, <1>5, <2>6 DEF Right, Noticed
<1>6. CASE ~Noticed(g) /\ ~(x \in Deployed(g) /\ IsAvailable(dcache[x]) # IsAvailable(new))
  <2>1. \A d \in S : IsAvailable(dcache'[d]) = IsAvailable(dcache[d])
    BY <1>1, <1>6 DEF Deployed
  <2>2. Available(S)' = Available(S)
    BY <2>1 DEF Available
  <2> QED
    BY <1>6, <2>2 DEF Right
<1> QED
  BY <1>4, <1>5, <1>6

LEMMA DeployedFinite ==
  ASSUME NEW g, NEW S \in SUBSET Deployed(g)
  PROVE  IsFiniteSet(S) /\ IsFiniteSet(Available(S)) /\ Cardinality(Available(S)) \in Nat
<1>1. IsFiniteSet(Resources) /\ S \in SUBSET Resources /\ Available(S) \in SUBSET Resources
  BY NamesAssumption DEF Deployed, Wanted, Available
<1> QED
  BY <1>1, FS_Subset, FS_CardinalityType

LEMMA NothingCounted == Counts(0, {})
<1>1. {} \ Surging = {} /\ Cardinality({}) = 0
  BY FS_EmptySet
<1> QED
  BY <1>1 DEF Counts

\* One more Deployment is available, and counted unless it surges.
LEMMA CountsAdd ==
  ASSUME NEW A, IsFiniteSet(A), NEW d, d \notin A, NEW n, Counts(n, A)
  PROVE  /\ Counts(n + 1, A \cup {d})
         /\ d \in Surging => Counts(n, A \cup {d})
<1>1. IsFiniteSet(A \ Surging) /\ d \notin A \ Surging
  BY FS_Subset
<1>2. /\ Cardinality(A) \in Nat /\ Cardinality(A \ Surging) \in Nat
      /\ Cardinality(A \cup {d}) = Cardinality(A) + 1
      /\ Cardinality((A \ Surging) \cup {d}) = Cardinality(A \ Surging) + 1
  BY <1>1, FS_CardinalityType, FS_AddElement
<1>3. (A \cup {d}) \ Surging = IF d \in Surging THEN A \ Surging ELSE (A \ Surging) \cup {d}
  OBVIOUS
<1>4. n \in Int /\ Cardinality(A \ Surging) <= n /\ n <= Cardinality(A)
  BY <1>2 DEF Counts
<1>5. Cardinality((A \cup {d}) \ Surging) \in
        {Cardinality(A \ Surging), Cardinality(A \ Surging) + 1}
  BY <1>2, <1>3
<1>6. d \in Surging => Cardinality((A \cup {d}) \ Surging) = Cardinality(A \ Surging)
  BY <1>3
<1> QED
  BY <1>2, <1>4, <1>5, <1>6 DEF Counts

\* What the pass records is what the graph asks for, if it matters.
LEMMA TellingRecord ==
  ASSUME TypeOK, WorkerInv, PassCurrent, RecordedInv, Collecting, Telling
  PROVE  graph.annotations = Wanted(api[name].spec)
<1>1. /\ Busy /\ name \in Graphs /\ graph.spec = api[name].spec /\ api[name].uid # 0
      /\ req \notin Graphs => graph.annotations = api[name].annotations
      /\ req \in Graphs => graph.annotations = Wanted(graph.spec)
  BY DEF Collecting, Busy, WorkerInv, PassCurrent
<1> QED
  BY <1>1 DEF Telling, RecordedInv, Recorded

LEMMA CountingWorking ==
  ASSUME TypeOK, WorkerInv, PassCurrent, RecordedInv, FollowsInv, CountingOK, Working
  PROVE  CountingOK'
<1> USE NamesAssumption
<1>0. /\ name \in Graphs /\ UNCHANGED <<api, dcache, queue, req, name>>
      /\ Telling' <=> Telling
      /\ Deployed(name)' = Deployed(name) /\ Noticed(name)' = Noticed(name)
  <2>1. name \in Graphs /\ UNCHANGED <<api, dcache, queue, req, name>>
    BY WorkingFrame DEF WorkerInv
  <2>2. Due(name)' <=> Due(name)
    BY <2>1, WorkingFrame DEF Due, InPass
  <2> QED
    BY <2>1, <2>2 DEF Telling, Deployed, Noticed
<1>1. CASE collectResourceStatus
  <2>1. /\ pc = "collect" /\ pc' = "count" /\ readyCnt' = 0
        /\ unread' = graph.annotations \cap Deployments
    BY <1>1 DEF collectResourceStatus
  <2>2. ASSUME Telling
        PROVE  /\ unread' \subseteq Deployed(name)'
               /\ Right(name, readyCnt, Deployed(name) \ unread)'
    <3>1. unread' = Deployed(name)
      BY <2>1, <2>2, TellingRecord DEF Collecting, Deployed
    <3>2. (Deployed(name) \ unread)' = {}
      BY <1>0, <3>1
    <3>3. Available(Deployed(name) \ unread)' = {}
      BY <3>2 DEF Available
    <3> QED
      BY <1>0, <2>1, <3>1, <3>3, NothingCounted DEF Right
  <2> QED
    BY <1>0, <2>1, <2>2 DEF CountingOK
<1>2. ASSUME NEW d \in Deployments, CountDeployment(d)
      PROVE  CountingOK'
  <2>1. /\ pc = "count" /\ pc' = "count" /\ d \in unread /\ unread' = unread \ {d}
        /\ readyCnt' = IF dcache[d].owner # None /\ dcache[d].available = Replicas
                       THEN readyCnt + 1 ELSE readyCnt
    BY <1>2 DEF CountDeployment
  <2>2. ASSUME Telling
        PROVE  /\ unread' \subseteq Deployed(name)'
               /\ Right(name, readyCnt, Deployed(name) \ unread)'
    <3> DEFINE S == Deployed(name) \ unread
    <3>0. unread \subseteq Deployed(name) /\ Right(name, readyCnt, S)
      BY <2>1, <2>2 DEF CountingOK
    <3>1. (Deployed(name) \ unread)' = S \cup {d} /\ d \notin S /\ S \in SUBSET Deployed(name)
      BY <1>0, <2>1, <3>0
    <3>2. /\ dcache[d].owner = None => ~IsAvailable(dcache[d])
          /\ dcache[d].available > Replicas => d \in Surging
          /\ dcache[d].available \in Nat
      BY DEF FollowsInv, Follows, Sound, TypeOK, Object
    <3>3. Available(Deployed(name) \ unread)' =
            IF IsAvailable(dcache[d]) THEN Available(S) \cup {d} ELSE Available(S)
      BY <1>0, <3>1 DEF Available
    <3>4. IsFiniteSet(Available(S)) /\ d \notin Available(S)
      BY <3>1, DeployedFinite DEF Available
    <3>5. Counts(readyCnt, Available(S)) =>
            /\ Counts(readyCnt + 1, Available(S) \cup {d})
            /\ d \in Surging => Counts(readyCnt, Available(S) \cup {d})
      BY <3>4, CountsAdd
    <3> HIDE DEF S
    <3>6. Counts(readyCnt, Available(S)) =>
            Counts(readyCnt', Available(Deployed(name) \ unread)')
      <4>1. CASE ~IsAvailable(dcache[d])
        BY <2>1, <3>2, <3>3, <4>1 DEF IsAvailable, Replicas
      <4>2. CASE IsAvailable(dcache[d]) /\ dcache[d].available = Replicas
        BY <2>1, <3>2, <3>3, <3>5, <4>2
      <4>3. CASE IsAvailable(dcache[d]) /\ dcache[d].available > Replicas
        BY <2>1, <3>2, <3>3, <3>5, <4>3 DEF Replicas
      <4> QED
        BY <3>2, <4>1, <4>2, <4>3 DEF IsAvailable, Replicas
    <3> QED
      BY <1>0, <2>1, <3>0, <3>6 DEF Right
  <2> QED
    BY <1>0, <2>1, <2>2 DEF CountingOK
<1>3. CASE getLatestGraph
  <2>1. /\ pc = "count" /\ pc' = "update" /\ unread = {}
        /\ graph'.annotations = graph.annotations
        /\ graph'.status[1] = readyCnt
        /\ graph'.status[3] = Cardinality(graph.annotations \cap Deployments)
    <3>1. graph \in Version
      BY DEF TypeOK
    <3>2. graph'.status = <<readyCnt, graph.status[2],
                            Cardinality(graph.annotations \cap Deployments)>>
          /\ graph'.annotations = graph.annotations
      BY <1>3, <3>1 DEF getLatestGraph, Version
    <3> QED
      BY <1>3, <3>2 DEF getLatestGraph
  <2>2. ASSUME Telling PROVE Right(name, graph.status[1], Deployed(name))'
    <3>1. Right(name, readyCnt, Deployed(name) \ unread)
      BY <2>1, <2>2 DEF CountingOK
    <3>2. Deployed(name) \ unread = Deployed(name)
      BY <2>1
    <3>3. Available(Deployed(name))' = Available(Deployed(name))
      BY <1>0 DEF Available
    <3> QED
      BY <1>0, <2>1, <3>1, <3>2, <3>3 DEF Right
  <2> QED
    BY <1>0, <2>1, <2>2 DEF CountingOK
<1>4. CASE ~ \/ collectResourceStatus
             \/ \E d \in Deployments : CountDeployment(d)
             \/ getLatestGraph
  <2>1. pc' \notin {"count", "update"}
    BY <1>4 DEF Working, EnterNode, LeaveNode, SkipStep, EnterStep, AtStep,
       reconcileResource, recordResources, EnterRouter, reconcileRouterService, EnterPrune,
       deleteRecordedResource, deleteRecordedResourceFails, ResetStatus
  <2> QED
    BY <2>1 DEF CountingOK
<1> QED
  BY <1>1, <1>2, <1>3, <1>4

\* What is stored for g, and what is known of its Deployments, stays.
LEMMA StatusKept ==
  ASSUME NEW g \in Graphs, StatusOK(g), UNCHANGED dcache,
         api'[g].uid = api[g].uid, api'[g].spec = api[g].spec, api'[g].status = api[g].status,
         api[g].uid # 0 /\ Due(g) => Due(g)',
         Busy /\ name = g => Busy' /\ name' = g,
         \/ \A d \in Deployed(g) : d \in queue => d \in queue'
         \/ Busy' /\ name' = g
  PROVE  StatusOK(g)'
<1> SUFFICES ASSUME api[g].uid # 0, ~Due(g) PROVE StatusOK(g)'
  BY DEF StatusOK
<1>1. /\ api[g].status[2] = ExternalCount(api[g].spec)
      /\ api[g].status[3] = Cardinality(Deployed(g))
      /\ (Busy /\ name = g) \/ Right(g, api[g].status[1], Deployed(g))
  BY DEF StatusOK
<1>2. Deployed(g)' = Deployed(g)
  BY DEF Deployed
<1>3. ExternalCount(api[g].spec)' = ExternalCount(api[g].spec)
  BY DEF ExternalCount
<1>4. (Busy /\ name = g)' \/ Right(g, api[g].status[1], Deployed(g))'
  <2>1. CASE Busy' /\ name' = g
    BY <2>1
  <2>2. CASE ~(Busy' /\ name' = g)
    <3>1. Right(g, api[g].status[1], Deployed(g))
      BY <1>1, <2>2
    <3>2. PICK n, S : n = api[g].status[1] /\ S = Deployed(g)
      OBVIOUS
    <3>3. Right(g, n, S)'
      BY <2>2, <3>1, <3>2, RightKept
    <3>4. Available(Deployed(g))' = Available(S)'
      BY <1>2, <3>2 DEF Available
    <3> QED
      BY <3>2, <3>3, <3>4 DEF Right
  <2> QED
    BY <2>1, <2>2
<1> QED
  BY <1>1, <1>2, <1>3, <1>4 DEF StatusOK

\* A pass ends with an error: its graph is queued, or was due.
LEMMA StatusFailing ==
  ASSUME "status" \notin Faults, TypeOK, WorkerInv, PassCurrent, RecordedInv, Failing,
         NEW g \in Graphs, StatusOK(g)
  PROVE  StatusOK(g)'
<1> USE NamesAssumption
<1>1. /\ Busy /\ UNCHANGED <<api, dcache, cache, req, name>> /\ name \in Graphs
      /\ req \in Graphs => name = req
      /\ queue' = IF req \in Graphs THEN queue \cup {req} ELSE queue
  BY FailingFrame DEF WorkerInv
<1>2. Due(g) => Due(g)'
  BY DueFailing
<1>3. CASE g # name
  BY <1>1, <1>2, <1>3, StatusKept
<1>4. CASE g = name /\ req \in Graphs
  BY <1>1, <1>4 DEF StatusOK, Due
<1>5. CASE g = name /\ req \notin Graphs
  <2>1. ~statusUpdateFails
    BY <1>1 DEF statusUpdateFails, IsCurrent, PassCurrent
  <2>2. ~reconcileResourceFails /\ ~reconcileRouterServiceFails
    BY <1>5 DEF reconcileResourceFails, reconcileRouterServiceFails, WorkerInv, FullPass
  <2>3. graph.annotations = {}
    BY <2>1, <2>2 DEF Failing, collectResourceStatusFails
  <2>4. api[g].annotations = {} /\ api[g].uid # 0
    BY <1>1, <1>5, <2>3 DEF PassCurrent
  <2>5. Due(g)
    BY <2>4 DEF RecordedInv, Recorded
  <2> QED
    BY <1>2, <2>5 DEF StatusOK
<1> QED
  BY <1>3, <1>4, <1>5

\* What was collected is stored.
LEMMA StatusUpdated ==
  ASSUME TypeOK, WorkerInv, PassCurrent, RecordedInv, ExternalInv, CountingOK, statusUpdate,
         NEW g \in Graphs, StatusOK(g)
  PROVE  StatusOK(g)'
<1> USE NamesAssumption
<1>0. /\ name \in Graphs /\ Busy /\ pc = "update" /\ pc' = "idle"
      /\ api'[name].status = graph.status
      /\ api'[g].spec = api[g].spec /\ api'[g].uid = api[g].uid
      /\ g # name => api'[g] = api[g]
      /\ UNCHANGED <<cache, dcache, queue, req, name>>
      /\ req \in Graphs => name = req
  BY StatusStored DEF statusUpdate
<1>1. CASE g # name
  <2>1. Due(g) => Due(g)'
    BY <1>0, <1>1 DEF Due, InPass
  <2> QED
    BY <1>0, <1>1, <2>1, StatusKept
<1>2. CASE g = name
  <2> SUFFICES ASSUME api[g].uid # 0, ~Due(g)' PROVE StatusOK(g)'
    BY <1>0 DEF StatusOK
  <2>1. Telling
    BY <1>0, <1>2 DEF Telling, Due, InPass
  <2>2. graph.annotations \cap Deployments = Deployed(g)
    BY <1>0, <1>2, <2>1, TellingRecord DEF Collecting, Deployed
  <2>3. /\ graph.status[3] = Cardinality(Deployed(g))
        /\ Right(g, graph.status[1], Deployed(g))
    BY <1>0, <1>2, <2>1, <2>2 DEF CountingOK
  <2>4. graph.status[2] = ExternalCount(api[g].spec)
    <3>1. CASE req \in Graphs
      BY <1>0, <1>2, <3>1 DEF ExternalInv, Collecting, PassCurrent
    <3>2. CASE req \notin Graphs
      <4>1. ~Due(g)
        BY <1>2, <2>1, <3>2 DEF Telling
      <4> QED
        BY <1>0, <1>2, <3>2, <4>1 DEF ExternalInv, Collecting, StatusOK
    <3> QED
      BY <3>1, <3>2
  <2>5. /\ Deployed(g)' = Deployed(g) /\ Available(Deployed(g))' = Available(Deployed(g))
        /\ Noticed(g)' = Noticed(g) /\ ExternalCount(api[g].spec)' = ExternalCount(api[g].spec)
    BY <1>0 DEF Deployed, Available, Noticed, ExternalCount
  <2> QED
    BY <1>0, <1>2, <2>3, <2>4, <2>5 DEF StatusOK, Right
<1> QED
  BY <1>1, <1>2

\* Something else happens while Reconcile is where it is.
LEMMA CountingKept ==
  ASSUME TypeOK, WorkerInv, CountingOK, UNCHANGED <<api, cache, dcache, workerVars>>,
         queue \subseteq queue'
  PROVE  CountingOK'
<1> SUFFICES ASSUME pc \in {"count", "update"} PROVE CountingOK'
  BY DEF CountingOK
<1>1. name \in Graphs
  BY DEF WorkerInv, Busy
<1>2. Telling' => Telling
  BY <1>1, DueKept DEF Telling
<1>3. Deployed(name)' = Deployed(name)
  BY DEF Deployed
<1>4. \A n, S : Right(name, n, S) => Noticed(name)' \/ Counts(n, Available(S))
  BY <1>3 DEF Right, Noticed
<1>5. /\ Available(Deployed(name) \ unread)' = Available(Deployed(name) \ unread)
      /\ Available(Deployed(name))' = Available(Deployed(name))
  BY <1>3 DEF Available
<1> QED
  BY <1>2, <1>3, <1>4, <1>5 DEF CountingOK, Right

LEMMA CountingDeliver ==
  ASSUME TypeOK, WorkerInv, PassCurrent, FollowsInv, MineInv, CountingOK,
         NEW d \in Deployments, DeliverDeployment(d)
  PROVE  CountingOK'
<1> SUFFICES ASSUME pc \in {"count", "update"} PROVE CountingOK'
  BY DEF CountingOK, DeliverDeployment
<1>1. name \in Graphs /\ api[name].uid # 0
  BY DEF WorkerInv, PassCurrent, Busy
<1>2. UNCHANGED <<api, cache, workerVars>> /\ queue \subseteq queue'
  BY DEF DeliverDeployment
<1>3. Telling' => Telling
  BY <1>1, <1>2, DueKept DEF Telling
<1>4. Deployed(name)' = Deployed(name)
  BY <1>2 DEF Deployed
<1>5. ASSUME NEW n, NEW S, S \subseteq Deployed(name), Right(name, n, S)
      PROVE  Noticed(name)' \/ Counts(n, Available(S)')
  <2>1. PICK g \in Graphs : g = name
    BY <1>1
  <2>2. Right(g, n, S)'
    BY <1>1, <1>5, <2>1, RightDeliver
  <2>3. Noticed(g)' = Noticed(name)'
    BY <1>2, <2>1 DEF Noticed, Deployed
  <2> QED
    BY <2>2, <2>3 DEF Right
<1>6. CASE pc = "count" /\ Telling
  <2>0. PICK S : S = Deployed(name) \ unread
    OBVIOUS
  <2>1. unread \subseteq Deployed(name) /\ Right(name, readyCnt, S) /\ S \subseteq Deployed(name)
    BY <1>6, <2>0 DEF CountingOK
  <2>2. Available(Deployed(name) \ unread)' = Available(S)'
    BY <1>2, <1>4, <2>0 DEF Available
  <2>3. Noticed(name)' \/ Counts(readyCnt, Available(S)')
    BY <1>5, <2>1
  <2>4. Right(name, readyCnt, Deployed(name) \ unread)'
    BY <1>2, <2>2, <2>3 DEF Right
  <2>5. pc' = "count" /\ unread' \subseteq Deployed(name)'
    BY <1>2, <1>4, <1>6, <2>1
  <2> QED
    BY <2>4, <2>5 DEF CountingOK
<1>7. CASE pc = "update" /\ Telling
  <2>0. PICK S : S = Deployed(name)
    OBVIOUS
  <2>1. Right(name, graph.status[1], S)
    BY <1>7, <2>0 DEF CountingOK
  <2>2. Noticed(name)' \/ Counts(graph.status[1], Available(S)')
    BY <1>5, <2>0, <2>1
  <2>3. Available(Deployed(name))' = Available(S)'
    BY <1>4, <2>0 DEF Available
  <2>4. Right(name, graph.status[1], Deployed(name))'
    BY <1>2, <2>2, <2>3 DEF Right
  <2>5. /\ pc' = "update"
        /\ graph'.status[3] = Cardinality(graph'.annotations \cap Deployments)
    BY <1>2, <1>7 DEF CountingOK
  <2> QED
    BY <2>4, <2>5 DEF CountingOK
<1>8. CASE ~Telling
  BY <1>2, <1>3, <1>8 DEF CountingOK
<1> QED
  BY <1>6, <1>7, <1>8

LEMMA StatusDeliver ==
  ASSUME TypeOK, FollowsInv, MineInv, NEW d \in Deployments, DeliverDeployment(d),
         NEW g \in Graphs, StatusOK(g)
  PROVE  StatusOK(g)'
<1>1. UNCHANGED <<api, cache, workerVars>> /\ queue \subseteq queue'
  BY DEF DeliverDeployment
<1>2. Due(g) => Due(g)'
  BY <1>1, DueKept
<1> SUFFICES ASSUME api[g].uid # 0, ~Due(g) PROVE StatusOK(g)'
  BY <1>1, <1>2 DEF StatusOK
<1>3. Deployed(g)' = Deployed(g)
  BY <1>1 DEF Deployed
<1>4. ExternalCount(api[g].spec)' = ExternalCount(api[g].spec)
  BY <1>1 DEF ExternalCount
<1>5. ASSUME Right(g, api[g].status[1], Deployed(g))
      PROVE  Right(g, api[g].status[1], Deployed(g))'
  <2>1. PICK n, S : n = api[g].status[1] /\ S = Deployed(g)
    OBVIOUS
  <2>2. Right(g, n, S)'
    BY <1>5, <2>1, RightDeliver
  <2>3. Available(Deployed(g))' = Available(S)'
    BY <1>3, <2>1 DEF Available
  <2> QED
    BY <1>1, <2>1, <2>2, <2>3 DEF Right
<1>6. (Busy /\ name = g)' <=> (Busy /\ name = g)
  BY <1>1 DEF Busy
<1> QED
  BY <1>1, <1>3, <1>4, <1>5, <1>6 DEF StatusOK

LEMMA ReadyNext ==
  ASSUME Calm, Disjoint, "status" \notin Faults, TypeOK, WatchInv, WorkerInv, OneBehind,
         PassCurrent, RecordedInv, ExternalInv, FollowsInv, MineInv, ReadyInv, [Next]_vars
  PROVE  ReadyInv'
<1> USE NamesAssumption, SpecAssumption
<1>0. CountingOK /\ \A g \in Graphs : StatusOK(g)
  BY DEF ReadyInv
<1>i. ASSUME pc' \notin {"count", "update"} PROVE CountingOK'
  BY <1>i DEF CountingOK
<1>1. CASE Working
  <2>1. CountingOK'
    BY <1>0, <1>1, CountingWorking
  <2>2. ASSUME NEW g \in Graphs PROVE StatusOK(g)'
    <3>1. UNCHANGED <<api, dcache, queue, name>> /\ Busy' /\ (Due(g) => Due(g)')
      BY <1>1, WorkingFrame, DueWorking
    <3> QED
      BY <1>0, <3>1, StatusKept
  <2> QED
    BY <2>1, <2>2 DEF ReadyInv
<1>2. CASE Failing
  BY <1>0, <1>2, <1>i, FailingFrame, StatusFailing DEF ReadyInv
<1>3. CASE statusUpdate
  BY <1>0, <1>3, <1>i, StatusUpdated DEF ReadyInv, statusUpdate
<1>4. ASSUME NEW x \in queue, ReconcileIgnored(x)
      PROVE  ReadyInv'
  <2>1. /\ UNCHANGED <<api, dcache, workerVars>> /\ queue' = queue \ {x} /\ pc = "idle"
        /\ CachesSynced /\ (x \notin Graphs => ~HasGraph(x))
    BY <1>4 DEF ReconcileIgnored, Dequeue, Calm, Busy
  <2>2. ASSUME NEW g \in Graphs PROVE StatusOK(g)'
    <3>1. Due(g) => Due(g)'
      BY <1>4, DueIgnored
    <3>2. api[g].uid # 0 => x \notin Deployed(g)
      <4> SUFFICES ASSUME api[g].uid # 0, x \in Deployed(g) PROVE FALSE
        OBVIOUS
      <4>1. dcache[x].owner = g /\ x \notin Graphs
        BY DEF MineInv, Mine, Deployed
      <4>2. cache[g] = api[g]
        BY <2>1, SyncedCache
      <4> QED
        BY <2>1, <4>1, <4>2 DEF HasGraph
    <3>3. CASE api[g].uid = 0
      BY <2>1, <3>3 DEF StatusOK
    <3>4. CASE api[g].uid # 0
      BY <1>0, <2>1, <3>1, <3>2, <3>4, StatusKept DEF Busy
    <3> QED
      BY <3>3, <3>4
  <2> QED
    BY <1>i, <2>1, <2>2 DEF ReadyInv
<1>5. ASSUME NEW h \in Graphs, ReconcileGraph(h)
      PROVE  ReadyInv'
  <2>1. UNCHANGED <<api, dcache>> /\ queue' = queue \ {h} /\ ~Busy /\ pc' = "nodes"
    BY <1>5 DEF ReconcileGraph, Dequeue
  <2>2. ASSUME NEW g \in Graphs PROVE StatusOK(g)'
    <3>1. Due(g) => Due(g)'
      BY <1>5, DueStart
    <3>2. h \notin Deployed(g)
      BY DEF Deployed
    <3> QED
      BY <1>0, <2>1, <3>1, <3>2, StatusKept
  <2> QED
    BY <1>i, <2>1, <2>2 DEF ReadyInv
<1>6. ASSUME NEW d \in Deployments, handleStatusUpdate(d)
      PROVE  ReadyInv'
  <2>1. /\ UNCHANGED <<api, dcache>> /\ queue' = queue \ {d} /\ ~Busy /\ pc' = "collect"
        /\ Busy' /\ name' = dcache[d].owner /\ d \in queue
    BY <1>6 DEF handleStatusUpdate, Dequeue, Busy
  <2>2. ASSUME NEW g \in Graphs PROVE StatusOK(g)'
    <3>1. Due(g) => Due(g)'
      BY <1>6, DueStatus
    <3>2. CASE api[g].uid = 0
      BY <2>1, <3>2 DEF StatusOK
    <3>3. CASE api[g].uid # 0
      <4>1. d \in Deployed(g) => name' = g
        BY <2>1, <3>3 DEF MineInv, Mine
      <4> QED
        BY <1>0, <2>1, <3>1, <4>1, StatusKept
    <3> QED
      BY <3>2, <3>3
  <2> QED
    BY <1>i, <2>1, <2>2 DEF ReadyInv
<1>7. ASSUME NEW h \in Graphs,
             UserDelete(h) \/ \E spec \in SpecsOf[h] : UserCreate(h, spec) \/ UserEdit(h, spec)
      PROVE  ReadyInv'
  <2>1. /\ api'[h].uid # 0 => Due(h)'
        /\ \A g \in Graphs : g # h => api'[g] = api[g]
        /\ ~Busy /\ UNCHANGED <<cache, queue, dcache, workerVars>>
    BY <1>7, UserDue
  <2>2. ASSUME NEW g \in Graphs PROVE StatusOK(g)'
    <3>1. CASE g = h
      BY <2>1, <3>1 DEF StatusOK
    <3>2. CASE g # h
      <4>1. Due(g) => Due(g)'
        BY <2>1, <3>2 DEF Due, InPass, Busy
      <4> QED
        BY <1>0, <2>1, <3>2, <4>1, StatusKept
    <3> QED
      BY <3>1, <3>2
  <2> QED
    BY <1>i, <2>1, <2>2 DEF ReadyInv, Busy
<1>8. CASE RestartManager
  <2>1. \A g \in Graphs : api'[g].uid # 0 => Due(g)'
    BY <1>8 DEF RestartManager, Due
  <2> QED
    BY <1>8, <1>i, <2>1 DEF RestartManager, StatusOK, ReadyInv
<1>9. CASE \/ \E d \in Deployments : FlipDeployment(d)
           \/ \E r \in Resources : CollectGarbage(r)
           \/ UNCHANGED vars
  <2>1. UNCHANGED <<api, cache, dcache, queue, workerVars>>
    BY <1>9 DEF FlipDeployment, CollectGarbage, vars
  <2>2. ASSUME NEW g \in Graphs PROVE StatusOK(g)'
    BY <1>0, <2>1, DueKept, StatusKept DEF Busy
  <2> QED
    BY <1>0, <2>1, <2>2, CountingKept DEF ReadyInv
<1>10. ASSUME NEW h \in Graphs, DeliverGraph(h)
       PROVE  ReadyInv'
  <2>1. UNCHANGED <<api, dcache, workerVars>> /\ queue \subseteq queue' /\ ~CachesSynced
    BY <1>10, DeliverLast
  <2>2. ~Busy
    BY <2>1 DEF PassCurrent
  <2>3. ASSUME NEW g \in Graphs PROVE StatusOK(g)'
    <3>1. api[g].uid # 0 /\ Due(g) => Due(g)'
      BY <1>10, DueDeliver
    <3> QED
      BY <1>0, <2>1, <2>2, <3>1, StatusKept
  <2> QED
    BY <1>i, <2>1, <2>2, <2>3 DEF ReadyInv, Busy
<1>11. ASSUME NEW d \in Deployments, DeliverDeployment(d)
       PROVE  ReadyInv'
  BY <1>0, <1>11, CountingDeliver, StatusDeliver DEF ReadyInv
<1> QED
  BY <1>1, <1>2, <1>3, <1>4, <1>5, <1>6, <1>7, <1>8, <1>9, <1>10, <1>11, NextCases
     DEF Environment

\* The Deployments of g that are available.
Up(g) == {d \in Deployed(g) : IsAvailable(cluster[d])}

\* What the READY column rests on, when no two graphs share an object and no
\* status update fails.
ReadyParts == ExternalInv /\ FollowsInv /\ MineInv /\ ReadyInv

\* If users wait until everything has settled, passes start with up-to-date
\* caches, no status update fails and no two graphs share an object, then once
\* everything has settled the READY column (collectResourceStatus, lines 482-543)
\* counts no Deployment that is not available and misses none but those that are
\* rolled out with a surge: the ones whose Available condition flipped while
\* Reconcile was counting, and those that were made or deleted, have been counted
\* again.
THEOREM SettledReadyCorrect ==
  Calm /\ Disjoint /\ "status" \notin Faults => (Spec => []SettledReady)
<1> SUFFICES ASSUME Calm, Disjoint, "status" \notin Faults PROVE Spec => []SettledReady
  OBVIOUS
<1>1. Init => ReadyParts
  <2> SUFFICES ASSUME Init PROVE ReadyParts
    OBVIOUS
  <2>1. ExternalInv
    BY DEF Init, ExternalInv, FullPass, Collecting
  <2>2. FollowsInv
    <3> SUFFICES ASSUME NEW d \in Deployments PROVE Follows(d)
      BY DEF FollowsInv
    <3>1. dwatch[d] = <<>> /\ dcache[d] = Absent /\ cluster[d] = Absent
      BY NamesAssumption DEF Init
    <3> QED
      BY <3>1 DEF Follows, Sound, Absent, IsAvailable, Replicas
  <2>3. \A g \in Graphs : api[g].uid = 0
    BY DEF Init, NotFound
  <2>4. MineInv /\ ReadyInv
    BY <2>3 DEF MineInv, Mine, ReadyInv, StatusOK, CountingOK, Init
  <2> QED
    BY <2>1, <2>2, <2>4 DEF ReadyParts
<1>2. TypeOK /\ WatchInv /\ WorkerInv /\ CalmInv /\ ReadyParts /\ [Next]_vars => ReadyParts'
  BY ExternalNext, FollowsNext, MineNext, ReadyNext DEF CalmInv, ReadyParts
<1>3. TypeOK /\ WatchInv /\ CalmInv /\ ReadyParts => SettledReady
  <2> SUFFICES ASSUME TypeOK, WatchInv, CalmInv, ReadyParts, Quiescent,
                      NEW g \in Graphs, api[g].uid # 0
               PROVE  \E n : /\ Counts(n, Up(g))
                             /\ api[g].status = <<n, ExternalCount(api[g].spec),
                                                  Cardinality(Deployed(g))>>
    BY DEF SettledReady, Deployed, Counts, Up
  <2>1. ~Due(g) /\ ~Busy /\ ~Noticed(g)
    BY QuiescentNotDue DEF Quiescent, Busy, Noticed
  <2>2. \A d \in Deployed(g) : dcache[d] = cluster[d]
    BY DEF Deployed, Quiescent, ReadyParts, FollowsInv, Follows
  <2>3. Available(Deployed(g)) = Up(g)
    BY <2>2 DEF Available, Up
  <2>4. /\ Counts(api[g].status[1], Up(g))
        /\ api[g].status[2] = ExternalCount(api[g].spec)
        /\ api[g].status[3] = Cardinality(Deployed(g))
    BY <2>1, <2>3 DEF ReadyParts, ReadyInv, StatusOK, Right
  <2>5. api[g].status \in Seq(Nat) /\ Len(api[g].status) = 3
    BY <2>1 DEF TypeOK, Version, WatchInv, GoodVersion, CalmInv, RecordedInv, Recorded
  <2>6. PICK s \in Seq(Nat) : s = api[g].status
    BY <2>5
  <2>7. s = <<s[1], s[2], s[3]>>
    BY <2>5, <2>6
  <2> QED
    BY <2>4, <2>6, <2>7
<1> QED
  BY <1>1, <1>2, <1>3, CalmCorrect, ReconcilerInvariant, PTL DEF Spec
=============================================================================
