--------------------------- MODULE GMCReconciler ---------------------------
(***************************************************************************)
(* The GMConnector controller (internal/controller/gmconnector_controller) *)
(* with the parts of Kubernetes it works against: the API server's copies  *)
(* of the custom resources, the informer caches the controller reads them  *)
(* from, the work queue, the garbage collector, the users.                 *)
(*                                                                         *)
(* There is one worker (MaxConcurrentReconciles is left at its default).   *)
(* Between any two of its calls to the API server the rest of the cluster  *)
(* may move: this is what the actions are cut at.                          *)
(***************************************************************************)
EXTENDS Naturals, Sequences, FiniteSets, Functions

CONSTANTS
  Graphs,          \* names of GMConnector custom resources (one namespace)
  Nodes,           \* names of the router nodes of a graph
  Steps,           \* steps a node may list
  External,        \* steps with an ExternalService
  Nested,          \* steps with a NodeName
  Resources,       \* Kubernetes objects, by "kind:apiVersion:name:namespace"
  Deployments,     \* the ones of kind Deployment
  Surging,         \* the ones the cluster rolls out with a pod too many
  Unusable,        \* objects the controller cannot build or own
  Manifest,        \* the objects in a step's yaml template, in order
  SpecsOf,         \* the specs the users may write for a graph
  None,            \* no owner
  Faults,          \* the calls that may fail: "apply", "delete", "status"
  EagerUser,       \* TRUE: users edit while the controller is working
  PromptInformers, \* TRUE: a reconcile starts with up-to-date caches
  MaxEdits, MaxFaults, MaxFlips, MaxRestarts,  \* bounds on the environment
  MaxLag           \* versions of a Deployment it may leave undelivered

(***************************************************************************)
(* Spec.Nodes is a map from node names to step lists; a node the user did  *)
(* not define has no steps.  router is what gmc-router.yaml expands to for *)
(* the spec's RouterConfig.                                                *)
(***************************************************************************)
SpecType == [nodes : [Nodes -> Seq(Steps)], router : Seq(Resources)]

NoSpec == [nodes |-> [n \in Nodes |-> <<>>], router |-> <<>>]

ASSUME NamesAssumption ==
  /\ Graphs \cap Resources = {}
  /\ None \notin Graphs
  /\ IsFiniteSet(Resources)
  /\ Deployments \subseteq Resources
  /\ Surging \subseteq Deployments

ASSUME SpecAssumption ==
  /\ Manifest \in [Steps -> Seq(Resources)]
  /\ SpecsOf \in [Graphs -> SUBSET SpecType]

ASSUME BoundAssumption ==
  /\ {MaxEdits, MaxFaults, MaxFlips, MaxRestarts, MaxLag} \subseteq Nat
  /\ EagerUser \in BOOLEAN
  /\ PromptInformers \in BOOLEAN

IsInternal(s) == s \notin Nested /\ s \notin External

\* Every object the spec asks for: those of its internal steps and the router.
Wanted(spec) ==
  {r \in Resources :
     \/ r \in Range(spec.router)
     \/ \E n \in Nodes : \E s \in Range(spec.nodes[n]) :
          IsInternal(s) /\ r \in Range(Manifest[s])}

\* The steps that count as external services.
ExternalCount(spec) ==
  Cardinality({p \in UNION {{n} \X DOMAIN spec.nodes[n] : n \in Nodes} :
                 spec.nodes[p[1]][p[2]] \in External \ Nested})

-----------------------------------------------------------------------------
(***************************************************************************)
(* A version of a custom resource.  uid 0 is "not found".  status is the   *)
(* "ready/external/total" string as the list of its numbers, <<>> when it  *)
(* is empty; annotations keeps the keys (the recorded resources).          *)
(***************************************************************************)
Version == [uid : Nat, rv : Nat, spec : SpecType,
            annotations : SUBSET Resources, status : Seq(Nat)]

NotFound == [uid |-> 0, rv |-> 0, spec |-> NoSpec,
             annotations |-> {}, status |-> <<>>]

\* Spec.Replicas of every Deployment in the templates.
Replicas == 1

\* A cluster object: its controller reference, and the AvailableReplicas of a
\* Deployment, which a rolling update brings above Replicas for a while.
Object == [owner : Graphs \cup {None}, uid : Nat, available : 0 .. Replicas + 1]

Absent == [owner |-> None, uid |-> 0, available |-> 0]

\* The Available condition: with one replica none may be missing.
IsAvailable(o) == o.available >= Replicas

VARIABLES
  api,        \* the API server's latest version of each custom resource
  rev,        \* revisions used so far, per custom resource
  watch,      \* versions on their way to the informer
  cache,      \* the informer's version, what r.Get returns
  cluster,    \* the live objects
  dwatch,     \* Deployment versions on their way to the informer
  dcache,     \* the informer's Deployments
  queue,      \* the work queue: names of graphs and of Deployments
  used        \* how much of each bound the environment has used

apiVars == <<api, rev, watch>>
objVars == <<cluster, dwatch>>
cacheVars == <<cache, dcache>>

VARIABLES
  pc,             \* where the worker is
  req,            \* the request it is working on
  name,           \* graph.Name
  graph,          \* Reconcile's local copy of the custom resource
  oldAnnotations, \* recorded resources that are still to be compared
  doneNodes,      \* nodes already ranged over
  nodeName, i,    \* the node and the step being reconciled
  j,              \* the next object of the step's (or the router's) template
  externalService,
  unread,         \* collectResourceStatus: Deployments still to be counted
  readyCnt

loopVars == <<doneNodes, nodeName, i, j, externalService>>
countVars == <<unread, readyCnt>>
workerVars == <<pc, req, name, graph, oldAnnotations, loopVars, countVars>>

vars == <<api, rev, watch, cache, cluster, dwatch, dcache, queue, used,
          pc, req, name, graph, oldAnnotations, doneNodes, nodeName, i, j,
          externalService, unread, readyCnt>>

BoundName == {"edits", "faults", "flips", "restarts"}

Bound == [edits |-> MaxEdits, faults |-> MaxFaults,
          flips |-> MaxFlips, restarts |-> MaxRestarts]

Spend(b) == /\ used[b] < Bound[b]
            /\ used' = [used EXCEPT ![b] = @ + 1]

Init ==
  /\ api = [g \in Graphs |-> NotFound]
  /\ rev = [g \in Graphs |-> 0]
  /\ watch = [g \in Graphs |-> <<>>]
  /\ cache = [g \in Graphs |-> NotFound]
  /\ cluster = [r \in Resources |-> Absent]
  /\ dwatch = [d \in Deployments |-> <<>>]
  /\ dcache = [d \in Deployments |-> Absent]
  /\ queue = {}
  /\ used = [b \in BoundName |-> 0]
  /\ pc = "idle"
  /\ req = None
  /\ name = None
  /\ graph = NotFound
  /\ oldAnnotations = {}
  /\ doneNodes = {}
  /\ nodeName = None
  /\ i = 1
  /\ j = 1
  /\ externalService = 0
  /\ unread = {}
  /\ readyCnt = 0
-----------------------------------------------------------------------------
(***************************************************************************)
(* The API server and the cluster's other actors.                          *)
(***************************************************************************)
\* The API server stores a version of g and sends it to the watchers.
Write(g, version) ==
  /\ rev' = [rev EXCEPT ![g] = @ + 1]
  /\ api' = [api EXCEPT ![g] = version]
  /\ watch' = [watch EXCEPT ![g] = Append(@, version)]

\* An object is stored; a Deployment's new version is sent to the watchers.
PutObject(r, o) ==
  /\ cluster' = [cluster EXCEPT ![r] = o]
  /\ dwatch' = IF r \in Deployments /\ cluster[r] # o
               THEN [dwatch EXCEPT ![r] = Append(@, o)]
               ELSE dwatch

\* The owner is gone: there is no such graph, or another one of that name.
IsGarbage(r) == /\ cluster[r].owner # None
                /\ api[cluster[r].owner].uid # cluster[r].uid

\* Nothing is left to do for the controller or for the cluster.
Quiescent ==
  /\ pc = "idle"
  /\ queue = {}
  /\ \A g \in Graphs : watch[g] = <<>>
  /\ \A d \in Deployments : dwatch[d] = <<>>
  /\ \A r \in Resources : ~IsGarbage(r)

\* The environment changes r only while the informer is not too far behind.
LagBounded(r) == r \in Deployments => Len(dwatch[r]) < MaxLag

UserMayAct == EagerUser \/ Quiescent

\* kubectl create: the status subresource is dropped on creation.
UserCreate(g, spec) ==
  /\ UserMayAct
  /\ api[g].uid = 0
  /\ Spend("edits")
  /\ Write(g, [uid |-> rev[g] + 1, rv |-> rev[g] + 1, spec |-> spec,
               annotations |-> {}, status |-> <<>>])
  /\ UNCHANGED <<cacheVars, objVars, queue, workerVars>>

\* kubectl apply of another spec: the status is kept.
UserEdit(g, spec) ==
  /\ UserMayAct
  /\ api[g].uid # 0
  /\ api[g].spec # spec
  /\ Spend("edits")
  /\ Write(g, [api[g] EXCEPT !.spec = spec, !.rv = rev[g] + 1])
  /\ UNCHANGED <<cacheVars, objVars, queue, workerVars>>

\* kubectl delete: the controller sets no finalizer, the resource is gone.
UserDelete(g) ==
  /\ UserMayAct
  /\ api[g].uid # 0
  /\ Spend("edits")
  /\ Write(g, NotFound)
  /\ UNCHANGED <<cacheVars, objVars, queue, workerVars>>

\* The garbage collector removes an object whose controller owner is gone.
CollectGarbage(r) ==
  /\ IsGarbage(r)
  /\ LagBounded(r)
  /\ PutObject(r, Absent)
  /\ UNCHANGED <<apiVars, cacheVars, queue, used, workerVars>>

\* The pods of a Deployment come and go; in a rolling update the new pod is
\* available before the old one is removed (maxSurge 25% of one pod is one).
FlipDeployment(d) ==
  /\ cluster[d].owner # None
  /\ LagBounded(d)
  /\ Spend("flips")
  /\ \E n \in 0 .. Replicas + 1 :
       /\ n # cluster[d].available
       /\ n > Replicas => d \in Surging
       /\ PutObject(d, [cluster[d] EXCEPT !.available = n])
  /\ UNCHANGED <<apiVars, cacheVars, queue, workerVars>>

\* Predicate of the GMConnector watch.  Creations and deletions pass.  Labels,
\* the other part of isMetadataChanged, are not modelled.
isGMCSpecOrMetadataChanged(old, new) == old.spec # new.spec

\* The informer stores the next version and calls the event handler.
DeliverGraph(g) ==
  /\ watch[g] # <<>>
  /\ LET new == Head(watch[g]) IN
     /\ cache' = [cache EXCEPT ![g] = new]
     /\ queue' = IF \/ cache[g].uid = 0
                    \/ new.uid = 0
                    \/ isGMCSpecOrMetadataChanged(cache[g], new)
                 THEN queue \cup {g} ELSE queue
  /\ watch' = [watch EXCEPT ![g] = Tail(@)]
  /\ UNCHANGED <<api, rev, dcache, objVars, used, workerVars>>

\* Mutant: only a Deployment that becomes available is noticed.
isDeploymentStatusChanged_Up(old, new) == IsAvailable(new) /\ ~IsAvailable(old)

\* Predicate of the Deployment watch: the Available condition has changed.
isDeploymentStatusChanged(old, new) == IsAvailable(old) # IsAvailable(new)

\* Mutant: the owner is queued, for deletions too.
DeliverDeployment_Owner(d) ==
  /\ dwatch[d] # <<>>
  /\ dcache' = [dcache EXCEPT ![d] = Head(dwatch[d])]
  /\ queue' = queue \cup {Head(dwatch[d]).owner}
  /\ dwatch' = [dwatch EXCEPT ![d] = Tail(@)]
  /\ UNCHANGED <<apiVars, cache, cluster, used, workerVars>>

\* As above; creations and deletions of Deployments are filtered out.
DeliverDeployment(d) ==
  /\ dwatch[d] # <<>>
  /\ LET new == Head(dwatch[d]) IN
     /\ dcache' = [dcache EXCEPT ![d] = new]
     /\ queue' = IF /\ dcache[d].owner # None
                    /\ new.owner # None
                    /\ isDeploymentStatusChanged(dcache[d], new)
                 THEN queue \cup {d} ELSE queue
  /\ dwatch' = [dwatch EXCEPT ![d] = Tail(@)]
  /\ UNCHANGED <<apiVars, cache, cluster, used, workerVars>>
-----------------------------------------------------------------------------
(***************************************************************************)
(* The worker.                                                             *)
(***************************************************************************)
Busy == pc # "idle"

\* Mutant: an error is not put back into the queue.
Fail_Forget ==
  /\ pc' = "idle"
  /\ UNCHANGED <<apiVars, cacheVars, objVars, queue, req, name, graph,
                 oldAnnotations, loopVars, countVars>>

\* Mutant: Reconcile tries again instead of returning the error.
Fail_Loop ==
  /\ pc' = IF req \in Graphs THEN "nodes" ELSE "idle"
  /\ doneNodes' = {}
  /\ UNCHANGED <<apiVars, cacheVars, objVars, queue, req, name, graph, oldAnnotations,
                 nodeName, i, j, externalService, countVars>>

\* An error returned by Reconcile puts the request back into the queue; one
\* returned to handleStatusUpdate does not: it returns err, which is nil there.
Fail ==
  /\ pc' = "idle"
  /\ queue' = IF req \in Graphs THEN queue \cup {req} ELSE queue
  /\ UNCHANGED <<apiVars, cacheVars, objVars, req, name, graph,
                 oldAnnotations, loopVars, countVars>>

CachesSynced == \A g \in Graphs : watch[g] = <<>>

\* A request leaves the queue.
Dequeue(x) ==
  /\ ~Busy
  /\ x \in queue
  /\ PromptInformers => CachesSynced
  /\ queue' = queue \ {x}
  /\ UNCHANGED <<apiVars, cacheVars, objVars, used, nodeName, i, j, countVars>>

\* The Deployment is in the cache and so is the graph that owns it.
HasGraph(d) == /\ dcache[d].owner # None
               /\ cache[dcache[d].owner].uid # 0

\* Mutant: a request for something that does not exist is queued again.
ReconcileIgnored_Requeue(x) ==
  /\ ~Busy
  /\ IF x \in Graphs THEN cache[x].uid = 0 ELSE ~HasGraph(x)
  /\ UNCHANGED vars

\* Neither a graph nor a Deployment of that name, or nobody's Deployment.
ReconcileIgnored(x) ==
  /\ Dequeue(x)
  /\ IF x \in Graphs THEN cache[x].uid = 0 ELSE ~HasGraph(x)
  /\ UNCHANGED <<pc, req, name, graph, oldAnnotations, doneNodes, externalService>>

\* Mutant: the annotations of the previous pass are kept.
ReconcileGraph_KeepOld(g) ==
  /\ Dequeue(g)
  /\ cache[g].uid # 0
  /\ pc' = "nodes"
  /\ req' = g
  /\ name' = g
  /\ graph' = cache[g]
  /\ oldAnnotations' = cache[g].annotations
  /\ doneNodes' = {}
  /\ externalService' = 0

\* The name of a graph: the full reconcile, with a fresh map of annotations.
ReconcileGraph(g) ==
  /\ Dequeue(g)
  /\ cache[g].uid # 0
  /\ pc' = "nodes"
  /\ req' = g
  /\ name' = g
  /\ graph' = [cache[g] EXCEPT !.annotations = {}]
  /\ oldAnnotations' = cache[g].annotations
  /\ doneNodes' = {}
  /\ externalService' = 0

\* The name of a Deployment: its owner's status is collected again.
handleStatusUpdate(d) ==
  /\ Dequeue(d)
  /\ HasGraph(d)
  /\ pc' = "collect"
  /\ req' = d
  /\ name' = dcache[d].owner
  /\ graph' = cache[dcache[d].owner]
  /\ UNCHANGED <<oldAnnotations, doneNodes, externalService>>

\* range graph.Spec.Nodes: a map, in any order.
EnterNode(n) ==
  /\ pc = "nodes"
  /\ n \in Nodes \ doneNodes
  /\ pc' = "steps"
  /\ nodeName' = n
  /\ i' = 1
  /\ UNCHANGED <<apiVars, cacheVars, objVars, queue, used, req, name, graph,
                 oldAnnotations, doneNodes, j, externalService, countVars>>

LeaveNode ==
  /\ pc = "steps"
  /\ i > Len(graph.spec.nodes[nodeName])
  /\ pc' = "nodes"
  /\ doneNodes' = doneNodes \cup {nodeName}
  /\ UNCHANGED <<apiVars, cacheVars, objVars, queue, used, req, name, graph,
                 oldAnnotations, nodeName, i, j, externalService, countVars>>

step == graph.spec.nodes[nodeName][i]

AtStep == pc = "steps" /\ i <= Len(graph.spec.nodes[nodeName])

\* Nothing to deploy: a nested step is skipped, an external one is counted.
SkipStep ==
  /\ AtStep
  /\ ~IsInternal(step)
  /\ i' = i + 1
  /\ externalService' = IF step \in Nested THEN externalService
                        ELSE externalService + 1
  /\ UNCHANGED <<apiVars, cacheVars, objVars, queue, used, pc, req, name, graph,
                 oldAnnotations, doneNodes, nodeName, j, countVars>>

EnterStep ==
  /\ AtStep
  /\ IsInternal(step)
  /\ pc' = "apply"
  /\ j' = 1
  /\ UNCHANGED <<apiVars, cacheVars, objVars, queue, used, req, name, graph,
                 oldAnnotations, doneNodes, nodeName, i, externalService, countVars>>

\* Get, then Create or Update under optimistic concurrency: the write that
\* succeeds is one atomic step, the retries before it change nothing.
applyResourceToK8s(r) ==
  /\ r \notin Unusable
  /\ PutObject(r, [owner |-> name, uid |-> graph.uid,
                   available |-> cluster[r].available])

\* A refused object, or a failed Create, a minute of failing Gets and Updates.
applyResourceFails(r) ==
  \/ r \in Unusable /\ UNCHANGED used
  \/ "apply" \in Faults /\ Spend("faults")

\* reconcileResource, one object of the step's template.
reconcileResource ==
  /\ pc = "apply"
  /\ j <= Len(Manifest[step])
  /\ applyResourceToK8s(Manifest[step][j])
  /\ j' = j + 1
  /\ UNCHANGED <<apiVars, cacheVars, queue, used, pc, req, name, graph,
                 oldAnnotations, doneNodes, nodeName, i, externalService, countVars>>

\* reconcileResource fails: the objects it has applied stay and are not recorded.
reconcileResourceFails ==
  /\ pc = "apply"
  /\ j <= Len(Manifest[step])
  /\ applyResourceFails(Manifest[step][j])
  /\ Fail

\* Mutant: the step's objects replace those recorded before.
recordResources_Replace ==
  /\ pc = "apply"
  /\ j > Len(Manifest[step])
  /\ pc' = "steps"
  /\ graph' = [graph EXCEPT !.annotations = Range(Manifest[step])]
  /\ i' = i + 1
  /\ UNCHANGED <<apiVars, cacheVars, objVars, queue, used, req, name,
                 oldAnnotations, doneNodes, nodeName, j, externalService, countVars>>

\* reconcileResource returns the step's objects: all of them are recorded.
recordResources ==
  /\ pc = "apply"
  /\ j > Len(Manifest[step])
  /\ pc' = "steps"
  /\ graph' = [graph EXCEPT !.annotations = @ \cup Range(Manifest[step])]
  /\ i' = i + 1
  /\ UNCHANGED <<apiVars, cacheVars, objVars, queue, used, req, name,
                 oldAnnotations, doneNodes, nodeName, j, externalService, countVars>>

EnterRouter ==
  /\ pc = "nodes"
  /\ doneNodes = Nodes
  /\ pc' = "router"
  /\ j' = 1
  /\ UNCHANGED <<apiVars, cacheVars, objVars, queue, used, req, name, graph,
                 oldAnnotations, doneNodes, nodeName, i, externalService, countVars>>

\* Each of the router's objects is applied and recorded.
reconcileRouterService ==
  /\ pc = "router"
  /\ j <= Len(graph.spec.router)
  /\ applyResourceToK8s(graph.spec.router[j])
  /\ graph' = [graph EXCEPT !.annotations = @ \cup {graph.spec.router[j]}]
  /\ j' = j + 1
  /\ UNCHANGED <<apiVars, cacheVars, queue, used, pc, req, name,
                 oldAnnotations, doneNodes, nodeName, i, externalService, countVars>>

reconcileRouterServiceFails ==
  /\ pc = "router"
  /\ j <= Len(graph.spec.router)
  /\ applyResourceFails(graph.spec.router[j])
  /\ Fail

EnterPrune ==
  /\ pc = "router"
  /\ j > Len(graph.spec.router)
  /\ pc' = "prune"
  /\ UNCHANGED <<apiVars, cacheVars, objVars, queue, used, req, name, graph,
                 oldAnnotations, loopVars, countVars>>

\* Mutant: what the graph no longer has is not looked for.
Stale_None == {}

\* Mutant: all that was recorded is deleted, to be made anew by the next pass.
Stale_All == oldAnnotations

\* Recorded by the previous pass and not by this one.
Stale == oldAnnotations \ graph.annotations

\* A recorded resource the graph no longer has is deleted, by name.
deleteRecordedResource(r) ==
  /\ pc = "prune"
  /\ r \in Stale
  /\ PutObject(r, Absent)
  /\ oldAnnotations' = oldAnnotations \ {r}
  /\ UNCHANGED <<apiVars, cacheVars, queue, used, pc, req, name, graph,
                 loopVars, countVars>>

\* The deletion fails: the error is logged and the key forgotten all the same.
deleteRecordedResourceFails(r) ==
  /\ pc = "prune"
  /\ r \in Stale
  /\ "delete" \in Faults
  /\ Spend("faults")
  /\ oldAnnotations' = oldAnnotations \ {r}
  /\ UNCHANGED <<apiVars, cacheVars, objVars, queue, pc, req, name, graph,
                 loopVars, countVars>>

\* Mutant: the status is left as it was.
ResetStatus_Missing ==
  /\ pc = "prune"
  /\ Stale = {}
  /\ pc' = "collect"
  /\ UNCHANGED <<apiVars, cacheVars, objVars, queue, used, req, name, graph,
                 oldAnnotations, loopVars, countVars>>

\* graph.Status.Status = "0/external/0"
ResetStatus ==
  /\ pc = "prune"
  /\ Stale = {}
  /\ pc' = "collect"
  /\ graph' = [graph EXCEPT !.status = <<0, externalService, 0>>]
  /\ UNCHANGED <<apiVars, cacheVars, objVars, queue, used, req, name,
                 oldAnnotations, loopVars, countVars>>

collectResourceStatus ==
  /\ pc = "collect"
  /\ graph.annotations # {}
  /\ pc' = "count"
  /\ unread' = graph.annotations \cap Deployments
  /\ readyCnt' = 0
  /\ UNCHANGED <<apiVars, cacheVars, objVars, queue, used, req, name, graph,
                 oldAnnotations, loopVars>>

\* "graph is empty or no annotations"
collectResourceStatusFails ==
  /\ pc = "collect"
  /\ graph.annotations = {}
  /\ Fail
  /\ UNCHANGED used

\* A Deployment is ready when AvailableReplicas is exactly Replicas; one the cache
\* does not have yet is counted, as not ready.
CountDeployment(d) ==
  /\ pc = "count"
  /\ d \in unread
  /\ unread' = unread \ {d}
  /\ readyCnt' = IF dcache[d].owner # None /\ dcache[d].available = Replicas
                 THEN readyCnt + 1 ELSE readyCnt
  /\ UNCHANGED <<apiVars, cacheVars, objVars, queue, used, pc, req, name, graph,
                 oldAnnotations, loopVars>>

\* The counts, and the revision of the version that is in the cache by now.
getLatestGraph ==
  /\ pc = "count"
  /\ unread = {}
  /\ pc' = "update"
  /\ graph' = [graph EXCEPT
       !.status = <<readyCnt, graph.status[2],
                    Cardinality(graph.annotations \cap Deployments)>>,
       !.rv = IF cache[name].uid = 0 THEN @ ELSE cache[name].rv]
  /\ UNCHANGED <<apiVars, cacheVars, objVars, queue, used, req, name,
                 oldAnnotations, loopVars, countVars>>

\* The precondition the API server checks on Status().Update.
IsCurrent == /\ api[name].uid = graph.uid
             /\ api[name].rv = graph.rv

\* The status of the stored resource is replaced.  The annotations' values hold
\* free text (conditions, messages), so the write makes a new version.
statusUpdate ==
  /\ pc = "update"
  /\ IsCurrent
  /\ Write(name, [api[name] EXCEPT !.annotations = graph.annotations,
                                   !.status = graph.status,
                                   !.rv = rev[name] + 1])
  /\ pc' = "idle"
  /\ UNCHANGED <<cacheVars, objVars, queue, used, req, name, graph,
                 oldAnnotations, loopVars, countVars>>

statusUpdateFails ==
  /\ pc = "update"
  /\ \/ ~IsCurrent /\ UNCHANGED used
     \/ "status" \in Faults /\ Spend("faults")
  /\ Fail

\* The manager is restarted: queue and local state are lost, the caches are
\* filled again and the initial list is a creation event for every graph.
RestartManager ==
  /\ Spend("restarts")
  /\ pc' = "idle"
  /\ cache' = api
  /\ watch' = [g \in Graphs |-> <<>>]
  /\ dcache' = [d \in Deployments |-> cluster[d]]
  /\ dwatch' = [d \in Deployments |-> <<>>]
  /\ queue' = {g \in Graphs : api[g].uid # 0}
  /\ UNCHANGED <<api, rev, cluster, req, name, graph, oldAnnotations,
                 loopVars, countVars>>
-----------------------------------------------------------------------------
Work ==
  \/ \E x \in queue : ReconcileIgnored(x)
  \/ \E g \in Graphs : ReconcileGraph(g)
  \/ \E d \in Deployments : handleStatusUpdate(d)
  \/ \E n \in Nodes : EnterNode(n)
  \/ LeaveNode
  \/ SkipStep
  \/ EnterStep
  \/ reconcileResource
  \/ recordResources
  \/ EnterRouter
  \/ reconcileRouterService
  \/ EnterPrune
  \/ \E r \in Resources : deleteRecordedResource(r)
  \/ ResetStatus
  \/ collectResourceStatus
  \/ collectResourceStatusFails
  \/ \E d \in Deployments : CountDeployment(d)
  \/ getLatestGraph
  \/ statusUpdate

WorkFails ==
  \/ reconcileResourceFails
  \/ reconcileRouterServiceFails
  \/ \E r \in Resources : deleteRecordedResourceFails(r)
  \/ statusUpdateFails

Environment ==
  \/ \E g \in Graphs : \E spec \in SpecsOf[g] : UserCreate(g, spec)
  \/ \E g \in Graphs : \E spec \in SpecsOf[g] : UserEdit(g, spec)
  \/ \E g \in Graphs : UserDelete(g)
  \/ \E d \in Deployments : FlipDeployment(d)
  \/ RestartManager

Next ==
  \/ Work
  \/ WorkFails
  \/ Environment
  \/ \E g \in Graphs : DeliverGraph(g)
  \/ \E d \in Deployments : DeliverDeployment(d)
  \/ \E r \in Resources : CollectGarbage(r)

Spec == Init /\ [][Next]_vars

\* The worker goroutine keeps running, the work queue is first-in-first-out,
\* the informers deliver and the garbage collector collects.  Users, Deployments
\* and restarts owe nothing.
Fairness ==
  /\ WF_vars(Work \/ WorkFails)
  /\ \A g \in Graphs : SF_vars(ReconcileGraph(g))
  /\ \A g \in Graphs : WF_vars(DeliverGraph(g))
  /\ \A d \in Deployments : WF_vars(DeliverDeployment(d))
  /\ \A r \in Resources : WF_vars(CollectGarbage(r))

FairSpec == Spec /\ Fairness
-----------------------------------------------------------------------------
(***************************************************************************)
(* Properties.                                                             *)
(***************************************************************************)
\* The values the state of the cluster and of the worker range over.
TypeOK ==
  /\ api \in [Graphs -> Version]
  /\ rev \in [Graphs -> Nat]
  /\ watch \in [Graphs -> Seq(Version)]
  /\ cache \in [Graphs -> Version]
  /\ cluster \in [Resources -> Object]
  /\ dwatch \in [Deployments -> Seq(Object)]
  /\ dcache \in [Deployments -> Object]
  /\ queue \subseteq Graphs \cup Deployments
  /\ used \in [BoundName -> Nat]
  /\ pc \in {"idle", "nodes", "steps", "apply", "router", "prune",
             "collect", "count", "update"}
  /\ req \in Graphs \cup Deployments \cup {None}
  /\ name \in Graphs \cup {None}
  /\ graph \in Version
  /\ oldAnnotations \subseteq Resources
  /\ doneNodes \subseteq Nodes
  /\ nodeName \in Nodes \cup {None}
  /\ i \in Nat \ {0}
  /\ j \in Nat \ {0}
  /\ externalService \in Nat
  /\ unread \subseteq Deployments
  /\ readyCnt \in Nat

\* When Reconcile starts to delete, and until it stores the status, its new
\* annotations are exactly what the spec asks for: two steps that share an
\* object, any order of the nodes and a retry after a failure all lead there,
\* so the pruning loop (lines 424-432) never deletes a wanted object.
RecordsWanted ==
  pc \in {"prune", "collect", "count", "update"} /\ req \in Graphs =>
    graph.annotations = Wanted(graph.spec)

\* collectResourceStatus splits Status.Status at "/" and takes the second part
\* (line 522): there always is one.
StatusParses == pc = "count" => Len(graph.status) = 3

\* Once everything has settled every object the stored spec asks for is there
\* and belongs to this graph, whatever edits, stale reads, conflicts, failed
\* calls and restarts came before.
SettledComplete ==
  Quiescent => \A g \in Graphs : api[g].uid # 0 =>
    \A r \in Wanted(api[g].spec) : /\ cluster[r].owner = g
                                   /\ cluster[r].uid = api[g].uid

\* Once everything has settled a graph has no other object than those its spec
\* asks for: what an edit removed from the spec has been deleted.
SettledExact ==
  Quiescent => \A r \in Resources : cluster[r].owner # None =>
    r \in Wanted(api[cluster[r].owner].spec)

\* Once everything has settled the stored annotations name what the spec asks
\* for: they are what the next edit's deletions are computed from.
SettledRecorded ==
  Quiescent => \A g \in Graphs : api[g].uid # 0 =>
    api[g].annotations = Wanted(api[g].spec)

\* Once everything has settled the READY column has counted no Deployment that is
\* not available (lines 482-543), and every available one, except that a count
\* made while a rolling update had a pod too many misses that Deployment: line
\* 517 wants exactly Replicas, and the end of the update, which leaves the
\* Available condition alone, is no event (lines 851-877).  The numbers of
\* external services and of Deployments are exact.
SettledReady ==
  Quiescent => \A g \in Graphs : api[g].uid # 0 =>
    LET deployed == Wanted(api[g].spec) \cap Deployments
        up == {d \in deployed : IsAvailable(cluster[d])}
    IN \E n \in Cardinality(up \ Surging) .. Cardinality(up) :
         api[g].status = <<n, ExternalCount(api[g].spec), Cardinality(deployed)>>

\* Retries end: conflicts, stale caches and failed calls that stop occurring do
\* not keep the controller busy for ever, and a deleted graph's objects go away.
EventuallySettles == []<>Quiescent

\* A graph whose template can never be applied is retried for ever by the only
\* worker; the other graphs are served all the same.
OthersServed ==
  \A g \in Graphs :
    []<>( \/ api[g].uid = 0
          \/ Wanted(api[g].spec) \cap Unusable # {}
          \/ \A r \in Wanted(api[g].spec) : /\ cluster[r].owner = g
                                           /\ cluster[r].uid = api[g].uid )
=============================================================================
