# TLA+ models of GenAIInfra

This directory holds TLA+ specifications of the parts of GenAIInfra that have
behaviour worth checking: the GenAI Microservices Connector (GMC), i.e. the
Kubernetes controller in `microservices-connector/internal/controller` and the
router service in `microservices-connector/cmd/router`, and the memory bandwidth
exporter in `kubernetes-addons/memory-bandwidth-exporter`.  Every definition
that models code is listed in `PROJECT.json` under `map` with its
lines; below, line numbers refer to those files.

## 1. The system and its parts

| Part | State | Operations | Hard because |
|---|---|---|---|
| GMConnector controller | none of its own between passes but the work queue and informer caches; it stores its memory (annotations, status) in the custom resource | `Reconcile`, `handleStatusUpdate`, `collectResourceStatus`, two watches | edits during a pass, lagging caches, failing calls, restarts, garbage collection |
| Router, graph endpoint | requests in progress, semaphore | `mcGraphHandler`, `routeStep`, three pipelines, `callService` | goroutines, unbuffered channels, timeouts racing answers, nested nodes |
| Router, data / UI / asset endpoints | none | `mcDataHandler`, `mcUiHandler`, `mcAssetHandler` | error paths, conversion of messages |
| Template expansion | the copy of the graph in a pass, with the steps' URLs | `reconcileResource`, `recordResource`, `getServiceURL`, `getDownstreamSvcEndpoint`, `reconcileRouterService` | names, labels and URLs made at different places; accepted graphs that cannot be applied |
| Validating webhook | none | `ValidateCreate`, `ValidateUpdate` | which specs it lets through, with nodes in the order of a map |
| Webhook configuration, manager start-up | one cluster-wide object; the manager's CA | `main`, `GenerateX509Cert`, `CreateOrUpdateValidatingWebhookConfiguration` | several managers, each with its own CA; exits during calls |
| Exporter, container side | maps of containers and statistics, a channel of 100 events, a monitoring group per container | plugin requests, `processContainerData`, `housekeeping`, `updateStats`, `updatePids` | maps shared by goroutines without a lock, lost events, containers ending between two steps |
| Exporter, scrapes | caches of the class and node collectors | `ServeHTTP`, `Collect`, `execute`, `Update`, `updateClasses`, `updateStats` | scrapes beside the loops that fill the caches |
| Guardrails filter (Envoy) | buffered body | `decodeHeaders`, `decodeData`, ... | body and headers arrive separately |
| Charts, manifests, Terraform, CI | - | - | data, not behaviour |

How they interact: a user stores a GMConnector; the webhook checks it; the
controller applies the objects of each step and of the router, records them in
`Status.Annotations` and counts available Deployments into the READY column.
The router is started with the graph as JSON and executes it on each request.
The exporter is independent of both.

What makes them correct:

* controller: what the stored spec asks for is eventually there, nothing else
  is left over, the record of it and the READY column are true, retries end, one
  bad graph does not stop the others;
* router: steps get the input the graph says, a failed hard dependency stops a
  Sequence, an Ensemble merges everything, every request gets one answer, its
  own, and calls never wait for each other in a circle;
* exporter: every running container is measured, metrics of a container go away
  with it, rates come from two samples in order, every scrape is answered.

## 2. Plan

1. `GMCReconciler` - the controller with API server, caches, queue, garbage
   collector. *Done; all its invariants proved*, the settled ones under the conditions
   of their runs.
2. `GMCRouter` - the graph endpoint. *Done; all its invariants proved*, from an
   invariant that relates an execution to its parent.
3. `ContainerCollector`, `ClassCollector` - the exporter. *Done; all invariants
   proved.*
4. `GraphValidation`, `Admission`, `ValidatedStore` - the webhook, its
   registration by several managers, and what admission promises. *Done; the
   refinement is proved.*
5. `GraphExpansion`, `RouterEndpoints`, `GraphLife` - from an accepted graph to
   the URLs its router calls, the data, UI and asset endpoints, and both together.
   *Done; proved.*
6. `GMCRouted` - what the routers in the cluster have been given while their graph
   is edited. *Done; proved.*

## 3. Modules

| Module | What it is |
|---|---|
| `GMCReconciler` | specification and properties of the controller |
| `GMCInvariant` | its inductive invariant |
| `GMCServedProofs` | theorems about it |
| `GMCCalmProofs` | theorems about it when users and informers are calm |
| `GMCRouted` | the controller with a record of the graph each router was given |
| `GMCRoutedProofs` | theorem about it |
| `MCReconciler`, `MCRouted`, `MCTwoGraphs` | instances: one graph edited between two specs, without and with that record; two graphs, one of which cannot be reconciled |
| `GraphValidation` | the webhook's checks of a step and what a valid graph is |
| `ValidatedStore` | abstract specification: a store that takes valid graphs only |
| `Admission` | managers, webhook configuration and webhook calls, shown to implement it |
| `AdmissionProofs` | theorems about it |
| `MCAdmission` | instance: a valid graph and one for each kind of error |
| `GraphExpansion` | one graph turned into Services, Deployments and URLs |
| `RouterEndpoints` | the router's data, UI and asset handlers |
| `GraphLife` | the two composed |
| `GraphLifeProofs` | theorems about it |
| `MCGraphLife` | instance: the accepted graphs of a pool of steps |
| `GMCRouter` | specification and properties of the router |
| `RouterProofs` | theorems about it |
| `MCRouter` | instances: three graphs |
| `ContainerCollector` | specification and properties of the exporter's plugin and container collector |
| `CollectorProofs` | theorems about it |
| `ClassCollector` | scrapes beside the class and node collectors' loops |
| `ScrapeProofs` | theorems about it |

Definitions whose comment begins with "Mutant" are broken variants of the
definition that follows; each shows that some property notices that mistake.

### 3.1 GMCReconciler

*State.* `api` is what the API server stores of each GMConnector (uid, resource
version, spec, the keys of the annotations, the three numbers of the status);
`watch` the versions on their way to the informer and `cache` the informer's,
which is what `r.Get` returns. `cluster`, `dwatch`, `dcache` are the same for the
applied objects; only Deployments are watched. `queue` is the work queue. The
other variables are the local variables of the only worker under their names in
the code; `pc` says which loop of `Reconcile` it is in.

*Actions.* A pass is cut wherever it calls the API server or reads a cache:

| Code | Actions |
|---|---|
| `Reconcile`, lines 341-383 | `ReconcileGraph`, `ReconcileIgnored`, `handleStatusUpdate` |
| loop over nodes and steps, 385-414 | `EnterNode`, `SkipStep`, `EnterStep`, `reconcileResource`, `recordResources`, `LeaveNode` |
| `applyResourceToK8s`, 693-739 | `applyResourceToK8s`, `applyResourceFails` |
| router, 416-422 and 584-659 | `EnterRouter`, `reconcileRouterService` (and `...Fails`), `EnterPrune` |
| deletions, 424-432 and 461-480 | `deleteRecordedResource` (and `...Fails`) |
| `collectResourceStatus`, 482-543 | `ResetStatus`, `collectResourceStatus`, `CountDeployment`, `getLatestGraph`, `statusUpdate` (and `...Fails`) |
| watches and predicates, 787-911 | `DeliverGraph`, `DeliverDeployment` |

`UserCreate`, `UserEdit`, `UserDelete`, `FlipDeployment`, `CollectGarbage` and
`RestartManager` are the surroundings. `Fail` is the error return: `Reconcile`
requeues, `handleStatusUpdate` does not (line 453 returns `err`, which is nil).

*Abstractions.* A template is the list of objects it expands to; an object that cannot
be built or owned is `Unusable`. Objects carry their owner, the owner's uid and, for
Deployments, AvailableReplicas; all manifests ask for one (`Replicas`).
`collectResourceStatus` counts a Deployment that has exactly as many as it asks for
(line 517), while the watch looks at the Available condition (851-877), which also
holds of more (`IsAvailable`). A Deployment of `Surging` may be seen with one pod too
many, as in a rolling update, which for one replica starts the new pod before it takes
the old one down. The garbage collector deletes what a deleted graph owned. Labels of
GMConnectors and the free text of annotations are left out. `retryOnConflict`-style
loops inside `applyResourceToK8s` are one step, since the attempts before the last
change nothing.

`GMCRouted` adds the history variable `routed`: the spec and uid of the pass that
last applied the Deployment of a graph's router, which is what its pod is started
with (`--graph-json`).

### 3.2 GMCRouter

*State.* `act` holds every execution of a step, named by its path: `<<q>>` is the
goroutine that `mcGraphHandler` starts for request `q`, `<<q, 1, 2>>` the second
step of the node that is the first step of the root. An execution has the
variables of the pipeline function (loop index, `responseBytes`, `responseBody`,
`statusCode`, the error) and a `pc`. Because executions are kept after they
returned, properties can compare what a step got with what earlier ones returned.
Bodies are `nil`, `open`, `cut` (reading fails) or `closed`; bytes are a JSON
object, null, other JSON or neither, with the conditions that hold of them and the
services they come from.

*Actions.* `Acquire` and `callService`; `InvalidInput`, `SkipStep`, `ReadFails`,
`ConditionInvalid`, `ConditionUnmatched`, `ExecuteNext`, `StepFails`, `HardStepFails`,
`StepEnds`, `PipelineEnds` for Sequence and Switch; `StartEnsemble`, `GoroutineReads`,
`ReceiveResult`, `ReceiveError`, `EnsembleEnds` for Ensemble; `Arrive`, `ReportError`,
`WriteChunk`, `BodyFails`, `BodyEnds`, `HandlerReturns`, `TimeOut`, `LateWrite` for
the handler. A panic in one of these goroutines is not recovered and ends the process
(`Panic`, from `MergePanics`, `GoroutinePanics`, `HandlerPanics`, `LateWrite`); a
behaviour is one life of the process. `MergePanics` is `mergeRequests` on a request
whose "parameters" are not an object (main.go 246), or with parameters to be written
into a response that is JSON null, which `json.Unmarshal` accepts and which leaves the
map nil (251); an empty object of parameters writes nothing and does not panic.
Writing to a ResponseWriter after its handler returned is undefined: `LateWrite` is
lost, panics, or reaches another request.

*Abstractions.* Graphs are acyclic. The combined response of an Ensemble may satisfy any condition.

### 3.3 ContainerCollector

*State.* The runtime's side: `phase` of each container (`created`: it has an OCI spec
and no process; `tasked`: containerd has made its task, and with it the cgroup, and
runs the createRuntime hook; `running`; `exited`: the cgroup is gone), `stopped`,
`hooked` (the OCI hooks were injected), `groups` (its resctrl monitoring group
exists), `strays` (some thread is outside it). The exporter's: `plugin` and `todo`
(Synchronize in progress), `events` (ContainerInfoChan), `infos` and `stats` (the keys
of containerInfos, what statsCache holds), `keeper` and `sample` (each housekeeping
goroutine: at most one started by operation 1 and one by operation 2), `scan` (the
updatePids loop).

| Code | Actions |
|---|---|
| `hook-injector.go` | `Run`, `Synchronize`, `Synchronized`, `CreateContainer`, `StartContainer`, `StopContainer` |
| hook scripts | part of `CreateTask` (create-runtime.sh), `PostStop` (post-stop.sh) |
| `processContainerData`, 83-109 | `processContainerData`, `makeMonitorGroupFails` |
| `updatePids`, 111-124 | `updatePidsReads`, `updatePidsWrites`, with `ThreadsChange` between |
| `housekeeping` and `updateStats`, 126-190 | `housekeepingTick`, `housekeepingLate`, `housekeepingDeletes`, `getIntelRDTStats`, `getCgroupStats`, `updateStats`, `Glitch` |
| `main.go` 205-214 | `Disconnect` |

An updateStats is cut between its readings and its store, since each step looks
the container up again in maps others change. `housekeepingTick` is the stat at line 131
with what follows it at once; a housekeeper that is held up between a stat that finds
nothing and its deletes is `housekeepingLate`, counted by `MaxLate`. CRI creates a
container and starts it in two calls, and under containerd the task is made in the
second: `CreateContainer` only decides whether the hooks are in the spec, `CreateTask`
makes cgroup and first process, and `StartContainer` is the NRI request at the end of the
start. Synchronize lists containers of all three kinds. The maps are not locked: `Crash` is
the outcome in which the Go runtime ends the process; a new one starts empty.

*Abstractions.* A sample is its age relative to the other samples of its container
(`newest`, `older` than one that is held, `stale`: older than the cached one); this
is what decides whether processStats subtracts in the right order. A created
container is not removed before it is started. A failing hook manager leaves a
container uncreated, i.e. changes nothing. Repeated ids in the list Synchronize is
given (`dropRepeat`) are not in the model, where the list is a set. The runtime
makes no request to a plugin while it synchronizes it, makes one stop request for a
container, before or after its end, and does not start a container whose
StartContainer is refused.

### 3.4 ClassCollector

*State and actions.* The module has the class directories, the class and node caches (`nil` is a
key `updateClasses` has added and `updateStats` not filled yet), the iteration of
`updateStats`, and the scrapes: admitted or refused by `ServeHTTP`, then one
`execute` per collector in any order, `ClassMetric` or `Panic` for each key the
class collector's `Update` meets, and `Collect` when all have reported. The limit
of requests belongs to a handler (promhttp), so that it counts unfiltered requests
only. A panic ends the process and all scrapes; `main` starts it again.

### 3.5 Admission

*State.* `pod` is where each pod of the manager's Deployment is in `main`
(`started`: certificate made, `found`: configuration read, `serving`), `newest` the
pod of the present revision, `ca` the CA of its running process: every start makes
a new one. `config` is the ValidatingWebhookConfiguration, `found` what a manager
has read of it, `seen` the API server's own copy. `store`, `req` and `answer` are the
GMConnectors and the requests for them, `val` the webhook call for a request with
the variables of `validateNames`.

| Code | Actions |
|---|---|
| `main` 147-151, `cert.go` | `GenerateX509Cert` |
| `webhook_config.go` 97-126 | `GetConfiguration`, `CreateOrUpdateConfiguration` (with the conflict that makes `main` exit) |
| every `os.Exit(1)` of `main`, a crash | `Exit` |
| `ValidateCreate`, `ValidateUpdate` | `CallWebhook` |
| `validateNames` | `NextNode`, `NextStep` |
| `checkfields`, `validateGMConnector` | `Validated` |
| rules and failurePolicy of the configuration | `Unvalidated`, `Unavailable` |

`Rollout`, `Retire` (the Deployment), `WatchConfiguration` (the API server) and
`Send` (users) are the surroundings. A call goes to a manager with a certificate of
the CA the API server has seen; if none serves, or another one does, or the call
breaks off, the request is refused.

*Refinement.* `Admission` implements `ValidatedStore` with `guarded` as "the API
server has seen a configuration": a put is then stored only if the graph is valid
and called invalid only if it is not. The abstract specification knows `ValidGraph`,
a statement about pairs of steps; the detailed one the two loops with their
accumulated names.

*Abstractions.* A graph's step has a name, a nested node and a service name. The
certificate's validity of a year, flags, the /loglevel handler and leader election
(which decides who reconciles, not who serves the webhook) are left out.

### 3.6 GraphExpansion, RouterEndpoints, GraphLife

`GraphExpansion` follows `Reconcile` over one graph that does not change, again
after each failure, and is about what `GMCReconciler` abstracts: the names, labels,
ports and endpoints of the Services and Deployments (`objs`), and the URL of each
step in the pass's copy of the graph (`url`). `EnterStep`, `reconcileResource`,
`SkipStep` are the loop at 385-414, `ApplyRouterDeployment` and `ApplyRouterService`
are `reconcileRouterService`, `PassFails` every error. An object is stopped by a
missing template, a namespace other than the graph's, a downstream service that is
not found (`Applicable`), by a string of the spec with an apostrophe or "---" in it
(`spoils`), which ends the quoted JSON in the router's yaml or is taken by the Split at
line 630 for the end of a document, by a Deployment of the same name with another selector
(`SelectorKept`, which the API server does not let anybody change), or by a failing call.

`RouterEndpoints` has the handlers step by step: `DataRequest`, `DataSkip`, `DataRefuse`,
`DataStep`, `DataEnd` for `mcDataHandler`, in which a data service answers with a status of
its own that is passed on (main.go 714, `BackendStatuses`) and the loop goes on, a call
without an answer is `refused`, and an error before the call, while the form is copied
(640-688), is `unsent` and not a call; `UiRequest`, `UiSkip`, `UiProxy`, `UiRefuse`, `UiMessage`,
`UiForward`, `UiEnd` for `mcUiHandler`; `mcAssetHandler`. A text is the sequence of the
messages it is made of, a JSON object a function from its fields.

`GraphLife` composes them: the router is started with the URLs in its Deployment, and
its calls are answered if a Service with pods behind it is at the URL.

*Abstractions.* ConfigMaps, the path that "endpoint" adds to a URL, Services of other
types than ClusterIP (no template has one) are left out. Calls from /ui into the graph
end at the input of the graph, where `GMCRouter` begins. Only one request is followed
at a time, since handlers share nothing they change.

## 4. Runs

| Run | Instance | Result |
|---|---|---|
| `gmc_eager` | one graph with its router's record, two specs that share a ConfigMap, one nested node, one external service; users edit at any time (2 edits), one failing call of any kind, one availability change, one restart, lagging informers | `TypeOK`, `RecordsWanted`, `StatusParses`, `SettledComplete`, `RouterBacked`, `EventuallySettles` hold |
| `gmc_calm` | same, but users wait until everything has settled and passes start with up-to-date caches; applies may fail; three availability changes, in which the router may have a pod too many | `SettledExact`, `SettledRecorded`, `SettledReady` hold |
| `gmc_two` | two graphs, one of which may lose its step and one never applicable; failing deletions too, no availability changes | `ServedInv`, `OthersServed` hold |
| `gmc_leak` | edits at any time | `SettledExact` fails: an edit during the first pass leaves the removed step's objects behind |
| `router_chat` | two requests, Sequence with nested Switch, downstream, hard, conditional steps and a node that is not defined; requests: with parameters, without, with parameters that are not an object, and text; answers: good, unsuccessful, null, text, cut off, none | `RouterTypeOK`, `HardStops`, `ChainsPrevious`, `LastAnswers`, `FailureReported` hold |
| `router_team` | Ensemble and Switch nested in a Sequence, timeouts | `EnsembleComplete` holds |
| `router_permits` | two requests with parallel and nested calls, one permit, timeouts | `EveryRequestEnds` holds |
| `exporter_live` | one container that is created, tasked and started at any time, one crash, three scans of which two may be disturbed | `WatchedKept`, `RunningObserved`, `ThreadsMonitored`, `RatesCorrected` hold |
| `exporter_glitch` | a container and a whitelisted one, a channel of two events, two failing readings, one late delete, one lost connection | `CollectorTypeOK`, `OrphanSwept`, `StopForgets` hold |
| `scrape` | two classes made and removed, a scrape with any of four filters | `ScrapeTypeOK`, `AnsweredComplete`, `EveryScrapeEnds`, `ClassesMeasured` hold |
| `admission` | two revisions of the manager, one crash, one client with a valid graph and one graph for each kind of error | `AdmissionTypeOK`, `StoreIsValidated` (the refinement), `TrustedUnlessOrphaned`, `RequestsAnswered` hold |
| `graph_life` | 243 specs: up to two steps of a pool of 15 in the root and a second node, some longer ones, as far as the webhook accepts them; one failing call; forms, chats of up to three messages | `LifeTypeOK`, `RoutesResolve`, `EndpointsResolve`, `ServedUsable`, `UsableServed`, `DataReaches`, `PromptExact` hold |

*Where a property stops holding.* The instances above keep apart what holds from
what the code does not promise. Changing a constant shows the rest:

* `gmc_calm` with `PromptInformers = FALSE`: `SettledRecorded` fails, because a
  Deployment event handled with a stale copy stores old annotations under the
  latest resource version (line 535), and `SettledReady` fails, because an event
  whose status cannot be collected is dropped (line 453 returns a nil error).
* `SettledReady` lets a Deployment of `Surging` be missing in the count. The exact count
  fails: an edit makes Reconcile apply the router anew, its rolling update has two pods of
  one for a while, a count made then finds 2 # 1 at line 517, and when the old pod goes
  the Available condition, which never changed, makes no event (851-877). The graph keeps
  a READY of one less than the docs promise ("10(the 1st 10) are ready", usage_guide.md:37)
  until something else is counted.
* `FailureReported` has an exception because a panic in `mergeRequests` (main.go 246 and
  251) ends the process for all: a request that has just failed may be cut off by
  another's parameters, or by a service that answers another with null.
* A Sequence that stops at a condition returns a body it has read and closed
  (main.go 471-497), so that the client gets a read error although the comment at
  line 493 says that the response is returned. A Switch executes every step whose
  condition holds; if none holds it returns a nil body, which the handler reads.
* With an Ensemble one of whose services cannot be reached, `FailureReported` fails:
  `executeStep` returns a nil body, the goroutine closes it (main.go 394) and the
  panic ends the process with all its requests.
* `ThreadsMonitored` is about containers that have a task when they are found (`Found`).
  For one that has none the code does not keep what the flag promises ("Scan the pids of
  containers created before the exporter starts to prevent the loss of pids",
  collector/common.go:42): its housekeeper finds no cgroup and deletes the record,
  updatePids then returns (container_collector.go 115-117) or has spent its scans, and
  the start event, operation 1, starts no new ones. The container runs without the hook, with
  threads outside its monitoring group, so that its group shows no bandwidth of theirs.
  `RunningObserved`, that it is recorded again and read at each interval, holds of it.
* `exporter_live` with `MaxLate = 1`: `RunningObserved` fails. A housekeeper that found no
  cgroup deletes the record after the start event has made it anew, and the new
  housekeeper ends at its next tick. This takes a housekeeper held up for as long as
  the start.
* A container created before the exporter and started after it has two housekeepers
  (container_collector.go 97). For a moment its rate may come from samples in the
  wrong order; `RatesCorrected` says that it is replaced.
* `TrustedUnlessOrphaned` has an exception because a manager of the old revision may
  restart during a rollout, register its CA after the new one did, and then be taken
  down: nobody serves with the registered CA until the next start of a manager, and
  every request is refused meanwhile.
* `GraphLife` without `DistinctNames`: the webhook compares the service names users
  give with each other, not with the names in templates or the router's. A step named
  like another's template overwrites its Service; one named like the router has its
  Deployment, whose selector the router's may not replace. A router under another
  name still selects pods by `app: router-service`.
* The webhook accepts a step "Router", although the controller's key is "router",
  foreign namespaces, endpoints without a downstream service, apostrophes and "---", none
  of which can be applied (`Usable`); the controller retries such graphs for ever.
* `RouterBacked` is proved for specs with a router. Every spec of the code has one;
  without, a pass would prune what the old router calls.
* A chat without a system message begins with "<nil>" (main.go 834), and messages
  that are neither text nor a list end in a panic that net/http recovers (842). A system
  message replaces what came before it (831), under the comment "concatenate system
  prompt" (829). `PromptExact` states this text and does not judge it.
* A client of /dataprep cannot tell a data service's own 404 or 500 from the router's by
  the status (714), nor that a second service failed after the first had answered;
  `DataReaches` says whose status it is.
* `exporter_live` with `MaxGlitches = 1`: `WatchedKept` fails, because one reading
  that fails ends a container's housekeeping. With two running containers and a
  channel of one, `RunningObserved` fails: Synchronize returns an error and the
  plugin ends. After a lost connection, a housekeeper whose container ends between
  its stat and its readings ends without deleting the container's metrics.
* A scrape between `updateClasses` and the next `updateStats` dereferences nil
  statistics (class_collector.go:141, action `Panic`) and ends the process.
* A filtered scrape has a handler, and a limit of requests, of its own.

*Bounds.* Edits, faults, availability changes and restarts are counted in `used`. Two
edits are a creation and a change (or a deletion), the least for which something can
be left over; one fault or restart can hit any point of any pass; `gmc_two` has three
edits so that either graph can also be deleted. In `gmc_calm` one availability change
brings a Deployment up, a second gives it a pod too many and a third takes one away
again, with two Deployments watched. `MaxLag` bounds how many versions of a Deployment
the cluster makes before the informer has seen them. In the router one permit is the
hardest case for the semaphore, two requests the least that can disturb each other,
and one or two chunks suffice to tell a complete from a truncated answer. In the
exporter containers meet only in the channel, so that two suffice for it and one for
liveness; a container created before `Run` is one that was there before the exporter,
with a task or without. One late delete can meet any other step. `MaxRaces` is less
than `MonTimes` on purpose: `ThreadsMonitored` says what monTimes is for. A channel of
two stands for one of 100: both containers' events can fill it. A crash between a stop
request and the container's end makes Synchronize record the container again, which is
why `StopForgets` is checked without crashes. Scrapes share nothing but what the loops
write and the limit of the unfiltered handler, so that one suffices for `scrape`. In
`admission` two pods are the least for which a rollout and a restart can cross, one
crash can hit either of them at any step, and calls of different clients share
nothing. In `graph_life` two steps are the least that can share a name or need each
other, and the longer graphs put steps between a UI, its first hop and the data
services. Deadlock is checked for the scrapes and for admission: the other systems may
come to rest. Requests are symmetric in `router_chat`, which checks no liveness.

*Fairness.* `FairSpec`: the worker goroutine runs (WF), the work queue is
first-in-first-out so that a queued graph that is eligible again and again is
taken (SF of `ReconcileGraph`), informers deliver and the garbage collector collects
(WF). Nothing is assumed of users, Deployments, restarts or failures: these are
bounded, i.e. calls eventually succeed. `FairRouterSpec`: goroutines make progress
and every call ends, which `callClient`'s 30 second timeout ensures. The
one-minute timeout of the handler is not assumed to fire. `ContainerCollector`'s
`FairSpec`: goroutines run, the runtime reports the end of a container and runs its
hook; nobody has to create, start or end one. `ClassCollector`'s: the loops and a
scrape's goroutines run, the process is restarted, and `updateStats` meets every
class first again and again (SF), because Go chooses where a range over a map
begins at random; with weak fairness `ClassesMeasured` fails. `Admission`'s: the kubelet
restarts containers and `main` runs on, the Deployment controller retires old pods,
the API server follows its watch and handles requests; rollouts, crashes and requests
need not happen. `GraphLife`'s: a failed pass is queued again and the worker goes on,
the kubelet starts the router; handlers and clients need no fairness there.

## 5. Proofs

`GMCServedProofs` proves, for any graphs, specs, manifests,
faults and bounds that satisfy the three assumptions of `GMCReconciler` (names
differ, manifests and specs are well typed, bounds are numbers):

* `TypeCorrect`: `Spec => []TypeOK`;
* `RecordsWantedCorrect`: `Spec => []RecordsWanted`;
* `StatusParsesCorrect`: `Spec => []StatusParses`;
* `ServedInvCorrect`: `Disjoint => (Spec => []ServedInv)`;
* `SettledCompleteCorrect`: `Disjoint => (Spec => []SettledComplete)`.

`Disjoint` says that no two graphs may ask for the same object; without it two
graphs that name the same service take each other's objects away.

*The argument.* `SettledComplete` speaks of states at rest and is far from
inductive. `Inv` adds three parts. `WatchInv`: cache and the versions on their way
lead up to what is stored, and never jump from one incarnation of a resource to
another without a "not found" between. `WorkerInv`: at each point of a pass, the
annotations recorded so far contain the objects of all nodes and steps already
done, and only wanted ones; a graph with annotations has a status of three parts.
`ServedInv`: a graph that nobody has to look at again (not queued, cached version
of the stored incarnation) has all the objects its cached spec asks for, or the
worker is in a pass over that very spec and has all it has applied so far. A
failure leaves the last case only by requeueing, a delivered edit only by queueing,
a restart by queueing everything; deletions in a pass touch only objects the pass
has not recorded. At rest the cache is the stored version, the queue is empty and
the worker idle, so `ServedInv` gives `SettledComplete`. TLC checked `Inv` before
it was proved; `gmc_two` keeps checking `ServedInv`.

`GMCCalmProofs` proves, under the same assumptions and `Calm`, the conditions of run
`gmc_calm` (users change a graph only when everything has settled, passes start with
an up-to-date cache; calls still fail, Deployments flip and the manager restarts at
any point):

* `SettledRecordedCorrect`: `Calm => (Spec => []SettledRecorded)`;
* `SettledExactCorrect`: `Calm /\ "delete" \notin Faults => (Spec => []SettledExact)`;
* `SettledReadyCorrect`:
  `Calm /\ Disjoint /\ "status" \notin Faults => (Spec => []SettledReady)`.

Without `Calm` the second fails (run `gmc_leak`); a failed deletion is forgotten, and a
status update that fails in `handleStatusUpdate` is not repeated (`Fail`), hence the other
two conditions.

*The argument.* In a calm cluster nothing but the pass itself writes a graph during a
pass, so the pass works on what is stored and its status update finds no conflict
(`PassCurrent`, `OneBehind`). A graph is `Due` while Reconcile has still to look at it;
otherwise its record is what its spec asks for and not empty (`RecordedInv`). For
`SettledExact`: every object of a graph is one that its spec asks for or one that the
stored record, or what is left of it in a pass, still names (`Leftover`, `ExactInv`), and
a pass that fails leaves the stored record as it was. For `SettledReady` four more:
`externalService` is the number of external steps the pass has been to (`ExternalInv`);
the informer's copy of a Deployment and the versions on their way lead up to the
Deployment (`FollowsInv`); a graph's Deployments belong to it in all these versions, and
the first version of a new one, whose creation the watch filters out, is not available
(`MineInv`); so a stored or a running count has every copy the informer has of an
available Deployment that is not `Surging`, and none of one that is not available
(`Counts`), or one of these Deployments is in the queue and the count will be repeated
(`Right`, `CountingOK`, `StatusOK`). At rest the queue is empty and the copies are the
Deployments.

`GMCRoutedProofs` proves, under the same assumptions,

* `RouterBackedCorrect`: `Disjoint /\ HasRouter => (RoutedSpec => []RouterBacked)`.

`HasRouter` says that the router of every spec has at least one object, as the code's
template does. The argument: what a pass over the stored incarnation of a graph has
applied is in the cluster and owned by it (`PassBacked`), since deletions touch only
what the pass did not record and the garbage collector only dead incarnations. When
the router is applied the pass has recorded every step (`WorkerInv`), so that what the
router is given is backed. Deletions come after that (`PassedRouted`), when `routed` is
the pass's own spec. A pass over another incarnation cannot come in between: the
informer never returns to an earlier one (`OrderInv`), so once the router knows the
stored incarnation all passes are over that one (`RoutedFollows`), and uids are not
used again (`Numbered`).

`AdmissionProofs` proves, for any graphs, clients, objects, pods and crashes
(`GraphAssumption`, `BoundAssumption`, `StoreAssumption`):

* `AdmissionTypeCorrect`: `Spec => []AdmissionTypeOK`;
* `StoreIsValidatedCorrect`: `Spec => StoreIsValidated`, i.e. the initial states of
  `Admission` are initial states of `ValidatedStore` and every step is one of its steps or
  a stutter.

The only steps that need more than types are `Validated`'s: `CallInv` says that the
errors and names a call has found are exactly those of the positions it has visited
(all steps of the nodes it has left, those before `idx` in the present one), whatever
the order of nodes, and `SeenInv` that a call exists only after the API server has
seen a configuration. At the end all positions have been visited, so no errors and a
root mean `ValidGraph`, and conversely.

`CollectorProofs` proves, for any containers, metrics, channel capacity, monTimes
and bounds of the faults (assumptions `ContainersAssumption`, `BoundsAssumption`):

* `CollectorTypeCorrect`: `Spec => []CollectorTypeOK`, in which the channel never
  exceeds its capacity;
* `OrphanSweptCorrect`: `Spec => []OrphanSwept`;
* `WatchedKeptCorrect`: `Spec => [](used["glitch"] = 0 => WatchedKept)`, i.e. until
  the first reading that fails.

`OrphanSwept` is inductive together with the types (split into five parts, so that
each action's lemma touches only what it changes): a store leaves its housekeeper
waiting, a waiting housekeeper's tick finds no path for a forgotten container and
deletes both entries, and every other way a housekeeper stops waiting or ends needs
the container's record to be there. For `WatchedKept`, a housekeeper ends only
where the monitoring group is missing, so `GroupInv` says that a recorded container
has one, and that a StartContainer event of a container without the hook is behind
the Synchronize event with which `processContainerData` makes it; `StageInv` says that a
housekeeper that reads or stores has found the cgroup, so that the container has had
its task. A housekeeper that finds none deletes the record, and with it the claim.

`ScrapeProofs` proves, for any classes, collectors, filters and requests
(`ScrapeAssumption`):

* `ScrapeTypeCorrect`: `Spec => []ScrapeTypeOK`;
* `AnsweredCompleteCorrect`: `Spec => []AnsweredComplete`.

The invariant (`Accounted`): the collectors a scrape has heard of and those it waits
for are together the selected ones, until a panic ends the process.

`RouterProofs` proves, for any graph (`GraphAssumption`), any requests, capacity and
answers (`TrafficAssumption`):

* `RouterTypeCorrect`: `RouterSpec => []RouterTypeOK`;
* `HardStopsCorrect`: `RouterSpec => []HardStops`;
* `ChainsPreviousCorrect`: `RouterSpec => []ChainsPrevious`;
* `EnsembleCompleteCorrect`: `DistinctNames => (RouterSpec => []EnsembleComplete)`;
* `LastAnswersCorrect`: `Plain => (RouterSpec => []LastAnswers)`;
* `FailureReportedCorrect`: `Plain /\ Answering => (RouterSpec => []FailureReported)`.

`DistinctNames`: no two steps of an Ensemble have the same name; the second would
overwrite the first in the combined response, and a webhook that is registered
refuses them. `Plain`: no Ensembles and no handler gives up waiting. `Answering`:
every node has a step that is executed whatever the conditions. Without `Plain` or
`Answering` the code does not promise these two (section 4, and hazards);
`router_chat`'s graph satisfies both, `router_team`'s `DistinctNames`.

*The argument.* `RouterInv` is a conjunction over executions: where it is in the tree
(`TreeOK`), what its record may hold (`RecordOK`), the loop of a Sequence or Switch
(`PipeOK`, `StepOK`: every step before `i` returned, nothing stopped the loop there,
its input was the response of the last step that had one, and the bytes the loop
carries are that response) and the goroutines of an Ensemble (`EnsOK`, `Combined`). An
action changes one execution and perhaps adds children to it (`Only`), so that the
frame lemmas give the invariant for everything but this execution and its parent;
`LastResponse` does not see executions that have not returned. For `Plain` graphs
whole branches matter (`BranchOK`): above an execution that runs everything waits for
it, an error has been handed up as far as nothing waits any more, and a response is
that of the last service called below (`LatestOK`, `From`; paths are ordered as
`Before` says). `WrittenOK` says what the handler has written at each point, and
`AnswerInv` that what returned without an error has a response. In a `Plain` graph only
`MergePanics` and `HandlerPanics` end the process, and the second needs a response that
is not there (`AnswerInv`); a request whose call has failed makes no further merge, so
that the process can have ended only in another request's.

`GraphLifeProofs` proves, for any specs, templates, requests and number of failing
calls,

* `LifeTypeCorrect`: `LifeSpec => []LifeTypeOK`;
* `ServedUsableCorrect`: `LifeSpec => []ServedUsable`;
* `RoutesResolveCorrect`: `LifeSpec => []RoutesResolve`;
* `EndpointsResolveCorrect`: `LifeSpec => []EndpointsResolve`;
* `DataReachesCorrect`: `LifeSpec => []DataReaches`;
* `PromptExactCorrect`: `LifeSpec => []PromptExact`.

*Assumptions* (in `GraphExpansion` but for the last, in `RouterEndpoints`; all evaluated
by TLC in `graph_life`).
`SpecsAssumption`: the specs are graphs the webhook accepts, and each node is a
sequence of steps. `TemplateAssumption`: templates whose Services have the same name
have the same port; of the manifests the controller is shipped with, those of an
accelerator (tgi_gaudi.yaml, tei_gaudi.yaml and so on) share name and port with the
plain one. `RouterAssumption`: the router has a default name. `URLAssumption`: a URL is
not the empty string. `ChatsAssumption`: the messages of a chat come in an order, and an
entry without a role is not a system message.

*The argument.* `PlaceInv` says where the pass is; `Done(p)` that it is through with
step p, and when the router is applied it is through with all (`AllDone`), in whatever
order the nodes came. `FitInv`: what is done could be deployed, and its Deployment
stands with its selector; nobody changes a selector, so this outlives the pass that
did it (`FitPut`). Hence `ProvidedInv`: once the router's Deployment has a graph, the
graph is usable. For the URLs, `RoutesInv` follows one URL through its three copies: the
pass's, noted when both objects of the step stand, the one in the router's Deployment,
and the router's. An object is overwritten in a later pass or by another step of the
same name, and `DistinctNames` and `TemplateAssumption` make the new one lead to the same
pods (`ServiceKept`). `EnvInv`: what a Deployment is told to call is the endpoint of a
downstream service of its node, the first of that name (`FirstDownstream`); all of
them stand by the time the router runs. `RequestInv` strengthens the type of a
request: a data request for which a service has been called has a status, so that
none ends without one.

The last two theorems compare what a loop of the router has built with the whole list
it went over. The properties say that by an increasing enumeration (`InOrder`) of the
set of elements that should be there, which grows by one element when the loop appends
one; so the proofs need no induction over data. `DataInv`: a data request is
`Underway`, i.e. its calls went, in order, to the matching steps before the one it is
at (`Visited`), each has an answer unless the router has reported a failure, and the
first answer is the status; it ends after the last step or where the code returns. For
`PromptExact`, `UiInv`: what has been parsed is the text of the messages read so far
(`Parsed`), since a system message starts the text anew and any other is appended to
it (`TextNext`), the first one after the print of an empty entry. When the list has
been read, `KeywordIs` says which keyword the first hop reads and `PayloadIs` which of
client, defaults and text has the last word on a field.

*Only model-checked.* Liveness (`EventuallySettles`, `OthersServed`,
`EveryRequestEnds`, `RunningObserved`, `ThreadsMonitored`, `StopForgets`,
`EveryScrapeEnds`, `ClassesMeasured`, `RatesCorrected`, `TrustedUnlessOrphaned`,
`RequestsAnswered`, `UsableServed`): out of the prover's reach, as is ENABLED.
Every invariant that a passing run checks, and the refinement, is proved, under the
conditions given above.
The rate itself (times of one second's resolution, counters that may wrap) is not
modelled, only the order of its two samples.

## 6. Not modelled

Listed with reasons in `PROJECT.json`, components. In short: the text of templates and
of resctrl and cgroup files, the arithmetic of rates; cryptography; the /loglevel
handler and leader election; generated deep copies and descriptions of metrics; the
guardrails filter of Envoy, whose behaviour is decided by Envoy's buffering and by a
neural network outside this repository; charts, manifests, Terraform, dashboards and
CI scripts, which are data.
