--------------------------- MODULE GraphExpansion ---------------------------
(***************************************************************************)
(* How the controller turns a graph into Services and Deployments and into *)
(* the URLs its router calls (gmconnector_controller.go: reconcileResource *)
(* and the functions around it, recordResource, reconcileRouterService).   *)
(*                                                                         *)
(* One graph that does not change is reconciled, and reconciled again      *)
(* after every failure; what edits, caches and several graphs do to the    *)
(* same loop is GMCReconciler's subject, what the objects contain is this  *)
(* module's.  ConfigMaps, which no URL names, are left out, and so is the  *)
(* path that a step's "endpoint" adds to its URL.                          *)
(***************************************************************************)
EXTENDS GraphValidation, SequencesExt

CONSTANTS
    Specs,        \* the specs the webhook has let pass
    Template,     \* step name -> [svc, port]: the Service in its yaml file
    NoKey,        \* the step's config has no downstream endpoint key
    GraphNs,      \* the namespace of the graph
    RouterName,   \* DefaultRouterServiceName
    RouterPort,
    MaxFaults     \* failing calls to the API server

(***************************************************************************)
(* A spec: nodes, a graph whose steps also have the fields ext (the        *)
(* ExternalService or None), ns (the internal service's nameSpace or       *)
(* None), down (isDownstreamService) and ds (the value of a downstream     *)
(* endpoint key of its config, or NoKey); router, the router's serviceName *)
(* or None; spoils, whether some string of the spec has an apostrophe or   *)
(* "---", at which the router's yaml is split.                             *)
(***************************************************************************)
VARIABLES
    spec,      \* the GMConnector's spec
    pc,        \* queued | nodes | steps | apply | router | service | done
    left,      \* nodes the pass has still to enter
    cur, idx,  \* the node and the step it is at
    kind,      \* the next object of the step's template
    url,       \* Positions -> the step's ServiceURL in the pass's copy, or None
    objs,      \* the cluster: <<kind, name>> -> what the object says
    faults

expVars == <<spec, pc, left, cur, idx, kind, url, objs, faults>>
passVars == <<left, cur, idx, kind, url>>

nodes == spec.nodes
step == nodes[cur][idx]

\* The webhook has seen the specs (Admission).
ASSUME SpecsAssumption ==
    \A s \in Specs :
        /\ ValidGraph(s.nodes)
        /\ \A n \in DOMAIN s.nodes : s.nodes[n] \in Seq(Range(s.nodes[n]))

\* Templates whose Services have the same name, such as tgi.yaml and tgi_gaudi.yaml,
\* have the same port.
ASSUME TemplateAssumption ==
    \A m, n \in DOMAIN Template :
        Template[m].svc = Template[n].svc => Template[m].port = Template[n].port

ASSUME RouterAssumption == RouterName # None /\ MaxFaults \in Nat
------------------------------------------------------------------------------
Or(x, default) == IF x = None THEN default ELSE x

\* yamlDict: the router's key is "router", which is no step name.
lookupManifestDir(s) == s.name \in DOMAIN Template

\* The Service of a step: named by the user or by the template.
ServiceName(s) == Or(s.svc, Template[s.name].svc)

\* The Deployment has the template's name, or the user's with a suffix.
DeploymentName(s) ==
    IF s.svc = None THEN <<Template[s.name].svc>> ELSE <<s.svc, "-deployment">>

getServiceDetailsFromManifests(s) == Template[s.name]

\* What the user says of an internal service; of an external one nothing is taken.
getNsNameFromStep(s) == IF s.ext = None THEN [ns |-> s.ns, svc |-> s.svc]
                                        ELSE [ns |-> None, svc |-> None]

\* Mutant: only the template is asked for the service's name.
getDownstreamSvcEndpoint_Default(d) ==
    [host |-> Template[d.name].svc, ns |-> Or(d.ns, GraphNs),
     port |-> Template[d.name].port]

\* An empty value stands for the template's name and for the graph's namespace.
getDownstreamSvcEndpoint(d) ==
    LET alt == getNsNameFromStep(d)
        manifest == getServiceDetailsFromManifests(d)
    IN  [host |-> Or(alt.svc, manifest.svc), ns |-> Or(alt.ns, GraphNs),
         port |-> manifest.port]

\* The first step of the same node that has the name and is a downstream service.
findDownStreamService(dsName, steps) ==
    SelectInSeq(steps, LAMBDA o : o.svc = dsName /\ o.down)

\* The environment of a Deployment can be built.
EndpointFound(s, steps) ==
    s.ds # NoKey =>
        LET d == findDownStreamService(s.ds, steps)
        IN  d # 0 /\ lookupManifestDir(steps[d])

Env(s, steps) ==
    IF s.ds = NoKey THEN None
    ELSE getDownstreamSvcEndpoint(steps[findDownStreamService(s.ds, steps)])

\* The selector of the Service and of the Deployment, and the labels of the pods:
\* the template's, and app where the user gave a name.
Labels(s) ==
    {<<"instance", Template[s.name].svc>>}
      \cup (IF s.svc = None THEN {} ELSE {<<"app", s.svc>>})

Object(s, steps, k) ==
    IF k = "Service" THEN [port |-> Template[s.name].port, labels |-> Labels(s)]
                     ELSE [env |-> Env(s, steps), labels |-> Labels(s)]

Key(s, k) == IF k = "Service" THEN <<k, <<ServiceName(s)>>>>
                              ELSE <<k, DeploymentName(s)>>

\* What stops a step's object whatever the API server does: a name without a
\* template, a downstream service that is not in the node, and a namespace other
\* than the graph's, for which SetControllerReference refuses the owner.
Applicable(s, steps, k) ==
    /\ lookupManifestDir(s)
    /\ k = "Deployment" => EndpointFound(s, steps)
    /\ Or(s.ns, GraphNs) = GraphNs

\* Update in applyResourceToK8s: the API server lets nobody change the selector of
\* a Deployment, so the attempts go on until they time out.
SelectorKept(key, labels) ==
    key[1] = "Deployment" /\ key \in DOMAIN objs => objs[key].labels = labels

\* Mutant: the URL is the template's, as if the Service had not been renamed.
getServiceURL_Default(s) == [host |-> Template[s.name].svc, ns |-> Or(s.ns, GraphNs),
                             port |-> Template[s.name].port]

\* getServiceURL of a ClusterIP Service: every template has one.
getServiceURL(s) == [host |-> ServiceName(s), ns |-> Or(s.ns, GraphNs),
                     port |-> Template[s.name].port]

\* A URL is not the empty string.
ASSUME URLAssumption ==
    \A s \in Specs : \A p \in Positions(s.nodes) :
        lookupManifestDir(StepAt(s.nodes, p)) => getServiceURL(StepAt(s.nodes, p)) # None

routerServiceName == Or(spec.router, RouterName)
RouterLabels == {<<"app", RouterName>>}   \* whatever the router is called
RouterDeployment == <<"Deployment", <<routerServiceName, "-deployment">>>>
RouterService == <<"Service", <<routerServiceName>>>>

Put(key, o) == objs' = [x \in DOMAIN objs \cup {key} |-> IF x = key THEN o ELSE objs[x]]
------------------------------------------------------------------------------
NoURLs(g) == [p \in Positions(g) |-> None]

ExpInit ==
    /\ spec \in Specs
    /\ pc = "queued"
    /\ left = {} /\ cur = None /\ idx = 1 /\ kind = "Service"
    /\ url = NoURLs(nodes)
    /\ objs = [x \in {} |-> None]
    /\ faults = 0

\* The pass and its copy of the graph are over; the next one has its own.
EndPass(state) ==
    /\ pc' = state
    /\ left' = {} /\ cur' = None /\ idx' = 1 /\ kind' = "Service"
    /\ url' = NoURLs(nodes)

\* The pass ranges over the nodes of a fresh copy of the graph.
StartPass ==
    /\ pc = "queued"
    /\ pc' = "nodes"
    /\ left' = DOMAIN nodes
    /\ UNCHANGED <<spec, cur, idx, kind, url, objs, faults>>

EnterNode(n) ==
    /\ pc = "nodes"
    /\ n \in left
    /\ pc' = "steps"
    /\ left' = left \ {n}
    /\ cur' = n
    /\ idx' = 1
    /\ UNCHANGED <<spec, kind, url, objs, faults>>

LeaveNode ==
    /\ pc = "steps"
    /\ idx > Len(nodes[cur])
    /\ pc' = IF left = {} THEN "router" ELSE "nodes"
    /\ UNCHANGED <<spec, passVars, objs, faults>>

\* A nested step is skipped; an external service is its own URL.
SkipStep ==
    /\ pc = "steps"
    /\ idx <= Len(nodes[cur])
    /\ step.node # None \/ step.ext # None
    /\ url' = IF step.node # None THEN url
              ELSE [url EXCEPT ![<<cur, idx>>] = step.ext]
    /\ idx' = idx + 1
    /\ UNCHANGED <<spec, pc, left, cur, kind, objs, faults>>

EnterStep ==
    /\ pc = "steps"
    /\ idx <= Len(nodes[cur])
    /\ step.node = None /\ step.ext = None
    /\ pc' = "apply"
    /\ kind' = "Service"
    /\ UNCHANGED <<spec, left, cur, idx, url, objs, faults>>

StepApplies ==
    /\ Applicable(step, nodes[cur], kind)
    /\ SelectorKept(Key(step, kind), Labels(step))

RouterApplies == ~ spec.spoils /\ SelectorKept(RouterDeployment, RouterLabels)

\* reconcileResource applies the Service, then the Deployment; when both are
\* there recordResource notes the URL in the pass's copy of the graph.
reconcileResource ==
    /\ pc = "apply"
    /\ StepApplies
    /\ Put(Key(step, kind), Object(step, nodes[cur], kind))
    /\ IF kind = "Service"
       THEN kind' = "Deployment" /\ UNCHANGED <<pc, idx, url>>
       ELSE /\ url' = [url EXCEPT ![<<cur, idx>>] = getServiceURL(step)]
            /\ pc' = "steps"
            /\ idx' = idx + 1
            /\ UNCHANGED kind
    /\ UNCHANGED <<spec, left, cur, faults>>

\* Mutant: a template that does not decode is applied all the same.
ApplyRouterDeployment_Undecoded ==
    /\ pc = "router"
    /\ Put(RouterDeployment, [env |-> None, labels |-> RouterLabels, url |-> url])
    /\ pc' = "service"
    /\ UNCHANGED <<spec, passVars, faults>>

\* reconcileRouterService: the Deployment, whose argument is the pass's copy of
\* the spec between apostrophes, and the Service.  An apostrophe in the spec is
\* escaped in a way that is none for yaml, and "---" in it is taken for the end of
\* the Deployment: the template does not decode.
ApplyRouterDeployment ==
    /\ pc = "router"
    /\ RouterApplies
    /\ Put(RouterDeployment, [env |-> None, labels |-> RouterLabels, url |-> url])
    /\ pc' = "service"
    /\ UNCHANGED <<spec, passVars, faults>>

ApplyRouterService ==
    /\ pc = "service"
    /\ Put(RouterService, [port |-> RouterPort, labels |-> RouterLabels])
    /\ EndPass("done")
    /\ UNCHANGED <<spec, faults>>

\* Mutant: the error is logged and the graph is left as it is.
PassFails_Drop ==
    /\ \/ pc = "apply" /\ ~ StepApplies /\ UNCHANGED faults
       \/ pc = "router" /\ ~ RouterApplies /\ UNCHANGED faults
       \/ /\ pc \in {"apply", "router", "service"}
          /\ faults < MaxFaults
          /\ faults' = faults + 1
    /\ EndPass("done")
    /\ UNCHANGED <<spec, objs>>

\* An error ends the pass and queues the graph again.
PassFails ==
    /\ \/ pc = "apply" /\ ~ StepApplies /\ UNCHANGED faults
       \/ pc = "router" /\ ~ RouterApplies /\ UNCHANGED faults
       \/ /\ pc \in {"apply", "router", "service"}
          /\ faults < MaxFaults
          /\ faults' = faults + 1
    /\ EndPass("queued")
    /\ UNCHANGED <<spec, objs>>

Expand ==
    \/ StartPass \/ LeaveNode \/ SkipStep \/ EnterStep \/ reconcileResource
    \/ ApplyRouterDeployment \/ ApplyRouterService
    \/ \E n \in left : EnterNode(n)

ExpNext == Expand \/ PassFails
=============================================================================
