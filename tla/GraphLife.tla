------------------------------ MODULE GraphLife ------------------------------
(***************************************************************************)
(* A graph from the webhook's approval to the requests its router answers: *)
(* the controller expands it (GraphExpansion), the router's Deployment     *)
(* starts the router with the pass's copy of it, and the router's          *)
(* endpoints call the Services by the URLs in that copy (RouterEndpoints). *)
(***************************************************************************)
EXTENDS GraphExpansion, RouterEndpoints

lifeVars == <<expVars, endVars>>

LifeInit == ExpInit /\ EndInit

\* The Deployment of the router has been applied: its pod starts with --graph-json.
StartRouter ==
    /\ RouterDeployment \in DOMAIN objs
    /\ "url" \in DOMAIN objs[RouterDeployment]
    /\ main([nodes |-> nodes, url |-> objs[RouterDeployment].url])
    /\ UNCHANGED expVars

\* The Deployments whose pods a Service of the cluster selects.
Selected(svc) ==
    {d \in DOMAIN objs : d[1] = "Deployment" /\ objs[svc].labels \subseteq objs[d].labels}

\* There is such a Service, and a Deployment behind it.
Resolves(u) ==
    LET svc == <<"Service", <<u.host>>>> IN
    /\ u.ns = GraphNs
    /\ svc \in DOMAIN objs
    /\ objs[svc].port = u.port
    /\ Selected(svc) # {}

\* A call may be answered if there is something at its URL.
Answerable(i) ==
    rootSteps[i].ext # None \/ Resolves(getServiceURLByStepTarget(i))

CallData ==
    /\ \E o \in Outcomes :
        /\ DataStep(o)
        /\ o \in BackendStatuses => Answerable(rq.at)
    /\ UNCHANGED expVars

\* Clients come by the router's Service, the AccessURL of the graph.
Requests ==
    /\ RouterService \in DOMAIN objs
    /\ objs[RouterService].labels = RouterLabels
    /\ \/ \E h \in ServiceHeaders, f \in {"good", "bad"} : DataRequest(h, f)
       \/ \E b \in Bodies : UiRequest(b)
       \/ mcAssetHandler
    /\ UNCHANGED expVars

Handle ==
    \/ CallData
    \/ (DataSkip \/ DataRefuse \/ DataEnd \/ mcUiHandler \/ Respond) /\ UNCHANGED expVars

LifeNext ==
    \/ ExpNext /\ UNCHANGED endVars
    \/ StartRouter
    \/ Requests
    \/ Handle

\* A failed pass is queued again and the worker goes on; the kubelet starts the
\* router.  Nobody has to send a request.
LifeSpec ==
    /\ LifeInit /\ [][LifeNext]_lifeVars
    /\ WF_lifeVars(ExpNext /\ UNCHANGED endVars)
    /\ WF_lifeVars(StartRouter)
------------------------------------------------------------------------------
(***************************************************************************)
(* Properties.                                                             *)
(***************************************************************************)
Statuses == {"none", "200", "400", "404", "500", "proxied", "graph", "aborted"}

\* The pass, its objects and URLs, the router's graph and the request under way
\* keep their types, and a request that is over has been given a status.
LifeTypeOK ==
    /\ pc \in {"queued", "nodes", "steps", "apply", "router", "service", "done"}
    /\ left \subseteq DOMAIN nodes /\ cur \in DOMAIN nodes \cup {None}
    /\ pc = "apply" => idx \in DOMAIN nodes[cur]
    /\ kind \in {"Service", "Deployment"}
    /\ DOMAIN url = Positions(nodes)
    /\ \A x \in DOMAIN objs : x[1] \in {"Service", "Deployment"}
    /\ faults \in 0 .. MaxFaults
    /\ mcGraph # None => mcGraph.nodes = nodes /\ DOMAIN mcGraph.url = DOMAIN url
    /\ rq # NoRequest => /\ rq.at \in 1 .. Len(rootSteps) + 1
                         /\ rq.status \in IF rq.open THEN Statuses ELSE Statuses \ {"none"}

Deployable(p) == StepAt(nodes, p).node = None /\ StepAt(nodes, p).ext = None

\* No two steps make the same object unless they are the same template under the
\* same name, and none makes the router's.  The webhook compares the names that
\* users give with each other, not with the templates' own.
DistinctNames ==
    \A p \in Positions(nodes), k \in {"Service", "Deployment"} :
        LET s == StepAt(nodes, p) IN
        Deployable(p) /\ lookupManifestDir(s) =>
          /\ Key(s, k) \notin {RouterService, RouterDeployment}
          /\ \A q \in Positions(nodes) :
               LET t == StepAt(nodes, q) IN
               /\ Deployable(q) /\ lookupManifestDir(t)
               /\ Key(s, k) = Key(t, k)
               => Labels(s) = Labels(t)

\* The router runs: every step it may call has a URL under which a Service answers
\* on that port, and the pods behind it are there and all of the step's own
\* template, whether the user named it or not (recordResource, getServiceURL, the
\* renaming in reconcileResource); only the names of other objects can spoil it.
RoutesResolve ==
    mcGraph # None /\ DistinctNames =>
        \A p \in Positions(nodes) : Deployable(p) =>
            /\ mcGraph.url[p] # None
            /\ Resolves(mcGraph.url[p])
            /\ \A d \in Selected(<<"Service", <<mcGraph.url[p].host>>>>) :
                 <<"instance", Template[StepAt(nodes, p).name].svc>> \in objs[d].labels

\* Every downstream service that a Deployment is told to call is there by then,
\* under the name and the port it is told; the exception is a downstream service
\* that is not deployed, being nested or external, which findDownStreamService
\* does not look at.
EndpointsResolve ==
    mcGraph # None /\ DistinctNames
        /\ (\A p \in Positions(nodes) : StepAt(nodes, p).down => Deployable(p)) =>
        \A d \in DOMAIN objs :
            d[1] = "Deployment" /\ objs[d].env # None => Resolves(objs[d].env)

\* What an accepted graph must be for its router to start: every step to deploy
\* has a template, stays in the graph's namespace and finds its downstream
\* service among those of its own node, its Deployment has not the name of one
\* with another selector, and no string spoils the router's yaml.
Usable ==
    /\ ~ spec.spoils
    /\ \A p \in Positions(nodes) : Deployable(p) =>
        LET s == StepAt(nodes, p) IN
        /\ s.name \in DOMAIN Template
        /\ s.ns \in {None, GraphNs}
        /\ s.svc # routerServiceName
        /\ \A q \in Positions(nodes) :
             LET t == StepAt(nodes, q) IN
             Deployable(q) /\ t.name \in DOMAIN Template /\ DeploymentName(t) = DeploymentName(s)
               => Labels(t) = Labels(s)
        /\ s.ds # NoKey =>
             \E i \in DOMAIN nodes[p[1]] :
                LET t == nodes[p[1]][i] IN
                /\ t.down /\ t.svc = s.ds /\ t.name \in DOMAIN Template
                /\ \A j \in 1 .. i - 1 : ~ (nodes[p[1]][j].down /\ nodes[p[1]][j].svc = s.ds)

\* No router runs a graph of which a step could not be deployed: the steps of all
\* nodes come first, in whatever order, and the first error ends the pass.
ServedUsable == mcGraph # None => Usable

\* A usable graph is served in spite of failing calls; for one that is not the
\* controller retries for ever, since the webhook lets it pass.
UsableServed == Usable => <>[](pc = "done" /\ mcGraph # None)

\* f increases over the indices I: how an ordered enumeration of a set is stated.
InOrder(f, I) == \A i, j \in I : i < j => f[i] < f[j]

\* A data request reaches the data preparation services of the root in their order,
\* all of them unless the router itself reports a failure; one that names a service
\* reaches that one alone (the webhook made the names unique).  The client gets the
\* status of the first service that answers, whatever it is; 404 of the router's own
\* says that there is none, 500 of its own that none has answered (mcDataHandler).
DataReaches ==
    rq # NoRequest /\ rq.kind = "data" /\ ~ rq.open /\ rq.form = "good" =>
        LET M == {i \in DOMAIN rootSteps :
                    /\ rootSteps[i].name = "DataPrep"
                    /\ rq.header \in {None, rootSteps[i].svc}}
        IN  /\ rq.status = IF M = {} THEN "404"
                           ELSE IF rq.answers = <<>> THEN "500" ELSE rq.answers[1]
            /\ rq.header # None => Len(rq.calls) <= 1
            /\ \E f \in [1 .. Len(rq.calls) -> M] :
                 /\ InOrder(f, DOMAIN f)
                 /\ \A i \in Range(f), j \in M : j < i => j \in Range(f)
                 /\ ~ rq.failed => Range(f) = M /\ Len(rq.answers) = Len(rq.calls)
                 /\ \A k \in DOMAIN f : rq.calls[k] = getServiceURLByStepTarget(f[k])

\* The text that the first n messages of a list stand for: those from the last system
\* message on, or all of them after the print of an empty entry when there is none.
IsText(t, roles, n) ==
    LET R == {i \in 1 .. n : roles[i] # None}
        S == {i \in R : roles[i] = "system"}
        I == (IF S = {} /\ R # {} THEN 2 ELSE 1) .. Len(t)
    IN  /\ 1 \in DOMAIN t \ I => t[1] = NilText
        /\ {t[i] : i \in I} = {i \in R : \A j \in S : j <= i}
        /\ InOrder(t, I)

\* The first step that is no downstream service is an embedding, or the last step is
\* when there is none.
Embeds ==
    LET hops == {i \in DOMAIN rootSteps : ~ rootSteps[i].down} IN
    \E i \in DOMAIN rootSteps :
        /\ rootSteps[i].name = "Embedding"
        /\ IF hops = {} THEN i = Len(rootSteps) ELSE i \in hops /\ \A j \in hops : i <= j

\* What the graph is to get for a body.
IsPrompt(sent, body) ==
    LET key == IF Embeds THEN "text" ELSE "query"
        roles == body.messages.roles
        string == body.messages.type = "string"
        spoken == string \/ \E i \in DOMAIN roles : roles[i] # None
    IN  /\ \A f \in body.fields : sent[f] = <<"client">>
        /\ DOMAIN sent = body.fields \cup (IF spoken THEN {key} ELSE {})
                                     \cup (IF Embeds THEN {} ELSE {DefaultParam})
        /\ key \notin body.fields /\ spoken =>
             IF string THEN sent[key] = <<"string">>
                       ELSE IsText(sent[key], roles, Len(roles))

\* The graph behind /ui gets the conversation under the keyword its first hop
\* reads, and the client's own fields prevail over it and over the defaults.
PromptExact ==
    rq # NoRequest /\ rq.kind = "ui" /\ rq.sent # None => IsPrompt(rq.sent, rq.body)
=============================================================================
