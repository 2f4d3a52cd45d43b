--------------------------- MODULE GraphLifeProofs --------------------------
(***************************************************************************)
(* A router that runs has a graph every step of which has been deployed,   *)
(* and the URLs in its copy lead to these steps, for any accepted specs,   *)
(* templates and failing calls.                                            *)
(***************************************************************************)
EXTENDS GraphLife, WellFoundedInduction, SequenceTheorems, TLAPS
-----------------------------------------------------------------------------
(***************************************************************************)
(* Positions, names and the first step that fits.                          *)
(***************************************************************************)
\* A position is a node and the number of one of its steps.
LEMMA PositionIs ==
  ASSUME NEW g, NEW p
  PROVE  p \in Positions(g) <=> \E n \in DOMAIN g : \E k \in 1..Len(g[n]) : p = <<n, k>>
  BY DEF Positions

\* Its parts, and the step that is there.
LEMMA PositionParts ==
  ASSUME NEW g, NEW p \in Positions(g)
  PROVE  /\ p[1] \in DOMAIN g /\ p[2] \in 1..Len(g[p[1]]) /\ p = <<p[1], p[2]>>
         /\ StepAt(g, p) = g[p[1]][p[2]]
<1>0. PICK n \in DOMAIN g : \E k \in 1..Len(g[n]) : p = <<n, k>>
  BY PositionIs
<1>1. PICK k \in 1..Len(g[n]) : p = <<n, k>>
  BY <1>0
<1>2. p[1] = n /\ p[2] = k
  BY <1>1
<1> QED
  BY <1>1, <1>2 DEF StepAt

\* A set of numbers that is not empty has a least one.
LEMMA LeastNumber ==
  ASSUME NEW I \in SUBSET Nat, I # {}
  PROVE  Min(I) \in I /\ \A x \in I : Min(I) <= x
<1>1. PICK m \in I : \A x \in I : ~(<<x, m>> \in OpToRel(<, Nat))
  BY NatLessThanWellFounded, WFMin
<1>2. \A x \in I : m <= x
  <2> SUFFICES ASSUME NEW x \in I PROVE m <= x
    OBVIOUS
  <2>1. x \in Nat /\ m \in Nat /\ ~(x < m)
    BY <1>1 DEF OpToRel
  <2> QED
    BY <2>1
<1> QED
  BY <1>2 DEF Min

\* findDownStreamService finds the first downstream service of that name.
LEMMA FirstDownstream ==
  ASSUME NEW dsName, NEW S, NEW steps \in Seq(S), NEW d,
         d = findDownStreamService(dsName, steps), d # 0
  PROVE  /\ d \in 1..Len(steps) /\ steps[d].svc = dsName /\ steps[d].down
         /\ \A j \in 1..(d - 1) : ~(steps[j].down /\ steps[j].svc = dsName)
<1> DEFINE I == {k \in 1..Len(steps) : steps[k].svc = dsName /\ steps[k].down}
<1>1. d = IF I # {} THEN Min(I) ELSE 0
  BY DEF findDownStreamService, SelectInSeq
<1>2. I # {} /\ I \in SUBSET Nat
  BY <1>1
<1>3. d \in I /\ \A x \in I : d <= x
  BY <1>1, <1>2, LeastNumber
<1>4. ASSUME NEW j \in 1..(d - 1)
      PROVE  ~(steps[j].down /\ steps[j].svc = dsName)
  <2>1. Len(steps) \in Nat /\ d \in Nat /\ d <= Len(steps)
    BY <1>3
  <2>2. j \in 1..Len(steps) /\ ~(d <= j)
    BY <2>1
  <2>3. j \notin I
    BY <1>3, <2>2
  <2> QED
    BY <2>2, <2>3
<1> QED
  BY <1>3, <1>4

\* Names and labels.
LEMMA KeyKind ==
  ASSUME NEW s
  PROVE  /\ Key(s, "Service") = <<"Service", <<ServiceName(s)>>>>
         /\ Key(s, "Deployment") = <<"Deployment", DeploymentName(s)>>
         /\ Key(s, "Service")[1] = "Service" /\ Key(s, "Deployment")[1] = "Deployment"
  BY DEF Key

\* The labels of a step say which template it is of; the router's do not.
LEMMA LabelsOf ==
  ASSUME NEW s
  PROVE  /\ <<"instance", Template[s.name].svc>> \in Labels(s)
         /\ \A x : <<"instance", x>> \in Labels(s) => x = Template[s.name].svc
         /\ \A x : <<"instance", x>> \notin RouterLabels
<1>1. "instance" # "app"
  OBVIOUS
<1>2. \A x, y : <<"instance", x>> # <<"app", y>>
  BY <1>1
<1>3. \A x, y : <<"instance", x>> = <<"instance", y>> => x = y
  OBVIOUS
<1> QED
  BY <1>2, <1>3 DEF Labels, RouterLabels
-----------------------------------------------------------------------------
(***************************************************************************)
(* A pass of the controller.                                               *)
(***************************************************************************)
\* The pass is through with this step.
Done(p) ==
  /\ pc \notin {"queued", "done"}
  /\ p[1] \notin left
  /\ p[1] = cur => p[2] < idx

\* Where the pass is.
PlaceInv ==
  /\ spec \in Specs
  /\ pc \in {"queued", "nodes", "steps", "apply", "router", "service", "done"}
  /\ left \subseteq DOMAIN nodes
  /\ cur \in DOMAIN nodes \cup {None}
  /\ idx \in Nat \ {0}
  /\ kind \in {"Service", "Deployment"}
  /\ pc \in {"steps", "apply"} => cur \in DOMAIN nodes \ left
  /\ pc = "apply" => idx \in 1..Len(nodes[cur]) /\ Deployable(<<cur, idx>>)
  /\ pc \in {"nodes", "router", "service"} =>
       \A p \in Positions(nodes) : p[1] \notin left => Done(p)
  /\ pc \in {"router", "service"} => left = {}
  /\ DOMAIN url = Positions(nodes)

\* Every node is a sequence of steps, and the webhook has seen the graph.
LEMMA NodesType ==
  ASSUME PlaceInv
  PROVE  /\ \A n \in DOMAIN nodes : nodes[n] \in Seq(Range(nodes[n])) /\ Len(nodes[n]) \in Nat
         /\ ValidGraph(nodes)
<1>1. /\ \A n \in DOMAIN nodes : nodes[n] \in Seq(Range(nodes[n]))
      /\ ValidGraph(nodes)
  BY SpecsAssumption DEF PlaceInv, nodes
<1> QED
  BY <1>1

\* The step the pass is at.
LEMMA Here ==
  ASSUME PlaceInv, pc = "apply"
  PROVE  /\ <<cur, idx>> \in Positions(nodes) /\ StepAt(nodes, <<cur, idx>>) = step
         /\ Deployable(<<cur, idx>>) /\ step \in Range(nodes[cur])
<1>1. cur \in DOMAIN nodes /\ idx \in 1..Len(nodes[cur]) /\ Deployable(<<cur, idx>>)
  BY DEF PlaceInv
<1>2. <<cur, idx>> \in Positions(nodes)
  BY <1>1, PositionIs
<1>3. StepAt(nodes, <<cur, idx>>) = step
  BY DEF StepAt, step
<1>4. step \in Range(nodes[cur])
  BY <1>1, NodesType DEF step, Range
<1> QED
  BY <1>1, <1>2, <1>3, <1>4

\* Every step of a pass keeps its place within the graph.
LEMMA PlaceNext ==
  ASSUME PlaceInv, ExpNext
  PROVE  PlaceInv' /\ spec' = spec
<1>0. /\ \A n \in DOMAIN nodes : Len(nodes[n]) \in Nat
      /\ \A p \in Positions(nodes) : p[1] \in DOMAIN nodes /\ p[2] \in 1..Len(nodes[p[1]])
  BY NodesType, PositionParts
<1>n. spec' = spec /\ nodes' = nodes
  BY DEF ExpNext, Expand, StartPass, EnterNode, LeaveNode, SkipStep, EnterStep,
     reconcileResource, ApplyRouterDeployment, ApplyRouterService, PassFails, nodes
<1>d. \A p : Deployable(p)' = Deployable(p)
  BY <1>n DEF Deployable, StepAt
<1>1. CASE StartPass
  BY <1>n, <1>0, <1>1 DEF StartPass, PlaceInv, Done
<1>2. ASSUME NEW n \in left, EnterNode(n)
      PROVE  PlaceInv'
  BY <1>n, <1>0, <1>2 DEF EnterNode, PlaceInv
<1>3. CASE LeaveNode
  <2>1. /\ pc = "steps" /\ idx > Len(nodes[cur]) /\ cur \in DOMAIN nodes
        /\ pc' = IF left = {} THEN "router" ELSE "nodes"
        /\ UNCHANGED <<left, cur, idx, kind, url>>
    BY <1>3 DEF LeaveNode, PlaceInv, passVars
  <2>2. \A p \in Positions(nodes) : p[1] \notin left => Done(p)'
    BY <1>0, <2>1 DEF Done, PlaceInv
  <2> QED
    BY <1>n, <2>1, <2>2 DEF PlaceInv
<1>4. CASE SkipStep
  <2>1. /\ pc = "steps" /\ idx' = idx + 1 /\ UNCHANGED <<pc, left, cur, kind>>
        /\ DOMAIN url' = DOMAIN url
    BY <1>4 DEF SkipStep
  <2> QED
    BY <1>n, <2>1 DEF PlaceInv
<1>5. CASE EnterStep
  <2>1. /\ pc = "steps" /\ pc' = "apply" /\ kind' = "Service" /\ UNCHANGED <<left, cur, idx, url>>
        /\ idx \in 1..Len(nodes[cur]) /\ step.node = None /\ step.ext = None
    BY <1>0, <1>5 DEF EnterStep, PlaceInv
  <2>2. Deployable(<<cur, idx>>)
    BY <2>1 DEF Deployable, StepAt, step
  <2> QED
    BY <1>n, <1>d, <2>1, <2>2 DEF PlaceInv
<1>6. CASE reconcileResource
  <2>1. CASE kind = "Service"
    BY <1>n, <1>d, <1>6, <2>1 DEF reconcileResource, PlaceInv
  <2>2. CASE kind # "Service"
    <3>1. /\ pc' = "steps" /\ idx' = idx + 1 /\ UNCHANGED <<left, cur, kind>>
          /\ DOMAIN url' = DOMAIN url
      BY <1>6, <2>2 DEF reconcileResource
    <3> QED
      BY <1>n, <1>6, <3>1 DEF PlaceInv, reconcileResource
  <2> QED
    BY <2>1, <2>2
<1>7. CASE ApplyRouterDeployment
  <2>1. pc = "router" /\ pc' = "service" /\ UNCHANGED <<left, cur, idx, kind, url>>
    BY <1>7 DEF ApplyRouterDeployment, passVars
  <2>2. \A p : Done(p) => Done(p)'
    BY <2>1 DEF Done
  <2> QED
    BY <1>n, <2>1, <2>2 DEF PlaceInv
<1>8. CASE ApplyRouterService \/ PassFails
  <2>1. /\ pc' \in {"queued", "done"} /\ left' = {} /\ cur' = None /\ idx' = 1
        /\ kind' = "Service" /\ url' = NoURLs(nodes)
    BY <1>8 DEF ApplyRouterService, PassFails, EndPass
  <2> QED
    BY <1>n, <2>1 DEF PlaceInv, NoURLs
<1> QED
  BY <1>n, <1>1, <1>2, <1>3, <1>4, <1>5, <1>6, <1>7, <1>8 DEF ExpNext, Expand
-----------------------------------------------------------------------------
(***************************************************************************)
(* What has been deployed.                                                 *)
(***************************************************************************)
\* The step can be deployed, and its Deployment is there with its selector.
Fit(p) ==
  LET s == StepAt(nodes, p) IN
  /\ lookupManifestDir(s)
  /\ Or(s.ns, GraphNs) = GraphNs
  /\ EndpointFound(s, nodes[p[1]])
  /\ Key(s, "Deployment") \in DOMAIN objs
  /\ objs[Key(s, "Deployment")].labels = Labels(s)

\* The router's Deployment is the router's, not that of a step.
Provided == /\ RouterDeployment \in DOMAIN objs
            /\ "url" \in DOMAIN objs[RouterDeployment]

\* What the pass is through with has been deployed.
FitInv == \A p \in Positions(nodes) : Done(p) /\ Deployable(p) => Fit(p)

\* A router that runs, or is to run, has a usable graph.
ProvidedInv == Provided \/ mcGraph # None => Usable

\* What applying an object does to the cluster,
LEMMA PutIs ==
  ASSUME NEW key, NEW o, Put(key, o)
  PROVE  /\ DOMAIN objs' = DOMAIN objs \cup {key}
         /\ \A x \in DOMAIN objs' : objs'[x] = IF x = key THEN o ELSE objs[x]
  BY DEF Put

\* and what it leaves alone.
LEMMA PutOther ==
  ASSUME NEW key, NEW o, Put(key, o), NEW d \in DOMAIN objs', d # key
  PROVE  d \in DOMAIN objs /\ objs'[d] = objs[d]
<1>1. /\ DOMAIN objs' = DOMAIN objs \cup {key}
      /\ \A x \in DOMAIN objs' : objs'[x] = IF x = key THEN o ELSE objs[x]
  BY PutIs
<1> QED
  BY <1>1

\* Nobody changes the selector of a Deployment.
LEMMA FitPut ==
  ASSUME NEW key, NEW o, Put(key, o), SelectorKept(key, o.labels), UNCHANGED spec,
         NEW p, Fit(p)
  PROVE  Fit(p)'
<1> DEFINE k == Key(StepAt(nodes, p), "Deployment")
<1>1. k[1] = "Deployment"
  BY KeyKind
<1>2. k \in DOMAIN objs /\ objs[k].labels = Labels(StepAt(nodes, p))
  BY DEF Fit
<1>3. k \in DOMAIN objs' /\ objs'[k].labels = objs[k].labels
  <2> HIDE DEF k
  <2> QED
    BY <1>1, <1>2, PutIs DEF SelectorKept
<1>4. nodes' = nodes
  BY DEF nodes
<1> QED
  BY <1>2, <1>3, <1>4 DEF Fit, EndpointFound, Or, lookupManifestDir

\* What a pass does to the objects: nothing, or it applies one.
LEMMA ExpObjects ==
  ASSUME PlaceInv, ExpNext
  PROVE  \/ UNCHANGED objs /\ pc # "apply"
         \/ UNCHANGED objs /\ PassFails
         \/ /\ reconcileResource /\ pc = "apply"
            /\ Put(Key(step, kind), Object(step, nodes[cur], kind))
            /\ SelectorKept(Key(step, kind), Object(step, nodes[cur], kind).labels)
            /\ Applicable(step, nodes[cur], kind)
         \/ /\ ApplyRouterDeployment /\ pc = "router" /\ ~spec.spoils
            /\ Put(RouterDeployment, [env |-> None, labels |-> RouterLabels, url |-> url])
            /\ SelectorKept(RouterDeployment, RouterLabels)
         \/ /\ ApplyRouterService
            /\ Put(RouterService, [port |-> RouterPort, labels |-> RouterLabels])
            /\ SelectorKept(RouterService, RouterLabels)
<1>1. Object(step, nodes[cur], kind).labels = Labels(step)
  BY DEF Object
<1>2. CASE reconcileResource
  BY <1>1, <1>2 DEF reconcileResource, StepApplies
<1>3. CASE ApplyRouterDeployment
  BY <1>3 DEF ApplyRouterDeployment, RouterApplies
<1>4. CASE ApplyRouterService
  <2>1. RouterService[1] = "Service"
    BY DEF RouterService
  <2> QED
    BY <1>4, <2>1 DEF ApplyRouterService, SelectorKept
<1>5. CASE ~reconcileResource /\ ~ApplyRouterDeployment /\ ~ApplyRouterService
  BY <1>5 DEF ExpNext, Expand, StartPass, EnterNode, LeaveNode, SkipStep, EnterStep, PassFails
<1> QED
  BY <1>2, <1>3, <1>4, <1>5

\* The steps the pass is through with afterwards: those it was through with
\* before, and the one it has just deployed or skipped.
LEMMA DoneNext ==
  ASSUME PlaceInv, ExpNext, NEW p \in Positions(nodes), Done(p)'
  PROVE  \/ Done(p)
         \/ ~Deployable(p)
         \/ reconcileResource /\ pc = "apply" /\ kind = "Deployment" /\ p = <<cur, idx>>
<1>0. /\ p[1] \in DOMAIN nodes /\ p[2] \in 1..Len(nodes[p[1]]) /\ p = <<p[1], p[2]>>
      /\ p[2] \in Nat /\ Len(nodes[p[1]]) \in Nat
  BY NodesType, PositionParts
<1>i. idx \in Nat
  BY DEF PlaceInv
<1>1. CASE StartPass
  BY <1>0, <1>1 DEF StartPass, Done
<1>2. ASSUME NEW n \in left, EnterNode(n)
      PROVE  Done(p)
  <2>1. /\ pc = "nodes" /\ left' = left \ {n} /\ cur' = n /\ idx' = 1
    BY <1>2 DEF EnterNode
  <2>2. p[1] \notin left
    BY <1>0, <2>1 DEF Done
  <2> QED
    BY <2>1, <2>2 DEF PlaceInv
<1>3. CASE LeaveNode
  BY <1>3 DEF LeaveNode, Done, passVars
<1>4. CASE SkipStep
  <2>1. /\ pc = "steps" /\ idx' = idx + 1 /\ UNCHANGED <<pc, left, cur>>
        /\ step.node # None \/ step.ext # None
    BY <1>4 DEF SkipStep
  <2>2. CASE p = <<cur, idx>>
    BY <2>1, <2>2 DEF Deployable, StepAt, step
  <2>3. CASE p # <<cur, idx>>
    <3>1. p[1] = cur => p[2] # idx
      BY <1>0, <2>3
    <3>2. p[1] = cur => p[2] < idx + 1
      BY <2>1 DEF Done
    <3>3. p[1] = cur => p[2] < idx
      BY <1>0, <1>i, <3>1, <3>2
    <3> QED
      BY <2>1, <3>3 DEF Done
  <2> QED
    BY <2>2, <2>3
<1>5. CASE EnterStep
  BY <1>5 DEF EnterStep, Done
<1>6. CASE reconcileResource
  <2>1. pc = "apply" /\ UNCHANGED <<left, cur>> /\ kind \in {"Service", "Deployment"}
    BY <1>6 DEF reconcileResource, PlaceInv
  <2>2. CASE kind = "Service"
    BY <1>6, <2>1, <2>2 DEF reconcileResource, Done
  <2>3. CASE kind = "Deployment"
    <3>0. idx' = idx + 1
      BY <1>6, <2>3 DEF reconcileResource
    <3>1. CASE p = <<cur, idx>>
      BY <1>6, <2>1, <2>3, <3>1
    <3>2. CASE p # <<cur, idx>>
      <4>1. p[1] = cur => p[2] # idx
        BY <1>0, <3>2
      <4>2. p[1] = cur => p[2] < idx + 1
        BY <2>1, <3>0 DEF Done
      <4>3. p[1] = cur => p[2] < idx
        BY <1>0, <1>i, <4>1, <4>2
      <4> QED
        BY <2>1, <4>3 DEF Done
    <3> QED
      BY <3>1, <3>2
  <2> QED
    BY <2>1, <2>2, <2>3
<1>7. CASE ApplyRouterDeployment
  BY <1>7 DEF ApplyRouterDeployment, Done, passVars
<1>8. CASE ApplyRouterService \/ PassFails
  BY <1>8 DEF ApplyRouterService, PassFails, EndPass, Done
<1> QED
  BY <1>1, <1>2, <1>3, <1>4, <1>5, <1>6, <1>7, <1>8 DEF ExpNext, Expand

\* A step is deployed before the pass goes on to the next.
LEMMA FitNext ==
  ASSUME PlaceInv, FitInv, ExpNext
  PROVE  FitInv'
<1>n. spec' = spec /\ nodes' = nodes /\ \A p : Deployable(p)' = Deployable(p)
  <2>1. spec' = spec
    BY PlaceNext
  <2> QED
    BY <2>1 DEF nodes, Deployable, StepAt
<1> SUFFICES ASSUME NEW p \in Positions(nodes), Done(p)', Deployable(p) PROVE Fit(p)'
  BY <1>n DEF FitInv
<1>1. CASE Done(p)
  <2>1. Fit(p)
    BY <1>1 DEF FitInv
  <2>2. CASE UNCHANGED objs
    BY <1>n, <2>1, <2>2 DEF Fit, EndpointFound, Or, lookupManifestDir
  <2>3. CASE ~UNCHANGED objs
    <3>1. \E key, o : Put(key, o) /\ SelectorKept(key, o.labels)
      <4>1. [env |-> None, labels |-> RouterLabels, url |-> url].labels = RouterLabels
        OBVIOUS
      <4>2. [port |-> RouterPort, labels |-> RouterLabels].labels = RouterLabels
        OBVIOUS
      <4> QED
        BY <2>3, <4>1, <4>2, ExpObjects
    <3> QED
      BY <1>n, <2>1, <3>1, FitPut
  <2> QED
    BY <2>2, <2>3
<1>2. CASE reconcileResource /\ pc = "apply" /\ kind = "Deployment" /\ p = <<cur, idx>>
  <2>1. StepAt(nodes, p) = step /\ p[1] = cur
    BY <1>2, Here
  <2>2. /\ Put(Key(step, "Deployment"), Object(step, nodes[cur], "Deployment"))
        /\ Applicable(step, nodes[cur], "Deployment")
    BY <1>2 DEF reconcileResource, StepApplies
  <2>3. Object(step, nodes[cur], "Deployment").labels = Labels(step)
    BY DEF Object
  <2>4. /\ Key(step, "Deployment") \in DOMAIN objs'
        /\ objs'[Key(step, "Deployment")].labels = Labels(step)
    BY <2>2, <2>3, PutIs
  <2>5. /\ lookupManifestDir(step) /\ EndpointFound(step, nodes[cur])
        /\ Or(step.ns, GraphNs) = GraphNs
    BY <2>2 DEF Applicable
  <2> QED
    BY <1>n, <2>1, <2>4, <2>5 DEF Fit, EndpointFound, Or, lookupManifestDir
<1> QED
  BY <1>1, <1>2, DoneNext

\* When the router is applied every step has been deployed.
LEMMA AllDone ==
  ASSUME PlaceInv, pc \in {"router", "service"}, NEW p \in Positions(nodes)
  PROVE  Done(p)
  BY DEF PlaceInv

\* When the router is applied, nothing has stopped the pass: the graph is usable.
LEMMA RouterUsable ==
  ASSUME PlaceInv, FitInv, pc = "router", ~spec.spoils, SelectorKept(RouterDeployment, RouterLabels)
  PROVE  Usable
<1> SUFFICES ASSUME NEW p \in Positions(nodes), Deployable(p), NEW s, s = StepAt(nodes, p)
             PROVE  /\ s.name \in DOMAIN Template
                    /\ s.ns \in {None, GraphNs}
                    /\ s.svc # routerServiceName
                    /\ \A q \in Positions(nodes) :
                         LET t == StepAt(nodes, q) IN
                         /\ Deployable(q) /\ t.name \in DOMAIN Template
                         /\ DeploymentName(t) = DeploymentName(s)
                         => Labels(t) = Labels(s)
                    /\ s.ds # NoKey =>
                         \E i \in DOMAIN nodes[p[1]] :
                           LET t == nodes[p[1]][i] IN
                           /\ t.down /\ t.svc = s.ds /\ t.name \in DOMAIN Template
                           /\ \A j \in 1 .. i - 1 :
                                ~(nodes[p[1]][j].down /\ nodes[p[1]][j].svc = s.ds)
  BY DEF Usable
<1>f. \A q \in Positions(nodes) : Deployable(q) => Fit(q)
  BY AllDone DEF FitInv
<1>1. s.name \in DOMAIN Template /\ s.ns \in {None, GraphNs}
  BY <1>f DEF Fit, lookupManifestDir, Or
<1>2. /\ Key(s, "Deployment") \in DOMAIN objs
      /\ objs[Key(s, "Deployment")].labels = Labels(s)
  BY <1>f DEF Fit
<1>3. s.svc # routerServiceName
  <2> SUFFICES ASSUME s.svc = routerServiceName PROVE FALSE
    OBVIOUS
  <2>1. s.svc # None
    BY RouterAssumption DEF routerServiceName, Or
  <2>2. Key(s, "Deployment") = RouterDeployment
    BY <2>1, KeyKind DEF DeploymentName, RouterDeployment
  <2>3. RouterDeployment[1] = "Deployment"
    BY DEF RouterDeployment
  <2>4. Labels(s) = RouterLabels
    BY <1>2, <2>2, <2>3 DEF SelectorKept
  <2> QED
    BY <2>4, LabelsOf
<1>4. ASSUME NEW q \in Positions(nodes), NEW t, t = StepAt(nodes, q), Deployable(q),
             DeploymentName(t) = DeploymentName(s)
      PROVE  Labels(t) = Labels(s)
  <2>1. objs[Key(t, "Deployment")].labels = Labels(t)
    BY <1>f, <1>4 DEF Fit
  <2>2. Key(t, "Deployment") = Key(s, "Deployment")
    BY <1>4, KeyKind
  <2> QED
    BY <1>2, <2>1, <2>2
<1>5. ASSUME s.ds # NoKey
      PROVE  \E i \in DOMAIN nodes[p[1]] :
               LET t == nodes[p[1]][i] IN
               /\ t.down /\ t.svc = s.ds /\ t.name \in DOMAIN Template
               /\ \A j \in 1 .. i - 1 :
                    ~(nodes[p[1]][j].down /\ nodes[p[1]][j].svc = s.ds)
  <2> DEFINE steps == nodes[p[1]]
             d == findDownStreamService(s.ds, steps)
  <2>1. steps \in Seq(Range(steps)) /\ DOMAIN steps = 1..Len(steps)
    BY PositionParts, NodesType
  <2>2. d # 0 /\ steps[d].name \in DOMAIN Template
    BY <1>f, <1>5 DEF Fit, EndpointFound, lookupManifestDir
  <2> HIDE DEF steps
  <2>3. /\ d \in 1..Len(steps) /\ steps[d].svc = s.ds /\ steps[d].down
        /\ \A j \in 1..(d - 1) : ~(steps[j].down /\ steps[j].svc = s.ds)
    BY <2>1, <2>2, FirstDownstream
  <2> HIDE DEF d
  <2> QED
    BY <2>1, <2>2, <2>3 DEF steps
<1> QED
  BY <1>1, <1>3, <1>4, <1>5

\* A step's object is no router's.
LEMMA ObjectNotRouter ==
  ASSUME NEW s, NEW steps, NEW k
  PROVE  "url" \notin DOMAIN Object(s, steps, k)
  BY DEF Object

\* Whether a graph is usable depends on the spec alone.
LEMMA UsableKept ==
  ASSUME UNCHANGED spec
  PROVE  Usable' <=> Usable
  BY DEF Usable, Deployable, nodes, StepAt, routerServiceName, DeploymentName, Labels, Or

\* The router has been applied, or it was there before.
LEMMA ProvidedNext ==
  ASSUME PlaceInv, ExpNext, Provided'
  PROVE  /\ Provided \/ ApplyRouterDeployment
         /\ ~ApplyRouterDeployment => objs'[RouterDeployment] = objs[RouterDeployment]
<1>n. RouterDeployment' = RouterDeployment
  <2>1. spec' = spec
    BY PlaceNext
  <2> QED
    BY <2>1 DEF RouterDeployment, routerServiceName, Or
<1>1. RouterDeployment \in DOMAIN objs' /\ "url" \in DOMAIN objs'[RouterDeployment]
  BY <1>n DEF Provided
<1>2. CASE UNCHANGED objs
  BY <1>1, <1>2 DEF Provided
<1>3. CASE reconcileResource
  <2>1. PICK key, o : key = Key(step, kind) /\ o = Object(step, nodes[cur], kind)
    OBVIOUS
  <2>2. Put(key, o) /\ "url" \notin DOMAIN o
    BY <1>3, <2>1, ObjectNotRouter DEF reconcileResource
  <2>3. RouterDeployment # key
    BY <1>1, <2>2, PutIs
  <2> QED
    BY <1>1, <2>2, <2>3, PutIs DEF Provided
<1>4. CASE ApplyRouterService
  <2>1. Put(RouterService, [port |-> RouterPort, labels |-> RouterLabels])
    BY <1>4 DEF ApplyRouterService
  <2>2. RouterDeployment # RouterService
    <3>1. RouterDeployment[1] = "Deployment" /\ RouterService[1] = "Service"
      BY DEF RouterDeployment, RouterService
    <3> QED
      BY <3>1
  <2> QED
    BY <1>1, <2>1, <2>2, PutIs DEF Provided
<1> QED
  BY <1>2, <1>3, <1>4, ExpObjects

\* What the router's handlers leave alone.
LEMMA LifeCases ==
  ASSUME [LifeNext]_lifeVars
  PROVE  \/ ExpNext /\ UNCHANGED <<mcGraph, rq>>
         \/ StartRouter /\ UNCHANGED expVars
         \/ UNCHANGED expVars /\ UNCHANGED mcGraph
  BY DEF LifeNext, lifeVars, endVars, StartRouter, Requests, Handle, CallData, DataRequest,
     UiRequest, mcAssetHandler, DataStep, DataSkip, DataRefuse, DataEnd, mcUiHandler, UiSkip, UiProxy, UiRefuse,
     UiMessage, UiForward, UiEnd, Respond

\* Every step of the controller and of the router keeps the three invariants.
LEMMA ServedNext ==
  ASSUME PlaceInv, FitInv, ProvidedInv, [LifeNext]_lifeVars
  PROVE  PlaceInv' /\ FitInv' /\ ProvidedInv'
<1>1. CASE ExpNext /\ UNCHANGED <<mcGraph, rq>>
  <2>1. PlaceInv' /\ FitInv' /\ spec' = spec
    BY <1>1, PlaceNext, FitNext
  <2>2. Provided' => Usable
    <3>1. CASE ApplyRouterDeployment
      BY <3>1, RouterUsable DEF ApplyRouterDeployment, RouterApplies
    <3>2. CASE ~ApplyRouterDeployment
      BY <1>1, <3>2, ProvidedNext DEF ProvidedInv
    <3> QED
      BY <3>1, <3>2
  <2> QED
    BY <1>1, <2>1, <2>2, UsableKept DEF ProvidedInv
<1>2. ASSUME UNCHANGED expVars
      PROVE  PlaceInv' /\ FitInv' /\ (Provided' <=> Provided) /\ (Usable' <=> Usable)
  <2>1. nodes' = nodes /\ UNCHANGED <<spec, pc, left, cur, idx, kind, url, objs>>
    BY <1>2 DEF expVars, nodes
  <2>2. (\A p : Deployable(p)' = Deployable(p)) /\ (\A p : Done(p)' = Done(p))
    BY <2>1 DEF Deployable, StepAt, Done
  <2>3. PlaceInv'
    BY <2>1, <2>2 DEF PlaceInv
  <2>4. \A p : Fit(p)' = Fit(p)
    BY <2>1 DEF Fit, EndpointFound, Or, lookupManifestDir
  <2>5. FitInv'
    BY <2>1, <2>2, <2>4 DEF FitInv
  <2>6. Provided' <=> Provided
    BY <2>1 DEF Provided, RouterDeployment, routerServiceName, Or
  <2> QED
    BY <2>1, <2>3, <2>5, <2>6, UsableKept
<1>3. CASE StartRouter /\ UNCHANGED expVars
  <2>1. Provided
    BY <1>3 DEF StartRouter, Provided
  <2> QED
    BY <1>2, <1>3, <2>1 DEF ProvidedInv
<1>4. CASE UNCHANGED expVars /\ UNCHANGED mcGraph
  BY <1>2, <1>4 DEF ProvidedInv
<1> QED
  BY <1>1, <1>3, <1>4, LifeCases

\* Nothing is there at first.
LEMMA LifeStart ==
  ASSUME LifeInit
  PROVE  PlaceInv /\ FitInv /\ ProvidedInv /\ DOMAIN objs = {} /\ mcGraph = None
<1>1. /\ spec \in Specs /\ pc = "queued" /\ left = {} /\ cur = None /\ idx = 1
      /\ kind = "Service" /\ url = NoURLs(nodes) /\ DOMAIN objs = {} /\ mcGraph = None
  BY DEF LifeInit, ExpInit, EndInit
<1>2. PlaceInv
  BY <1>1 DEF PlaceInv, NoURLs
<1> QED
  BY <1>1, <1>2 DEF FitInv, Done, ProvidedInv, Provided

\* The inductive invariant of ServedUsable.
LEMMA LifeServed == LifeSpec => [](PlaceInv /\ FitInv /\ ProvidedInv)
<1>1. LifeInit => PlaceInv /\ FitInv /\ ProvidedInv
  BY LifeStart
<1>2. PlaceInv /\ FitInv /\ ProvidedInv /\ [LifeNext]_lifeVars => (PlaceInv /\ FitInv /\ ProvidedInv)'
  BY ServedNext
<1> QED
  BY <1>1, <1>2, PTL DEF LifeSpec

\* No router runs a graph of which a step could not be deployed, for any accepted
\* graphs and any calls that fail: reconcileResource returns the first error and
\* ends the pass, whatever the order of the nodes, and the router's Deployment
\* comes last (Reconcile, lines 385-422).
THEOREM ServedUsableCorrect == LifeSpec => []ServedUsable
<1>1. ProvidedInv => ServedUsable
  BY DEF ProvidedInv, ServedUsable
<1> QED
  BY <1>1, LifeServed, PTL
-----------------------------------------------------------------------------
(***************************************************************************)
(* Where the URLs lead.                                                    *)
(***************************************************************************)
\* The step's Service is there, with the step's port and selector.
HasService(s) ==
  /\ Key(s, "Service") \in DOMAIN objs
  /\ objs[Key(s, "Service")].labels = Labels(s)
  /\ objs[Key(s, "Service")].port = Template[s.name].port

\* Everything the steps need is there.
Standing == \A p \in Positions(nodes) :
              Deployable(p) => Fit(p) /\ HasService(StepAt(nodes, p))

\* These are the URLs of the steps' Services.
Leads(u) == \A p \in Positions(nodes) :
              Deployable(p) => u[p] = getServiceURL(StepAt(nodes, p))

\* Every URL that has been noted, in the pass's copy, in the router's Deployment and
\* in the router, is that of a step that stands.
RoutesInv ==
  DistinctNames =>
    /\ \A p \in Positions(nodes) : Done(p) /\ Deployable(p) =>
         HasService(StepAt(nodes, p)) /\ url[p] = getServiceURL(StepAt(nodes, p))
    /\ pc = "apply" /\ kind = "Deployment" => HasService(step)
    /\ Provided => Standing /\ Leads(objs[RouterDeployment].url)
    /\ mcGraph # None => Standing /\ Leads(mcGraph.url)

\* An object of the same name is the same.
LEMMA ServiceKept ==
  ASSUME PlaceInv, DistinctNames, ExpNext, NEW p \in Positions(nodes), Deployable(p),
         NEW s, s = StepAt(nodes, p), lookupManifestDir(s), HasService(s)
  PROVE  HasService(s)'
<1> DEFINE k == Key(s, "Service")
<1>0. k[1] = "Service" /\ k \in DOMAIN objs /\ k # RouterService
      /\ objs[k].labels = Labels(s) /\ objs[k].port = Template[s.name].port
  BY KeyKind DEF HasService, DistinctNames
<1> HIDE DEF k
<1>g. ASSUME k \in DOMAIN objs', objs'[k].labels = Labels(s), objs'[k].port = Template[s.name].port
      PROVE  HasService(s)'
  BY <1>g DEF HasService, k
<1>1. CASE UNCHANGED objs
  BY <1>0, <1>1, <1>g
<1>2. CASE reconcileResource /\ pc = "apply"
  <2> DEFINE o == Object(step, nodes[cur], kind)
  <2>1. Put(Key(step, kind), o) /\ lookupManifestDir(step) /\ kind \in {"Service", "Deployment"}
    BY <1>2 DEF reconcileResource, StepApplies, Applicable, PlaceInv
  <2>2. CASE k # Key(step, kind)
    <3> HIDE DEF o
    <3> QED
      BY <1>0, <1>g, <2>1, <2>2, PutIs
  <2>3. CASE k = Key(step, kind)
    <3>1. kind = "Service"
      BY <1>0, <2>1, <2>3, KeyKind
    <3>2. o.port = Template[step.name].port /\ o.labels = Labels(step)
      BY <3>1 DEF Object
    <3>3. Labels(step) = Labels(s)
      <4>1. PICK q \in Positions(nodes) : StepAt(nodes, q) = step /\ Deployable(q)
        BY <1>2, Here
      <4> QED
        BY <2>1, <2>3, <3>1, <4>1 DEF DistinctNames, k
    <3>4. Template[step.name].svc = Template[s.name].svc
      BY <3>3, LabelsOf
    <3>5. Template[step.name].port = Template[s.name].port
      BY <2>1, <3>4, TemplateAssumption DEF lookupManifestDir
    <3>6. k \in DOMAIN objs' /\ objs'[k] = o
      <4> HIDE DEF o
      <4> QED
        BY <2>1, <2>3, PutIs
    <3> QED
      BY <1>g, <3>2, <3>3, <3>5, <3>6
  <2> QED
    BY <2>2, <2>3
<1>3. CASE ApplyRouterDeployment \/ ApplyRouterService
  <2>1. RouterDeployment[1] = "Deployment"
    BY DEF RouterDeployment
  <2>2. \E key, o : Put(key, o) /\ key # k
    BY <1>0, <1>3, <2>1 DEF ApplyRouterDeployment, ApplyRouterService
  <2> QED
    BY <1>0, <1>g, <2>2, PutIs
<1> QED
  BY <1>1, <1>2, <1>3, ExpObjects

\* What stands stays.
LEMMA StandingKept ==
  ASSUME PlaceInv, DistinctNames, ExpNext, Standing
  PROVE  Standing'
<1>n. spec' = spec /\ nodes' = nodes /\ \A p : Deployable(p)' = Deployable(p)
  <2>1. spec' = spec
    BY PlaceNext
  <2> QED
    BY <2>1 DEF nodes, Deployable, StepAt
<1> SUFFICES ASSUME NEW p \in Positions(nodes), Deployable(p), NEW s, s = StepAt(nodes, p)
             PROVE  Fit(p)' /\ HasService(s)'
  BY <1>n DEF Standing, StepAt
<1>1. Fit(p) /\ HasService(s)
  BY DEF Standing
<1>2. lookupManifestDir(s)
  BY <1>1 DEF Fit
<1>3. HasService(s)'
  BY <1>1, <1>2, ServiceKept
<1>4. CASE UNCHANGED objs
  BY <1>n, <1>1, <1>3, <1>4 DEF Fit, EndpointFound, Or, lookupManifestDir
<1>5. CASE ~UNCHANGED objs
  <2>1. \E key, o : Put(key, o) /\ SelectorKept(key, o.labels)
    <3>1. [env |-> None, labels |-> RouterLabels, url |-> url].labels = RouterLabels
      OBVIOUS
    <3>2. [port |-> RouterPort, labels |-> RouterLabels].labels = RouterLabels
      OBVIOUS
    <3> QED
      BY <1>5, <3>1, <3>2, ExpObjects
  <2> QED
    BY <1>n, <1>1, <1>3, <2>1, FitPut
<1> QED
  BY <1>4, <1>5

\* The URL of a step does not change once the pass is through with it.
LEMMA URLKept ==
  ASSUME PlaceInv, ExpNext, NEW p \in Positions(nodes), Done(p), Done(p)'
  PROVE  url'[p] = url[p]
<1>0. p # <<cur, idx>> \/ pc \notin {"steps", "apply"}
  <2> SUFFICES ASSUME p = <<cur, idx>> PROVE FALSE
    OBVIOUS
  <2>1. p[1] = cur /\ p[2] = idx /\ idx \in Nat
    BY DEF PlaceInv
  <2> QED
    BY <2>1 DEF Done
<1>1. CASE SkipStep \/ reconcileResource
  <2>1. pc \in {"steps", "apply"} /\ p \in DOMAIN url
    BY <1>1 DEF SkipStep, reconcileResource, PlaceInv
  <2>2. \/ UNCHANGED url
        \/ \E v : url' = [url EXCEPT ![<<cur, idx>>] = v]
    BY <1>1 DEF SkipStep, reconcileResource
  <2> QED
    BY <1>0, <2>1, <2>2
<1>2. CASE ApplyRouterService \/ PassFails
  BY <1>2 DEF ApplyRouterService, PassFails, EndPass, Done
<1>3. CASE StartPass \/ LeaveNode \/ EnterStep \/ ApplyRouterDeployment \/ \E n \in left : EnterNode(n)
  BY <1>3 DEF StartPass, LeaveNode, EnterStep, ApplyRouterDeployment, EnterNode, passVars
<1> QED
  BY <1>1, <1>2, <1>3 DEF ExpNext, Expand

\* The controller keeps the URLs true.
LEMMA RoutesNext ==
  ASSUME PlaceInv, FitInv, RoutesInv, ExpNext, UNCHANGED mcGraph
  PROVE  RoutesInv'
<1>n. spec' = spec /\ nodes' = nodes /\ \A p : Deployable(p)' = Deployable(p)
  <2>1. spec' = spec
    BY PlaceNext
  <2> QED
    BY <2>1 DEF nodes, Deployable, StepAt
<1>r. RouterDeployment' = RouterDeployment /\ RouterService' = RouterService
  BY <1>n DEF RouterDeployment, RouterService, routerServiceName, Or
<1>d. DistinctNames' <=> DistinctNames
  BY <1>n, <1>r DEF DistinctNames, Deployable, StepAt, lookupManifestDir, Key, ServiceName,
     DeploymentName, Labels, Or
<1> SUFFICES ASSUME DistinctNames PROVE RoutesInv'
  BY <1>d DEF RoutesInv
<1>0. /\ \A p \in Positions(nodes) : Done(p) /\ Deployable(p) =>
           HasService(StepAt(nodes, p)) /\ url[p] = getServiceURL(StepAt(nodes, p))
      /\ pc = "apply" /\ kind = "Deployment" => HasService(step)
      /\ Provided => Standing /\ Leads(objs[RouterDeployment].url)
      /\ mcGraph # None => Standing /\ Leads(mcGraph.url)
  BY DEF RoutesInv
<1>u. \A u : Leads(u)' <=> Leads(u)
  BY <1>n DEF Leads, StepAt, getServiceURL, ServiceName, Or
<1>1. ASSUME NEW p \in Positions(nodes), Done(p)', Deployable(p), NEW s, s = StepAt(nodes, p)
      PROVE  HasService(s)' /\ url'[p] = getServiceURL(s)
  <2>1. CASE Done(p)
    <3>1. lookupManifestDir(s) /\ HasService(s) /\ url[p] = getServiceURL(s)
      BY <1>0, <1>1, <2>1 DEF FitInv, Fit
    <3> QED
      BY <1>1, <2>1, <3>1, ServiceKept, URLKept
  <2>2. CASE reconcileResource /\ pc = "apply" /\ kind = "Deployment" /\ p = <<cur, idx>>
    <3>1. s = step /\ HasService(s)
      BY <1>0, <1>1, <2>2, Here
    <3>2. lookupManifestDir(s) /\ url' = [url EXCEPT ![p] = getServiceURL(step)] /\ p \in DOMAIN url
      BY <2>2, <3>1 DEF reconcileResource, StepApplies, Applicable, PlaceInv
    <3>3. HasService(s)'
      BY <1>1, <3>1, <3>2, ServiceKept
    <3> QED
      BY <3>1, <3>2, <3>3
  <2> QED
    BY <1>1, <2>1, <2>2, DoneNext
<1>2. ASSUME pc' = "apply", kind' = "Deployment"
      PROVE  HasService(step)'
  <2>1. /\ reconcileResource /\ pc = "apply" /\ kind = "Service" /\ UNCHANGED <<cur, idx>>
        /\ Put(Key(step, "Service"), Object(step, nodes[cur], "Service"))
    BY <1>2 DEF ExpNext, Expand, StartPass, LeaveNode, SkipStep, EnterStep, reconcileResource,
       ApplyRouterDeployment, ApplyRouterService, EnterNode, PassFails, EndPass
  <2>2. step' = step
    BY <1>n, <2>1 DEF step
  <2>3. PICK s, o : s = step /\ o = Object(step, nodes[cur], "Service")
    OBVIOUS
  <2>4. o.port = Template[s.name].port /\ o.labels = Labels(s) /\ Put(Key(s, "Service"), o)
    BY <2>1, <2>3 DEF Object
  <2>5. HasService(s)'
    BY <2>4, PutIs DEF HasService
  <2> QED
    BY <2>2, <2>3, <2>5 DEF HasService
<1>3. ASSUME Provided'
      PROVE  Standing' /\ Leads(objs'[RouterDeployment].url)
  <2>1. CASE ApplyRouterDeployment
    <3>1. pc = "router" /\ Put(RouterDeployment, [env |-> None, labels |-> RouterLabels, url |-> url])
      BY <2>1 DEF ApplyRouterDeployment
    <3>2. objs'[RouterDeployment].url = url
      <4>1. PICK key, o : key = RouterDeployment
                          /\ o = [env |-> None, labels |-> RouterLabels, url |-> url]
        OBVIOUS
      <4>2. Put(key, o) /\ o.url = url
        BY <3>1, <4>1
      <4>3. key \in DOMAIN objs' /\ objs'[key] = o
        BY <4>2, PutIs
      <4> QED
        BY <4>1, <4>2, <4>3
    <3>3. \A p \in Positions(nodes) : Done(p)
      BY <3>1, AllDone
    <3>4. Standing /\ Leads(url)
      BY <1>0, <3>3 DEF FitInv, Standing, Leads
    <3> QED
      BY <3>2, <3>4, StandingKept
  <2>2. CASE ~ApplyRouterDeployment
    <3>1. Provided /\ objs'[RouterDeployment] = objs[RouterDeployment]
      BY <1>3, <2>2, ProvidedNext
    <3> QED
      BY <1>0, <3>1, StandingKept
  <2> QED
    BY <2>1, <2>2
<1>4. ASSUME mcGraph # None
      PROVE  Standing' /\ Leads(mcGraph.url)
  BY <1>0, <1>4, StandingKept
<1>5. \A p \in Positions(nodes) : Done(p)' /\ Deployable(p) =>
         HasService(StepAt(nodes, p))' /\ url'[p] = getServiceURL(StepAt(nodes, p))
  <2> SUFFICES ASSUME NEW p \in Positions(nodes), Done(p)', Deployable(p)
               PROVE  HasService(StepAt(nodes, p))' /\ url'[p] = getServiceURL(StepAt(nodes, p))
    OBVIOUS
  <2>1. PICK s : s = StepAt(nodes, p)
    OBVIOUS
  <2>2. HasService(s)' /\ url'[p] = getServiceURL(s)
    BY <1>1, <2>1
  <2>3. StepAt(nodes, p)' = s
    BY <1>n, <2>1 DEF StepAt
  <2> QED
    BY <2>1, <2>2, <2>3 DEF HasService
<1> QED
  BY <1>n, <1>r, <1>u, <1>2, <1>3, <1>4, <1>5 DEF RoutesInv, StepAt, getServiceURL, ServiceName, Or

\* Everyone but the controller leaves the objects alone, and the router takes its
\* graph from its own Deployment.
LEMMA RoutesStart ==
  ASSUME RoutesInv, UNCHANGED expVars, StartRouter \/ UNCHANGED mcGraph
  PROVE  RoutesInv'
<1>1. nodes' = nodes /\ UNCHANGED <<spec, pc, left, cur, idx, kind, url, objs>>
  BY DEF expVars, nodes
<1>2. (\A p : Deployable(p)' = Deployable(p)) /\ (\A p : Done(p)' = Done(p))
  BY <1>1 DEF Deployable, StepAt, Done
<1>3. RouterDeployment' = RouterDeployment /\ RouterService' = RouterService /\ (Provided' <=> Provided)
  BY <1>1 DEF RouterDeployment, RouterService, Provided, routerServiceName, Or
<1>4. DistinctNames' <=> DistinctNames
  <2>1. spec' = spec /\ nodes' = nodes
    BY <1>1
  <2> QED
    BY <1>3, <2>1 DEF DistinctNames, Deployable, StepAt, lookupManifestDir, Key, ServiceName,
       DeploymentName, Labels, Or
<1>5. \A s : HasService(s)' <=> HasService(s)
  BY <1>1 DEF HasService
<1>6. Standing' <=> Standing
  <2>1. \A p : Fit(p)' = Fit(p)
    BY <1>1 DEF Fit, EndpointFound, Or, lookupManifestDir
  <2> QED
    BY <1>1, <1>2, <2>1 DEF Standing, HasService, StepAt
<1>7. \A u : Leads(u)' <=> Leads(u)
  BY <1>1, <1>2 DEF Leads, StepAt, getServiceURL, ServiceName, Or
<1> SUFFICES ASSUME DistinctNames PROVE RoutesInv'
  BY <1>4 DEF RoutesInv
<1>8. ASSUME mcGraph' # None
      PROVE  Standing /\ Leads(mcGraph'.url)
  <2>1. CASE UNCHANGED mcGraph
    BY <1>8, <2>1 DEF RoutesInv
  <2>2. CASE StartRouter
    <3>1. Provided /\ mcGraph' = [nodes |-> nodes, url |-> objs[RouterDeployment].url]
      BY <2>2 DEF StartRouter, Provided, main
    <3> QED
      BY <3>1 DEF RoutesInv
  <2> QED
    BY <2>1, <2>2
<1>9. (\A p \in Positions(nodes) : Done(p) /\ Deployable(p) =>
         HasService(StepAt(nodes, p)) /\ url[p] = getServiceURL(StepAt(nodes, p)))'
  BY <1>1, <1>2 DEF RoutesInv, StepAt, HasService, getServiceURL, ServiceName, Or
<1>10. (pc = "apply" /\ kind = "Deployment" => HasService(step))'
  BY <1>1 DEF RoutesInv, HasService, step
<1>11. PICK u : u = objs[RouterDeployment].url /\ objs'[RouterDeployment'].url = u
  BY <1>1, <1>3
<1>12. (Provided => Standing /\ Leads(objs[RouterDeployment].url))'
  <2>1. Provided => Standing /\ Leads(u)
    BY <1>11 DEF RoutesInv
  <2>2. Provided' => Standing' /\ Leads(u)'
    BY <1>3, <1>6, <1>7, <2>1
  <2> QED
    BY <1>11, <2>2 DEF Leads
<1>13. (mcGraph # None => Standing /\ Leads(mcGraph.url))'
  <2>1. PICK v : v = mcGraph'.url
    OBVIOUS
  <2>2. mcGraph' # None => Standing' /\ Leads(v)'
    BY <1>6, <1>7, <1>8, <2>1
  <2> QED
    BY <2>1, <2>2 DEF Leads
<1> QED
  BY <1>9, <1>10, <1>12, <1>13 DEF RoutesInv

\* What a standing step's URL finds: its Service, and its own pods behind it.
LEMMA URLResolves ==
  ASSUME NEW p \in Positions(nodes), Fit(p), NEW s, s = StepAt(nodes, p), HasService(s)
  PROVE  /\ Resolves(getServiceURL(s))
         /\ \A d \in Selected(<<"Service", <<getServiceURL(s).host>>>>) :
              <<"instance", Template[s.name].svc>> \in objs[d].labels
<1>1. PICK u : u = getServiceURL(s)
  OBVIOUS
<1>2. u.host = ServiceName(s) /\ u.port = Template[s.name].port /\ u.ns = GraphNs
  BY <1>1 DEF getServiceURL, Fit
<1>3. PICK k : k = <<"Service", <<u.host>>>>
  OBVIOUS
<1>4. k \in DOMAIN objs /\ objs[k].labels = Labels(s) /\ objs[k].port = u.port
  BY <1>2, <1>3, KeyKind DEF HasService
<1>5. PICK d : d = Key(s, "Deployment")
  OBVIOUS
<1>6. d \in DOMAIN objs /\ d[1] = "Deployment" /\ objs[d].labels = Labels(s)
  BY <1>5, KeyKind DEF Fit
<1>7. d \in Selected(k)
  BY <1>4, <1>6 DEF Selected
<1>8. \A e \in Selected(k) : <<"instance", Template[s.name].svc>> \in objs[e].labels
  BY <1>4, LabelsOf DEF Selected
<1>9. Resolves(u)
  BY <1>2, <1>3, <1>4, <1>7 DEF Resolves
<1> QED
  BY <1>1, <1>3, <1>8, <1>9

\* The inductive invariant of RoutesResolve.
LEMMA LifeRoutes == LifeSpec => [](PlaceInv /\ FitInv /\ RoutesInv)
<1>1. LifeInit => PlaceInv /\ FitInv /\ ProvidedInv /\ RoutesInv
  BY LifeStart DEF RoutesInv, Done, Provided, LifeInit, ExpInit
<1>2. PlaceInv /\ FitInv /\ RoutesInv /\ [LifeNext]_lifeVars => RoutesInv'
  BY LifeCases, RoutesNext, RoutesStart
<1> QED
  BY <1>1, <1>2, LifeServed, PTL DEF LifeSpec

\* The router's URLs lead to the steps' own pods, whether the user has named a step
\* or not and whatever failed on the way: recordResource notes a URL only when the
\* Service of that name and port is there (gmconnector_controller.go), and what has
\* been applied is not taken over by another template as long as names differ.
THEOREM RoutesResolveCorrect == LifeSpec => []RoutesResolve
<1>1. PlaceInv /\ FitInv /\ RoutesInv => RoutesResolve
  <2> SUFFICES ASSUME PlaceInv, RoutesInv, mcGraph # None, DistinctNames,
                      NEW p \in Positions(nodes), Deployable(p)
               PROVE  /\ mcGraph.url[p] # None
                      /\ Resolves(mcGraph.url[p])
                      /\ \A d \in Selected(<<"Service", <<mcGraph.url[p].host>>>>) :
                           <<"instance", Template[StepAt(nodes, p).name].svc>> \in objs[d].labels
    BY DEF RoutesResolve
  <2>1. PICK s : s = StepAt(nodes, p)
    OBVIOUS
  <2>2. Fit(p) /\ HasService(s) /\ mcGraph.url[p] = getServiceURL(s)
    BY <2>1 DEF RoutesInv, Standing, Leads
  <2>3. getServiceURL(s) # None
    BY <2>1, <2>2, URLAssumption DEF PlaceInv, nodes, Fit
  <2> QED
    BY <2>1, <2>2, <2>3, URLResolves
<1> QED
  BY <1>1, LifeRoutes, PTL
-----------------------------------------------------------------------------
(***************************************************************************)
(* What the Deployments are told to call.                                  *)
(***************************************************************************)
\* What a Deployment is told to call is the endpoint of a downstream service.
EnvInv ==
  \A d \in DOMAIN objs : d[1] = "Deployment" =>
    \/ objs[d].env = None
    \/ \E q \in Positions(nodes) :
         LET t == StepAt(nodes, q) IN t.down /\ objs[d].env = getDownstreamSvcEndpoint(t)

\* The environment of a step's Deployment names a downstream service of its node.
LEMMA EnvOf ==
  ASSUME PlaceInv, pc = "apply", EndpointFound(step, nodes[cur])
  PROVE  \/ Env(step, nodes[cur]) = None
         \/ \E q \in Positions(nodes) :
              LET t == StepAt(nodes, q)
              IN  t.down /\ Env(step, nodes[cur]) = getDownstreamSvcEndpoint(t)
<1>1. CASE step.ds = NoKey
  BY <1>1 DEF Env
<1>2. CASE step.ds # NoKey
  <2>1. PICK steps : steps = nodes[cur]
    OBVIOUS
  <2>2. cur \in DOMAIN nodes /\ steps \in Seq(Range(steps))
    BY <2>1, NodesType DEF PlaceInv
  <2>3. PICK d : d = findDownStreamService(step.ds, steps)
    OBVIOUS
  <2>4. d # 0 /\ Env(step, steps) = getDownstreamSvcEndpoint(steps[d])
    BY <1>2, <2>1, <2>3 DEF EndpointFound, Env
  <2>5. d \in 1..Len(steps) /\ steps[d].down
    BY <2>2, <2>3, <2>4, FirstDownstream
  <2>6. PICK q : q = <<cur, d>>
    OBVIOUS
  <2>7. q \in Positions(nodes) /\ StepAt(nodes, q) = steps[d]
    BY <2>1, <2>2, <2>5, <2>6, PositionIs DEF StepAt
  <2> QED
    BY <2>1, <2>4, <2>5, <2>7
<1> QED
  BY <1>1, <1>2

\* Deployments come by their environment in no other way.
LEMMA EnvNext ==
  ASSUME PlaceInv, EnvInv, [LifeNext]_lifeVars
  PROVE  EnvInv'
<1>n. nodes' = nodes
  BY LifeCases, PlaceNext DEF expVars, nodes
<1>g. ASSUME NEW d \in DOMAIN objs, d[1] = "Deployment", d \in DOMAIN objs', objs'[d] = objs[d]
      PROVE  \/ objs'[d].env = None
             \/ \E q \in Positions(nodes) :
                  LET t == StepAt(nodes, q)
                  IN  t.down /\ objs'[d].env = getDownstreamSvcEndpoint(t)
  BY <1>g DEF EnvInv
<1> SUFFICES ASSUME NEW d \in DOMAIN objs', d[1] = "Deployment"
             PROVE  \/ objs'[d].env = None
                    \/ \E q \in Positions(nodes) :
                         LET t == StepAt(nodes, q)
                         IN  t.down /\ objs'[d].env = getDownstreamSvcEndpoint(t)
  BY <1>n DEF EnvInv, StepAt, getDownstreamSvcEndpoint, getNsNameFromStep,
     getServiceDetailsFromManifests, Or
<1>1. CASE UNCHANGED objs
  BY <1>1, <1>g
<1>2. CASE ExpNext /\ reconcileResource
  <2>1. PICK key, o : key = Key(step, kind) /\ o = Object(step, nodes[cur], kind)
    OBVIOUS
  <2>2. Put(key, o) /\ Applicable(step, nodes[cur], kind) /\ pc = "apply"
    BY <1>2, <2>1 DEF reconcileResource, StepApplies
  <2>3. CASE d # key
    <3>1. d \in DOMAIN objs /\ objs'[d] = objs[d]
      BY <2>2, <2>3, PutOther
    <3> QED
      BY <3>1, <1>g
  <2>4. CASE d = key
    <3>1. kind = "Deployment"
      BY <2>1, <2>4, KeyKind DEF PlaceInv
    <3>2. o.env = Env(step, nodes[cur]) /\ EndpointFound(step, nodes[cur])
      BY <2>1, <2>2, <3>1 DEF Object, Applicable
    <3>3. objs'[d] = o
      BY <2>2, <2>4, PutIs
    <3> QED
      BY <2>2, <3>2, <3>3, EnvOf
  <2> QED
    BY <2>3, <2>4
<1>3. CASE ApplyRouterDeployment
  <2>1. PICK key, o : key = RouterDeployment
                      /\ o = [env |-> None, labels |-> RouterLabels, url |-> url]
    OBVIOUS
  <2>2. Put(key, o) /\ o.env = None
    BY <1>3, <2>1 DEF ApplyRouterDeployment
  <2>3. objs'[d] = o \/ (d \in DOMAIN objs /\ objs'[d] = objs[d])
    BY <2>2, PutIs
  <2> QED
    BY <2>2, <2>3, <1>g
<1>4. CASE ApplyRouterService
  <2>1. PICK key, o : key = RouterService /\ o = [port |-> RouterPort, labels |-> RouterLabels]
    OBVIOUS
  <2>2. Put(key, o) /\ key[1] = "Service"
    BY <1>4, <2>1 DEF ApplyRouterService, RouterService
  <2>3. d \in DOMAIN objs /\ objs'[d] = objs[d]
    BY <2>2, PutOther
  <2> QED
    BY <2>3, <1>g
<1> QED
  BY <1>1, <1>2, <1>3, <1>4, LifeCases, ExpObjects DEF expVars

\* A Deployment that is told a downstream service (setEnvVars) finds it under that
\* name and port once the router runs: findDownStreamService has looked it up among
\* the steps of its node, and all of these have been deployed by then, in whatever
\* order.
THEOREM EndpointsResolveCorrect == LifeSpec => []EndpointsResolve
<1>1. LifeInit => EnvInv
  BY LifeStart DEF EnvInv
<1>2. PlaceInv /\ EnvInv /\ [LifeNext]_lifeVars => EnvInv'
  BY EnvNext
<1>3. RoutesInv /\ EnvInv => EndpointsResolve
  <2> SUFFICES ASSUME RoutesInv, EnvInv, mcGraph # None, DistinctNames,
                      \A p \in Positions(nodes) : StepAt(nodes, p).down => Deployable(p),
                      NEW d \in DOMAIN objs, d[1] = "Deployment", objs[d].env # None
               PROVE  Resolves(objs[d].env)
    BY DEF EndpointsResolve
  <2>1. PICK q \in Positions(nodes) :
          LET t == StepAt(nodes, q) IN t.down /\ objs[d].env = getDownstreamSvcEndpoint(t)
    BY DEF EnvInv
  <2>2. PICK s : s = StepAt(nodes, q)
    OBVIOUS
  <2>3. Deployable(q) /\ s.ext = None /\ objs[d].env = getDownstreamSvcEndpoint(s)
    BY <2>1, <2>2 DEF Deployable
  <2>4. Fit(q) /\ HasService(s)
    BY <2>2, <2>3 DEF RoutesInv, Standing
  <2>5. getDownstreamSvcEndpoint(s) = getServiceURL(s)
    BY <2>3 DEF getDownstreamSvcEndpoint, getServiceURL, getNsNameFromStep,
       getServiceDetailsFromManifests, ServiceName
  <2> QED
    BY <2>2, <2>3, <2>4, <2>5, URLResolves
<1> QED
  BY <1>1, <1>2, <1>3, LifeRoutes, PTL DEF LifeSpec
-----------------------------------------------------------------------------
(***************************************************************************)
(* Types.                                                                  *)
(***************************************************************************)
\* A request is at a step of the root, and has a status once it is over or, for a
\* data request, once a service has been called.
RequestInv ==
  rq # NoRequest =>
    /\ mcGraph # None
    /\ {"kind", "at", "calls", "status", "open"} \subseteq DOMAIN rq
    /\ rq.at \in 1..(Len(rootSteps) + 1)
    /\ rq.open \in BOOLEAN
    /\ rq.status \in Statuses
    /\ ~rq.open => rq.status # "none"
    /\ rq.kind = "data" => rq.calls = <<>> \/ rq.status # "none"

\* The objects, and the graph a router is given, are of the shape of the spec.
ObjectsInv ==
  /\ \A x \in DOMAIN objs : x[1] \in {"Service", "Deployment"}
  /\ faults \in 0..MaxFaults
  /\ Provided => DOMAIN objs[RouterDeployment].url = Positions(nodes)
  /\ mcGraph # None => mcGraph.nodes = nodes /\ DOMAIN mcGraph.url = Positions(nodes)

\* The fields of a request that starts.
LEMMA NewIs ==
  ASSUME NEW k, NEW r, r = NewRequest(k)
  PROVE  /\ {"kind", "at", "calls", "status", "open"} \subseteq DOMAIN r
         /\ r.kind = k /\ r.at = 1 /\ r.calls = <<>> /\ r.status = "none" /\ r.open = TRUE
  BY DEF NewRequest

\* The fields of a request that is closed.
LEMMA CloseIs ==
  ASSUME NEW r, NEW st, NEW c, c = Close(r, st),
         {"kind", "at", "calls", "status", "open"} \subseteq DOMAIN r
  PROVE  /\ {"kind", "at", "calls", "status", "open"} \subseteq DOMAIN c
         /\ c.kind = r.kind /\ c.at = r.at /\ c.calls = r.calls
         /\ c.status = WriteHeader(r, st) /\ c.open = FALSE
  BY DEF Close

\* The handlers of the router, with the graph and the objects at rest.
LEMMA RequestNext ==
  ASSUME PlaceInv, ObjectsInv, RequestInv, UNCHANGED expVars, UNCHANGED mcGraph, Requests \/ Handle
  PROVE  RequestInv'
<1> DEFINE Fields == {"kind", "at", "calls", "status", "open"}
           Good(r) == /\ Fields \subseteq DOMAIN r
                      /\ r.at \in 1..(Len(rootSteps) + 1)
                      /\ r.open \in BOOLEAN
                      /\ r.status \in Statuses
                      /\ ~r.open => r.status # "none"
                      /\ r.kind = "data" => r.calls = <<>> \/ r.status # "none"
<1>0. mcGraph # None => Len(rootSteps) \in Nat
  <2>1. Root \in DOMAIN nodes
    BY NodesType DEF ValidGraph
  <2> QED
    BY <2>1, NodesType DEF ObjectsInv, rootSteps
<1>1. rootSteps' = rootSteps
  BY DEF rootSteps
<1>g. ASSUME mcGraph # None, rq' = NoRequest \/ Good(rq')
      PROVE  RequestInv'
  BY <1>g, <1>1 DEF RequestInv
<1>q. rq # NoRequest => mcGraph # None /\ Good(rq)
  BY DEF RequestInv
<1>2. ASSUME NEW h, NEW f, DataRequest(h, f)
      PROVE  RequestInv'
  <2>1. PICK r : r = NewRequest("data")
    OBVIOUS
  <2>n. Fields \subseteq DOMAIN r /\ r.kind = "data" /\ r.at = 1 /\ r.calls = <<>>
        /\ r.status = "none" /\ r.open = TRUE
    BY <2>1, NewIs, Zenon
  <2>2. mcGraph # None /\ rq' = [r EXCEPT !.header = h, !.form = f]
    BY <1>2, <2>1 DEF DataRequest
  <2>k. 1 \in 1..(Len(rootSteps) + 1)
    BY <1>0, <2>2
  <2>f. /\ Fields \subseteq DOMAIN rq' /\ rq'.kind = "data" /\ rq'.at = 1 /\ rq'.calls = <<>>
        /\ rq'.status = "none" /\ rq'.open = TRUE
    BY <2>n, <2>2
  <2>3. Good(rq')
    BY <2>k, <2>f DEF Statuses
  <2> QED
    BY <1>g, <2>2, <2>3
<1>3. ASSUME NEW b, UiRequest(b)
      PROVE  RequestInv'
  <2>1. PICK r : r = NewRequest("ui")
    OBVIOUS
  <2>n. Fields \subseteq DOMAIN r /\ r.kind = "ui" /\ r.at = 1 /\ r.calls = <<>>
        /\ r.status = "none" /\ r.open = TRUE
    BY <2>1, NewIs, Zenon
  <2>2. mcGraph # None /\ rq' = [r EXCEPT !.body = b, !.unread = b.form # "empty"]
    BY <1>3, <2>1 DEF UiRequest
  <2>k. 1 \in 1..(Len(rootSteps) + 1)
    BY <1>0, <2>2
  <2>f. /\ Fields \subseteq DOMAIN rq' /\ rq'.kind = "ui" /\ rq'.at = 1 /\ rq'.calls = <<>>
        /\ rq'.status = "none" /\ rq'.open = TRUE
    BY <2>n, <2>2
  <2>3. Good(rq')
    BY <2>k, <2>f DEF Statuses
  <2> QED
    BY <1>g, <2>2, <2>3
<1>4. CASE mcAssetHandler
  <2>1. PICK r : r = NewRequest("asset")
    OBVIOUS
  <2>2. /\ mcGraph # None
        /\ \/ rq' = Close(r, "200")
           \/ \E c : rq' = Close([r EXCEPT !.calls = c], "proxied")
    BY <1>4, <2>1 DEF mcAssetHandler
  <2>n. Fields \subseteq DOMAIN r /\ r.kind = "asset" /\ r.at = 1 /\ r.calls = <<>>
        /\ r.status = "none" /\ r.open = TRUE
    BY <2>1, NewIs, Zenon
  <2>3. PICK w, st : rq' = Close(w, st) /\ st \in {"200", "proxied"} /\ Fields \subseteq DOMAIN w
                     /\ w.at = 1 /\ w.kind = "asset" /\ w.status = "none"
    <3>1. CASE rq' = Close(r, "200")
      BY <2>n, <3>1
    <3>2. ASSUME NEW c, rq' = Close([r EXCEPT !.calls = c], "proxied")
          PROVE  \E w, st : /\ rq' = Close(w, st) /\ st \in {"200", "proxied"}
                            /\ Fields \subseteq DOMAIN w
                            /\ w.at = 1 /\ w.kind = "asset" /\ w.status = "none"
      <4>1. PICK w : w = [r EXCEPT !.calls = c]
        OBVIOUS
      <4>2. Fields \subseteq DOMAIN w /\ w.at = 1 /\ w.kind = "asset" /\ w.status = "none"
        BY <2>n, <4>1
      <4>3. rq' = Close(w, "proxied")
        BY <3>2, <4>1
      <4> QED
        BY <4>2, <4>3
    <3> QED
      BY <2>2, <3>1, <3>2
  <2>c. Fields \subseteq DOMAIN rq' /\ rq'.kind = w.kind /\ rq'.at = w.at
        /\ rq'.calls = w.calls /\ rq'.status = WriteHeader(w, st) /\ rq'.open = FALSE
    BY <2>3, CloseIs, Zenon
  <2>k. 1 \in 1..(Len(rootSteps) + 1)
    BY <1>0, <2>2
  <2>f. /\ Fields \subseteq DOMAIN rq' /\ rq'.kind = "asset" /\ rq'.at = 1
        /\ rq'.status \in {"200", "proxied"} /\ rq'.open = FALSE
    BY <2>3, <2>c DEF WriteHeader
  <2>4. Good(rq')
    BY <2>k, <2>f DEF Statuses
  <2> QED
    BY <1>g, <2>2, <2>4
<1>5. ASSUME DataSkip \/ DataRefuse \/ \E o \in Outcomes : DataStep(o)
      PROVE  RequestInv'
  <2>1. mcGraph # None /\ Good(rq) /\ rq.kind = "data" /\ rq.open /\ rq.at <= Len(rootSteps)
    BY <1>5, <1>q DEF DataSkip, DataRefuse, DataStep, AtDataStep, AtData
  <2>2. rq.at \in Nat /\ rq.at + 1 \in 1..(Len(rootSteps) + 1)
    BY <1>0, <2>1
  <2>3. PICK c : c = Append(rq.calls, getServiceURLByStepTarget(rq.at))
    OBVIOUS
  <2>4. PICK r : r = [rq EXCEPT !.at = @ + 1, !.calls = c]
    OBVIOUS
  <2>5. Fields \subseteq DOMAIN r /\ r.at = rq.at + 1 /\ r.kind = "data" /\ r.status = rq.status /\ r.open
    BY <2>1, <2>4
  <2>6. \/ rq' = [rq EXCEPT !.at = @ + 1]
        \/ \E w, st : w \in {rq, r} /\ st \in {"400", "500"} /\ rq' = Fail(w, st)
        \/ \E a, o : o \in BackendStatuses /\ rq' = [r EXCEPT !.answers = a, !.status = WriteHeader(r, o)]
    BY <1>5, <2>3, <2>4 DEF DataSkip, DataRefuse, DataStep
  <2>7. CASE rq' = [rq EXCEPT !.at = @ + 1]
    BY <1>g, <2>1, <2>2, <2>7
  <2>8. ASSUME NEW w \in {rq, r}, NEW st \in {"400", "500"}, rq' = Fail(w, st)
        PROVE  RequestInv'
    <3>0. Fields \subseteq DOMAIN w /\ w.kind = "data" /\ w.status = rq.status
          /\ w.at \in 1..(Len(rootSteps) + 1)
      BY <2>1, <2>2, <2>5
    <3>1. PICK e : e = Close(w, st)
      OBVIOUS
    <3>2. Fields \subseteq DOMAIN e /\ e.kind = w.kind /\ e.at = w.at
          /\ e.calls = w.calls /\ e.status = WriteHeader(w, st) /\ e.open = FALSE
      <4>1. Fields \subseteq DOMAIN w
        BY <3>0
      <4> QED
        BY <3>1, <4>1 DEF Close
    <3>3. rq' = [e EXCEPT !.failed = TRUE]
      BY <2>8, <3>1 DEF Fail
    <3>4. Fields \subseteq DOMAIN rq' /\ rq'.kind = "data" /\ rq'.at = w.at
          /\ rq'.status = WriteHeader(w, st) /\ rq'.open = FALSE
      BY <3>0, <3>2, <3>3
    <3>5. Good(rq')
      BY <2>1, <3>0, <3>4 DEF WriteHeader, Statuses
    <3> QED
      BY <1>g, <2>1, <3>5
  <2>9. ASSUME NEW a, NEW o \in BackendStatuses, rq' = [r EXCEPT !.answers = a, !.status = WriteHeader(r, o)]
        PROVE  RequestInv'
    <3>0. /\ Fields \subseteq DOMAIN rq' /\ rq'.at = r.at /\ rq'.kind = r.kind /\ rq'.open = r.open
          /\ rq'.status = WriteHeader(r, o)
      BY <2>5, <2>9
    <3>1. Good(rq')
      BY <2>1, <2>2, <2>5, <3>0 DEF WriteHeader, Statuses, BackendStatuses
    <3> QED
      BY <1>g, <2>1, <3>1
  <2> QED
    BY <2>6, <2>7, <2>8, <2>9
<1>6. CASE DataEnd
  <2>1. mcGraph # None /\ Good(rq) /\ rq.kind = "data"
    BY <1>6, <1>q DEF DataEnd, AtData
  <2>2. PICK st : /\ rq' = Close(rq, st)
                  /\ st = "404" \/ (st = rq.status /\ rq.calls # <<>>)
    BY <1>6 DEF DataEnd
  <2>c. Fields \subseteq DOMAIN rq' /\ rq'.kind = rq.kind /\ rq'.at = rq.at
        /\ rq'.calls = rq.calls /\ rq'.status = WriteHeader(rq, st) /\ rq'.open = FALSE
    BY <2>1, <2>2, CloseIs, Zenon
  <2>3. Good(rq')
    BY <2>1, <2>2, <2>c DEF WriteHeader, Statuses
  <2> QED
    BY <1>g, <2>1, <2>3
<1>7. CASE UiSkip \/ UiProxy \/ UiForward
  <2>1. mcGraph # None /\ Good(rq) /\ rq.kind = "ui" /\ rq.open /\ rq.at <= Len(rootSteps)
    BY <1>7, <1>q DEF UiSkip, UiProxy, UiForward, Unmarshalled, AtUiStep, AtUi
  <2>2. rq.at \in Nat /\ rq.at + 1 \in 1..(Len(rootSteps) + 1)
    BY <1>0, <2>1
  <2>3. \/ rq' = [rq EXCEPT !.at = @ + 1]
        \/ \E c : rq' = [rq EXCEPT !.at = @ + 1, !.status = WriteHeader(rq, "proxied"), !.calls = c]
        \/ \E p : rq' = [rq EXCEPT !.at = @ + 1, !.unread = FALSE,
                                   !.status = WriteHeader(rq, "graph"), !.sent = p]
    BY <1>7 DEF UiSkip, UiProxy, UiForward
  <2>4. /\ Fields \subseteq DOMAIN rq' /\ rq'.at = rq.at + 1 /\ rq'.kind = "ui" /\ rq'.open = rq.open
        /\ \/ rq'.status = rq.status
           \/ rq'.status = WriteHeader(rq, "proxied") \/ rq'.status = WriteHeader(rq, "graph")
    BY <2>1, <2>3
  <2>5. Good(rq')
    BY <2>1, <2>2, <2>4 DEF WriteHeader, Statuses
  <2> QED
    BY <1>g, <2>1, <2>5
<1>8. CASE UiMessage
  <2>1. mcGraph # None /\ Good(rq)
    BY <1>8, <1>q DEF UiMessage, Unmarshalled, AtUiStep, AtUi
  <2>2. \E t : rq' = [rq EXCEPT !.item = @ + 1, !.parsed = t]
    BY <1>8 DEF UiMessage
  <2>3. Good(rq')
    BY <2>1, <2>2
  <2> QED
    BY <1>g, <2>1, <2>3
<1>9. CASE UiRefuse \/ UiEnd
  <2>1. mcGraph # None /\ Good(rq) /\ rq.kind = "ui"
    BY <1>9, <1>q DEF UiRefuse, UiEnd, AtUiStep, AtUi
  <2>2. PICK st \in {"500", "aborted", "200"} : rq' = Close(rq, st)
    BY <1>9 DEF UiRefuse, UiEnd
  <2>c. Fields \subseteq DOMAIN rq' /\ rq'.kind = rq.kind /\ rq'.at = rq.at
        /\ rq'.calls = rq.calls /\ rq'.status = WriteHeader(rq, st) /\ rq'.open = FALSE
    BY <2>1, <2>2, CloseIs, Zenon
  <2>3. Good(rq')
    BY <2>1, <2>2, <2>c DEF WriteHeader, Statuses
  <2> QED
    BY <1>g, <2>1, <2>3
<1>10. CASE Respond
  BY <1>10, <1>g, <1>q DEF Respond
<1> QED
  BY <1>2, <1>3, <1>4, <1>5, <1>6, <1>7, <1>8, <1>9, <1>10 DEF Requests, Handle, CallData, mcUiHandler

\* Every step keeps the shape of the objects and of the router's graph.
LEMMA ObjectsNext ==
  ASSUME PlaceInv, ObjectsInv, [LifeNext]_lifeVars
  PROVE  ObjectsInv'
<1>n. nodes' = nodes /\ RouterDeployment' = RouterDeployment
  <2>1. spec' = spec
    BY LifeCases, PlaceNext DEF expVars
  <2> QED
    BY <2>1 DEF nodes, RouterDeployment, routerServiceName, Or
<1>0. /\ \A x \in DOMAIN objs : x[1] \in {"Service", "Deployment"}
      /\ faults \in 0..MaxFaults
      /\ Provided => DOMAIN objs[RouterDeployment].url = Positions(nodes)
      /\ mcGraph # None => mcGraph.nodes = nodes /\ DOMAIN mcGraph.url = Positions(nodes)
  BY DEF ObjectsInv
<1>1. CASE ExpNext /\ UNCHANGED <<mcGraph, rq>>
  <2>1. \A x \in DOMAIN objs' : x[1] \in {"Service", "Deployment"}
    <3>1. CASE UNCHANGED objs
      BY <1>0, <3>1
    <3>2. CASE ~UNCHANGED objs
      <4>1. \E key, o : Put(key, o) /\ key \in {Key(step, kind), RouterDeployment, RouterService}
        BY <1>1, <3>2, ExpObjects
      <4>2. PICK key, o : Put(key, o) /\ key[1] \in {"Service", "Deployment"}
        <5>1. Key(step, kind)[1] \in {"Service", "Deployment"}
          BY KeyKind DEF PlaceInv
        <5>2. RouterDeployment[1] = "Deployment" /\ RouterService[1] = "Service"
          BY DEF RouterDeployment, RouterService
        <5> QED
          BY <4>1, <5>1, <5>2
      <4> QED
        BY <1>0, <4>2, PutOther
    <3> QED
      BY <3>1, <3>2
  <2>2. faults' \in 0..MaxFaults
    <3>1. UNCHANGED faults \/ (faults < MaxFaults /\ faults' = faults + 1)
      BY <1>1 DEF ExpNext, Expand, StartPass, EnterNode, LeaveNode, SkipStep, EnterStep,
         reconcileResource, ApplyRouterDeployment, ApplyRouterService, PassFails
    <3> QED
      BY <1>0, <3>1, RouterAssumption
  <2>3. Provided' => DOMAIN objs'[RouterDeployment].url = Positions(nodes)
    <3>1. CASE ApplyRouterDeployment
      <4>1. PICK key, o : key = RouterDeployment
                          /\ o = [env |-> None, labels |-> RouterLabels, url |-> url]
        OBVIOUS
      <4>2. Put(key, o) /\ o.url = url
        BY <3>1, <4>1 DEF ApplyRouterDeployment
      <4>3. objs'[key] = o
        BY <4>2, PutIs
      <4> QED
        BY <4>1, <4>2, <4>3 DEF PlaceInv
    <3>2. CASE ~ApplyRouterDeployment
      BY <1>0, <1>1, <3>2, ProvidedNext
    <3> QED
      BY <3>1, <3>2
  <2> QED
    BY <1>n, <1>0, <1>1, <2>1, <2>2, <2>3 DEF ObjectsInv
<1>2. CASE UNCHANGED expVars
  <2>1. UNCHANGED <<objs, faults>> /\ (Provided' <=> Provided)
    BY <1>n, <1>2 DEF expVars, Provided
  <2>2. mcGraph' # None => mcGraph'.nodes = nodes /\ DOMAIN mcGraph'.url = Positions(nodes)
    <3>1. CASE UNCHANGED mcGraph
      BY <1>0, <3>1
    <3>2. CASE StartRouter
      <4>1. Provided /\ mcGraph' = [nodes |-> nodes, url |-> objs[RouterDeployment].url]
        BY <3>2 DEF StartRouter, Provided, main
      <4> QED
        BY <1>0, <4>1
    <3>3. UNCHANGED mcGraph \/ StartRouter
      BY LifeCases
    <3> QED
      BY <3>1, <3>2, <3>3
  <2> QED
    BY <1>n, <1>0, <2>1, <2>2 DEF ObjectsInv
<1> QED
  BY <1>1, <1>2, LifeCases

\* Who changes a request, and who the graph.
LEMMA RequestCases ==
  ASSUME RequestInv, [LifeNext]_lifeVars
  PROVE  \/ UNCHANGED <<mcGraph, rq>>
         \/ rq = NoRequest /\ rq' = NoRequest
         \/ (Requests \/ Handle) /\ UNCHANGED expVars /\ UNCHANGED mcGraph
<1>1. CASE StartRouter
  BY <1>1 DEF StartRouter, main, RequestInv
<1>2. CASE Requests \/ Handle
  <2>1. UNCHANGED expVars /\ UNCHANGED mcGraph
    BY <1>2 DEF Requests, Handle, CallData, DataRequest, UiRequest, mcAssetHandler, DataStep,
       DataSkip, DataRefuse, DataEnd, mcUiHandler, UiSkip, UiProxy, UiRefuse, UiMessage, UiForward, UiEnd, Respond
  <2> QED
    BY <1>2, <2>1
<1> QED
  BY <1>1, <1>2 DEF LifeNext, lifeVars, endVars

\* The inductive invariant of LifeTypeOK, on which those of the handlers rest.
LEMMA LifeRequests == LifeSpec => [](PlaceInv /\ ObjectsInv /\ RequestInv)
<1>1. LifeInit => PlaceInv /\ FitInv /\ ProvidedInv /\ ObjectsInv /\ RequestInv
  <2> SUFFICES ASSUME LifeInit PROVE ObjectsInv /\ RequestInv
    BY LifeStart
  <2>1. DOMAIN objs = {} /\ mcGraph = None /\ rq = NoRequest /\ faults = 0
    BY LifeStart DEF LifeInit, EndInit, ExpInit
  <2> QED
    BY <2>1, RouterAssumption DEF ObjectsInv, Provided, RequestInv
<1>2. PlaceInv /\ ObjectsInv /\ [LifeNext]_lifeVars => ObjectsInv'
  BY ObjectsNext
<1>3. PlaceInv /\ ObjectsInv /\ RequestInv /\ [LifeNext]_lifeVars => RequestInv'
  <2> SUFFICES ASSUME PlaceInv, ObjectsInv, RequestInv, [LifeNext]_lifeVars PROVE RequestInv'
    OBVIOUS
  <2>1. CASE UNCHANGED <<mcGraph, rq>>
    BY <2>1 DEF RequestInv, rootSteps
  <2>2. CASE rq' = NoRequest
    BY <2>2 DEF RequestInv
  <2> QED
    BY <2>1, <2>2, RequestCases, RequestNext
<1> QED
  BY <1>1, <1>2, <1>3, LifeServed, PTL DEF LifeSpec

\* The pass, its objects and URLs, the router's graph and the request under way
\* keep their types, for any specs the webhook has let pass and any requests: the
\* steps of a graph are walked within their bounds and every request that is over
\* has been given a status (mcDataHandler and mcUiHandler of cmd/router/main.go).
THEOREM LifeTypeCorrect == LifeSpec => []LifeTypeOK
<1>1. PlaceInv /\ ObjectsInv /\ RequestInv => LifeTypeOK
  <2> SUFFICES ASSUME PlaceInv, ObjectsInv, RequestInv PROVE LifeTypeOK
    OBVIOUS
  <2>1. pc = "apply" => idx \in DOMAIN nodes[cur]
    BY NodesType DEF PlaceInv
  <2>2. rq # NoRequest => /\ rq.at \in 1 .. Len(rootSteps) + 1
                          /\ rq.status \in IF rq.open THEN Statuses ELSE Statuses \ {"none"}
    BY DEF RequestInv
  <2>3. mcGraph # None => mcGraph.nodes = nodes /\ DOMAIN mcGraph.url = DOMAIN url
    BY DEF ObjectsInv, PlaceInv
  <2>4. /\ \A x \in DOMAIN objs : x[1] \in {"Service", "Deployment"}
        /\ faults \in 0 .. MaxFaults
    BY DEF ObjectsInv
  <2> QED
    BY <2>1, <2>2, <2>3, <2>4 DEF PlaceInv, LifeTypeOK
<1> QED
  BY <1>1, LifeRequests, PTL
-----------------------------------------------------------------------------
(***************************************************************************)
(* The data preparation services a request reaches.                        *)
(***************************************************************************)
\* The steps among the first n that a data request with this header is for.
DataSteps(n, header) == {i \in 1..n : HandlesData(i, header)}

\* The URLs the root node's steps are called at.
URLs == {getServiceURLByStepTarget(i) : i \in 1..Len(rootSteps)}

\* The calls went to these steps, in their order.
Visited(calls, n, header) ==
  \E f \in Seq(Nat) :
    /\ Len(f) = Len(calls)
    /\ Range(f) = DataSteps(n, header)
    /\ InOrder(f, 1..Len(f))
    /\ \A k \in 1..Len(f) : calls[k] = getServiceURLByStepTarget(f[k])

\* A data request has been to all steps before the one it is at, nothing but the
\* end of the steps or a failure of the router's ends it, and its status is that of
\* the first answer.
Underway(r) ==
  /\ {"kind", "at", "calls", "status", "open", "header", "form", "answers", "failed"} \subseteq DOMAIN r
  /\ r.at \in 1..(Len(rootSteps) + 1)
  /\ r.calls \in Seq(URLs)
  /\ r.answers \in Seq(BackendStatuses)
  /\ r.failed \in BOOLEAN
  /\ r.form = "good" =>
       /\ Visited(r.calls, r.at - 1, r.header)
       /\ ~r.failed => Len(r.answers) = Len(r.calls)
       /\ r.failed => ~r.open /\ DataSteps(Len(rootSteps), r.header) # {}
       /\ ~r.open => r.failed \/ r.at > Len(rootSteps)
       /\ r.status = IF r.answers # <<>> THEN r.answers[1]
                     ELSE IF r.open THEN "none"
                     ELSE IF r.failed THEN "500" ELSE "404"

\* A data request has visited what lies before the step it is at.
DataInv == rq # NoRequest /\ rq.kind = "data" => Underway(rq)

\* The router's root is that of the spec.
LEMMA RootIs ==
  ASSUME PlaceInv, ObjectsInv, mcGraph # None
  PROVE  /\ rootSteps = nodes[Root] /\ Root \in DOMAIN nodes
         /\ rootSteps \in Seq(Range(rootSteps)) /\ Len(rootSteps) \in Nat
<1>1. Root \in DOMAIN nodes /\ mcGraph.nodes = nodes
  BY NodesType DEF ValidGraph, ObjectsInv
<1> QED
  BY <1>1, NodesType DEF rootSteps

\* The loop of mcDataHandler: a step is called,
LEMMA VisitedCall ==
  ASSUME NEW S, NEW c \in Seq(S), NEW h, NEW i \in Nat \ {0}, Visited(c, i - 1, h), HandlesData(i, h),
         NEW d, d = Append(c, getServiceURLByStepTarget(i))
  PROVE  Visited(d, i, h)
<1>1. PICK f \in Seq(Nat) :
        /\ Len(f) = Len(c)
        /\ Range(f) = DataSteps(i - 1, h)
        /\ InOrder(f, 1..Len(f))
        /\ \A k \in 1..Len(f) : c[k] = getServiceURLByStepTarget(f[k])
  BY DEF Visited
<1>2. PICK g : g = Append(f, i)
  OBVIOUS
<1>3. PICK u : u = getServiceURLByStepTarget(i)
  OBVIOUS
<1>4. /\ g \in Seq(Nat) /\ Len(f) \in Nat /\ Len(g) = Len(f) + 1 /\ Len(d) = Len(c) + 1
      /\ DOMAIN f = 1..Len(f) /\ DOMAIN g = 1..Len(g)
      /\ \A k \in 1..Len(f) : g[k] = f[k] /\ d[k] = c[k]
      /\ g[Len(g)] = i /\ d[Len(g)] = u
  <2>1. g \in Seq(Nat) /\ Len(g) = Len(f) + 1 /\ g[Len(f) + 1] = i /\ \A k \in 1..Len(f) : g[k] = f[k]
    BY <1>1, <1>2
  <2>2. PICK T : T = S \cup {u}
    OBVIOUS
  <2>3. c \in Seq(T) /\ u \in T
    BY <2>2
  <2>4. Len(d) = Len(c) + 1 /\ d[Len(c) + 1] = u /\ \A k \in 1..Len(c) : d[k] = c[k]
    BY <1>3, <2>3
  <2> QED
    BY <1>1, <2>1, <2>4
<1>n. Len(f) \in Nat /\ Len(g) = Len(f) + 1
  BY <1>4
<1>5. \A k \in 1..Len(f) : f[k] \in DataSteps(i - 1, h)
  BY <1>1, <1>4 DEF Range
<1>6. \A k \in 1..Len(f) : f[k] < i
  BY <1>5 DEF DataSteps
<1>7. InOrder(g, 1..Len(g))
  <2> SUFFICES ASSUME NEW a \in 1..Len(g), NEW b \in 1..Len(g), a < b PROVE g[a] < g[b]
    BY DEF InOrder
  <2>n. PICK n \in Nat : Len(f) = n /\ Len(g) = n + 1
    BY <1>n
  <2>m. a \in 1..(n + 1) /\ b \in 1..(n + 1)
    BY <2>n
  <2>1. a \in 1..Len(f) /\ (b \in 1..Len(f) \/ b = Len(g))
    BY <2>n, <2>m
  <2>2. CASE b \in 1..Len(f)
    BY <1>1, <1>4, <2>1, <2>2 DEF InOrder
  <2>3. CASE b = Len(g)
    BY <1>4, <1>6, <2>1, <2>3
  <2> QED
    BY <2>1, <2>2, <2>3
<1>8. \A k \in 1..Len(g) : d[k] = getServiceURLByStepTarget(g[k])
  <2> SUFFICES ASSUME NEW k \in 1..Len(g) PROVE d[k] = getServiceURLByStepTarget(g[k])
    OBVIOUS
  <2>1. CASE k \in 1..Len(f)
    BY <1>1, <1>4, <2>1
  <2>2. CASE k = Len(g)
    BY <1>3, <1>4, <2>2
  <2>3. k \in 1..Len(f) \/ k = Len(g)
    BY <1>n
  <2> QED
    BY <2>1, <2>2, <2>3
<1>9. Range(g) = DataSteps(i, h)
  <2>1. DataSteps(i, h) = DataSteps(i - 1, h) \cup {i}
    BY DEF DataSteps
  <2>2. Range(g) = Range(f) \cup {i}
    <3>1. ASSUME NEW x \in Range(g) PROVE x \in Range(f) \cup {i}
      <4>1. PICK k \in 1..Len(g) : x = g[k]
        BY <1>4, <3>1 DEF Range
      <4>2. k \in 1..Len(f) \/ k = Len(g)
        BY <1>n
      <4> QED
        BY <1>4, <4>1, <4>2 DEF Range
    <3>2. ASSUME NEW x \in Range(f) PROVE x \in Range(g)
      <4>1. PICK k \in 1..Len(f) : x = f[k]
        BY <1>4, <3>2 DEF Range
      <4>2. k \in 1..Len(g)
        BY <1>n
      <4> QED
        BY <1>4, <4>1, <4>2 DEF Range
    <3>3. i \in Range(g)
      <4>1. Len(g) \in 1..Len(g)
        BY <1>n
      <4> QED
        BY <1>4, <4>1 DEF Range
    <3> QED
      BY <3>1, <3>2, <3>3
  <2> QED
    BY <1>1, <2>1, <2>2
<1>10. g \in Seq(Nat) /\ Len(g) = Len(d)
  BY <1>1, <1>4
<1> QED
  BY <1>7, <1>8, <1>9, <1>10, Zenon DEF Visited

\* or it is none of the request's.
LEMMA VisitedSkip ==
  ASSUME NEW c, NEW h, NEW i \in Nat \ {0}, Visited(c, i - 1, h), ~HandlesData(i, h)
  PROVE  Visited(c, i, h)
<1>1. DataSteps(i, h) = DataSteps(i - 1, h)
  BY DEF DataSteps
<1> QED
  BY <1>1 DEF Visited

\* No service is called before the first step.
LEMMA VisitedNone ==
  ASSUME NEW h
  PROVE  Visited(<<>>, 0, h)
<1>1. DataSteps(0, h) = {}
  BY DEF DataSteps
<1>2. <<>> \in Seq(Nat) /\ Len(<<>>) = 0 /\ Range(<<>>) = {}
  BY DEF Range
<1>3. InOrder(<<>>, 1..0) /\ \A k \in 1..0 : FALSE
  BY DEF InOrder
<1> QED
  BY <1>1, <1>2, <1>3, Zenon DEF Visited

\* The handlers keep account of a data request.
LEMMA DataNext ==
  ASSUME PlaceInv, ObjectsInv, RequestInv, DataInv, UNCHANGED mcGraph, Requests \/ Handle
  PROVE  DataInv'
<1> DEFINE Fields == {"kind", "at", "calls", "status", "open", "header", "form", "answers", "failed"}
<1>1. rootSteps' = rootSteps /\ URLs' = URLs
  BY DEF rootSteps, URLs, getServiceURLByStepTarget
<1>2. \A c, n, h : Visited(c, n, h)' <=> Visited(c, n, h)
  BY <1>1 DEF Visited, DataSteps, HandlesData, getServiceURLByStepTarget, InOrder, Range
<1>d. \A n, h : DataSteps(n, h)' = DataSteps(n, h)
  BY <1>1 DEF DataSteps, HandlesData
<1>3. \A r : Underway(r)' <=> Underway(r)
  BY <1>1, <1>2, <1>d DEF Underway
<1>g. ASSUME rq' = NoRequest \/ rq'.kind # "data" \/ Underway(rq')
      PROVE  DataInv'
  <2>1. PICK r : r = rq'
    OBVIOUS
  <2>2. r = NoRequest \/ r.kind # "data" \/ Underway(r)'
    BY <1>3, <1>g, <2>1
  <2> QED
    BY <2>1, <2>2 DEF DataInv, Underway
<1>4. ASSUME NEW h, NEW f, DataRequest(h, f)
      PROVE  DataInv'
  <2>1. PICK r : r = NewRequest("data")
    OBVIOUS
  <2>2. mcGraph # None /\ rq' = [r EXCEPT !.header = h, !.form = f]
    BY <1>4, <2>1 DEF DataRequest
  <2>3. /\ Fields \subseteq DOMAIN r /\ r.kind = "data" /\ r.at = 1 /\ r.calls = <<>>
        /\ r.status = "none" /\ r.open = TRUE /\ r.answers = <<>> /\ r.failed = FALSE
    BY <2>1 DEF NewRequest
  <2>4. /\ Fields \subseteq DOMAIN rq' /\ rq'.at = 1 /\ rq'.calls = <<>>
        /\ rq'.status = "none" /\ rq'.open = TRUE /\ rq'.header = h
        /\ rq'.answers = <<>> /\ rq'.failed = FALSE
    BY <2>2, <2>3
  <2>5. 1 \in 1..(Len(rootSteps) + 1) /\ 1 - 1 = 0 /\ <<>> \in Seq(URLs) /\ <<>> \in Seq(BackendStatuses)
    BY <2>2, RootIs
  <2>6. Visited(rq'.calls, rq'.at - 1, rq'.header)
    BY <2>4, <2>5, VisitedNone
  <2>7. Underway(rq')
    BY <2>4, <2>5, <2>6 DEF Underway
  <2> QED
    BY <1>g, <2>7
<1>5. ASSUME DataSkip \/ DataRefuse \/ \E o \in Outcomes : DataStep(o)
      PROVE  DataInv'
  <2>1. mcGraph # None /\ Underway(rq) /\ rq.open /\ rq.at <= Len(rootSteps)
    BY <1>5 DEF DataSkip, DataRefuse, DataStep, AtDataStep, AtData, DataInv, RequestInv
  <2>2. /\ Fields \subseteq DOMAIN rq /\ rq.calls \in Seq(URLs) /\ rq.answers \in Seq(BackendStatuses)
        /\ rq.failed \in BOOLEAN
        /\ rq.form = "good" =>
             /\ Visited(rq.calls, rq.at - 1, rq.header)
             /\ rq.failed = FALSE /\ Len(rq.answers) = Len(rq.calls)
             /\ rq.status = IF rq.answers # <<>> THEN rq.answers[1] ELSE "none"
    BY <2>1 DEF Underway
  <2>3. PICK i, h, L : i = rq.at /\ h = rq.header /\ L = Len(rootSteps)
    OBVIOUS
  <2>4. /\ i \in Nat \ {0} /\ i \in 1..L /\ i + 1 \in 1..(Len(rootSteps) + 1) /\ (i + 1) - 1 = i
        /\ i \in 1..(Len(rootSteps) + 1)
    BY <2>1, <2>3, RootIs DEF Underway
  <2>5. PICK u : u = getServiceURLByStepTarget(i)
    OBVIOUS
  <2>6. u \in URLs
    BY <2>3, <2>4, <2>5 DEF URLs
  <2>7. PICK c : c = Append(rq.calls, u)
    OBVIOUS
  <2>8. c \in Seq(URLs) /\ Len(c) = Len(rq.calls) + 1 /\ Len(rq.calls) \in Nat
    BY <2>2, <2>6, <2>7
  <2>9. PICK r : r = [rq EXCEPT !.at = @ + 1, !.calls = c]
    OBVIOUS
  <2>10. /\ Fields \subseteq DOMAIN r /\ r.at = i + 1 /\ r.calls = c /\ r.status = rq.status
         /\ r.open = rq.open /\ r.header = h /\ r.form = rq.form
         /\ r.answers = rq.answers /\ r.failed = rq.failed
    BY <2>2, <2>3, <2>9
  <2>11. \/ ~HandlesData(i, h) /\ rq' = [rq EXCEPT !.at = @ + 1]
         \/ rq.form = "bad" /\ rq' = Fail(rq, "400")
         \/ HandlesData(i, h) /\ rq' = Fail(rq, "500")
         \/ HandlesData(i, h) /\ rq' = Fail(r, "500")
         \/ /\ HandlesData(i, h)
            /\ \E o \in BackendStatuses :
                 rq' = [r EXCEPT !.answers = Append(@, o), !.status = WriteHeader(r, o)]
    BY <1>5, <2>3, <2>5, <2>7, <2>9 DEF DataSkip, DataRefuse, DataStep
  <2>12. CASE ~HandlesData(i, h) /\ rq' = [rq EXCEPT !.at = @ + 1]
    <3>1. /\ Fields \subseteq DOMAIN rq' /\ rq'.at = i + 1 /\ rq'.calls = rq.calls
          /\ rq'.status = rq.status /\ rq'.open = rq.open /\ rq'.header = h /\ rq'.form = rq.form
          /\ rq'.answers = rq.answers /\ rq'.failed = rq.failed
      BY <2>2, <2>3, <2>12
    <3>2. rq.form = "good" => Visited(rq.calls, i, h)
      BY <2>2, <2>3, <2>4, <2>12, VisitedSkip
    <3>3. Underway(rq')
      BY <2>1, <2>2, <2>4, <3>1, <3>2 DEF Underway
    <3> QED
      BY <1>g, <3>3
  <2>f. ASSUME NEW w, NEW st, Fields \subseteq DOMAIN w, rq' = Fail(w, st)
        PROVE  /\ Fields \subseteq DOMAIN rq' /\ rq'.at = w.at /\ rq'.calls = w.calls
               /\ rq'.form = w.form /\ rq'.header = w.header /\ rq'.answers = w.answers
               /\ rq'.open = FALSE /\ rq'.failed = TRUE /\ rq'.status = WriteHeader(w, st)
    BY <2>f DEF Fail, Close
  <2>13. CASE rq.form = "bad" /\ rq' = Fail(rq, "400")
    <3>1. /\ Fields \subseteq DOMAIN rq' /\ rq'.at = i /\ rq'.calls = rq.calls /\ rq'.form = "bad"
          /\ rq'.answers = rq.answers /\ rq'.failed = TRUE
      BY <2>2, <2>3, <2>13, <2>f
    <3>2. Underway(rq')
      BY <2>1, <2>2, <2>4, <3>1 DEF Underway
    <3> QED
      BY <1>g, <3>2
  <2>14. ASSUME HandlesData(i, h)
         PROVE  (rq.form = "good" => Visited(c, i, h)) /\ DataSteps(L, h) # {}
    <3>1. rq.form = "good" => Visited(c, i, h)
      BY <2>2, <2>3, <2>4, <2>5, <2>7, <2>14, VisitedCall
    <3>2. i \in DataSteps(L, h)
      BY <2>4, <2>14 DEF DataSteps
    <3> QED
      BY <3>1, <3>2
  <2>s. ASSUME NEW w, w.status = rq.status, w.answers = rq.answers, rq.form = "good"
        PROVE  WriteHeader(w, "500") = IF rq.answers # <<>> THEN rq.answers[1] ELSE "500"
    <3>1. rq.answers # <<>> => rq.answers[1] \in BackendStatuses
      BY <2>2
    <3> QED
      BY <2>2, <2>s, <3>1 DEF WriteHeader, BackendStatuses
  <2>15. CASE HandlesData(i, h) /\ rq' = Fail(r, "500")
    <3>1. /\ Fields \subseteq DOMAIN rq' /\ rq'.at = i + 1 /\ rq'.calls = c /\ rq'.form = rq.form
          /\ rq'.header = h /\ rq'.open = FALSE /\ rq'.failed = TRUE /\ rq'.answers = rq.answers
          /\ rq'.status = WriteHeader(r, "500")
      BY <2>10, <2>15, <2>f
    <3>2. rq.form = "good" => rq'.status = IF rq.answers # <<>> THEN rq.answers[1] ELSE "500"
      BY <2>10, <2>s, <3>1
    <3>3. Underway(rq')
      BY <2>2, <2>3, <2>4, <2>8, <2>14, <2>15, <3>1, <3>2 DEF Underway
    <3> QED
      BY <1>g, <3>3
  <2>16. CASE HandlesData(i, h) /\ rq' = Fail(rq, "500")
    <3>1. /\ Fields \subseteq DOMAIN rq' /\ rq'.at = i /\ rq'.calls = rq.calls /\ rq'.form = rq.form
          /\ rq'.header = h /\ rq'.open = FALSE /\ rq'.failed = TRUE /\ rq'.answers = rq.answers
          /\ rq'.status = WriteHeader(rq, "500")
      BY <2>2, <2>3, <2>16, <2>f
    <3>2. rq.form = "good" => rq'.status = IF rq.answers # <<>> THEN rq.answers[1] ELSE "500"
      BY <2>s, <3>1
    <3>3. Underway(rq')
      BY <2>2, <2>3, <2>4, <2>14, <2>16, <3>1, <3>2 DEF Underway
    <3> QED
      BY <1>g, <3>3
  <2>17. ASSUME HandlesData(i, h), NEW o \in BackendStatuses,
                rq' = [r EXCEPT !.answers = Append(@, o), !.status = WriteHeader(r, o)]
         PROVE  DataInv'
    <3>0. PICK a : a = Append(rq.answers, o)
      OBVIOUS
    <3>1. /\ Fields \subseteq DOMAIN rq' /\ rq'.at = i + 1 /\ rq'.calls = c /\ rq'.form = rq.form
          /\ rq'.header = h /\ rq'.open = rq.open /\ rq'.failed = rq.failed /\ rq'.answers = a
          /\ rq'.status = WriteHeader(r, o)
      BY <2>10, <2>17, <3>0
    <3>2. /\ a \in Seq(BackendStatuses) /\ Len(a) = Len(rq.answers) + 1 /\ a # <<>>
          /\ Len(rq.answers) \in Nat
          /\ a[1] = IF rq.answers = <<>> THEN o ELSE rq.answers[1]
          /\ rq.answers # <<>> => rq.answers[1] \in BackendStatuses
      BY <2>2, <3>0
    <3>3. rq.form = "good" => rq'.status = a[1]
      BY <2>2, <2>10, <3>1, <3>2 DEF WriteHeader, BackendStatuses
    <3>4. Underway(rq')
      BY <2>1, <2>2, <2>3, <2>4, <2>8, <2>14, <2>17, <3>1, <3>2, <3>3 DEF Underway
    <3> QED
      BY <1>g, <3>4
  <2> QED
    BY <2>11, <2>12, <2>13, <2>15, <2>16, <2>17
<1>6. CASE DataEnd
  <2>1. mcGraph # None /\ Underway(rq) /\ rq.open /\ rq.at > Len(rootSteps)
    BY <1>6 DEF DataEnd, AtData, DataInv, RequestInv
  <2>2. PICK st : /\ rq' = Close(rq, st)
                  /\ st = IF rq.calls = <<>> THEN "404" ELSE rq.status
    BY <1>6 DEF DataEnd
  <2>3. Fields \subseteq DOMAIN rq
    BY <2>1 DEF Underway
  <2>4. /\ Fields \subseteq DOMAIN rq' /\ rq'.at = rq.at /\ rq'.calls = rq.calls
        /\ rq'.header = rq.header /\ rq'.form = rq.form
        /\ rq'.answers = rq.answers /\ rq'.failed = rq.failed
        /\ rq'.open = FALSE /\ rq'.status = WriteHeader(rq, st)
    BY <2>2, <2>3 DEF Close
  <2>5. rq.form = "good" => rq'.status = IF rq.answers # <<>> THEN rq.answers[1] ELSE "404"
    <3>1. rq.form = "good" => (rq.calls = <<>> <=> rq.answers = <<>>)
      <4>1. rq.calls \in Seq(URLs) /\ rq.answers \in Seq(BackendStatuses)
        BY <2>1 DEF Underway
      <4>2. rq.form = "good" => Len(rq.calls) = Len(rq.answers)
        BY <2>1 DEF Underway
      <4>3. (rq.calls = <<>> <=> Len(rq.calls) = 0) /\ (rq.answers = <<>> <=> Len(rq.answers) = 0)
        BY <4>1, EmptySeq
      <4> QED
        BY <4>2, <4>3
    <3>2. rq.answers # <<>> => rq.answers[1] \in BackendStatuses
      BY <2>1 DEF Underway
    <3> QED
      BY <2>1, <2>2, <2>4, <3>1, <3>2 DEF WriteHeader, Underway, BackendStatuses
  <2>6. Underway(rq')
    BY <2>1, <2>4, <2>5 DEF Underway
  <2> QED
    BY <1>g, <2>6
<1>7. CASE mcUiHandler
  <2>1. rq.kind = "ui" /\ "kind" \in DOMAIN rq
    BY <1>7 DEF mcUiHandler, UiSkip, UiProxy, UiRefuse, UiMessage, UiForward, UiEnd,
       Unmarshalled, AtUiStep, AtUi, RequestInv
  <2>2. rq'.kind = rq.kind
    <3>1. CASE UiSkip
      BY <2>1, <3>1 DEF UiSkip
    <3>2. CASE UiProxy
      BY <2>1, <3>2 DEF UiProxy
    <3>3. CASE UiRefuse \/ UiEnd
      BY <2>1, <3>3 DEF UiRefuse, UiEnd, Close
    <3>4. CASE UiMessage
      BY <2>1, <3>4 DEF UiMessage
    <3>5. CASE UiForward
      BY <2>1, <3>5 DEF UiForward
    <3> QED
      BY <1>7, <3>1, <3>2, <3>3, <3>4, <3>5 DEF mcUiHandler
  <2> QED
    BY <1>g, <2>1, <2>2
<1>8. ASSUME NEW b, UiRequest(b)
      PROVE  DataInv'
  <2>1. rq'.kind = "ui"
    BY <1>8 DEF UiRequest, NewRequest
  <2> QED
    BY <1>g, <2>1
<1>9. CASE mcAssetHandler
  <2>1. PICK r : r = NewRequest("asset")
    OBVIOUS
  <2>2. \/ rq' = Close(r, "200")
        \/ \E c : rq' = Close([r EXCEPT !.calls = c], "proxied")
    BY <1>9, <2>1 DEF mcAssetHandler
  <2>3. "kind" \in DOMAIN r /\ r.kind = "asset"
    BY <2>1 DEF NewRequest
  <2>4. rq'.kind = "asset"
    BY <2>2, <2>3 DEF Close
  <2> QED
    BY <1>g, <2>4
<1>10. CASE Respond
  BY <1>10, <1>g DEF Respond
<1> QED
  BY <1>4, <1>5, <1>6, <1>7, <1>8, <1>9, <1>10 DEF Requests, Handle, CallData

\* What a request that is over has reached.
LEMMA ReachesWhat ==
  ASSUME PlaceInv, ObjectsInv, RequestInv, DataInv
  PROVE  DataReaches
<1> DEFINE M == {i \in DOMAIN rootSteps : /\ rootSteps[i].name = "DataPrep"
                                           /\ rq.header \in {None, rootSteps[i].svc}}
<1> SUFFICES ASSUME rq # NoRequest, rq.kind = "data", ~rq.open, rq.form = "good"
             PROVE  /\ rq.status = IF M = {} THEN "404"
                                   ELSE IF rq.answers = <<>> THEN "500" ELSE rq.answers[1]
                    /\ rq.header # None => Len(rq.calls) <= 1
                    /\ \E f \in [1 .. Len(rq.calls) -> M] :
                         /\ InOrder(f, DOMAIN f)
                         /\ \A i \in Range(f), j \in M : j < i => j \in Range(f)
                         /\ ~rq.failed => Range(f) = M /\ Len(rq.answers) = Len(rq.calls)
                         /\ \A k \in DOMAIN f : rq.calls[k] = getServiceURLByStepTarget(f[k])
  BY Zenon DEF DataReaches
<1>1. mcGraph # None /\ Underway(rq)
  BY DEF RequestInv, DataInv
<1>2. PICK n, h, L : n = rq.at - 1 /\ h = rq.header /\ L = Len(rootSteps)
  OBVIOUS
<1>3. L \in Nat /\ n \in 0..L /\ (rq.at > L <=> n = L) /\ DOMAIN rootSteps = 1..L
  BY <1>1, <1>2, RootIs DEF Underway
<1>4. M = DataSteps(L, h)
  BY <1>2, <1>3 DEF DataSteps, HandlesData
<1>m. \A i \in M : rq.header \in {None, rootSteps[i].svc}
  OBVIOUS
<1> HIDE DEF M
<1>5. /\ Visited(rq.calls, n, h) /\ rq.calls \in Seq(URLs)
      /\ rq.answers \in Seq(BackendStatuses)
      /\ ~rq.failed => n = L /\ Len(rq.answers) = Len(rq.calls)
      /\ rq.failed => DataSteps(L, h) # {}
      /\ rq.status = IF rq.answers # <<>> THEN rq.answers[1] ELSE IF rq.failed THEN "500" ELSE "404"
  BY <1>1, <1>2, <1>3 DEF Underway
<1>6. PICK f \in Seq(Nat) :
        /\ Len(f) = Len(rq.calls)
        /\ Range(f) = DataSteps(n, h)
        /\ InOrder(f, 1..Len(f))
        /\ \A k \in 1..Len(f) : rq.calls[k] = getServiceURLByStepTarget(f[k])
  BY <1>5 DEF Visited
<1>7. DOMAIN f = 1..Len(f) /\ Len(f) \in Nat /\ \A k \in 1..Len(f) : f[k] \in Range(f)
  BY DEF Range
<1>8. DataSteps(n, h) = {i \in M : i <= n}
  BY <1>3, <1>4 DEF DataSteps
<1>9. f \in [1..Len(rq.calls) -> M]
  <2>1. \A k \in 1..Len(f) : f[k] \in M
    BY <1>6, <1>7, <1>8
  <2>2. f = [k \in 1..Len(f) |-> f[k]]
    BY <1>7
  <2> QED
    BY <1>6, <2>1, <2>2
<1>10. \A i \in Range(f), j \in M : j < i => j \in Range(f)
  <2> SUFFICES ASSUME NEW i \in Range(f), NEW j \in M, j < i PROVE j \in Range(f)
    OBVIOUS
  <2>1. i \in Nat /\ j \in Nat /\ i <= n
    BY <1>4, <1>6, <1>8 DEF DataSteps
  <2>2. j <= n
    BY <1>3, <2>1
  <2> QED
    BY <1>6, <1>8, <2>2
<1>11. ~rq.failed => Range(f) = M /\ Len(rq.answers) = Len(rq.calls)
  BY <1>2, <1>4, <1>5, <1>6
<1>12. rq.status = IF M = {} THEN "404" ELSE IF rq.answers = <<>> THEN "500" ELSE rq.answers[1]
  <2>1. rq.failed => M # {}
    BY <1>4, <1>5
  <2>2. ASSUME ~rq.failed PROVE M = {} <=> rq.answers = <<>>
    <3>1. Len(rq.answers) = Len(f) /\ Range(f) = M
      BY <1>6, <1>11, <2>2
    <3>2. Len(f) = 0 <=> Range(f) = {}
      <4>1. CASE Len(f) = 0
        BY <1>7, <4>1 DEF Range
      <4>2. CASE Len(f) # 0
        <5>1. 1 \in 1..Len(f)
          BY <1>7, <4>2
        <5> QED
          BY <1>7, <4>2, <5>1
      <4> QED
        BY <4>1, <4>2
    <3>3. rq.answers = <<>> <=> Len(rq.answers) = 0
      BY <1>5, EmptySeq
    <3> QED
      BY <3>1, <3>2, <3>3
  <2> QED
    BY <1>5, <2>1, <2>2
<1>13. ASSUME h # None PROVE Len(rq.calls) <= 1
  <2> SUFFICES ASSUME ~(Len(f) <= 1) PROVE FALSE
    BY <1>6
  <2>1. 1 \in 1..Len(f) /\ 2 \in 1..Len(f)
    BY <1>7
  <2>2. f[1] < f[2] /\ f[1] \in M /\ f[2] \in M
    BY <1>6, <1>7, <1>8, <2>1 DEF InOrder
  <2>3. PICK a, b : a = f[1] /\ b = f[2]
    OBVIOUS
  <2>4. a \in 1..L /\ b \in 1..L /\ a # b
    BY <1>3, <1>4, <2>2, <2>3 DEF DataSteps
  <2>5. rootSteps[a].svc = h /\ rootSteps[b].svc = h
    BY <1>2, <1>13, <1>m, <2>2, <2>3
  <2>6. rootSteps = nodes[Root] /\ Root \in DOMAIN nodes
    BY <1>1, RootIs
  <2>7. PICK p, q : p = <<Root, a>> /\ q = <<Root, b>>
    OBVIOUS
  <2>8. p \in Positions(nodes) /\ q \in Positions(nodes) /\ p # q
    BY <1>2, <2>4, <2>6, <2>7, PositionIs
  <2>9. StepAt(nodes, p) = rootSteps[a] /\ StepAt(nodes, q) = rootSteps[b]
    BY <2>6, <2>7 DEF StepAt
  <2>10. SameService(nodes, Positions(nodes))
    BY <1>13, <2>5, <2>8, <2>9 DEF SameService
  <2> QED
    BY <2>10, NodesType DEF ValidGraph
<1>14. \A k \in DOMAIN f : rq.calls[k] = getServiceURLByStepTarget(f[k])
  BY <1>6, <1>7
<1>15. InOrder(f, DOMAIN f)
  BY <1>6, <1>7
<1> QED
  BY <1>2, <1>9, <1>10, <1>11, <1>12, <1>13, <1>14, <1>15

\* A data request reaches the data preparation services of the root in their order, all
\* of them unless the router itself reports a failure, for any accepted graph; one that
\* names a service reaches that one alone.  The client gets the first answer's status,
\* a service's own 404 or 500 too; without an answer it gets 404 when no step has matched
\* and 500 otherwise (mcDataHandler).
THEOREM DataReachesCorrect == LifeSpec => []DataReaches
<1>1. LifeInit => DataInv
  BY DEF LifeInit, EndInit, DataInv
<1>2. PlaceInv /\ ObjectsInv /\ RequestInv /\ DataInv /\ [LifeNext]_lifeVars => DataInv'
  <2> SUFFICES ASSUME PlaceInv, ObjectsInv, RequestInv, DataInv, [LifeNext]_lifeVars PROVE DataInv'
    OBVIOUS
  <2>1. CASE UNCHANGED <<mcGraph, rq>>
    <3>1. rootSteps' = rootSteps /\ URLs' = URLs
      BY <2>1 DEF rootSteps, URLs, getServiceURLByStepTarget
    <3>2. \A c, n, h : Visited(c, n, h)' <=> Visited(c, n, h)
      BY <2>1, <3>1 DEF Visited, DataSteps, HandlesData, getServiceURLByStepTarget, InOrder, Range
    <3>3. \A n, h : DataSteps(n, h)' = DataSteps(n, h)
      BY <3>1 DEF DataSteps, HandlesData
    <3> QED
      BY <2>1, <3>1, <3>2, <3>3 DEF DataInv, Underway
  <2>2. CASE rq' = NoRequest
    BY <2>2 DEF DataInv
  <2> QED
    BY <2>1, <2>2, RequestCases, DataNext
<1>3. PlaceInv /\ ObjectsInv /\ RequestInv /\ DataInv => DataReaches
  BY ReachesWhat
<1> QED
  BY <1>1, <1>2, <1>3, LifeRequests, PTL DEF LifeSpec
-----------------------------------------------------------------------------
(***************************************************************************)
(* The text of a chat.                                                     *)
(***************************************************************************)
\* The messages with a role among the first n.
Spoken(roles, n) == {i \in 1..n : roles[i] # None}
\* The system's among them, those kept from the last of these on, and the place in
\* the text where the kept ones begin.
Systems(roles, n) == {i \in Spoken(roles, n) : roles[i] = "system"}
Kept(roles, n) == {i \in Spoken(roles, n) : \A j \in Systems(roles, n) : j <= i}
Begin(roles, n) == IF Systems(roles, n) = {} /\ Spoken(roles, n) # {} THEN 2 ELSE 1

\* A text is a sequence of messages, with the print of an empty entry among them.
Texts == Seq(Nat \cup {NilText})

\* What has been parsed is the text of the messages read so far.
Parsed(t, roles, n) ==
  /\ t \in Texts
  /\ IsText(t, roles, n)
  /\ t = <<>> <=> Spoken(roles, n) = {}

\* From b on the text consists of the messages of K in their order.
Laid(t, b, K) ==
  /\ 1 \in DOMAIN t \ (b .. Len(t)) => t[1] = NilText
  /\ {t[i] : i \in b .. Len(t)} = K
  /\ InOrder(t, b .. Len(t))

\* The parts of IsText have these names.
LEMMA TextIs ==
  ASSUME NEW t, NEW roles, NEW n
  PROVE  IsText(t, roles, n) <=> Laid(t, Begin(roles, n), Kept(roles, n))
  BY Zenon DEF IsText, Laid, Begin, Kept, Spoken, Systems

\* A single element is a sequence (what parsed is after the first message).
LEMMA OneMessage ==
  ASSUME NEW T, NEW x \in T
  PROVE  <<x>> \in Seq(T)
  OBVIOUS

\* A message that is not the system's is appended to a text.
LEMMA TextAppend ==
  ASSUME NEW t \in Texts, NEW m \in Nat, NEW b \in {1, 2}, b <= Len(t) + 1, NEW K \in SUBSET Nat,
         \A x \in K : x < m,
         Laid(t, b, K),
         NEW u, u = t \o <<m>>
  PROVE  u \in Texts /\ u # <<>> /\ Laid(u, b, K \cup {m})
<1>0. /\ 1 \in DOMAIN t \ (b .. Len(t)) => t[1] = NilText
      /\ {t[i] : i \in b .. Len(t)} = K
      /\ InOrder(t, b .. Len(t))
  BY DEF Laid
<1>1. PICK l \in Nat : l = Len(t)
  BY DEF Texts
<1>2. u \in Texts /\ Len(u) = l + 1 /\ u[l + 1] = m /\ DOMAIN u = 1..(l + 1) /\ DOMAIN t = 1..l
      /\ \A i \in 1..l : u[i] = t[i]
  BY <1>1 DEF Texts
<1>3. u # <<>>
  BY <1>1, <1>2
<1>4. l + 1 \in b..(l + 1) /\ b..l \subseteq 1..l /\ \A i \in b..(l + 1) : i \in b..l \/ i = l + 1
  BY <1>1
<1>5. \A i \in b..l : u[i] = t[i] /\ t[i] \in K
  BY <1>0, <1>1, <1>2, <1>4
<1>6. {u[i] : i \in b..(l + 1)} = K \cup {m}
  <2>1. ASSUME NEW i \in b..(l + 1) PROVE u[i] \in K \cup {m}
    BY <1>2, <1>4, <1>5
  <2>2. ASSUME NEW x \in K PROVE \E i \in b..(l + 1) : x = u[i]
    <3>1. PICK i \in b..l : x = t[i]
      BY <1>0, <1>1, <2>2
    <3>2. i \in b..(l + 1)
      BY <1>1
    <3> QED
      BY <1>5, <3>1, <3>2
  <2>3. \E i \in b..(l + 1) : m = u[i]
    BY <1>2, <1>4
  <2> QED
    BY <2>1, <2>2, <2>3
<1>7. InOrder(u, b..(l + 1))
  <2> SUFFICES ASSUME NEW i \in b..(l + 1), NEW j \in b..(l + 1), i < j PROVE u[i] < u[j]
    BY DEF InOrder
  <2>1. i \in b..l
    BY <1>1
  <2>2. CASE j \in b..l
    BY <1>0, <1>1, <1>5, <2>1, <2>2 DEF InOrder
  <2>3. CASE j = l + 1
    BY <1>2, <1>5, <2>1, <2>3
  <2> QED
    BY <1>4, <2>2, <2>3
<1>8. ASSUME 1 \in 1..(l + 1), 1 \notin b..(l + 1) PROVE u[1] = NilText
  <2>1. b = 2 /\ 1 \in 1..l /\ 1 \notin b..l
    BY <1>1, <1>8
  <2> QED
    BY <1>0, <1>1, <1>2, <2>1
<1> QED
  BY <1>2, <1>3, <1>6, <1>7, <1>8 DEF Laid

\* One message more, as mcUiHandler reads it.
LEMMA TextNext ==
  ASSUME NEW t, NEW roles, NEW n \in Nat, Parsed(t, roles, n),
         NEW m, m = n + 1, NEW u, u = AddMessage(t, m, roles[m])
  PROVE  Parsed(u, roles, m)
<1>0. m \in Nat /\ n < m /\ 1..m = 1..n \cup {m} /\ m \notin 1..n
  OBVIOUS
<1>1. /\ t \in Texts /\ (t = <<>> <=> Spoken(roles, n) = {})
      /\ Laid(t, Begin(roles, n), Kept(roles, n))
  BY TextIs DEF Parsed
<1>2. /\ Spoken(roles, n) \subseteq 1..n /\ Systems(roles, n) \subseteq Spoken(roles, n)
      /\ Kept(roles, n) \subseteq Spoken(roles, n) /\ \A i \in Spoken(roles, n) : i < m /\ i \in Nat
  BY DEF Spoken, Systems, Kept
<1>3. CASE roles[m] = None
  <2>1. Spoken(roles, m) = Spoken(roles, n)
    BY <1>0, <1>3 DEF Spoken
  <2>2. Systems(roles, m) = Systems(roles, n)
    BY <2>1 DEF Systems
  <2>3. Kept(roles, m) = Kept(roles, n) /\ Begin(roles, m) = Begin(roles, n)
    BY <2>1, <2>2 DEF Kept, Begin
  <2>4. u = t
    BY <1>3, ChatsAssumption DEF AddMessage
  <2> QED
    BY <1>1, <2>1, <2>3, <2>4, TextIs DEF Parsed
<1>4. CASE roles[m] # None
  <2>1. Spoken(roles, m) = Spoken(roles, n) \cup {m}
    BY <1>0, <1>4 DEF Spoken
  <2>2. CASE roles[m] = "system"
    <3>1. u = <<m>>
      BY <1>4, <2>2 DEF AddMessage
    <3>2. Systems(roles, m) = Systems(roles, n) \cup {m}
      BY <2>1, <2>2 DEF Systems
    <3>3. Kept(roles, m) = {m}
      BY <1>0, <1>2, <2>1, <3>2 DEF Kept
    <3>4. Begin(roles, m) = 1
      BY <3>2 DEF Begin
    <3>5. u \in Texts /\ Len(u) = 1 /\ DOMAIN u = 1..1 /\ u[1] = m /\ u # <<>> /\ 1..1 = {1}
      <4>1. u \in Texts
        <5>1. PICK T : T = Nat \cup {NilText}
          OBVIOUS
        <5>2. m \in T
          BY <1>0, <5>1
        <5>3. u \in Seq(T)
          BY <3>1, <5>2, OneMessage
        <5> QED
          BY <5>1, <5>3 DEF Texts
      <4>2. Len(u) = 1 /\ u[1] = m /\ DOMAIN u = 1..1
        BY <3>1
      <4>3. u # <<>> /\ 1..1 = {1}
        BY <3>1
      <4> QED
        BY <4>1, <4>2, <4>3
    <3>6. {u[i] : i \in 1..1} = {m} /\ InOrder(u, 1..1)
      BY <3>5 DEF InOrder
    <3>7. Laid(u, 1, {m})
      BY <3>5, <3>6 DEF Laid
    <3>8. IsText(u, roles, m)
      BY <3>3, <3>4, <3>7, TextIs
    <3> QED
      BY <2>1, <3>5, <3>8 DEF Parsed
  <2>3. CASE roles[m] # "system"
    <3>1. u = (IF t = <<>> THEN <<NilText>> ELSE t) \o <<m>>
      BY <1>4, <2>3 DEF AddMessage
    <3>2. Systems(roles, m) = Systems(roles, n)
      BY <1>2, <2>1, <2>3 DEF Systems
    <3>3. Kept(roles, m) = Kept(roles, n) \cup {m}
      BY <1>2, <2>1, <3>2 DEF Kept
    <3>4. Begin(roles, m) = IF Systems(roles, n) = {} THEN 2 ELSE 1
      BY <2>1, <3>2 DEF Begin
    <3>5. Kept(roles, n) \in SUBSET Nat /\ \A x \in Kept(roles, n) : x < m
      BY <1>2
    <3>6. CASE t = <<>>
      <4>1. Spoken(roles, n) = {} /\ Systems(roles, n) = {} /\ Kept(roles, n) = {}
        BY <1>1, <1>2, <3>6
      <4>2. PICK s : s = <<NilText>>
        OBVIOUS
      <4>3. s \in Texts /\ Len(s) = 1 /\ DOMAIN s = 1..1 /\ s[1] = NilText /\ 2..1 = {}
        BY <4>2 DEF Texts
      <4>4. {s[i] : i \in 2..Len(s)} = {} /\ InOrder(s, 2..Len(s)) /\ 2 <= Len(s) + 1
        BY <4>3 DEF InOrder
      <4>5. u = s \o <<m>>
        BY <3>1, <3>6, <4>2
      <4>6. PICK b, K : b = 2 /\ K = {}
        OBVIOUS
      <4>7. u \in Texts /\ u # <<>> /\ Laid(u, b, K \cup {m})
        <5>1. b \in {1, 2} /\ b <= Len(s) + 1 /\ K \in SUBSET Nat /\ \A x \in K : x < m
          BY <4>4, <4>6
        <5>2. Laid(s, b, K)
          BY <4>3, <4>4, <4>6 DEF Laid
        <5> QED
          BY <1>0, <4>3, <4>5, <5>1, <5>2, TextAppend
      <4>8. Begin(roles, m) = b /\ Kept(roles, m) = K \cup {m}
        BY <3>3, <3>4, <4>1, <4>6
      <4>9. IsText(u, roles, m)
        BY <4>7, <4>8, TextIs
      <4> QED
        BY <2>1, <4>7, <4>9 DEF Parsed
    <3>7. CASE t # <<>>
      <4>1. Begin(roles, m) = Begin(roles, n)
        BY <1>1, <3>4, <3>7 DEF Begin
      <4>2. PICK b, K : b = Begin(roles, n) /\ K = Kept(roles, n)
        OBVIOUS
      <4>3. b \in {1, 2} /\ b <= Len(t) + 1
        <5>1. Len(t) \in Nat /\ Len(t) # 0
          BY <1>1, <3>7 DEF Texts
        <5> QED
          BY <4>2, <5>1 DEF Begin
      <4>4. u = t \o <<m>>
        BY <3>1, <3>7
      <4>5. u \in Texts /\ u # <<>> /\ Laid(u, b, K \cup {m})
        <5>1. K \in SUBSET Nat /\ \A x \in K : x < m
          BY <3>5, <4>2
        <5>2. Laid(t, b, K)
          BY <1>1, <4>2
        <5> QED
          BY <1>0, <1>1, <4>3, <4>4, <5>1, <5>2, TextAppend
      <4>6. IsText(u, roles, m)
        BY <3>3, <4>1, <4>2, <4>5, TextIs
      <4> QED
        BY <2>1, <4>5, <4>6 DEF Parsed
    <3> QED
      BY <3>6, <3>7
  <2> QED
    BY <2>2, <2>3
<1> QED
  BY <1>3, <1>4

\* nextHop is the first hop, and Keyword the one it reads.
LEMMA KeywordIs ==
  ASSUME PlaceInv, ObjectsInv, mcGraph # None, Len(rootSteps) # 0
  PROVE  Keyword = IF Embeds THEN "text" ELSE "query"
<1> DEFINE hops == {i \in DOMAIN rootSteps : ~rootSteps[i].down}
<1>1. PICK L \in Nat : L = Len(rootSteps) /\ L # 0 /\ DOMAIN rootSteps = 1..L
  BY RootIs
<1>2. PICK d : d = nextHop
  OBVIOUS
<1>3. d \in 1..L /\ IF hops = {} THEN d = L ELSE d \in hops /\ \A j \in hops : d <= j
  <2> DEFINE I == {k \in 1..Len(rootSteps) : ~rootSteps[k].down}
  <2>1. PICK e : e = IF I # {} THEN Min(I) ELSE 0
    OBVIOUS
  <2>2. d = IF e = 0 THEN Len(rootSteps) ELSE e
    BY <1>2, <2>1 DEF nextHop, SelectInSeq
  <2>3. I = hops /\ I \in SUBSET Nat /\ I \subseteq 1..L
    BY <1>1
  <2> HIDE DEF hops, I
  <2>4. CASE I = {}
    BY <1>1, <2>1, <2>2, <2>3, <2>4
  <2>5. CASE I # {}
    <3>1. e \in I /\ \A x \in I : e <= x
      BY <2>1, <2>3, <2>5, LeastNumber
    <3>2. e # 0
      BY <1>1, <2>3, <3>1
    <3> QED
      BY <2>2, <2>3, <2>5, <3>1, <3>2
  <2> QED
    BY <2>4, <2>5
<1>4. Embeds <=> \E i \in 1..L : /\ rootSteps[i].name = "Embedding"
                                /\ IF hops = {} THEN i = L ELSE i \in hops /\ \A j \in hops : i <= j
  BY <1>1 DEF Embeds
<1>5. hops \subseteq 1..L
  BY <1>1
<1> HIDE DEF hops
<1>6. \A i \in 1..L : (IF hops = {} THEN i = L ELSE i \in hops /\ \A j \in hops : i <= j) => i = d
  BY <1>1, <1>3, <1>5
<1>7. Embeds <=> rootSteps[d].name = "Embedding"
  BY <1>3, <1>4, <1>6
<1> QED
  BY <1>2, <1>7 DEF Keyword, EmbeddingKeyword, LLMKeyword

\* What a payload holds: the client's fields, then the defaults, then the text.
Holds(p, text, key, fields) ==
  /\ \A f \in fields : p[f] = <<"client">>
  /\ DOMAIN p = fields \cup (IF text = <<>> THEN {} ELSE {key})
                       \cup (IF key = "query" THEN {"top_k"} ELSE {})
  /\ key \notin fields /\ text # <<>> => p[key] = text

\* Payload builds it, whatever the fields are.
LEMMA PayloadIs ==
  ASSUME NEW text, NEW key, key \in {"text", "query"}, NEW fields, NEW p,
         p = Payload(text, key, fields)
  PROVE  Holds(p, text, key, fields)
<1>1. PICK base, defaults : /\ base = IF text = <<>> THEN {} ELSE {key}
                            /\ defaults = IF key = "query" THEN {"top_k"} ELSE {}
  OBVIOUS
<1>2. p = [f \in fields \cup defaults \cup base |->
             IF f \in fields THEN <<"client">> ELSE IF f \in defaults THEN <<"default">> ELSE text]
  BY <1>1 DEF Payload, LLMKeyword, DefaultParam
<1>3. \A f \in fields : p[f] = <<"client">>
  BY <1>2
<1>4. DOMAIN p = fields \cup defaults \cup base
  BY <1>2
<1>5. key \notin defaults
  BY <1>1
<1>6. ASSUME key \notin fields, text # <<>> PROVE p[key] = text
  <2>1. key \in base
    BY <1>1, <1>6
  <2> QED
    BY <1>2, <1>5, <1>6, <2>1
<1> QED
  BY <1>1, <1>3, <1>4, <1>6 DEF Holds

\* A UI request's list has been read as far as item says, and what has been sent is
\* the prompt.
Conversing(r) ==
  /\ {"kind", "at", "calls", "status", "open", "body", "unread", "item", "parsed", "sent"}
       \subseteq DOMAIN r
  /\ r.body \in Bodies
  /\ r.body.form = "json" =>
       /\ r.item \in 0..Len(r.body.messages.roles)
       /\ Parsed(r.parsed, r.body.messages.roles, r.item)
  /\ r.sent # None => IsPrompt(r.sent, r.body)

\* A UI request has been read as far as its item says.
UiInv == rq # NoRequest /\ rq.kind = "ui" => Conversing(rq)

\* A body that is an object has messages and fields.
LEMMA BodyIs ==
  ASSUME NEW b \in Bodies, b.form = "json"
  PROVE  /\ b.messages \in Chats /\ b.messages.roles \in Seq(Range(b.messages.roles))
         /\ Len(b.messages.roles) \in Nat /\ DOMAIN b.messages.roles = 1..Len(b.messages.roles)
<1>1. b.messages \in Chats
  BY DEF Bodies
<1>2. b.messages.roles \in Seq(Range(b.messages.roles))
  BY <1>1, ChatsAssumption
<1> QED
  BY <1>1, <1>2

\* No message, no text.
LEMMA ParsedNone ==
  ASSUME NEW roles
  PROVE  Parsed(<<>>, roles, 0)
<1>1. Spoken(roles, 0) = {}
  BY DEF Spoken
<1>2. Systems(roles, 0) = {} /\ Kept(roles, 0) = {}
  BY <1>1 DEF Systems, Kept
<1>3. Begin(roles, 0) = 1
  BY <1>1 DEF Begin
<1>4. PICK t : t = <<>>
  OBVIOUS
<1>5. t \in Texts /\ Len(t) = 0 /\ DOMAIN t = {} /\ 1..0 = {}
  BY <1>4 DEF Texts
<1>6. Laid(t, 1, {})
  BY <1>5 DEF Laid, InOrder
<1> QED
  BY <1>1, <1>2, <1>3, <1>4, <1>5, <1>6, TextIs DEF Parsed

\* When the list has been read the payload is the prompt.
LEMMA PromptIs ==
  ASSUME PlaceInv, ObjectsInv, mcGraph # None, Len(rootSteps) # 0,
         NEW b \in Bodies, b.form = "json", NEW t,
         Parsed(t, b.messages.roles, Len(b.messages.roles)),
         NEW text, text = IF b.messages.type = "string" THEN <<"string">> ELSE t,
         NEW p, p = Payload(text, Keyword, b.fields)
  PROVE  IsPrompt(p, b)
<1>1. PICK key, roles : key = Keyword /\ roles = b.messages.roles
  OBVIOUS
<1>2. key = (IF Embeds THEN "text" ELSE "query") /\ key \in {"text", "query"}
  BY <1>1, KeywordIs
<1>3. /\ \A f \in b.fields : p[f] = <<"client">>
      /\ DOMAIN p = b.fields \cup (IF text = <<>> THEN {} ELSE {key})
                             \cup (IF key = "query" THEN {"top_k"} ELSE {})
      /\ key \notin b.fields /\ text # <<>> => p[key] = text
  <2>1. PICK fs : fs = b.fields
    OBVIOUS
  <2>2. p = Payload(text, key, fs)
    BY <1>1, <2>1
  <2>3. Holds(p, text, key, fs)
    BY <1>2, <2>2, PayloadIs, Zenon
  <2> QED
    BY <2>1, <2>3 DEF Holds
<1>4. t = <<>> <=> ~\E i \in DOMAIN roles : roles[i] # None
  BY <1>1, BodyIs DEF Parsed, Spoken
<1>5. text # <<>> <=> (b.messages.type = "string" \/ \E i \in DOMAIN roles : roles[i] # None)
  <2>1. <<"string">> # <<>>
    OBVIOUS
  <2> QED
    BY <1>4, <2>1
<1>6. IsText(t, roles, Len(roles))
  BY <1>1 DEF Parsed
<1>7. key = "query" <=> ~Embeds
  BY <1>2
<1>8. DOMAIN p = b.fields \cup (IF b.messages.type = "string" \/ \E i \in DOMAIN roles : roles[i] # None
                                 THEN {key} ELSE {})
                          \cup (IF Embeds THEN {} ELSE {DefaultParam})
  BY <1>3, <1>5, <1>7 DEF DefaultParam
<1>9. ASSUME key \notin b.fields,
             b.messages.type = "string" \/ \E i \in DOMAIN roles : roles[i] # None
      PROVE  IF b.messages.type = "string" THEN p[key] = <<"string">>
                                           ELSE IsText(p[key], roles, Len(roles))
  <2>1. p[key] = text
    BY <1>3, <1>5, <1>9
  <2> QED
    BY <1>6, <2>1
<1> QED
  BY <1>1, <1>2, <1>3, <1>8, <1>9, Zenon DEF IsPrompt

\* The prompt depends on the graph alone.
LEMMA PromptKept ==
  ASSUME UNCHANGED mcGraph
  PROVE  \A r : Conversing(r)' <=> Conversing(r)
<1>1. Embeds' = Embeds
  BY DEF Embeds, rootSteps
<1>2. ASSUME NEW s, NEW b PROVE IsPrompt(s, b)' <=> IsPrompt(s, b)
  BY <1>1 DEF IsPrompt
<1> QED
  BY <1>2 DEF Conversing

\* The handlers keep account of a UI request.
LEMMA UiNext ==
  ASSUME PlaceInv, ObjectsInv, RequestInv, UiInv, UNCHANGED mcGraph, Requests \/ Handle
  PROVE  UiInv'
<1> DEFINE Fields == {"kind", "at", "calls", "status", "open", "body", "unread", "item", "parsed", "sent"}
<1>3. \A r : Conversing(r)' <=> Conversing(r)
  BY PromptKept
<1>g. ASSUME rq' = NoRequest \/ rq'.kind # "ui" \/ Conversing(rq')
      PROVE  UiInv'
  <2>1. PICK r : r = rq'
    OBVIOUS
  <2>2. r = NoRequest \/ r.kind # "ui" \/ Conversing(r)'
    BY <1>3, <1>g, <2>1
  <2> QED
    BY <2>1, <2>2 DEF UiInv, Conversing
<1>k. ASSUME Conversing(rq), Fields \subseteq DOMAIN rq', rq'.body = rq.body, rq'.sent = rq.sent,
             rq'.item = rq.item, rq'.parsed = rq.parsed
      PROVE  UiInv'
  <2>1. Conversing(rq')
    BY <1>k DEF Conversing
  <2> QED
    BY <1>g, <2>1
<1>4. ASSUME NEW b \in Bodies, UiRequest(b)
      PROVE  UiInv'
  <2>1. PICK r : r = NewRequest("ui")
    OBVIOUS
  <2>2. rq' = [r EXCEPT !.body = b, !.unread = b.form # "empty"]
    BY <1>4, <2>1 DEF UiRequest
  <2>3. Fields \subseteq DOMAIN r /\ r.item = 0 /\ r.parsed = <<>> /\ r.sent = None
    BY <2>1 DEF NewRequest
  <2>4. /\ Fields \subseteq DOMAIN rq' /\ rq'.body = b /\ rq'.item = 0 /\ rq'.parsed = <<>>
        /\ rq'.sent = None
    BY <2>2, <2>3
  <2>5. ASSUME b.form = "json" PROVE 0 \in 0..Len(b.messages.roles) /\ Parsed(<<>>, b.messages.roles, 0)
    BY <2>5, BodyIs, ParsedNone
  <2>6. Conversing(rq')
    BY <2>4, <2>5 DEF Conversing
  <2> QED
    BY <1>g, <2>6
<1>5. CASE mcUiHandler
  <2>1. mcGraph # None /\ rq # NoRequest /\ rq.kind = "ui" /\ Conversing(rq) /\ Fields \subseteq DOMAIN rq
    <3>1. rq # NoRequest /\ rq.kind = "ui"
      BY <1>5 DEF mcUiHandler, UiSkip, UiProxy, UiRefuse, UiMessage, UiForward, UiEnd,
         Unmarshalled, AtUiStep, AtUi
    <3> QED
      BY <3>1 DEF UiInv, Conversing, RequestInv
  <2>2. CASE UiSkip \/ UiProxy
    <3>1. \/ rq' = [rq EXCEPT !.at = @ + 1]
          \/ \E c : rq' = [rq EXCEPT !.at = @ + 1, !.status = WriteHeader(rq, "proxied"), !.calls = c]
      BY <2>2 DEF UiSkip, UiProxy
    <3>2. /\ Fields \subseteq DOMAIN rq' /\ rq'.body = rq.body /\ rq'.sent = rq.sent
          /\ rq'.item = rq.item /\ rq'.parsed = rq.parsed
      BY <2>1, <3>1
    <3> QED
      BY <1>k, <2>1, <3>2
  <2>3. CASE UiRefuse \/ UiEnd
    <3>1. \E st : rq' = Close(rq, st)
      BY <2>3 DEF UiRefuse, UiEnd
    <3>2. /\ Fields \subseteq DOMAIN rq' /\ rq'.body = rq.body /\ rq'.sent = rq.sent
          /\ rq'.item = rq.item /\ rq'.parsed = rq.parsed
      BY <2>1, <3>1 DEF Close
    <3> QED
      BY <1>k, <2>1, <3>2
  <2>4. CASE UiMessage
    <3>1. PICK b, roles, n, t : b = rq.body /\ roles = b.messages.roles /\ n = rq.item /\ t = rq.parsed
      OBVIOUS
    <3>2. /\ b \in Bodies /\ b.form = "json" /\ n < Len(roles)
          /\ rq' = [rq EXCEPT !.item = @ + 1, !.parsed = AddMessage(@, n + 1, roles[n + 1])]
      BY <2>1, <2>4, <3>1 DEF UiMessage, Unmarshalled, Conversing
    <3>3. n \in 0..Len(roles) /\ Len(roles) \in Nat /\ Parsed(t, roles, n)
      BY <2>1, <3>1, <3>2, BodyIs DEF Conversing
    <3>4. n \in Nat /\ n + 1 \in 0..Len(roles)
      BY <3>2, <3>3
    <3>5. PICK m, u : m = n + 1 /\ u = AddMessage(t, m, roles[m])
      OBVIOUS
    <3>6. Parsed(u, roles, m)
      BY <3>3, <3>4, <3>5, TextNext
    <3>7. rq' = [rq EXCEPT !.item = m, !.parsed = u]
      BY <2>1, <3>1, <3>2, <3>5
    <3>8. /\ Fields \subseteq DOMAIN rq' /\ rq'.body = b /\ rq'.sent = rq.sent
          /\ rq'.item = m /\ rq'.parsed = u
      BY <2>1, <3>1, <3>7
    <3>9. Conversing(rq')
      BY <2>1, <3>1, <3>2, <3>4, <3>5, <3>6, <3>8 DEF Conversing
    <3> QED
      BY <1>g, <3>9
  <2>5. CASE UiForward
    <3>1. PICK b, t, text : /\ b = rq.body /\ t = rq.parsed
                            /\ text = IF b.messages.type = "string" THEN <<"string">> ELSE t
      OBVIOUS
    <3>2. PICK p : p = Payload(text, Keyword, b.fields)
      OBVIOUS
    <3>3. /\ b \in Bodies /\ b.form = "json" /\ rq.item = Len(b.messages.roles)
          /\ rq.at <= Len(rootSteps)
          /\ rq' = [rq EXCEPT !.at = @ + 1, !.unread = FALSE,
                              !.status = WriteHeader(rq, "graph"), !.sent = p]
      BY <2>1, <2>5, <3>1, <3>2 DEF UiForward, Unmarshalled, AtUiStep, Conversing
    <3>4. Parsed(t, b.messages.roles, Len(b.messages.roles))
      BY <2>1, <3>1, <3>3 DEF Conversing
    <3>5. Len(rootSteps) # 0
      BY <2>1, <3>3, RootIs DEF RequestInv
    <3>6. IsPrompt(p, b)
      BY <2>1, <3>1, <3>2, <3>3, <3>4, <3>5, PromptIs
    <3>7. /\ Fields \subseteq DOMAIN rq' /\ rq'.body = b /\ rq'.sent = p
          /\ rq'.item = rq.item /\ rq'.parsed = t
      BY <2>1, <3>1, <3>3
    <3>8. Conversing(rq')
      BY <2>1, <3>1, <3>6, <3>7 DEF Conversing
    <3> QED
      BY <1>g, <3>8
  <2> QED
    BY <1>5, <2>2, <2>3, <2>4, <2>5 DEF mcUiHandler
<1>6. ASSUME NEW h, NEW f, DataRequest(h, f)
      PROVE  UiInv'
  <2>1. rq'.kind = "data"
    BY <1>6 DEF DataRequest, NewRequest
  <2> QED
    BY <1>g, <2>1
<1>7. CASE AtData /\ (DataEnd \/ DataSkip \/ DataRefuse \/ \E o \in Outcomes : DataStep(o))
  <2>1. rq.kind = "data" /\ "kind" \in DOMAIN rq
    BY <1>7 DEF AtData, RequestInv
  <2>2. rq'.kind = rq.kind
    <3>1. CASE DataEnd
      BY <2>1, <3>1 DEF DataEnd, Close
    <3>0. CASE DataSkip \/ DataRefuse
      BY <2>1, <3>0 DEF DataSkip, DataRefuse, Fail, Close
    <3>2. ASSUME NEW o \in Outcomes, DataStep(o)
          PROVE  rq'.kind = rq.kind
      BY <2>1, <3>2 DEF DataStep, Fail, Close
    <3> QED
      BY <1>7, <3>0, <3>1, <3>2
  <2> QED
    BY <1>g, <2>1, <2>2
<1>8. CASE mcAssetHandler
  <2>1. PICK r : r = NewRequest("asset")
    OBVIOUS
  <2>2. \/ rq' = Close(r, "200")
        \/ \E c : rq' = Close([r EXCEPT !.calls = c], "proxied")
    BY <1>8, <2>1 DEF mcAssetHandler
  <2>3. "kind" \in DOMAIN r /\ r.kind = "asset"
    BY <2>1 DEF NewRequest
  <2>4. rq'.kind = "asset"
    BY <2>2, <2>3 DEF Close
  <2> QED
    BY <1>g, <2>4
<1>9. CASE Respond
  BY <1>9, <1>g DEF Respond
<1>10. DataEnd \/ DataSkip \/ DataRefuse \/ (\E o \in Outcomes : DataStep(o)) => AtData
  BY DEF DataEnd, DataSkip, DataRefuse, DataStep, AtDataStep
<1> QED
  BY <1>4, <1>5, <1>6, <1>7, <1>8, <1>9, <1>10 DEF Requests, Handle, CallData

\* The graph behind /ui gets the conversation under the keyword its first hop reads,
\* from the last system message on, and the client's own fields prevail, for any
\* accepted graph and any lists of messages (mcUiHandler, lines 777-860).
THEOREM PromptExactCorrect == LifeSpec => []PromptExact
<1>1. LifeInit => UiInv
  BY DEF LifeInit, EndInit, UiInv
<1>2. PlaceInv /\ ObjectsInv /\ RequestInv /\ UiInv /\ [LifeNext]_lifeVars => UiInv'
  <2> SUFFICES ASSUME PlaceInv, ObjectsInv, RequestInv, UiInv, [LifeNext]_lifeVars PROVE UiInv'
    OBVIOUS
  <2>1. CASE UNCHANGED <<mcGraph, rq>>
    <3>1. PICK r : r = rq
      OBVIOUS
    <3>2. r # NoRequest /\ r.kind = "ui" => Conversing(r)'
      BY <2>1, <3>1, PromptKept DEF UiInv
    <3> QED
      BY <2>1, <3>1, <3>2 DEF UiInv, Conversing
  <2>2. CASE rq' = NoRequest
    BY <2>2 DEF UiInv
  <2> QED
    BY <2>1, <2>2, RequestCases, UiNext
<1>3. UiInv => PromptExact
  BY DEF UiInv, Conversing, PromptExact
<1> QED
  BY <1>1, <1>2, <1>3, LifeRequests, PTL DEF LifeSpec
=============================================================================
