--------------------------- MODULE AdmissionProofs ---------------------------
(***************************************************************************)
(* Theorems about Admission, for any clients, objects, graphs and bounds:  *)
(* its types, and that it implements ValidatedStore.  The invariant behind *)
(* them says what a webhook call knows of its graph when it has looked at  *)
(* some of its steps, in whatever order the nodes come.                    *)
(***************************************************************************)
EXTENDS Admission, TLAPS

------------------------------------------------------------------------------
(* What a call has looked at, and what it knows of it.                     *)

Visited(g, v) ==
    {p \in Positions(g) : p[1] \notin v.left /\ (p[1] = v.cur => p[2] < v.idx)}

\* The errors found are those of the visited steps, and the names taken are
\* their services.
Knows(g, v) ==
    /\ "name" \in v.errs <=> BadName(g, Visited(g, v))
    /\ "node" \in v.errs <=> BadNode(g, Visited(g, v))
    /\ "svc" \in v.errs <=> SameService(g, Visited(g, v))
    /\ "root" \notin v.errs
    /\ \A x : x # None =>
          (x \in v.names <=> \E p \in Visited(g, v) : StepAt(g, p).svc = x)

CallShape(g, v) ==
    /\ v.left \subseteq DOMAIN g
    /\ v.cur \in (DOMAIN g \ v.left) \cup {None}
    /\ v.idx \in Nat \ {0}
    /\ v.cur # None => v.idx <= Len(g[v.cur]) + 1

\* A position is a node of the graph with the index of one of its steps.
LEMMA PositionsMember ==
  ASSUME NEW g
  PROVE  \A p : p \in Positions(g) <=>
           \E n \in DOMAIN g : \E i \in 1 .. Len(g[n]) : p = <<n, i>>
BY DEF Positions

\* A call that has just begun has visited nothing and knows that.
LEMMA KnowsNew ==
  ASSUME NEW g, None \notin DOMAIN g
  PROVE  CallShape(g, NewCall(g)) /\ Knows(g, NewCall(g))
<1> DEFINE v == NewCall(g)
<1>1. v.left = DOMAIN g /\ v.cur = None /\ v.idx = 1 /\ v.errs = {} /\ v.names = {}
  BY DEF NewCall
<1> HIDE DEF v
<1>2. Visited(g, v) = {}
  BY <1>1, PositionsMember DEF Visited
<1>3. Knows(g, v)
  BY <1>1, <1>2 DEF Knows, BadName, BadNode, SameService
<1>4. CallShape(g, v)
  BY <1>1 DEF CallShape
<1> QED BY <1>3, <1>4 DEF v

\* Entering the next node visits no step.
LEMMA KnowsNode ==
  ASSUME NEW g, NEW v, NEW w, NEW n \in v.left,
         None \notin DOMAIN g,
         \A m \in DOMAIN g : Len(g[m]) \in Nat,
         CallShape(g, v), Knows(g, v), AtEnd(g, v),
         w.left = v.left \ {n}, w.cur = n, w.idx = 1,
         w.names = v.names, w.errs = v.errs
  PROVE  CallShape(g, w) /\ Knows(g, w)
<1>1. CallShape(g, w)
  BY DEF CallShape
<1>2. Visited(g, w) = Visited(g, v)
  <2>1. ASSUME NEW m \in DOMAIN g, NEW i \in 1 .. Len(g[m])
        PROVE  (m \notin w.left /\ (m = w.cur => i < w.idx))
                 <=> (m \notin v.left /\ (m = v.cur => i < v.idx))
    <3>1. CASE m = n
      BY <2>1, <3>1
    <3>2. CASE m # n /\ m = v.cur
      BY <2>1, <3>2 DEF AtEnd, CallShape
    <3>3. CASE m # n /\ m # v.cur
      BY <2>1, <3>3
    <3> QED BY <3>1, <3>2, <3>3
  <2>2. \A p \in Positions(g) : p \in Visited(g, w) <=> p \in Visited(g, v)
    BY <2>1, PositionsMember DEF Visited
  <2> QED BY <2>2 DEF Visited
<1>3. Knows(g, w)
  BY <1>2 DEF Knows
<1> QED BY <1>1, <1>3

\* A step that is checked is visited, and its errors and its name are known.
LEMMA KnowsStep ==
  ASSUME NEW g, NEW v, NEW w,
         \A m \in DOMAIN g : Len(g[m]) \in Nat,
         CallShape(g, v), Knows(g, v), ~ AtEnd(g, v),
         w.left = v.left, w.cur = v.cur, w.idx = v.idx + 1,
         w.names = serviceNames(g[v.cur][v.idx], v.names),
         w.errs = v.errs \cup checkStepName(g[v.cur][v.idx])
                         \cup checkNodeName(g, g[v.cur][v.idx])
                         \cup checkServiceName(g[v.cur][v.idx], v.names)
  PROVE  CallShape(g, w) /\ Knows(g, w)
<1> DEFINE s == g[v.cur][v.idx]
           here == <<v.cur, v.idx>>
<1>1. v.cur # None /\ v.cur \in DOMAIN g \ v.left /\ v.idx \in 1 .. Len(g[v.cur])
  BY DEF AtEnd, CallShape
<1>2. CallShape(g, w)
  BY <1>1 DEF CallShape
<1>3. here \in Positions(g) /\ StepAt(g, here) = s
  BY <1>1, PositionsMember DEF StepAt
<1>4. here \notin Visited(g, v)
  BY <1>1 DEF Visited
<1>5. Visited(g, w) = Visited(g, v) \cup {here}
  <2>1. ASSUME NEW m \in DOMAIN g, NEW i \in 1 .. Len(g[m])
        PROVE  (m \notin w.left /\ (m = w.cur => i < w.idx))
                 <=> \/ m \notin v.left /\ (m = v.cur => i < v.idx)
                     \/ m = v.cur /\ i = v.idx
    BY <1>1, <2>1
  <2>2. ASSUME NEW p \in Positions(g)
        PROVE  p \in Visited(g, w) <=> p \in Visited(g, v) \cup {here}
    <3>1. PICK m \in DOMAIN g : \E i \in 1 .. Len(g[m]) : p = <<m, i>>
      BY <2>2, PositionsMember
    <3>2. PICK i \in 1 .. Len(g[m]) : p = <<m, i>>
      BY <3>1
    <3> QED BY <2>1, <3>2 DEF Visited
  <2> QED BY <2>2, <1>3 DEF Visited
<1> DEFINE V == Visited(g, v)
           W == Visited(g, w)
<1> HIDE DEF V, W, here, s
<1>6. W = V \cup {here} /\ here \notin V /\ StepAt(g, here) = s
  BY <1>3, <1>4, <1>5 DEF V, W
<1>7. /\ "name" \in v.errs <=> BadName(g, V)
      /\ "node" \in v.errs <=> BadNode(g, V)
      /\ "svc" \in v.errs <=> SameService(g, V)
      /\ "root" \notin v.errs
      /\ \A x : x # None => (x \in v.names <=> \E p \in V : StepAt(g, p).svc = x)
  BY DEF Knows, V
<1>8. /\ w.errs = v.errs \cup checkStepName(s) \cup checkNodeName(g, s)
                         \cup checkServiceName(s, v.names)
      /\ w.names = serviceNames(s, v.names)
  BY DEF s
<1>9. "name" \in w.errs <=> BadName(g, W)
  BY <1>6, <1>7, <1>8
  DEF BadName, checkStepName, checkNodeName, checkServiceName
<1>10. "node" \in w.errs <=> BadNode(g, W)
  BY <1>6, <1>7, <1>8
  DEF BadNode, checkStepName, checkNodeName, checkServiceName, nodeNameExists
<1>11. "svc" \in w.errs <=> SameService(g, W)
  <2>1. "svc" \in w.errs <=> "svc" \in v.errs \/ (s.svc # None /\ s.svc \in v.names)
    BY <1>8 DEF checkStepName, checkNodeName, checkServiceName
  <2>2. SameService(g, W) <=> SameService(g, V)
                              \/ (s.svc # None /\ \E p \in V : StepAt(g, p).svc = s.svc)
    BY <1>6 DEF SameService
  <2> QED BY <2>1, <2>2, <1>7
<1>12. "root" \notin w.errs
  BY <1>7, <1>8 DEF checkStepName, checkNodeName, checkServiceName
<1>13. \A x : x # None => (x \in w.names <=> \E p \in W : StepAt(g, p).svc = x)
  <2>1. \A x : x # None => (x \in w.names <=> x \in v.names \/ x = s.svc)
    BY <1>8 DEF serviceNames, checkServiceName
  <2> QED BY <2>1, <1>6, <1>7
<1> QED BY <1>2, <1>9, <1>10, <1>11, <1>12, <1>13 DEF Knows, W

\* A call that has come to the end has found every error and no other.
LEMMA KnowsEnd ==
  ASSUME NEW g, NEW v,
         None \notin DOMAIN g,
         \A m \in DOMAIN g : Len(g[m]) \in Nat,
         v.errs \subseteq ErrorKinds,
         CallShape(g, v), Knows(g, v), AtEnd(g, v), v.left = {}
  PROVE  checkfields(g, v) = {} <=> ValidGraph(g)
<1>1. Visited(g, v) = Positions(g)
  <2>1. ASSUME NEW p \in Positions(g)
        PROVE  p \in Visited(g, v)
    <3>1. PICK m \in DOMAIN g : \E i \in 1 .. Len(g[m]) : p = <<m, i>>
      BY <2>1, PositionsMember
    <3>2. PICK i \in 1 .. Len(g[m]) : p = <<m, i>>
      BY <3>1
    <3> QED BY <3>2 DEF Visited, AtEnd, CallShape
  <2> QED BY <2>1 DEF Visited
<1>2. v.errs = {} <=> /\ "name" \notin v.errs /\ "node" \notin v.errs
                      /\ "svc" \notin v.errs /\ "root" \notin v.errs
  BY DEF ErrorKinds
<1>3. v.errs = {} <=> /\ ~ BadName(g, Positions(g)) /\ ~ BadNode(g, Positions(g))
                      /\ ~ SameService(g, Positions(g))
  BY <1>1, <1>2 DEF Knows
<1> QED BY <1>3 DEF checkfields, validateRootExistance, ValidGraph

------------------------------------------------------------------------------
(* The inductive invariant.                                                *)

\* The API server has no configuration that does not exist.
SeenInv == seen # None => config # None

\* A call under way is about a graph that is to be stored, and knows of it what
\* it has visited.
CallInv ==
    /\ DOMAIN val = Clients
    /\ \A c \in Clients : val[c] # None =>
          /\ req[c] \in PutRequests
          /\ seen # None
          /\ CallShape(req[c].graph, val[c])
          /\ Knows(req[c].graph, val[c])

Inv == AdmissionTypeOK /\ SeenInv /\ CallInv

\* The parts of the type invariant that managers and clients write.
ManagerTypes ==
    /\ pod \in [Pods -> {"absent", "down", "started", "found", "serving", "gone"}]
    /\ newest \in Pods
    /\ ca \in [Pods -> CAs]
    /\ found \in [Pods -> Configs \cup {None}]
    /\ config \in Configs \cup {None}
    /\ seen \in Configs \cup {None}
    /\ crashes \in 0 .. MaxCrashes

ClientTypes ==
    /\ store \in [Objects -> Graphs \cup {NoGraph}]
    /\ req \in [Clients -> Requests \cup {Idle}]
    /\ answer \in [Clients -> {"none", "ok", "invalid", "unavailable"}]
    /\ \A c \in Clients : val[c] # None => req[c] # Idle /\ CallTypeOK(val[c])

LEMMA InitInv == Init => Inv
<1> SUFFICES ASSUME Init PROVE Inv
  OBVIOUS
<1>1. ManagerTypes
  BY BoundAssumption DEF Init, ManagerTypes, CAs, Pods
<1>2. ClientTypes
  BY DEF Init, ClientTypes
<1>3. SeenInv /\ CallInv
  BY DEF Init, SeenInv, CallInv
<1> QED BY <1>1, <1>2, <1>3 DEF Inv, AdmissionTypeOK, ManagerTypes, ClientTypes

\* The managers and the cluster around them write what concerns them, and the
\* configuration does not go away.
LEMMA ManagerStep ==
  ASSUME Inv,
         \/ \E p \in Pods : Manager(p) \/ Exit(p) \/ Retire(p)
         \/ Rollout
         \/ WatchConfiguration
  PROVE  /\ ManagerTypes' /\ SeenInv'
         /\ UNCHANGED clientVars
         /\ seen # None => seen' # None
<1> USE DEF ManagerTypes, SeenInv
<1>0. ManagerTypes /\ SeenInv
  BY DEF Inv, AdmissionTypeOK
<1>1. ASSUME NEW p \in Pods, GenerateX509Cert(p)
      PROVE  ManagerTypes' /\ SeenInv' /\ UNCHANGED <<seen, clientVars>>
  BY <1>0, <1>1 DEF GenerateX509Cert, CAs
<1>2. ASSUME NEW p \in Pods, GetConfiguration(p)
      PROVE  ManagerTypes' /\ SeenInv' /\ UNCHANGED <<seen, clientVars>>
  BY <1>0, <1>2 DEF GetConfiguration
<1>3. ASSUME NEW p \in Pods, CreateOrUpdateConfiguration(p)
      PROVE  ManagerTypes' /\ SeenInv' /\ UNCHANGED <<seen, clientVars>>
  <2>1. config' \in Configs \cup {None} /\ (config # None => config' # None)
    BY <1>0, <1>3, StoreAssumption DEF CreateOrUpdateConfiguration, Configs
  <2> QED BY <1>0, <1>3, <2>1 DEF CreateOrUpdateConfiguration
<1>4. ASSUME NEW p \in Pods, Exit(p)
      PROVE  ManagerTypes' /\ SeenInv' /\ UNCHANGED <<seen, clientVars>>
  BY <1>0, <1>4, BoundAssumption DEF Exit
<1>5. ASSUME NEW p \in Pods, Retire(p)
      PROVE  ManagerTypes' /\ SeenInv' /\ UNCHANGED <<seen, clientVars>>
  BY <1>0, <1>5 DEF Retire
<1>6. ASSUME Rollout
      PROVE  ManagerTypes' /\ SeenInv' /\ UNCHANGED <<seen, clientVars>>
  BY <1>0, <1>6, BoundAssumption DEF Rollout, Pods
<1>7. ASSUME WatchConfiguration
      PROVE  ManagerTypes' /\ SeenInv' /\ UNCHANGED clientVars
             /\ (seen # None => seen' # None)
  BY <1>0, <1>7 DEF WatchConfiguration
<1> QED BY <1>1, <1>2, <1>3, <1>4, <1>5, <1>6, <1>7 DEF Manager

\* A call is left alone: with its request and the configuration it stays right.
LEMMA CallsKept ==
  ASSUME Inv, UNCHANGED clientVars, seen # None => seen' # None
  PROVE  ClientTypes' /\ CallInv'
BY DEF Inv, AdmissionTypeOK, ClientTypes, CallInv, clientVars

\* A client whose request is answered, or sent, has no call; the others keep theirs.
LEMMA CallEnds ==
  ASSUME Inv, NEW c \in Clients, NEW q \in Requests \cup {Idle},
         NEW a \in {"none", "ok", "invalid", "unavailable"},
         req' = [req EXCEPT ![c] = q],
         answer' = [answer EXCEPT ![c] = a],
         DOMAIN val' = Clients, val'[c] = None,
         \A d \in Clients \ {c} : val'[d] = val[d],
         store' \in [Objects -> Graphs \cup {NoGraph}],
         UNCHANGED managerVars
  PROVE  Inv'
<1>1. \A d \in Clients : val'[d] # None => d # c /\ req'[d] = req[d] /\ val'[d] = val[d]
  BY DEF Inv, AdmissionTypeOK
<1>2. ManagerTypes' /\ SeenInv'
  BY DEF Inv, AdmissionTypeOK, ManagerTypes, SeenInv, managerVars
<1>3. /\ store' \in [Objects -> Graphs \cup {NoGraph}]
      /\ req' \in [Clients -> Requests \cup {Idle}]
      /\ answer' \in [Clients -> {"none", "ok", "invalid", "unavailable"}]
  BY DEF Inv, AdmissionTypeOK
<1>4. \A d \in Clients : val'[d] # None => req'[d] # Idle /\ CallTypeOK(val'[d])
  BY <1>1 DEF Inv, AdmissionTypeOK
<1>5. CallInv'
  BY <1>1 DEF Inv, CallInv, managerVars
<1> QED BY <1>2, <1>3, <1>4, <1>5
        DEF Inv, AdmissionTypeOK, ManagerTypes, CallTypeOK

\* A call begins or goes on; the others stay as they are.
LEMMA CallGoesOn ==
  ASSUME Inv, NEW c \in Clients,
         val' = [val EXCEPT ![c] = val'[c]],
         CallTypeOK(val'[c]),
         req[c] \in PutRequests, seen # None,
         CallShape(req[c].graph, val'[c]),
         Knows(req[c].graph, val'[c]),
         UNCHANGED <<managerVars, store, req, answer>>
  PROVE  Inv'
<1>1. DOMAIN val' = Clients /\ \A d \in Clients \ {c} : val'[d] = val[d]
  BY DEF Inv, CallInv
<1>2. ManagerTypes' /\ SeenInv'
  BY DEF Inv, AdmissionTypeOK, ManagerTypes, SeenInv, managerVars
<1>3. req[c] # Idle
  BY StoreAssumption DEF PutRequests
<1>4. \A d \in Clients : val'[d] # None => req'[d] # Idle /\ CallTypeOK(val'[d])
  BY <1>1, <1>3 DEF Inv, AdmissionTypeOK
<1>5. CallInv'
  BY <1>1 DEF Inv, CallInv, managerVars
<1> QED BY <1>2, <1>4, <1>5
        DEF Inv, AdmissionTypeOK, ManagerTypes, CallTypeOK

\* What a client's step finds: its request, its graph, its call.
LEMMA ClientFacts ==
  ASSUME Inv, NEW c \in Clients, req[c] # Idle
  PROVE  /\ req[c] \in Requests
         /\ req[c].op = "put" => req[c] \in PutRequests
         /\ req[c].op = "delete" => req[c] \in DeleteRequests
         /\ req[c].op \in {"put", "delete"}
         /\ req[c].obj \in Objects
         /\ req[c].graph \in Graphs \cup {NoGraph}
BY DEF Inv, AdmissionTypeOK, Requests, PutRequests, DeleteRequests

LEMMA PutFacts ==
  ASSUME NEW q \in PutRequests
  PROVE  /\ q.op = "put"
         /\ q.graph \in Graphs
         /\ None \notin DOMAIN q.graph
         /\ \A n \in DOMAIN q.graph : Len(q.graph[n]) \in Nat
BY GraphAssumption DEF PutRequests

LEMMA SendStep ==
  ASSUME Inv, NEW c \in Clients, NEW q \in Requests, Send(c, q)
  PROVE  Inv'
<1>1. val[c] = None
  BY DEF Send, Inv, AdmissionTypeOK
<1> QED BY <1>1, CallEnds DEF Send, Inv, CallInv, AdmissionTypeOK

\* Whatever ends a request leaves the invariant behind.
LEMMA RespondStep ==
  ASSUME Inv, NEW c \in Clients, NEW a \in {"ok", "invalid", "unavailable"},
         Respond(c, a), store' \in [Objects -> Graphs \cup {NoGraph}]
  PROVE  Inv'
<1>1. /\ DOMAIN val' = Clients /\ val'[c] = None
      /\ \A d \in Clients \ {c} : val'[d] = val[d]
  BY DEF Respond, Inv, CallInv
<1> QED BY <1>1, CallEnds DEF Respond

LEMMA StoreStep ==
  ASSUME Inv, NEW c \in Clients, req[c] # Idle, Store(c)
  PROVE  Inv'
<1>1. store' \in [Objects -> Graphs \cup {NoGraph}]
  BY ClientFacts DEF Store, Inv, AdmissionTypeOK
<1> QED BY <1>1, RespondStep DEF Store

LEMMA CallWebhookStep ==
  ASSUME Inv, NEW c \in Clients, CallWebhook(c)
  PROVE  Inv'
<1> DEFINE g == req[c].graph
<1>1. req[c] \in PutRequests /\ seen # None
  BY ClientFacts DEF CallWebhook
<1>2. val' = [val EXCEPT ![c] = NewCall(g)] /\ val'[c] = NewCall(g)
  BY DEF CallWebhook, Inv, CallInv
<1>3. CallShape(g, NewCall(g)) /\ Knows(g, NewCall(g))
  BY <1>1, PutFacts, KnowsNew
<1>4. CallTypeOK(NewCall(g))
  <2>1. seen.ca \in CAs
    BY <1>1 DEF Inv, AdmissionTypeOK, Configs
  <2> QED BY <2>1 DEF CallTypeOK, NewCall
<1> HIDE DEF g
<1>5. UNCHANGED <<managerVars, store, req, answer>>
  BY DEF CallWebhook
<1> QED BY <1>1, <1>2, <1>3, <1>4, <1>5, CallGoesOn DEF g

\* A running call is one of the invariant's.
LEMMA RunningFacts ==
  ASSUME Inv, NEW c \in Clients, Running(c)
  PROVE  /\ req[c] \in PutRequests /\ req[c] # Idle /\ seen # None
         /\ CallTypeOK(val[c])
         /\ CallShape(req[c].graph, val[c])
         /\ Knows(req[c].graph, val[c])
BY DEF Inv, AdmissionTypeOK, CallInv, Running

LEMMA NextNodeStep ==
  ASSUME Inv, NEW c \in Clients, NextNode(c)
  PROVE  Inv'
<1> DEFINE g == req[c].graph
           v == val[c]
           w == val'[c]
<1>0. Running(c) /\ AtEnd(g, v)
  BY DEF NextNode
<1>1. /\ req[c] \in PutRequests /\ seen # None
      /\ CallTypeOK(v) /\ CallShape(g, v) /\ Knows(g, v)
  BY <1>0, RunningFacts
<1>2. PICK n \in v.left :
        val' = [val EXCEPT ![c].left = val[c].left \ {n}, ![c].cur = n, ![c].idx = 1]
  BY DEF NextNode
<1>3. /\ w.left = v.left \ {n} /\ w.cur = n /\ w.idx = 1 /\ w.names = v.names
      /\ w.errs = v.errs /\ w.ca = v.ca /\ DOMAIN w = DOMAIN v
  BY <1>1, <1>2 DEF Inv, CallInv, CallTypeOK
<1>4. val' = [val EXCEPT ![c] = val'[c]]
  BY <1>2 DEF Inv, CallInv
<1> HIDE DEF g, v, w
<1>5. CallShape(g, w) /\ Knows(g, w)
  BY <1>0, <1>1, <1>3, PutFacts, KnowsNode DEF g
<1>6. CallTypeOK(w)
  BY <1>1, <1>3 DEF CallTypeOK
<1>7. UNCHANGED <<managerVars, store, req, answer>>
  BY DEF NextNode
<1> QED BY <1>1, <1>4, <1>5, <1>6, <1>7, CallGoesOn DEF g, v, w

\* The fields of a call after a step.
LEMMA CheckedFields ==
  ASSUME NEW g, NEW v, CallTypeOK(v), NEW s, s = g[v.cur][v.idx]
  PROVE  /\ CheckedStep(g, v).left = v.left
         /\ CheckedStep(g, v).cur = v.cur
         /\ CheckedStep(g, v).idx = v.idx + 1
         /\ CheckedStep(g, v).names = serviceNames(s, v.names)
         /\ CheckedStep(g, v).errs
              = v.errs \cup checkStepName(s) \cup checkNodeName(g, s)
                       \cup checkServiceName(s, v.names)
         /\ CheckedStep(g, v).ca = v.ca
         /\ DOMAIN CheckedStep(g, v) = DOMAIN v
<1> DEFINE e == v.errs \cup checkStepName(s) \cup checkNodeName(g, s)
                       \cup checkServiceName(s, v.names)
           n == serviceNames(s, v.names)
<1>1. CheckedStep(g, v) = [v EXCEPT !.idx = v.idx + 1, !.errs = e, !.names = n]
  BY DEF CheckedStep
<1> HIDE DEF e, n
<1>2. /\ CheckedStep(g, v).left = v.left
      /\ CheckedStep(g, v).cur = v.cur
      /\ CheckedStep(g, v).idx = v.idx + 1
      /\ CheckedStep(g, v).names = n
      /\ CheckedStep(g, v).errs = e
      /\ CheckedStep(g, v).ca = v.ca
      /\ DOMAIN CheckedStep(g, v) = DOMAIN v
  BY <1>1 DEF CallTypeOK
<1> QED BY <1>2 DEF e, n

LEMMA NextStepStep ==
  ASSUME Inv, NEW c \in Clients, NextStep(c)
  PROVE  Inv'
<1> DEFINE g == req[c].graph
           v == val[c]
           w == val'[c]
           s == g[v.cur][v.idx]
<1>0. Running(c) /\ ~ AtEnd(g, v)
  BY DEF NextStep
<1>1. /\ req[c] \in PutRequests /\ seen # None
      /\ CallTypeOK(v) /\ CallShape(g, v) /\ Knows(g, v)
  BY <1>0, RunningFacts
<1>2. val' = [val EXCEPT ![c] = CheckedStep(g, v)] /\ w = CheckedStep(g, v)
  BY DEF NextStep, Inv, CallInv
<1>3. /\ w.left = v.left /\ w.cur = v.cur /\ w.idx = v.idx + 1
      /\ w.names = serviceNames(s, v.names)
      /\ w.errs = v.errs \cup checkStepName(s) \cup checkNodeName(g, s)
                         \cup checkServiceName(s, v.names)
      /\ w.ca = v.ca /\ DOMAIN w = DOMAIN v
  BY <1>1, <1>2, CheckedFields
<1>4. val' = [val EXCEPT ![c] = val'[c]]
  BY <1>2
<1> HIDE DEF g, v, w
<1>5. CallShape(g, w) /\ Knows(g, w)
  BY <1>0, <1>1, <1>3, PutFacts, KnowsStep DEF g
<1>6. CallTypeOK(w)
  BY <1>1, <1>3
  DEF CallTypeOK, checkStepName, checkNodeName, checkServiceName, ErrorKinds
<1>7. UNCHANGED <<managerVars, store, req, answer>>
  BY DEF NextStep
<1> QED BY <1>1, <1>4, <1>5, <1>6, <1>7, CallGoesOn DEF g, v, w

LEMMA NextInv ==
  ASSUME Inv, [Next]_vars
  PROVE  Inv'
<1>1. CASE \/ \E p \in Pods : Manager(p) \/ Exit(p) \/ Retire(p)
           \/ Rollout
           \/ WatchConfiguration
  BY <1>1, ManagerStep, CallsKept DEF Inv, AdmissionTypeOK, ManagerTypes, ClientTypes
<1>2. CASE \E c \in Clients : Serve(c)
  <2>1. PICK c \in Clients : Serve(c)
    BY <1>2
  <2>2. CASE Unvalidated(c)
    BY <2>2, StoreStep DEF Unvalidated
  <2>3. CASE CallWebhook(c)
    BY <2>3, CallWebhookStep
  <2>4. CASE Unavailable(c)
    BY <2>4, RespondStep DEF Unavailable, Inv, AdmissionTypeOK
  <2>5. CASE NextNode(c)
    BY <2>5, NextNodeStep
  <2>6. CASE NextStep(c)
    BY <2>6, NextStepStep
  <2>7. CASE Validated(c)
    <3>1. req[c] # Idle
      BY <2>7, RunningFacts DEF Validated
    <3>2. CASE Store(c)
      BY <3>1, <3>2, StoreStep
    <3>3. CASE Respond(c, "invalid") /\ store' = store
      BY <3>3, RespondStep DEF Inv, AdmissionTypeOK
    <3> QED BY <2>7, <3>2, <3>3 DEF Validated
  <2> QED BY <2>1, <2>2, <2>3, <2>4, <2>5, <2>6, <2>7 DEF Serve
<1>3. CASE \E c \in Clients : \E q \in Requests : Send(c, q)
  BY <1>3, SendStep
<1>4. CASE UNCHANGED vars
  BY <1>4, CallsKept
  DEF vars, managerVars, Inv, AdmissionTypeOK, SeenInv, ClientTypes
<1> QED BY <1>1, <1>2, <1>3, <1>4 DEF Next

\* The state of the managers, the configuration, the requests and the webhook
\* calls stays well typed (cmd/main.go, webhook_config.go, validateNames).
THEOREM AdmissionTypeCorrect == Spec => []AdmissionTypeOK
<1>1. Inv => AdmissionTypeOK
  BY DEF Inv
<1> QED BY <1>1, InitInv, NextInv, PTL DEF Spec

------------------------------------------------------------------------------
(* The refinement: every step is a step of ValidatedStore or changes       *)
(* nothing that it shows.                                                  *)

LEMMA InitAbstract == Init => Abstract!SInit
BY DEF Init, Abstract!SInit

\* An answer by the store or by the webhook is an answer of ValidatedStore.
LEMMA DoneAbstract ==
  ASSUME NEW c \in Clients, NEW a, req[c] # Idle, Respond(c, a)
  PROVE  Abstract!Done(c, a)
BY DEF Respond, Abstract!Done, managerVars

LEMMA UnvalidatedAbstract ==
  ASSUME Inv, NEW c \in Clients, Unvalidated(c)
  PROVE  Abstract!Put(c) \/ Abstract!Delete(c)
<1>1. /\ req[c] # Idle /\ Respond(c, "ok")
      /\ store' = [store EXCEPT ![req[c].obj] = req[c].graph]
      /\ req[c].op = "delete" \/ seen = None
  BY DEF Unvalidated, Store
<1>2. Abstract!Done(c, "ok")
  BY <1>1, DoneAbstract
<1>3. CASE req[c].op = "delete"
  <2>1. req[c].graph = NoGraph
    BY <1>1, <1>3, ClientFacts DEF DeleteRequests
  <2> QED BY <1>1, <1>2, <1>3, <2>1 DEF Abstract!Delete
<1>4. CASE req[c].op = "put"
  <2>1. seen = None
    BY <1>1, <1>4
  <2> QED BY <1>1, <1>2, <1>4, <2>1 DEF Abstract!Put
<1> QED BY <1>1, <1>3, <1>4, ClientFacts

LEMMA UnavailableAbstract ==
  ASSUME NEW c \in Clients, Unavailable(c)
  PROVE  Abstract!Refuse(c)
BY DoneAbstract DEF Unavailable, Abstract!Refuse

\* The webhook lets a graph through if and only if it is valid.
LEMMA ValidatedAbstract ==
  ASSUME Inv, NEW c \in Clients, Validated(c)
  PROVE  Abstract!Put(c) \/ Abstract!Reject(c)
<1> DEFINE g == req[c].graph
<1>1. /\ req[c] \in PutRequests /\ req[c] # Idle /\ seen # None
      /\ CallTypeOK(val[c]) /\ CallShape(g, val[c]) /\ Knows(g, val[c])
  BY RunningFacts DEF Validated
<1>2. req[c].op = "put" /\ g \in Graphs
  BY <1>1, PutFacts
<1>3. checkfields(g, val[c]) = {} <=> ValidGraph(g)
  BY <1>1, PutFacts, KnowsEnd DEF Validated, CallTypeOK
<1>4. CASE checkfields(g, val[c]) = {} /\ Store(c)
  <2>1. Abstract!Done(c, "ok")
    BY <1>1, <1>4, DoneAbstract DEF Store
  <2>2. g \in ValidGraphs
    BY <1>2, <1>3, <1>4 DEF ValidGraphs
  <2> QED BY <1>2, <1>4, <2>1, <2>2 DEF Store, Abstract!Put
<1>5. CASE checkfields(g, val[c]) # {} /\ Respond(c, "invalid") /\ store' = store
  <2>1. Abstract!Done(c, "invalid")
    BY <1>1, <1>5, DoneAbstract
  <2>2. g \notin ValidGraphs
    BY <1>3, <1>5 DEF ValidGraphs
  <2> QED BY <1>1, <1>2, <1>5, <2>1, <2>2 DEF Abstract!Reject
<1> QED BY <1>4, <1>5 DEF Validated

LEMMA NextAbstract ==
  ASSUME Inv, [Next]_vars
  PROVE  [Abstract!SNext]_(Abstract!svars)
<1>1. CASE \/ \E p \in Pods : Manager(p) \/ Exit(p) \/ Retire(p)
           \/ Rollout
           \/ WatchConfiguration
  <2>1. UNCHANGED <<store, req, answer>> /\ (seen # None => seen' # None)
    BY <1>1, ManagerStep DEF clientVars
  <2>2. CASE seen = None /\ seen' # None
    BY <2>1, <2>2 DEF Abstract!SNext, Abstract!Guard
  <2>3. CASE ~ (seen = None /\ seen' # None)
    BY <2>1, <2>3 DEF Abstract!svars
  <2> QED BY <2>2, <2>3
<1>2. CASE \E c \in Clients : Serve(c)
  <2>1. PICK c \in Clients : Serve(c)
    BY <1>2
  <2>2. CASE Unvalidated(c)
    BY <2>2, UnvalidatedAbstract DEF Abstract!SNext
  <2>3. CASE CallWebhook(c) \/ NextNode(c) \/ NextStep(c)
    BY <2>3 DEF CallWebhook, NextNode, NextStep, managerVars, Abstract!svars
  <2>4. CASE Unavailable(c)
    BY <2>4, UnavailableAbstract DEF Abstract!SNext
  <2>5. CASE Validated(c)
    BY <2>5, ValidatedAbstract DEF Abstract!SNext
  <2> QED BY <2>1, <2>2, <2>3, <2>4, <2>5 DEF Serve
<1>3. CASE \E c \in Clients : \E q \in Requests : Send(c, q)
  <2>1. PICK c \in Clients, q \in Requests : Send(c, q)
    BY <1>3
  <2>2. Abstract!Ask(c, q)
    BY <2>1 DEF Send, Abstract!Ask, managerVars
  <2>3. q \in Abstract!Requests
    BY <2>1 DEF Requests, PutRequests, DeleteRequests, Abstract!Requests,
             Abstract!PutRequests, Abstract!DeleteRequests
  <2> QED BY <2>2, <2>3 DEF Abstract!SNext
<1>4. CASE UNCHANGED vars
  BY <1>4 DEF vars, managerVars, clientVars, Abstract!svars
<1> QED BY <1>1, <1>2, <1>3, <1>4 DEF Next

\* Admission implements ValidatedStore: however managers start, register and
\* exit and in whatever order a webhook call meets the nodes, a guarded store
\* takes valid graphs only, calls no valid graph invalid and refuses no
\* deletion (validateGMConnector, CreateOrUpdateValidatingWebhookConfiguration).
THEOREM StoreIsValidatedCorrect == Spec => StoreIsValidated
<1>1. Spec => []Inv
  BY InitInv, NextInv, PTL DEF Spec
<1>2. Inv /\ [Next]_vars => [Abstract!SNext]_(Abstract!svars)
  BY NextAbstract
<1> QED BY <1>1, <1>2, InitAbstract, PTL DEF Spec, StoreIsValidated, Abstract!SSpec
=============================================================================
