------------------------------ MODULE Admission ------------------------------
(***************************************************************************)
(* The way of a GMConnector into the cluster: the start-up of the manager  *)
(* (cmd/main.go), which makes a CA of its own and registers the validating *)
(* webhook with it (webhook_config.go, cert.go); the rollouts, crashes and *)
(* restarts of the manager's pods; and the webhook itself, which checks    *)
(* the nodes and steps of a graph one after the other                      *)
(* (api/v1alpha3/validating_webhook.go).                                   *)
(***************************************************************************)
EXTENDS GraphValidation, Integers, FiniteSets

CONSTANTS
    Clients, Objects, NoGraph, Idle,   \* as in ValidatedStore
    Graphs,       \* each a function from its node names to sequences of steps
    MaxPods,      \* the pods the manager's Deployment ever makes
    MaxCrashes    \* the exits of a manager that no conflict explains

\* No node has the empty name, and a node's steps are a list.
ASSUME GraphAssumption ==
    \A g \in Graphs : /\ None \notin DOMAIN g
                      /\ \A n \in DOMAIN g : Len(g[n]) \in Nat

ASSUME BoundAssumption == MaxPods \in Nat \ {0} /\ MaxCrashes \in Nat

Pods == 1 .. MaxPods
CAs == Pods \X Nat   \* one per start of a manager, the second of a pod is <<p, 2>>

ASSUME StoreAssumption ==
    /\ Idle \notin [op : {"put"}, obj : Objects, graph : Graphs]
                        \cup [op : {"delete"}, obj : Objects, graph : {NoGraph}]
    /\ None \notin [ca : CAs, rv : Nat]

VARIABLES
    pod,      \* Pods -> absent | down | started | found | serving | gone
    newest,   \* the pod of the Deployment's present revision
    ca,       \* Pods -> the CA of the pod's running manager
    found,    \* Pods -> the configuration its Get returned, or None
    config,   \* the ValidatingWebhookConfiguration [ca, rv], or None
    seen,     \* the API server's own copy of it
    crashes,  \* exits so far that no conflict explains
    store, req, answer,                  \* as in ValidatedStore
    val       \* Clients -> the webhook call that validates the request, or None

managerVars == <<pod, newest, ca, found, config, seen, crashes>>
clientVars == <<store, req, answer, val>>
vars == <<managerVars, clientVars>>

Configs == [ca : CAs, rv : Nat]
ErrorKinds == {"name", "node", "svc", "root"}

ValidGraphs == {g \in Graphs : ValidGraph(g)}

PutRequests == [op : {"put"}, obj : Objects, graph : Graphs]
DeleteRequests == [op : {"delete"}, obj : Objects, graph : {NoGraph}]
Requests == PutRequests \cup DeleteRequests

------------------------------------------------------------------------------
Init ==
    /\ pod = [p \in Pods |-> IF p = 1 THEN "down" ELSE "absent"]
    /\ newest = 1
    /\ ca = [p \in Pods |-> <<p, 0>>]
    /\ found = [p \in Pods |-> None]
    /\ config = None
    /\ seen = None
    /\ crashes = 0
    /\ store = [o \in Objects |-> NoGraph]
    /\ req = [c \in Clients |-> Idle]
    /\ answer = [c \in Clients |-> "none"]
    /\ val = [c \in Clients |-> None]

(***************************************************************************)
(* The manager.  Its container starts, and starts again after every exit.  *)
(***************************************************************************)
\* A CA and a certificate signed by it are made anew at every start.
GenerateX509Cert(p) ==
    /\ pod[p] = "down"
    /\ pod' = [pod EXCEPT ![p] = "started"]
    /\ ca' = [ca EXCEPT ![p] = <<p, ca[p][2] + 1>>]
    /\ UNCHANGED <<newest, found, config, seen, crashes, clientVars>>

\* CreateOrUpdateValidatingWebhookConfiguration reads the configuration ...
GetConfiguration(p) ==
    /\ pod[p] = "started"
    /\ pod' = [pod EXCEPT ![p] = "found"]
    /\ found' = [found EXCEPT ![p] = config]
    /\ UNCHANGED <<newest, ca, config, seen, crashes, clientVars>>

\* Mutant: a configuration that exists is taken for one's own.
NeedsWrite_Exists(p) == found[p] = None

\* ... and registers its own where there is none or the one found differs:
\* the rest of it is constant, so the CA bundle decides.
NeedsWrite(p) == found[p] = None \/ found[p].ca # ca[p]

\* Create fails when somebody else has created it, Update when the
\* resourceVersion is not the one that was read.
WriteAccepted(p) ==
    IF found[p] = None THEN config = None
                       ELSE config # None /\ config.rv = found[p].rv

\* ... after which main sets up the webhook server and the manager and serves.
CreateOrUpdateConfiguration(p) ==
    /\ pod[p] = "found"
    /\ IF ~ NeedsWrite(p)
       THEN /\ pod' = [pod EXCEPT ![p] = "serving"]
            /\ UNCHANGED config
       ELSE IF WriteAccepted(p)
       THEN /\ pod' = [pod EXCEPT ![p] = "serving"]
            /\ config' = [ca |-> ca[p],
                          rv |-> IF config = None THEN 1 ELSE config.rv + 1]
       ELSE /\ pod' = [pod EXCEPT ![p] = "down"]   \* os.Exit(1)
            /\ UNCHANGED config
    /\ found' = [found EXCEPT ![p] = None]
    /\ UNCHANGED <<newest, ca, seen, crashes, clientVars>>

\* main exits: an error of any of its steps, or the death of the process.
Exit(p) ==
    /\ pod[p] \in {"started", "found", "serving"}
    /\ crashes < MaxCrashes
    /\ crashes' = crashes + 1
    /\ pod' = [pod EXCEPT ![p] = "down"]
    /\ found' = [found EXCEPT ![p] = None]
    /\ UNCHANGED <<newest, ca, config, seen, clientVars>>

(***************************************************************************)
(* The cluster around it: the manager's Deployment (one replica, rolled    *)
(* out by a new pod that replaces the old ones once it is ready) and the   *)
(* API server's watch of the webhook configuration.                        *)
(***************************************************************************)
Rollout ==
    /\ newest < MaxPods
    /\ newest' = newest + 1
    /\ pod' = [pod EXCEPT ![newest + 1] = "down"]
    /\ UNCHANGED <<ca, found, config, seen, crashes, clientVars>>

Retire(p) ==
    /\ p < newest
    /\ pod[newest] = "serving"
    /\ pod[p] # "gone"
    /\ pod' = [pod EXCEPT ![p] = "gone"]
    /\ found' = [found EXCEPT ![p] = None]
    /\ UNCHANGED <<newest, ca, config, seen, crashes, clientVars>>

WatchConfiguration ==
    /\ seen # config
    /\ seen' = config
    /\ UNCHANGED <<pod, newest, ca, found, config, crashes, clientVars>>

------------------------------------------------------------------------------
(***************************************************************************)
(* Requests for GMConnectors, as the API server treats them.               *)
(***************************************************************************)
Send(c, q) ==
    /\ req[c] = Idle
    /\ req' = [req EXCEPT ![c] = q]
    /\ answer' = [answer EXCEPT ![c] = "none"]
    /\ UNCHANGED <<managerVars, store, val>>

Respond(c, a) ==
    /\ req' = [req EXCEPT ![c] = Idle]
    /\ answer' = [answer EXCEPT ![c] = a]
    /\ val' = [val EXCEPT ![c] = None]
    /\ UNCHANGED managerVars

Store(c) ==
    /\ Respond(c, "ok")
    /\ store' = [store EXCEPT ![req[c].obj] = req[c].graph]

\* The rules of the configuration name Create and Update and no Delete; before
\* the API server has the configuration nothing is validated.
Unvalidated(c) ==
    /\ req[c] # Idle
    /\ val[c] = None
    /\ req[c].op = "delete" \/ seen = None
    /\ Store(c)

\* The manager that made the CA k runs and serves.
Serves(k) == \E p \in Pods : pod[p] = "serving" /\ ca[p] = k

NewCall(g) == [ca |-> seen.ca, left |-> DOMAIN g, cur |-> None, idx |-> 1,
               names |-> {}, errs |-> {}]

\* A manager that serves with a certificate of the CA in the configuration is
\* asked: ValidateCreate and ValidateUpdate both go to validateGMConnector.
CallWebhook(c) ==
    /\ req[c] # Idle
    /\ val[c] = None
    /\ req[c].op = "put"
    /\ seen # None
    /\ Serves(seen.ca)
    /\ val' = [val EXCEPT ![c] = NewCall(req[c].graph)]
    /\ UNCHANGED <<managerVars, store, req, answer>>

\* Mutant: a call that breaks off is waited for.
Unavailable_Wait(c) ==
    /\ req[c] # Idle
    /\ req[c].op = "put"
    /\ seen # None
    /\ val[c] = None
    /\ \/ \A p \in Pods : pod[p] # "serving"
       \/ \E p \in Pods : pod[p] = "serving" /\ ca[p] # seen.ca
    /\ Respond(c, "unavailable")
    /\ store' = store

\* No manager is ready, the one that is has another CA's certificate, or the
\* call times out or breaks off: failurePolicy Fail refuses the request.
Unavailable(c) ==
    /\ req[c] # Idle
    /\ req[c].op = "put"
    /\ seen # None
    /\ \/ val[c] # None
       \/ \A p \in Pods : pod[p] # "serving"
       \/ \E p \in Pods : pod[p] = "serving" /\ ca[p] # seen.ca
    /\ Respond(c, "unavailable")
    /\ store' = store

(***************************************************************************)
(* validateNames: the nodes in the order of the map, which is any, and the *)
(* steps of each in theirs.                                                *)
(***************************************************************************)
AtEnd(g, v) == v.cur # None => v.idx > Len(g[v.cur])

Running(c) == val[c] # None /\ Serves(val[c].ca)

\* Mutant: serviceNames begins anew with every node.
NextNode_PerNode(c) ==
    /\ Running(c)
    /\ AtEnd(req[c].graph, val[c])
    /\ \E n \in val[c].left :
        val' = [val EXCEPT ![c].left = val[c].left \ {n}, ![c].names = {},
                           ![c].cur = n, ![c].idx = 1]
    /\ UNCHANGED <<managerVars, store, req, answer>>

\* Mutant: the steps are counted from 0.
NextNode_Zero(c) ==
    /\ Running(c)
    /\ AtEnd(req[c].graph, val[c])
    /\ \E n \in val[c].left :
        val' = [val EXCEPT ![c].left = val[c].left \ {n},
                           ![c].cur = n, ![c].idx = 0]
    /\ UNCHANGED <<managerVars, store, req, answer>>

NextNode(c) ==
    /\ Running(c)
    /\ AtEnd(req[c].graph, val[c])
    /\ \E n \in val[c].left :
        val' = [val EXCEPT ![c].left = val[c].left \ {n},
                           ![c].cur = n, ![c].idx = 1]
    /\ UNCHANGED <<managerVars, store, req, answer>>

CheckedStep(g, v) ==
    LET s == g[v.cur][v.idx] IN
    [v EXCEPT !.idx = v.idx + 1,
              !.errs = v.errs \cup checkStepName(s) \cup checkNodeName(g, s)
                              \cup checkServiceName(s, v.names),
              !.names = serviceNames(s, v.names)]

NextStep(c) ==
    /\ Running(c)
    /\ ~ AtEnd(req[c].graph, val[c])
    /\ val' = [val EXCEPT ![c] = CheckedStep(req[c].graph, val[c])]
    /\ UNCHANGED <<managerVars, store, req, answer>>

\* checkfields: the errors of validateNames and of validateRootExistance.
checkfields(g, v) == v.errs \cup validateRootExistance(g)

\* validateGMConnector's answer, and what the API server makes of it.
Validated(c) ==
    /\ Running(c)
    /\ AtEnd(req[c].graph, val[c])
    /\ val[c].left = {}
    /\ \/ /\ checkfields(req[c].graph, val[c]) = {}
          /\ Store(c)
       \/ /\ checkfields(req[c].graph, val[c]) # {}
          /\ Respond(c, "invalid")
          /\ store' = store

------------------------------------------------------------------------------
Manager(p) ==
    GenerateX509Cert(p) \/ GetConfiguration(p) \/ CreateOrUpdateConfiguration(p)

Serve(c) ==
    Unvalidated(c) \/ CallWebhook(c) \/ Unavailable(c)
        \/ NextNode(c) \/ NextStep(c) \/ Validated(c)

Next ==
    \/ \E p \in Pods : Manager(p) \/ Exit(p) \/ Retire(p)
    \/ Rollout
    \/ WatchConfiguration
    \/ \E c \in Clients : Serve(c) \/ \E q \in Requests : Send(c, q)

(***************************************************************************)
(* The kubelet restarts a container that exits and main runs on; the       *)
(* Deployment controller retires the pods of old revisions; the API server *)
(* follows its watch and answers every request.  Nobody has to send one.   *)
(***************************************************************************)
Fairness ==
    /\ \A p \in Pods : WF_vars(Manager(p)) /\ WF_vars(Retire(p))
    /\ WF_vars(WatchConfiguration)
    /\ \A c \in Clients : WF_vars(Serve(c))

Spec == Init /\ [][Next]_vars /\ Fairness

------------------------------------------------------------------------------
CallTypeOK(v) ==
    /\ DOMAIN v = {"ca", "left", "cur", "idx", "names", "errs"}
    /\ v.ca \in CAs /\ v.idx \in Nat \ {0} /\ v.errs \subseteq ErrorKinds

\* The variables keep their types: the manager's pods, the configuration and
\* its copies, the requests and the webhook calls that validate them.
AdmissionTypeOK ==
    /\ pod \in [Pods -> {"absent", "down", "started", "found", "serving", "gone"}]
    /\ newest \in Pods
    /\ ca \in [Pods -> CAs]
    /\ found \in [Pods -> Configs \cup {None}]
    /\ config \in Configs \cup {None}
    /\ seen \in Configs \cup {None}
    /\ crashes \in 0 .. MaxCrashes
    /\ store \in [Objects -> Graphs \cup {NoGraph}]
    /\ req \in [Clients -> Requests \cup {Idle}]
    /\ answer \in [Clients -> {"none", "ok", "invalid", "unavailable"}]
    /\ \A c \in Clients : val[c] # None => req[c] # Idle /\ CallTypeOK(val[c])

\* The refinement: the pods, the configurations and the calls of the webhook are
\* the means, the store that ValidatedStore describes is what they bring about.
Abstract == INSTANCE ValidatedStore WITH guarded <- (seen # None)

\* Whatever the managers, the API server and the network do, admission is the
\* guarded store: after the configuration is seen an invalid graph is never
\* stored, a valid one is never called invalid, a deletion is never refused
\* (validateNames, checkfields, the rules and failurePolicy of the webhook).
StoreIsValidated == Abstract!SSpec

\* The configuration carries a CA of a pod that is gone.
Orphaned == seen # None /\ pod[seen.ca[1]] = "gone"

\* Once rollouts and crashes have ended, the API server trusts the serving
\* manager for good: every start registers its own CA and a conflicting start
\* is repeated.  The exception is a manager of the old revision that restarted
\* during the rollout, registered last and was then taken down
\* (CreateOrUpdateValidatingWebhookConfiguration).
TrustedUnlessOrphaned ==
    \/ <>[](pod[newest] = "serving" /\ seen # None /\ seen.ca = ca[newest])
    \/ <>[]Orphaned

\* Every request is answered: validateNames' loops end, a call that is cut off
\* by the exit of a manager is refused and none waits for a manager to come.
RequestsAnswered == \A c \in Clients : req[c] # Idle ~> req[c] = Idle
=============================================================================
