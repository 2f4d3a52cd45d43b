--------------------------- MODULE GraphValidation ---------------------------
(***************************************************************************)
(* The checks of the validating webhook on a graph                         *)
(* (api/v1alpha3/validating_webhook.go), and what they are for.            *)
(*                                                                         *)
(* A graph is a function from its node names to sequences of steps; a step *)
(* is a record with at least the fields name (stepName), node (nodeName)   *)
(* and svc (the internal service's name).                                  *)
(***************************************************************************)
EXTENDS Naturals, Sequences

CONSTANTS
    stepNames,    \* the step names the webhook knows
    Root,         \* the node name "root"
    None          \* an empty string; no value

(***************************************************************************)
(* The webhook's checks of one step.                                       *)
(***************************************************************************)
\* An empty name and an unknown one are both errors.
checkStepName(s) == IF s.name \in stepNames THEN {} ELSE {"name"}

nodeNameExists(g, s) == s.node = None \/ s.node \in DOMAIN g

checkNodeName(g, s) == IF nodeNameExists(g, s) THEN {} ELSE {"node"}

checkServiceName(s, names) ==
    IF s.svc # None /\ s.svc \in names THEN {"svc"} ELSE {}

\* serviceNames takes the step's name, the empty one too, unless it is an error.
serviceNames(s, names) ==
    IF checkServiceName(s, names) = {} THEN names \cup {s.svc} ELSE names

validateRootExistance(g) == IF Root \in DOMAIN g THEN {} ELSE {"root"}

(***************************************************************************)
(* What the checks are for: a graph is valid when its root is there, every *)
(* step has a name the controller knows and leads to a node of the graph,  *)
(* and no two steps, of whatever nodes, name the same service.             *)
(***************************************************************************)
Positions(g) == UNION {{<<n, i>> : i \in 1 .. Len(g[n])} : n \in DOMAIN g}

StepAt(g, p) == g[p[1]][p[2]]

BadName(g, P) == \E p \in P : StepAt(g, p).name \notin stepNames

BadNode(g, P) == \E p \in P : StepAt(g, p).node \notin DOMAIN g \cup {None}

SameService(g, P) ==
    \E p, q \in P : /\ p # q
                    /\ StepAt(g, p).svc = StepAt(g, q).svc
                    /\ StepAt(g, p).svc # None

ValidGraph(g) ==
    /\ Root \in DOMAIN g
    /\ ~ BadName(g, Positions(g))
    /\ ~ BadNode(g, Positions(g))
    /\ ~ SameService(g, Positions(g))
=============================================================================
