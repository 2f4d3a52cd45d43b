--------------------------- MODULE ValidatedStore ---------------------------
(***************************************************************************)
(* What admission promises a user of GMConnectors: a store of graphs that, *)
(* once the validating webhook is registered, takes no graph that is not   *)
(* valid, refuses as invalid no graph that is, and never refuses a         *)
(* deletion.  Until the registration the store takes everything, and a     *)
(* guarded store may refuse any write as unavailable (failurePolicy Fail). *)
(***************************************************************************)
CONSTANTS
    Clients,       \* those who send requests, each one request at a time
    Objects,       \* names of GMConnectors
    Graphs,        \* the specs a client may send
    ValidGraphs,   \* those among them that are valid
    NoGraph,       \* what the store holds for an object that does not exist
    Idle           \* the request of a client that waits for no answer

VARIABLES
    guarded,       \* the API server has seen the webhook configuration
    store,         \* Objects -> Graphs or NoGraph
    req,           \* Clients -> the request under way or Idle
    answer         \* Clients -> the last answer

svars == <<guarded, store, req, answer>>

PutRequests == [op : {"put"}, obj : Objects, graph : Graphs]
DeleteRequests == [op : {"delete"}, obj : Objects, graph : {NoGraph}]
Requests == PutRequests \cup DeleteRequests

Answers == {"none", "ok", "invalid", "unavailable"}

SInit ==
    /\ guarded = FALSE
    /\ store = [o \in Objects |-> NoGraph]
    /\ req = [c \in Clients |-> Idle]
    /\ answer = [c \in Clients |-> "none"]

Ask(c, q) ==
    /\ req[c] = Idle
    /\ req' = [req EXCEPT ![c] = q]
    /\ answer' = [answer EXCEPT ![c] = "none"]
    /\ UNCHANGED <<guarded, store>>

Done(c, a) ==
    /\ req[c] # Idle
    /\ req' = [req EXCEPT ![c] = Idle]
    /\ answer' = [answer EXCEPT ![c] = a]
    /\ guarded' = guarded

\* A graph is stored: a valid one, or any before the webhook is registered.
Put(c) ==
    /\ Done(c, "ok")
    /\ req[c].op = "put"
    /\ guarded => req[c].graph \in ValidGraphs
    /\ store' = [store EXCEPT ![req[c].obj] = req[c].graph]

Delete(c) ==
    /\ Done(c, "ok")
    /\ req[c].op = "delete"
    /\ store' = [store EXCEPT ![req[c].obj] = NoGraph]

\* The webhook finds the graph invalid.
Reject(c) ==
    /\ Done(c, "invalid")
    /\ req[c].op = "put"
    /\ guarded
    /\ req[c].graph \notin ValidGraphs
    /\ store' = store

\* The webhook could not be asked.
Refuse(c) ==
    /\ Done(c, "unavailable")
    /\ req[c].op = "put"
    /\ guarded
    /\ store' = store

Guard ==
    /\ guarded' = TRUE
    /\ UNCHANGED <<store, req, answer>>

SNext ==
    \/ Guard
    \/ \E c \in Clients :
        \/ \E q \in Requests : Ask(c, q)
        \/ Put(c)
        \/ Delete(c)
        \/ Reject(c)
        \/ Refuse(c)

SSpec == SInit /\ [][SNext]_svars
=============================================================================
