------------------------------ MODULE GMCRouter ------------------------------
(***************************************************************************)
(* The router service (cmd/router/main.go): mcGraphHandler runs the graph  *)
(* of a GMConnector on a request.  A node of the graph is a Sequence, a    *)
(* Switch or an Ensemble of steps; a step calls a service or is another    *)
(* node.  Every execution of a step is known by its path: the request, the *)
(* step's place in the root node, its place in the nested node, ...        *)
(*                                                                         *)
(* One behaviour is one life of the router process.  A panic outside the   *)
(* handler's own goroutine ends it: requests in progress are cut off.      *)
(***************************************************************************)
EXTENDS Naturals, Sequences, FiniteSets, FiniteSetsExt

CONSTANTS
  Requests,      \* requests of the clients
  Nodes,         \* the keys of Spec.Nodes
  Root,          \* defaultNodeName
  RouterType,    \* of a node: "Sequence", "Switch" or "Ensemble"
  StepsOf,       \* of a node: its steps
  NoNode,        \* the empty NodeName: the step is a service
  NodeNames,     \* what steps have as NodeName, defined or not
  StepNames,
  Conditions,
  Always,        \* the empty Condition
  Inputs,        \* bodies of requests
  Answers,       \* what a service may answer
  MaxGoroutines, \* capacity of the semaphore
  MaxChunks,     \* reads mcGraphHandler needs for a response body
  MayTimeOut     \* TRUE: a request may take over a minute, its client may leave

(***************************************************************************)
(* The bytes of a request or of a response: whether they are a JSON object,*)
(* null, other JSON or no JSON, the conditions that hold of them, and the  *)
(* services whose responses they were made of.                             *)
(***************************************************************************)
Kinds == {"object", "null", "json", "text"}

\* json.Unmarshal into a map accepts an object, and null, which leaves it nil.
IsMap(bytes) == bytes.kind \in {"object", "null"}

Path == Seq(Requests \cup Nat)

Bytes == [kind : Kinds, has : SUBSET Conditions, of : SUBSET Path]

\* A nil slice: gjson and encoding/json refuse it.
Nothing == [kind |-> "text", has |-> {}, of |-> {}]

\* params: what the request has under "parameters": nothing, an empty object, an
\* object with fields, or something else.
InputType == [kind : Kinds, has : SUBSET Conditions,
              params : {"none", "empty", "object", "other"}]

\* refused: no answer within callClient's 30 seconds, or none at all.  cut: the
\* body ends with an error.
AnswerType == [refused : BOOLEAN, status : Nat, kind : Kinds,
               has : SUBSET Conditions, cut : BOOLEAN]

StepType == [name : StepNames, nodeName : NodeNames \cup {NoNode}, hard : BOOLEAN,
             response : BOOLEAN, downstream : BOOLEAN,
             condition : Conditions \cup {Always}]

\* An io.ReadCloser.  mem: NewReadCloser, which can be read after Close.
Body == [state : {"nil", "open", "cut", "closed"}, mem : BOOLEAN, bytes : Bytes]

NilBody == [state |-> "nil", mem |-> FALSE, bytes |-> Nothing]

ASSUME GraphAssumption ==
  /\ Root \in Nodes
  /\ Nodes \subseteq NodeNames
  /\ NoNode \notin NodeNames
  /\ Always \notin Conditions
  /\ RouterType \in [Nodes -> {"Sequence", "Switch", "Ensemble"}]
  /\ StepsOf \in [Nodes -> Seq(StepType)]

ASSUME TrafficAssumption ==
  /\ Inputs \subseteq InputType
  /\ \A input \in Inputs : input.kind # "object" => input.params = "none"
  /\ Answers \subseteq AnswerType
  /\ MaxGoroutines \in Nat \ {0}
  /\ MaxChunks \in Nat \ {0}
  /\ MayTimeOut \in BOOLEAN

VARIABLES
  up,      \* the process runs
  init,    \* initInput of each request
  act,     \* executions of steps, by path
  handler, \* mcGraphHandler of each request
  header,  \* the status it has sent, 0: none yet
  parts,   \* what has been written after it
  sent     \* chunks of the response that have been written

clientVars == <<handler, header, parts, sent>>
vars == <<up, init, act, handler, header, parts, sent>>

Execution == [pc : {"call", "flight", "node", "wait", "collect", "returned",
                    "result", "error", "ended"},
              node : NodeNames \cup {NoNode}, i : Nat, input : Bytes,
              bytes : Bytes, body : Body, status : Nat, err : BOOLEAN]

\* executeStep: a nested node is routed to, a service is called.
executeStep(nodeName, input) ==
  [pc |-> IF nodeName = NoNode THEN "call" ELSE "node", node |-> nodeName, i |-> 1,
   input |-> input, bytes |-> Nothing, body |-> NilBody, status |-> 0, err |-> FALSE]

RouterInit ==
  /\ up = TRUE
  /\ init \in [Requests -> Inputs]
  /\ act = [p \in {} |-> NilBody]
  /\ handler = [q \in Requests |-> "idle"]
  /\ header = [q \in Requests |-> 0]
  /\ parts = [q \in Requests |-> <<>>]
  /\ sent = [q \in Requests |-> 0]

Parent(p) == SubSeq(p, 1, Len(p) - 1)

Running(p) == up /\ p \in DOMAIN act

TypeOf(p) == IF act[p].node \in Nodes THEN RouterType[act[p].node] ELSE "none"

NumSteps(p) == Len(StepsOf[act[p].node])

\* The step execution p is at, and its request.
step(p) == StepsOf[act[p].node][act[p].i]

initInput(p) == init[p[1]]

Child(p) == Append(p, act[p].i)

Is(p, pc) == Running(p) /\ act[p].pc = pc

isSuccessFul(status) == status \in 200..299

HardFailure(s, status) == s.hard /\ ~isSuccessFul(status)

Return(p, body, status, err) ==
  act' = [act EXCEPT ![p].pc = "returned", ![p].body = body,
                     ![p].status = status, ![p].err = err]

\* A panic: requests that are being served get no (further) answer.
Panic ==
  /\ up' = FALSE
  /\ handler' = [q \in Requests |-> IF handler[q] = "serving" THEN "reset"
                                    ELSE handler[q]]
  /\ UNCHANGED <<init, act, header, parts, sent>>
-----------------------------------------------------------------------------
(***************************************************************************)
(* callService.  Up to mcGraphHandler an action says how act changes;      *)
(* nothing else does (see Pipeline).                                       *)
(***************************************************************************)
\* Mutant: the semaphore is held by nested nodes too.
InFlight_Nested == {p \in DOMAIN act : /\ Len(p) > 1
                                       /\ act[p].pc \in {"flight", "node", "wait"}}

InFlight == {p \in DOMAIN act : act[p].pc = "flight"}

\* semaphore <- struct{}{}
Acquire(p) ==
  /\ Is(p, "call")
  /\ Cardinality(InFlight) < MaxGoroutines
  /\ act' = [act EXCEPT ![p].pc = "flight"]

\* The answer's header is there, or an error; the semaphore is released.
callService(p, answer) ==
  /\ Is(p, "flight")
  /\ IF answer.refused THEN Return(p, NilBody, 500, TRUE)
     ELSE Return(p, [state |-> IF answer.cut THEN "cut" ELSE "open", mem |-> FALSE,
                     bytes |-> [kind |-> answer.kind, has |-> answer.has, of |-> {p}]],
                 answer.status, FALSE)
-----------------------------------------------------------------------------
(***************************************************************************)
(* handleSequencePipeline and handleSwitchPipeline                         *)
(***************************************************************************)
IsPipeline(p) == TypeOf(p) \in {"Sequence", "Switch"}

InPipeline(p) == Is(p, "node") /\ IsPipeline(p) /\ IsMap(initInput(p))

\* json.Unmarshal(initInput, &initReqData) fails.
InvalidInput(p) ==
  /\ Is(p, "node")
  /\ IsPipeline(p)
  /\ ~IsMap(initInput(p))
  /\ Return(p, NilBody, 500, TRUE)

\* routeStep: the zero Router of a node that is not in the graph.
InvalidRouteType(p) ==
  /\ Is(p, "node")
  /\ TypeOf(p) = "none"
  /\ Return(p, NilBody, 500, TRUE)

\* pickupRouteByCondition
pickupRouteByCondition(input, condition) == condition \in input.has

Skipped(p) == \/ step(p).downstream
              \/ /\ TypeOf(p) = "Switch"
                 /\ step(p).condition # Always
                 /\ ~pickupRouteByCondition(initInput(p), step(p).condition)

\* Mutant: the step after a skipped one is skipped as well.
SkipStep_Two(p) ==
  /\ InPipeline(p)
  /\ act[p].i <= NumSteps(p)
  /\ Skipped(p)
  /\ act' = [act EXCEPT ![p].i = @ + 2]

SkipStep(p) ==
  /\ InPipeline(p)
  /\ act[p].i <= NumSteps(p)
  /\ Skipped(p)
  /\ act' = [act EXCEPT ![p].i = @ + 1]

AtStep(p) == InPipeline(p) /\ act[p].i <= NumSteps(p) /\ ~Skipped(p)

CanRead(body) == \/ body.state = "open"
                 \/ body.state = "closed" /\ body.mem

ReadAll(body) == IF body.state = "closed" THEN Nothing ELSE body.bytes

Close(body) == IF body.state = "nil" THEN body ELSE [body EXCEPT !.state = "closed"]

\* The previous response is read, if there is one.
ReadFails(p) ==
  /\ AtStep(p)
  /\ act[p].body.state # "nil"
  /\ ~CanRead(act[p].body)
  /\ Return(p, NilBody, 500, TRUE)

HasRead(p) == AtStep(p) /\ (act[p].body.state = "nil" \/ CanRead(act[p].body))

\* Mutant: the response before the previous one.
responseBytes_Stale(p) == act[p].bytes

responseBytes(p) == IF act[p].body.state = "nil" THEN act[p].bytes
                    ELSE ReadAll(act[p].body)

\* What mergeRequests returns, when it does.
mergeRequests(response, input) ==
  IF input.params # "none" /\ ~IsMap(response) THEN Nothing ELSE response

\* mergeRequests panics: the parameters are not an object, or there are some to be
\* written into the nil map that a null response was read into.
MergeFails(response, input) ==
  /\ IsMap(response)
  /\ \/ input.params = "other"
     \/ input.params = "object" /\ response.kind = "null"

Merges(p) == step(p).response /\ act[p].i > 1

Unmergeable(p) == Merges(p) /\ MergeFails(responseBytes(p), initInput(p))

\* The goroutine of mcGraphHandler, or of an Ensemble, is not recovered.
MergePanics(p) ==
  /\ HasRead(p)
  /\ Unmergeable(p)
  /\ Panic

request(p) == IF Merges(p)
              THEN mergeRequests(responseBytes(p), initInput(p))
              ELSE act[p].input

HasMerged(p) == HasRead(p) /\ ~Unmergeable(p)

IsConditional(p) == TypeOf(p) = "Sequence" /\ step(p).condition # Always

\* "invalid response"
ConditionInvalid(p) ==
  /\ HasMerged(p)
  /\ IsConditional(p)
  /\ responseBytes(p).kind = "text"
  /\ Return(p, NilBody, 500, TRUE)

\* The sequence stops and returns the body that has just been read and closed.
ConditionUnmatched(p) ==
  /\ HasMerged(p)
  /\ IsConditional(p)
  /\ responseBytes(p).kind # "text"
  /\ step(p).condition \notin responseBytes(p).has
  /\ Return(p, Close(act[p].body), 500, FALSE)

ConditionHolds(p) ==
  IsConditional(p) => /\ responseBytes(p).kind # "text"
                      /\ step(p).condition \in responseBytes(p).has

\* The step is executed; what was read is kept.
ExecuteNext(p) ==
  /\ HasMerged(p)
  /\ ConditionHolds(p)
  /\ act' = [c \in DOMAIN act \cup {Child(p)} |->
               IF c = Child(p) THEN executeStep(step(p).nodeName, request(p))
               ELSE IF c = p
                    THEN [act[p] EXCEPT !.pc = "wait", !.bytes = responseBytes(p),
                                        !.body = Close(@)]
                    ELSE act[c]]

Returned(p) == Is(p, "wait") /\ act[Child(p)].pc = "returned"

\* executeStep returns an error.
StepFails(p) ==
  /\ Returned(p)
  /\ act[Child(p)].err
  /\ Return(p, NilBody, 500, TRUE)

\* Mutant: nothing stops at a hard dependency.
StopsAt_Never(p) == FALSE

\* Only a Sequence stops at an unsuccessful hard dependency; a Switch logs it.
StopsAt(p) == /\ TypeOf(p) = "Sequence"
              /\ HardFailure(step(p), act[Child(p)].status)

HardStepFails(p) ==
  /\ Returned(p)
  /\ ~act[Child(p)].err
  /\ StopsAt(p)
  /\ Return(p, act[Child(p)].body, act[Child(p)].status, FALSE)

\* Mutant: the loop's variables shadow the ones that are returned.
StepEnds_Shadow(p) ==
  /\ Returned(p)
  /\ ~act[Child(p)].err
  /\ ~StopsAt(p)
  /\ act' = [act EXCEPT ![p].pc = "node", ![p].i = @ + 1,
                        ![p].body = IF @.state = "nil" THEN act[Child(p)].body
                                    ELSE [@ EXCEPT !.state = "open"],
                        ![p].status = act[Child(p)].status]

StepEnds(p) ==
  /\ Returned(p)
  /\ ~act[Child(p)].err
  /\ ~StopsAt(p)
  /\ act' = [act EXCEPT ![p].pc = "node", ![p].i = @ + 1,
                        ![p].body = act[Child(p)].body,
                        ![p].status = act[Child(p)].status]

\* The last response; nil and 0 when no step has been executed.
PipelineEnds(p) ==
  /\ InPipeline(p)
  /\ act[p].i > NumSteps(p)
  /\ Return(p, act[p].body, act[p].status, FALSE)
-----------------------------------------------------------------------------
(***************************************************************************)
(* handleEnsemblePipeline: a goroutine per step, results over unbuffered   *)
(* channels.  Downstream services are not skipped.                         *)
(***************************************************************************)
StartEnsemble(p) ==
  /\ Is(p, "node")
  /\ TypeOf(p) = "Ensemble"
  /\ LET children == {Append(p, k) : k \in 1..NumSteps(p)} IN
     act' = [c \in DOMAIN act \cup children |->
               IF c \in children
               THEN executeStep(StepsOf[act[p].node][c[Len(c)]].nodeName, act[p].input)
               ELSE IF c = p THEN [act[p] EXCEPT !.pc = "collect"] ELSE act[c]]

\* A goroutine that executeStep has returned to.
InGoroutine(c) ==
  /\ Is(c, "returned")
  /\ Len(c) > 1
  /\ TypeOf(Parent(c)) = "Ensemble"

\* io.ReadAll and json.Unmarshal: the result, or the error, is offered.  A read
\* error is only logged, what could be read is no JSON object then.  The result of
\* a null response is a nil map.
GoroutineReads(c) ==
  /\ InGoroutine(c)
  /\ ~act[c].err
  /\ act[c].body.state # "nil"
  /\ act' = IF CanRead(act[c].body) /\ IsMap(ReadAll(act[c].body))
            THEN [act EXCEPT ![c].pc = "result"]
            ELSE [act EXCEPT ![c].pc = "error", ![c].body = Close(@)]

\* responseBody is nil: io.ReadAll or responseBody.Close() panics.
GoroutinePanics(c) ==
  /\ InGoroutine(c)
  /\ act[c].err \/ act[c].body.state = "nil"
  /\ Panic

\* case ensembleStepOutput = <-resultChan
ReceiveResult(p) ==
  /\ Is(p, "collect")
  /\ act[p].i <= NumSteps(p)
  /\ act[Child(p)].pc = "result"
  /\ LET child == act[Child(p)] IN
     act' = [act EXCEPT
       ![Child(p)].pc = "ended",
       ![p] = IF HardFailure(step(p), child.status)
              THEN [@ EXCEPT !.pc = "returned", !.status = child.status,
                             !.body = [state |-> "open", mem |-> TRUE,
                                       bytes |-> child.body.bytes]]
              ELSE [@ EXCEPT !.i = act[p].i + 1]]

\* case err := <-errChan: the other goroutines are left waiting.
ReceiveError(p) ==
  /\ Is(p, "collect")
  /\ act[p].i <= NumSteps(p)
  /\ \E k \in 1..NumSteps(p) :
       /\ act[Append(p, k)].pc = "error"
       /\ act' = [act EXCEPT ![Append(p, k)].pc = "ended", ![p].pc = "returned",
                             ![p].status = 500, ![p].err = TRUE]

\* The steps whose response is not overwritten in the combined response; a
\* nameless step goes by its index.
KeptSteps(steps) ==
  {k \in DOMAIN steps : \A m \in DOMAIN steps :
     m > k /\ steps[m].name # "" => steps[m].name # steps[k].name}

\* Mutant: the last step is not waited for.
EnsembleEnds_Early(p) ==
  /\ Is(p, "collect")
  /\ act[p].i >= NumSteps(p)
  /\ Return(p, [state |-> "open", mem |-> TRUE, bytes |-> Nothing], 200, FALSE)

\* The combined response; a condition may or may not hold of it.
EnsembleEnds(p) ==
  /\ Is(p, "collect")
  /\ act[p].i > NumSteps(p)
  /\ \E has \in SUBSET Conditions :
       Return(p, [state |-> "open", mem |-> TRUE,
                  bytes |-> [kind |-> "object", has |-> has,
                             of |-> UNION {act[Append(p, k)].body.bytes.of :
                                             k \in KeptSteps(StepsOf[act[p].node])}]],
              200, FALSE)
-----------------------------------------------------------------------------
(***************************************************************************)
(* mcGraphHandler and the goroutine it starts, the execution <<q>>.        *)
(***************************************************************************)
\* http.ResponseWriter: the first write sends the header.
Put(q, status, part) ==
  /\ header' = [header EXCEPT ![q] = IF @ = 0 THEN status ELSE @]
  /\ parts' = [parts EXCEPT ![q] = Append(@, part)]

Arrive(q) ==
  /\ up
  /\ handler[q] = "idle"
  /\ handler' = [handler EXCEPT ![q] = "serving"]
  /\ LET inputBytes == [kind |-> init[q].kind, has |-> init[q].has, of |-> {}] IN
     act' = [c \in DOMAIN act \cup {<<q>>} |->
               IF c = <<q>> THEN executeStep(Root, inputBytes) ELSE act[c]]
  /\ UNCHANGED <<up, init, header, parts, sent>>

\* "failed to read request body"
ArriveCut(q) ==
  /\ up
  /\ handler[q] = "idle"
  /\ handler' = [handler EXCEPT ![q] = "serving"]
  /\ act' = [c \in DOMAIN act \cup {<<q>>} |->
               IF c = <<q>> THEN [executeStep(Root, Nothing) EXCEPT !.pc = "ended"]
               ELSE act[c]]
  /\ Put(q, 400, "failure")
  /\ UNCHANGED <<up, init, sent>>

RouteReturned(q) == Is(<<q>>, "returned") /\ handler[q] = "serving"

End(q) == act' = [act EXCEPT ![<<q>>].pc = "ended"]

\* Mutant: the error is written without its status.
ReportError_OK(q) ==
  /\ RouteReturned(q)
  /\ act[<<q>>].err
  /\ Put(q, 200, "error")
  /\ End(q)
  /\ UNCHANGED <<up, init, handler, sent>>

\* "Failed to process request"
ReportError(q) ==
  /\ RouteReturned(q)
  /\ act[<<q>>].err
  /\ Put(q, act[<<q>>].status, "error")
  /\ End(q)
  /\ UNCHANGED <<up, init, handler, sent>>

\* routeStep has returned neither a body nor an error.
HandlerPanics(q) ==
  /\ Is(<<q>>, "returned")
  /\ ~act[<<q>>].err
  /\ act[<<q>>].body.state = "nil"
  /\ Panic

Streaming(q) == /\ RouteReturned(q)
                /\ ~act[<<q>>].err
                /\ act[<<q>>].body.state # "nil"

HasChunk(q) == \/ act[<<q>>].body.state = "open" /\ sent[q] < MaxChunks
               \/ act[<<q>>].body.state = "cut" /\ sent[q] = 0

\* "failed to write to ResponseWriter": the client has gone.
WriteFails(q) ==
  /\ MayTimeOut
  /\ Streaming(q)
  /\ HasChunk(q)
  /\ End(q)
  /\ UNCHANGED <<up, init, clientVars>>

\* Read, Write, Flush.
WriteChunk(q) ==
  /\ Streaming(q)
  /\ HasChunk(q)
  /\ Put(q, 200, "chunk")
  /\ sent' = [sent EXCEPT ![q] = @ + 1]
  /\ UNCHANGED <<up, init, act, handler>>

\* "failed to read from response body"
BodyFails(q) ==
  /\ Streaming(q)
  /\ \/ act[<<q>>].body.state = "cut" /\ sent[q] = 1
     \/ act[<<q>>].body.state = "closed" /\ ~act[<<q>>].body.mem
  /\ Put(q, 500, "failure")
  /\ End(q)
  /\ UNCHANGED <<up, init, handler, sent>>

BodyEnds(q) ==
  /\ Streaming(q)
  /\ \/ act[<<q>>].body.state = "open" /\ sent[q] = MaxChunks
     \/ act[<<q>>].body.state = "closed" /\ act[<<q>>].body.mem
  /\ End(q)
  /\ UNCHANGED <<up, init, clientVars>>

\* case <-done: an empty response has been sent if nothing was written.
HandlerReturns(q) ==
  /\ Is(<<q>>, "ended")
  /\ handler[q] = "serving"
  /\ handler' = [handler EXCEPT ![q] = "done"]
  /\ header' = [header EXCEPT ![q] = IF @ = 0 THEN 200 ELSE @]
  /\ UNCHANGED <<up, init, act, parts, sent>>

\* case <-ctx.Done(): a minute is over, or the client has gone.
TimeOut(q) ==
  /\ up
  /\ MayTimeOut
  /\ handler[q] = "serving"
  /\ handler' = [handler EXCEPT ![q] = "done"]
  /\ Put(q, 504, "timeout")
  /\ UNCHANGED <<up, init, act, sent>>

\* A response that has been read to its end already writes nothing.
Writes(e) == e.err \/ ~(e.body.state = "closed" /\ e.body.mem)

\* The goroutine writes after the handler has returned.  The ResponseWriter's
\* buffer is nobody's by then, or another request's: the write is lost, panics
\* or turns up in the other response.
LateWrite(q) ==
  /\ Is(<<q>>, "returned")
  /\ handler[q] = "done"
  /\ act[<<q>>].err \/ act[<<q>>].body.state # "nil"
  /\ \/ End(q) /\ UNCHANGED <<up, init, clientVars>>
     \/ Writes(act[<<q>>]) /\ Panic
     \/ \E r \in Requests : /\ Writes(act[<<q>>])
                            /\ handler[r] = "serving"
                            /\ Put(r, 200, "foreign")
                            /\ End(q)
                            /\ UNCHANGED <<up, init, handler, sent>>
-----------------------------------------------------------------------------
\* What the goroutines do before the handler gets to write.
Pipeline(p) ==
  /\ \/ Acquire(p)
     \/ \E answer \in Answers : callService(p, answer)
     \/ InvalidInput(p)
     \/ InvalidRouteType(p)
     \/ SkipStep(p)
     \/ ReadFails(p)
     \/ ConditionInvalid(p)
     \/ ConditionUnmatched(p)
     \/ ExecuteNext(p)
     \/ StepFails(p)
     \/ HardStepFails(p)
     \/ StepEnds(p)
     \/ PipelineEnds(p)
     \/ StartEnsemble(p)
     \/ GoroutineReads(p)
     \/ ReceiveResult(p)
     \/ ReceiveError(p)
     \/ EnsembleEnds(p)
  /\ UNCHANGED <<up, init, clientVars>>

Handler(q) ==
  \/ ReportError(q)
  \/ HandlerPanics(q)
  \/ WriteFails(q)
  \/ WriteChunk(q)
  \/ BodyFails(q)
  \/ BodyEnds(q)
  \/ HandlerReturns(q)
  \/ LateWrite(q)

Progress == \/ \E p \in DOMAIN act : Pipeline(p)
            \/ \E p \in DOMAIN act : MergePanics(p)
            \/ \E p \in DOMAIN act : GoroutinePanics(p)
            \/ \E q \in Requests : Handler(q)

RouterNext ==
  \/ Progress
  \/ \E q \in Requests : Arrive(q)
  \/ \E q \in Requests : ArriveCut(q)
  \/ \E q \in Requests : TimeOut(q)

RouterSpec == RouterInit /\ [][RouterNext]_vars

\* The goroutines run, and callClient's timeout makes every call end.
FairRouterSpec == RouterSpec /\ WF_vars(Progress)
-----------------------------------------------------------------------------
(***************************************************************************)
(* Properties.                                                             *)
(***************************************************************************)
\* The values the router's state ranges over; a loop index stays within one of
\* its node's steps.
RouterTypeOK ==
  /\ up \in BOOLEAN
  /\ init \in [Requests -> Inputs]
  /\ DOMAIN act \subseteq Path
  /\ \A p \in DOMAIN act :
       /\ act[p] \in Execution
       /\ act[p].i \in 1..(IF act[p].node \in Nodes THEN NumSteps(p) + 1 ELSE 1)
  /\ handler \in [Requests -> {"idle", "serving", "done", "reset"}]
  /\ header \in [Requests -> {0} \cup 200..599]
  /\ parts \in [Requests -> Seq({"error", "chunk", "failure", "timeout", "foreign"})]
  /\ sent \in [Requests -> 0..MaxChunks]

Executed(p, k) == Append(p, k) \in DOMAIN act

\* "Stop the execution of sequence right away if step is a hard dependency and
\* is unsuccessful" (line 513), a nested node's failure included; and a step
\* that returned an error stops Sequence and Switch alike.
HardStops ==
  \A p \in DOMAIN act : act[p].node \in Nodes /\ IsPipeline(p) =>
    \A k, m \in 1..NumSteps(p) : k < m /\ Executed(p, k) /\ Executed(p, m) =>
      LET e == act[Append(p, k)] IN
      /\ ~e.err
      /\ TypeOf(p) = "Sequence" => ~HardFailure(StepsOf[act[p].node][k], e.status)

\* The steps before k that had a response.
Answered(p, k) == {m \in 1..(k - 1) :
                     Executed(p, m) /\ act[Append(p, m)].body.state # "nil"}

LastAnswered(p, k) == Max(Answered(p, k))

\* The response step k gets to see: that of the last step before it that had
\* one, however many were skipped or had none.
LastResponse(p, k) ==
  IF Answered(p, k) = {} THEN Nothing
  ELSE ReadAll(act[Append(p, LastAnswered(p, k))].body)

\* "$response" hands the previous response on, merged with the parameters of the
\* request; any other step gets the node's input (lines 321-347 and 466-489).
ChainsPrevious ==
  \A p \in DOMAIN act : act[p].node \in Nodes /\ IsPipeline(p) =>
    \A k \in 1..NumSteps(p) : Executed(p, k) =>
      act[Append(p, k)].input =
        IF StepsOf[act[p].node][k].response /\ k > 1
        THEN mergeRequests(LastResponse(p, k), initInput(p))
        ELSE act[p].input

Leaves(q) == {p \in DOMAIN act : p[1] = q /\ act[p].node = NoNode}

\* p was executed before r.
Before(p, r) == \E m \in 2..Len(p) : /\ m <= Len(r)
                                     /\ SubSeq(p, 1, m - 1) = SubSeq(r, 1, m - 1)
                                     /\ p[m] < r[m]

\* Without Ensembles and timeouts, a request that routeStep has a response for
\* gets it in full, and it is that of the service called last for this request.
LastAnswers ==
  \A q \in Requests : handler[q] = "done" /\ act[<<q>>].body.state = "open" =>
    /\ header[q] = 200
    /\ parts[q] = [k \in 1..MaxChunks |-> "chunk"]
    /\ \E c \in Leaves(q) : /\ act[<<q>>].body.bytes.of = {c}
                            /\ \A p \in Leaves(q) \ {c} : Before(p, c)

\* The process has ended in mergeRequests (lines 246 and 251), in execution p.
DiedMerging(p) == /\ ~up
                  /\ act[p].pc = "node"
                  /\ act[p].node \in Nodes
                  /\ act[p].i <= NumSteps(p)
                  /\ Unmergeable(p)

\* Without Ensembles and timeouts, a request for which a call has failed is
\* answered with the error, however deep the call was (lines 273-291, 491-515 and
\* 571-577), unless mergeRequests ends the process for another request.
FailureReported ==
  \A q \in Requests : (\E p \in Leaves(q) : act[p].err) =>
    /\ handler[q] = "reset" => \E p \in DOMAIN act : p[1] # q /\ DiedMerging(p)
    /\ handler[q] = "done" => header[q] = 500 /\ parts[q] = <<"error">>

\* An Ensemble whose steps have different names and that returns a response has
\* merged the responses of all of them and left no goroutine behind, or returns
\* the response of an unsuccessful hard dependency.
EnsembleComplete ==
  \A p \in DOMAIN act :
    /\ act[p].node \in Nodes
    /\ TypeOf(p) = "Ensemble"
    /\ act[p].pc \in {"returned", "result", "ended"}
    /\ ~act[p].err /\ act[p].body.state # "nil"
    => LET children == {Append(p, k) : k \in 1..NumSteps(p)} IN
       \/ \A c \in children : /\ act[c].pc = "ended"
                              /\ act[c].body.bytes.of \subseteq act[p].body.bytes.of
       \/ \E k \in 1..NumSteps(p) :
            /\ HardFailure(StepsOf[act[p].node][k], act[p].status)
            /\ act[p].body.bytes.of = act[Append(p, k)].body.bytes.of

\* Every request is answered or cut off, also when all permits of the semaphore
\* are taken: calls in nested nodes and parallel steps never wait for each other.
EveryRequestEnds ==
  \A q \in Requests : handler[q] = "serving" ~> handler[q] \in {"done", "reset"}
=============================================================================
