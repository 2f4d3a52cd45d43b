--------------------------- MODULE RouterEndpoints ---------------------------
(***************************************************************************)
(* The router's other endpoints (cmd/router/main.go): /dataprep, which     *)
(* copies a form to the data preparation services of the root node, /ui,   *)
(* which shows the UI or turns a chat into the input of the graph, and     *)
(* /assets, which belongs to the UI.  The handlers share no state but the  *)
(* graph the router was started with, so one request is followed at a      *)
(* time; what becomes of a request to the graph is GMCRouter's subject.    *)
(***************************************************************************)
EXTENDS GraphValidation, SequencesExt

CONSTANTS
    NoRequest,
    ServiceHeaders,  \* values of a data request's SERVICE_NAME header, None too
    Chats,           \* the messages of a UI request: [type, roles]
    ClientFields     \* the other fields of a UI request that matter: sets of names

LLMKeyword == "query"
EmbeddingKeyword == "text"
NilText == "<nil>"   \* what %v prints for an entry that is not there

\* defaultLlmParams, one name for all
DefaultParam == "top_k"

(***************************************************************************)
(* The body of a UI request: nothing, something that is no JSON object, or *)
(* an object.  Its messages are of type absent, string, list or other; of  *)
(* a list roles has the role of each item, None for one without.           *)
(***************************************************************************)
Bodies == {[form |-> "empty"], [form |-> "bad"]}
            \cup [form : {"json"}, messages : Chats, fields : ClientFields]

\* The messages of a list are in an order, and a role is not the empty string.
ASSUME ChatsAssumption ==
    /\ \A c \in Chats : c.roles \in Seq(Range(c.roles))
    /\ None # "system"

VARIABLES
    mcGraph,    \* the graph the router runs: [nodes, url], or None
    rq          \* the request under way, or NoRequest

endVars == <<mcGraph, rq>>

rootSteps == mcGraph.nodes[Root]

\* The router's copy has no namespace: without a URL the name of the step is all
\* there is to call.
getServiceURLByStepTarget(i) ==
    IF mcGraph.url[<<Root, i>>] = None
    THEN [host |-> rootSteps[i].name, ns |-> None, port |-> None]
    ELSE mcGraph.url[<<Root, i>>]

EndInit == mcGraph = None /\ rq = NoRequest

\* main: the argument is parsed, the routes are set up and served.
main(g) ==
    /\ mcGraph = None
    /\ mcGraph' = g
    /\ UNCHANGED rq

\* header to failed are a data request's, the fields from body on a UI request's.
NewRequest(kind) ==
    [kind |-> kind, at |-> 1, calls |-> <<>>, status |-> "none", open |-> TRUE,
     header |-> None, form |-> None, answers |-> <<>>, failed |-> FALSE,
     body |-> None, unread |-> FALSE, item |-> 0, parsed |-> <<>>, sent |-> None]

\* The first status that is written is the one the client gets.
WriteHeader(r, status) == IF r.status = "none" THEN status ELSE r.status

Close(r, status) == [r EXCEPT !.status = WriteHeader(r, status), !.open = FALSE]

------------------------------------------------------------------------------
(***************************************************************************)
(* /dataprep                                                               *)
(***************************************************************************)
DataRequest(header, form) ==
    /\ mcGraph # None /\ rq = NoRequest
    /\ rq' = [NewRequest("data") EXCEPT !.header = header, !.form = form]
    /\ UNCHANGED mcGraph

\* Mutant: the header is not looked at.
HandlesData_Any(i, header) == rootSteps[i].name = "DataPrep"

HandlesData(i, header) ==
    /\ rootSteps[i].name = "DataPrep"
    /\ header # None => header = rootSteps[i].svc

\* The statuses a data service answers with, which the router passes on whatever
\* they are; a form that cannot be copied is unsent, a call without an answer refused.
BackendStatuses == {"200", "404", "500"}
Outcomes == BackendStatuses \cup {"unsent", "refused"}

AtData == rq # NoRequest /\ rq.kind = "data" /\ rq.open
AtDataStep == AtData /\ rq.at <= Len(rootSteps)

\* http.Error and return: the router itself reports the failure.
Fail(r, status) == [Close(r, status) EXCEPT !.failed = TRUE]

DataSkip ==
    /\ AtDataStep
    /\ ~ HandlesData(rq.at, rq.header)
    /\ rq' = [rq EXCEPT !.at = @ + 1]
    /\ UNCHANGED mcGraph

DataRefuse ==
    /\ AtDataStep
    /\ HandlesData(rq.at, rq.header)
    /\ rq.form = "bad"
    /\ rq' = Fail(rq, "400")
    /\ UNCHANGED mcGraph

\* The form is sent on.  The loop goes on after an answer, whatever its status; an
\* error before the call or in it ends the request.
DataStep(outcome) ==
    LET called == [rq EXCEPT !.at = @ + 1,
                             !.calls = Append(@, getServiceURLByStepTarget(rq.at))]
    IN
    /\ AtDataStep
    /\ HandlesData(rq.at, rq.header)
    /\ rq.form = "good"
    /\ \/ outcome = "unsent" /\ rq' = Fail(rq, "500")
       \/ outcome = "refused" /\ rq' = Fail(called, "500")
       \/ /\ outcome \in BackendStatuses
          /\ rq' = [called EXCEPT !.answers = Append(@, outcome),
                                  !.status = WriteHeader(called, outcome)]
    /\ UNCHANGED mcGraph

\* Mutant: isDataHandled is not asked.
DataEnd_Silent ==
    /\ AtData
    /\ rq.at > Len(rootSteps)
    /\ rq' = Close(rq, rq.status)
    /\ UNCHANGED mcGraph

DataEnd ==
    /\ AtData
    /\ rq.at > Len(rootSteps)
    /\ rq' = Close(rq, IF rq.calls = <<>> THEN "404" ELSE rq.status)
    /\ UNCHANGED mcGraph

------------------------------------------------------------------------------
(***************************************************************************)
(* /ui                                                                     *)
(***************************************************************************)
UiRequest(body) ==
    /\ mcGraph # None /\ rq = NoRequest
    /\ rq' = [NewRequest("ui") EXCEPT !.body = body, !.unread = body.form # "empty"]
    /\ UNCHANGED mcGraph

AtUi == rq # NoRequest /\ rq.kind = "ui" /\ rq.open
AtUiStep == AtUi /\ rq.at <= Len(rootSteps) /\ rootSteps[rq.at].name = "UI"

\* Mutant: the first step is taken, a downstream service or not.
nextHop_First == 1

\* The first step of the root that is no downstream service, or the last step.
nextHop ==
    LET i == SelectInSeq(rootSteps, LAMBDA s : ~ s.down)
    IN  IF i = 0 THEN Len(rootSteps) ELSE i

Keyword == IF rootSteps[nextHop].name = "Embedding" THEN EmbeddingKeyword ELSE LLMKeyword

UiSkip ==
    /\ AtUi
    /\ rq.at <= Len(rootSteps) /\ rootSteps[rq.at].name # "UI"
    /\ rq' = [rq EXCEPT !.at = @ + 1]
    /\ UNCHANGED mcGraph

\* Nothing left to read in the body: the request itself goes to the UI.
UiProxy ==
    /\ AtUiStep
    /\ ~ rq.unread
    /\ rq' = [rq EXCEPT !.at = @ + 1, !.status = WriteHeader(rq, "proxied"),
                        !.calls = Append(@, getServiceURLByStepTarget(rq.at))]
    /\ UNCHANGED mcGraph

\* A body that is no JSON object is answered with 500.  Messages of any other
\* type reach err.Error() with a nil err: the handler panics, net/http recovers
\* and the connection is closed.
UiRefuse ==
    /\ AtUiStep
    /\ rq.unread
    /\ rq' = IF rq.body.form = "bad" THEN Close(rq, "500")
             ELSE Close(rq, "aborted")
    /\ rq.body.form = "json" => rq.body.messages.type = "other"
    /\ UNCHANGED mcGraph

Unmarshalled == AtUiStep /\ rq.unread /\ rq.body.form = "json"

\* One item of the list: a system message begins the text anew, another is added
\* to it, one without a role is passed over.
AddMessage(text, i, role) ==
    CASE role = None     -> text
      [] role = "system" -> <<i>>
      [] OTHER           -> (IF text = <<>> THEN <<NilText>> ELSE text) \o <<i>>

UiMessage ==
    /\ Unmarshalled
    /\ rq.item < Len(rq.body.messages.roles)
    /\ rq' = [rq EXCEPT !.item = @ + 1,
                !.parsed = AddMessage(@, rq.item + 1, rq.body.messages.roles[rq.item + 1])]
    /\ UNCHANGED mcGraph

\* What is sent on: the text under the keyword, the parameters of an LLM where the
\* first hop takes its keyword, and the client's fields, which replace both.
Payload(text, key, fields) ==
    LET base     == IF text = <<>> THEN {} ELSE {key}
        defaults == IF key = LLMKeyword THEN {DefaultParam} ELSE {}
    IN  [f \in fields \cup defaults \cup base |->
            IF f \in fields THEN <<"client">>
            ELSE IF f \in defaults THEN <<"default">> ELSE text]

\* The list has been read, or there is none: the graph is called (mcGraphHandler).
UiForward ==
    /\ Unmarshalled
    /\ rq.body.messages.type # "other"
    /\ rq.item = Len(rq.body.messages.roles)
    /\ rq' = [rq EXCEPT !.at = @ + 1, !.unread = FALSE,
                !.status = WriteHeader(rq, "graph"),
                !.sent = Payload(IF rq.body.messages.type = "string" THEN <<"string">>
                                 ELSE rq.parsed, Keyword, rq.body.fields)]
    /\ UNCHANGED mcGraph

\* Without a UI step nothing is written: net/http answers 200 with no body.
UiEnd ==
    /\ AtUi
    /\ rq.at > Len(rootSteps)
    /\ rq' = Close(rq, "200")
    /\ UNCHANGED mcGraph

------------------------------------------------------------------------------
(***************************************************************************)
(* /assets: proxied to the first UI step of the root.                      *)
(***************************************************************************)
mcAssetHandler ==
    /\ mcGraph # None /\ rq = NoRequest
    /\ LET i == SelectInSeq(rootSteps, LAMBDA s : s.name = "UI") IN
       rq' = IF i = 0 THEN Close(NewRequest("asset"), "200")
             ELSE Close([NewRequest("asset") EXCEPT
                           !.calls = <<getServiceURLByStepTarget(i)>>], "proxied")
    /\ UNCHANGED mcGraph

Respond ==
    /\ rq # NoRequest /\ ~ rq.open
    /\ rq' = NoRequest
    /\ UNCHANGED mcGraph

mcUiHandler == UiSkip \/ UiProxy \/ UiRefuse \/ UiMessage \/ UiForward \/ UiEnd
=============================================================================
