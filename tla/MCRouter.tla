------------------------------ MODULE MCRouter -------------------------------
(***************************************************************************)
(* Instances of GMCRouter.                                                 *)
(***************************************************************************)
EXTENDS GMCRouter, TLC

CONSTANTS q1, q2, root, switch, team, models, undefined, none, small, dog, always

\* Requests are interchangeable.
RequestSymmetry == Permutations(Requests)

AllNames == {"Embedding", "Retriever", "Guardrails", "TeiReranking", "Reranking", "Llm",
             "first", "second", "service1", "service2", "service3"}

Service(name) == [name |-> name, nodeName |-> none, hard |-> FALSE, response |-> FALSE,
                  downstream |-> FALSE, condition |-> always]

Nested(name, node) == [Service(name) EXCEPT !.nodeName = node]

Answer(status, kind, has) == [refused |-> FALSE, status |-> status, kind |-> kind,
                              has |-> has, cut |-> FALSE]

Refused == [Answer(0, "text", {}) EXCEPT !.refused = TRUE]

Good == Answer(200, "object", {dog})

Request(kind, has, params) == [kind |-> kind, has |-> has, params |-> params]

\* Like the ChatQnA sample: a Switch nested in a Sequence, downstream services,
\* a hard and a conditional step.
ChatTypes == [n \in {root, switch} |-> IF n = root THEN "Sequence" ELSE "Switch"]

ChatSteps == [n \in {root, switch} |->
  CASE n = root ->
       << [Nested("Embedding", switch) EXCEPT !.hard = TRUE],
          [Service("TeiReranking") EXCEPT !.downstream = TRUE],
          [Service("Reranking") EXCEPT !.response = TRUE, !.hard = TRUE],
          [Service("Llm") EXCEPT !.response = TRUE, !.condition = dog] >>
    [] n = switch ->
       << [Service("Embedding") EXCEPT !.condition = small],
          [Service("Retriever") EXCEPT !.response = TRUE],
          [Nested("Guardrails", undefined) EXCEPT !.condition = dog] >>]

ChatInputs == {Request("object", {small}, "object"), Request("object", {dog}, "none"),
               Request("object", {small}, "other"), Request("text", {}, "none")}

ChatAnswers == {Good, Answer(500, "object", {}), Answer(200, "null", {}),
                Answer(200, "text", {}), [Good EXCEPT !.cut = TRUE], Refused}

\* An Ensemble in a Sequence, as in TestMCWithCondition; one of its steps, and
\* the conditional step after it, are Switches.
TeamTypes == [n \in {root, team, models, switch} |->
  CASE n = root -> "Sequence" [] n = team -> "Ensemble" [] OTHER -> "Switch"]

TeamSteps == [n \in {root, team, models, switch} |->
  CASE n = root   -> << Nested("first", team),
                        [Nested("second", switch) EXCEPT !.condition = dog] >>
    [] n = team   -> << [Service("service1") EXCEPT !.hard = TRUE],
                        Nested("service2", models) >>
    [] n = models -> << [Service("Llm") EXCEPT !.condition = dog] >>
    [] n = switch -> << [Service("service3") EXCEPT !.condition = small] >>]

TeamInputs == {Request("object", has, "none") : has \in {{small, dog}, {small}, {dog}}}

TeamAnswers == {Good, Answer(500, "object", {}), Answer(200, "null", {}),
                Answer(200, "json", {}), Refused}

\* A service beside a nested Sequence.
PairTypes == [n \in {root, team} |-> IF n = root THEN "Ensemble" ELSE "Sequence"]

PairSteps == [n \in {root, team} |->
  IF n = root THEN <<Service("service1"), Nested("service2", team)>>
  ELSE <<Service("service3")>>]

PairInputs == {Request("object", {}, "none")}

PairAnswers == {Good, Answer(200, "text", {})}
=============================================================================
