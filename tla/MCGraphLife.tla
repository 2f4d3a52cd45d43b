----------------------------- MODULE MCGraphLife -----------------------------
(***************************************************************************)
(* Graphs of a root with at most two steps of a pool and a second node,    *)
(* and a few longer ones, as far as the webhook accepts them.              *)
(***************************************************************************)
EXTENDS GraphLife

MCStepNames == {"Llm", "Tgi", "Embedding", "DataPrep", "UI", "Router"}

MCTemplate == [n \in MCStepNames \ {"Router"} |->
                 CASE n = "Llm" -> [svc |-> "llm", port |-> 9000]
                   [] n = "Tgi" -> [svc |-> "tgi", port |-> 80]
                   [] n = "Embedding" -> [svc |-> "emb", port |-> 6000]
                   [] n = "DataPrep" -> [svc |-> "prep", port |-> 6007]
                   [] OTHER -> [svc |-> "ui", port |-> 5173]]

Plain(n, s) == [name |-> n, node |-> None, svc |-> s, ext |-> None, ns |-> None,
                down |-> FALSE, ds |-> NoKey]

Llm == [Plain("Llm", None) EXCEPT !.ds = "t"]
TgiDown == [Plain("Tgi", "t") EXCEPT !.down = TRUE]
Ext == [host |-> "external", ns |-> None, port |-> 80]

Pool ==
    { Llm, TgiDown,
      Plain("Tgi", "t"),                                  \* named, no downstream service
      [Plain("Llm", "l") EXCEPT !.ds = None],             \* an empty endpoint value
      [Plain("Tgi", None) EXCEPT !.down = TRUE],
      [TgiDown EXCEPT !.ext = Ext],
      Plain("DataPrep", None), Plain("DataPrep", "d"),
      [Plain("DataPrep", "d") EXCEPT !.node = "n"],
      Plain("UI", None),
      [Plain("Embedding", None) EXCEPT !.ext = Ext],
      [Plain("Llm", None) EXCEPT !.ns = "elsewhere"],
      Plain("Router", None),                              \* no template
      Plain("Llm", "tgi"), Plain("Llm", "router-service") } \* others' names

Pairs == UNION {[1 .. k -> Pool] : k \in 0 .. 2}

Longer ==
    { <<Plain("UI", None), Llm, TgiDown>>,
      <<TgiDown, Plain("Embedding", "e"), Plain("UI", None)>>,
      <<Plain("DataPrep", "d"), Plain("UI", None), Plain("DataPrep", "e")>>,
      <<Plain("UI", None), Plain("UI", "u")>> }

Nodes(root, n) == [m \in {"root", "n"} |-> IF m = "root" THEN root ELSE n]

\* An empty second node, or one with the downstream service of the first.
MCGraphs ==
    {Nodes(r, <<>>) : r \in Pairs \cup Longer} \cup {Nodes(<<s>>, <<TgiDown>>) : s \in Pool}

MCSpecs ==
    {[nodes |-> g, router |-> None, spoils |-> FALSE] : g \in {h \in MCGraphs : ValidGraph(h)}}
      \cup {[nodes |-> [m \in {"root"} |-> <<Llm, TgiDown>>], router |-> "gw", spoils |-> q] :
              q \in BOOLEAN}

MCChats ==
    [type : {"absent", "string", "other"}, roles : {<<>>}]
      \cup [type : {"list"},
            roles : UNION {[1 .. k -> {"system", "user", None}] : k \in 0 .. 3}]

MCClientFields == {{}, {"query", "top_k"}, {"text"}}
=============================================================================
