---------------------------- MODULE MCReconciler ----------------------------
(***************************************************************************)
(* Instances of GMCReconciler: a graph that is edited between two specs.   *)
(* Two of its steps share a ConfigMap, one node is nested in the other, one*)
(* service is external.                                                    *)
(***************************************************************************)
EXTENDS GMCInvariant

CONSTANTS g1, root, sub, embed, rerank, web, toSub, cm, dEmbed, dRerank, dRouter

MCManifest ==
  [s \in {embed, rerank, web, toSub} |->
     CASE s = embed  -> <<cm, dEmbed>>
       [] s = rerank -> <<cm, dRerank>>
       [] OTHER      -> <<>>]

\* Both steps, in two nodes, and an external service.
Full == [nodes  |-> [n \in {root, sub} |-> IF n = root THEN <<embed, toSub>>
                                           ELSE <<web, rerank>>],
         router |-> <<dRouter>>]

\* The sub-node is removed.
Small == [nodes  |-> [n \in {root, sub} |-> IF n = root THEN <<embed>> ELSE <<>>],
          router |-> <<dRouter>>]

MCSpecsOf == [g \in {g1} |-> {Full, Small}]
=============================================================================
