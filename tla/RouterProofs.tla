---------------------------- MODULE RouterProofs -----------------------------
(***************************************************************************)
(* Proofs about the router, for any graph, any number of requests and any  *)
(* answers of the services.                                                *)
(*                                                                         *)
(* The executions of a request form a tree, and what has to be known about *)
(* an execution is about itself and its children only: RecordOK, PipeOK    *)
(* and EnsOK below.  A step changes one execution, or one and its child,   *)
(* or adds children; PipeKept and EnsKept say once why the invariants of   *)
(* every other execution survive that, its parent's included.              *)
(***************************************************************************)
EXTENDS GMCRouter, SequenceTheorems, WellFoundedInduction, TLAPS

-----------------------------------------------------------------------------
(***************************************************************************)
(* Paths.                                                                  *)
(***************************************************************************)
\* Where the k-th child of a path is, and that it has one parent.
LEMMA ChildPath ==
  ASSUME NEW p \in Path, NEW k \in Nat
  PROVE  /\ Append(p, k) \in Path
         /\ Len(Append(p, k)) = Len(p) + 1
         /\ \A m \in 1..Len(p) : Append(p, k)[m] = p[m]
         /\ Append(p, k)[Len(p) + 1] = k
         /\ Append(p, k) # p
         /\ Parent(Append(p, k)) = p
  <1>1. /\ Append(p, k) \in Path
        /\ Len(Append(p, k)) = Len(p) + 1
        /\ \A m \in 1..Len(p) : Append(p, k)[m] = p[m]
        /\ Append(p, k)[Len(p) + 1] = k
    BY AppendProperties DEF Path
  <1>2. Len(p) \in Nat
    BY LenProperties DEF Path
  <1>3. Append(p, k) # p
    BY <1>1, <1>2
  <1>4. Parent(Append(p, k)) = p
    <2>1. \A m \in 1..Len(p) : Append(p, k)[m] \in Requests \cup Nat
      BY <1>1, ElementOfSeq DEF Path
    <2>2. /\ SubSeq(Append(p, k), 1, Len(p)) \in Path
          /\ Len(SubSeq(Append(p, k), 1, Len(p))) = Len(p)
          /\ \A m \in 1..Len(p) : SubSeq(Append(p, k), 1, Len(p))[m] = p[m]
      BY <1>1, <1>2, <2>1, SubSeqProperties DEF Path
    <2> QED
      BY <1>1, <1>2, <2>2, SeqEqual DEF Path, Parent
  <1> QED
    BY <1>1, <1>3, <1>4

LEMMA SameChild ==
  ASSUME NEW p \in Path, NEW r \in Path, NEW k \in Nat, NEW m \in Nat,
         Append(p, k) = Append(r, m)
  PROVE  p = r /\ k = m
  BY AppendInjective DEF Path

\* The first m steps of a path.
LEMMA Prefixes ==
  ASSUME NEW p \in Path, NEW m \in 0..Len(p)
  PROVE  /\ SubSeq(p, 1, m) \in Path
         /\ Len(SubSeq(p, 1, m)) = m
         /\ \A n \in 1..m : SubSeq(p, 1, m)[n] = p[n]
  <1>1. Len(p) \in Nat /\ \A n \in 1..m : p[n] \in Requests \cup Nat
    BY LenProperties, ElementOfSeq DEF Path
  <1> QED
    BY <1>1, SubSeqProperties DEF Path

\* A path that is not a root is a child of its parent.
LEMMA ParentPath ==
  ASSUME NEW p \in Path, Len(p) > 1, p[Len(p)] \in Nat
  PROVE  /\ Parent(p) \in Path
         /\ Len(Parent(p)) = Len(p) - 1
         /\ Parent(p)[1] = p[1]
         /\ p = Append(Parent(p), p[Len(p)])
  <1>1. Len(p) \in Nat
    BY LenProperties DEF Path
  <1>2. /\ Parent(p) \in Path
        /\ Len(Parent(p)) = Len(p) - 1
        /\ \A n \in 1..(Len(p) - 1) : Parent(p)[n] = p[n]
    BY <1>1, Prefixes DEF Parent
  <1> DEFINE c == Append(Parent(p), p[Len(p)])
  <1>3. /\ c \in Path
        /\ Len(c) = Len(p)
        /\ \A n \in 1..(Len(p) - 1) : c[n] = p[n]
        /\ c[Len(p)] = p[Len(p)]
    BY <1>1, <1>2, ChildPath
  <1>4. \A n \in 1..Len(p) : c[n] = p[n]
    BY <1>1, <1>3
  <1>5. c = p
    <2> HIDE DEF c
    <2> QED
      BY <1>3, <1>4, SeqEqual DEF Path
  <1> QED
    BY <1>1, <1>2, <1>5
\* A set of natural numbers that is bounded and not empty has a largest element.
LEMMA MaxExists ==
  ASSUME NEW n \in Nat, NEW S, S \subseteq 0..n, S # {}
  PROVE  Max(S) \in S /\ \A m \in S : m <= Max(S)
  <1> DEFINE T == {x \in Nat : n - x \in S}
             R == OpToRel(<, Nat)
  <1>1. T \subseteq Nat /\ T # {}
    <2>1. PICK m \in S : TRUE
      OBVIOUS
    <2>2. n - m \in Nat /\ n - (n - m) = m
      BY <2>1
    <2>3. n - m \in T
      BY <2>1, <2>2
    <2> QED
      BY <2>3
  <1>2. PICK x \in T : \A y \in T : ~(<<y, x>> \in R)
    <2> HIDE DEF T, R
    <2>1. IsWellFoundedOn(R, Nat)
      BY NatLessThanWellFounded DEF R
    <2> QED
      BY <1>1, <2>1, WFMin
  <1>3. \A y \in T : ~(y < x)
    <2>1. R = {ss \in Nat \X Nat : ss[1] < ss[2]}
      BY DEF OpToRel
    <2> HIDE DEF R
    <2> QED
      BY <1>1, <1>2, <2>1
  <1>4. n - x \in S /\ \A m \in S : n - x >= m
    <2>1. ASSUME NEW m \in S PROVE n - x >= m
      <3>1. n - m \in Nat /\ n - (n - m) = m
        BY <2>1
      <3>2. n - m \in T
        BY <3>1
      <3> QED
        BY <1>3, <3>1, <3>2
    <2> QED
      BY <1>2, <2>1
  <1>5. \E z \in S : \A m \in S : z >= m
    BY <1>4
  <1>6. Max(S) \in S /\ \A m \in S : Max(S) >= m
    BY <1>5, Zenon DEF Max
  <1> HIDE DEF R, T
  <1> QED
    BY <1>6

\* What is larger than every other element is the largest.
LEMMA MaxIs ==
  ASSUME NEW n \in Nat, NEW S, S \subseteq 0..n, NEW x \in S,
         \A m \in S : m <= x
  PROVE  Max(S) = x
  <1> DEFINE y == Max(S)
  <1>1. y \in S /\ x <= y
    BY MaxExists
  <1> HIDE DEF y
  <1>2. y = x
    BY <1>1
  <1> QED
    BY <1>2 DEF y
-----------------------------------------------------------------------------
(***************************************************************************)
(* The tree of executions.                                                 *)
(***************************************************************************)
\* An execution belongs to a request that has arrived; the parent of a step is
\* the execution of the node it is a step of.
TreeOK(p) ==
  /\ p \in Path
  /\ Len(p) >= 1
  /\ p[1] \in Requests
  /\ handler[p[1]] # "idle"
  /\ Len(p) > 1 => /\ Parent(p) \in DOMAIN act
                   /\ act[Parent(p)].node \in Nodes
                   /\ p[Len(p)] \in 1..NumSteps(Parent(p))

\* What an execution knows by itself.
RecordOK(p) ==
  /\ act[p] \in Execution
  /\ act[p].i \in 1..(IF act[p].node \in Nodes THEN NumSteps(p) + 1 ELSE 1)
  /\ act[p].pc \in {"call", "flight"} => act[p].node = NoNode
  /\ act[p].pc = "node" => act[p].node # NoNode
  /\ act[p].pc = "wait" => act[p].node \in Nodes /\ IsPipeline(p)
  /\ act[p].pc = "collect" => act[p].node \in Nodes /\ TypeOf(p) = "Ensemble"
  /\ act[p].err => act[p].status = 500 /\ act[p].pc \in {"returned", "ended"}

\* Step k of the pipeline p has been executed: it has returned, or p is waiting
\* for it; the loop has passed it only if nothing stops there; and its input was
\* the response of the last step before it that had one.
StepOK(p, k) ==
  LET c == Append(p, k) IN
  /\ k <= act[p].i
  /\ act[p].pc = "node" => k < act[p].i
  /\ act[c].pc = "returned" \/ (act[p].pc = "wait" /\ k = act[p].i)
  /\ k < act[p].i => /\ ~act[c].err
                     /\ TypeOf(p) = "Sequence" =>
                          ~HardFailure(StepsOf[act[p].node][k], act[c].status)
  /\ act[c].input = IF StepsOf[act[p].node][k].response /\ k > 1
                    THEN mergeRequests(LastResponse(p, k), initInput(p))
                    ELSE act[p].input

\* The loop of a pipeline: what it carries over from step to step is what the
\* next step is to get.
PipeOK(p) ==
  act[p].node \in Nodes /\ IsPipeline(p) =>
    /\ act[p].pc # "collect"
    /\ act[p].pc = "wait" => act[p].i <= NumSteps(p) /\ Executed(p, act[p].i)
    /\ \A k \in 1..NumSteps(p) : Executed(p, k) => StepOK(p, k)
    /\ act[p].pc = "node" => responseBytes(p) = LastResponse(p, act[p].i)
    /\ act[p].pc = "wait" => act[p].bytes = LastResponse(p, act[p].i)

\* The result of step k has been received.
Received(p, k) == Executed(p, k) /\ act[Append(p, k)].pc = "ended"

\* The response of an Ensemble is made of those of all steps that keep their
\* name, or is that of an unsuccessful hard dependency.
Combined(p) ==
  \/ \A k \in 1..NumSteps(p) :
       /\ Received(p, k)
       /\ k \in KeptSteps(StepsOf[act[p].node]) =>
            act[Append(p, k)].body.bytes.of \subseteq act[p].body.bytes.of
  \/ \E k \in 1..NumSteps(p) :
       /\ Received(p, k)
       /\ HardFailure(StepsOf[act[p].node][k], act[p].status)
       /\ act[p].body.bytes.of = act[Append(p, k)].body.bytes.of

\* The goroutines of an Ensemble and the loop that receives their results.
EnsOK(p) ==
  act[p].node \in Nodes /\ TypeOf(p) = "Ensemble" =>
    /\ act[p].pc # "wait"
    /\ act[p].pc = "node" => /\ act[p].i = 1
                              /\ \A k \in 1..NumSteps(p) : ~Executed(p, k)
    /\ act[p].pc \in {"node", "collect"} => act[p].body.state = "nil"
    /\ act[p].pc = "collect" => \A k \in 1..NumSteps(p) :
                                  /\ Executed(p, k)
                                  /\ k < act[p].i => Received(p, k)
    /\ act[p].body.state # "nil" /\ ~act[p].err => Combined(p)

ExecOK(p) == TreeOK(p) /\ RecordOK(p) /\ PipeOK(p) /\ EnsOK(p)

WriterOK ==
  /\ up \in BOOLEAN
  /\ init \in [Requests -> Inputs]
  /\ handler \in [Requests -> {"idle", "serving", "done", "reset"}]
  /\ header \in [Requests -> {0} \cup 200..599]
  /\ parts \in [Requests -> Seq({"error", "chunk", "failure", "timeout", "foreign"})]
  /\ sent \in [Requests -> 0..MaxChunks]

RouterInv == WriterOK /\ \A p \in DOMAIN act : ExecOK(p)
-----------------------------------------------------------------------------
(***************************************************************************)
(* The response a step gets to see.                                        *)
(***************************************************************************)
LEMMA LastAnsweredIn ==
  ASSUME NEW p, NEW k \in Nat, Answered(p, k) # {}
  PROVE  LastAnswered(p, k) \in Answered(p, k)
  <1>1. Answered(p, k) \subseteq 0..k
    BY DEF Answered
  <1> DEFINE S == Answered(p, k)
  <1> HIDE DEF S
  <1>2. Max(S) \in S
    <2>1. S \subseteq 0..k /\ S # {}
      BY <1>1 DEF S
    <2> QED
      BY <2>1, MaxExists
  <1> QED
    BY <1>2, Zenon DEF S, LastAnswered

\* It stays what it is while the steps before k stay what they are.
LEMMA LastResponseKept ==
  ASSUME NEW p, NEW k \in Nat,
         \A m \in 1..(k - 1) :
            /\ Executed(p, m)' <=> Executed(p, m)
            /\ Executed(p, m) => act'[Append(p, m)] = act[Append(p, m)]
  PROVE  LastResponse(p, k)' = LastResponse(p, k)
  <1>1. Answered(p, k)' = Answered(p, k)
    BY DEF Answered
  <1>2. LastAnswered(p, k)' = LastAnswered(p, k)
    BY <1>1, Zenon DEF LastAnswered
  <1>3. CASE Answered(p, k) = {}
    BY <1>1, <1>3, Zenon DEF LastResponse
  <1>4. CASE Answered(p, k) # {}
    <2>1. LastAnswered(p, k) \in Answered(p, k)
      BY <1>4, LastAnsweredIn
    <2>2. LastAnswered(p, k) \in 1..(k - 1) /\ Executed(p, LastAnswered(p, k))
      BY <2>1 DEF Answered
    <2>3. act'[Append(p, LastAnswered(p, k))] = act[Append(p, LastAnswered(p, k))]
      BY <2>2
    <2> QED
      BY <1>1, <1>2, <2>3, Zenon DEF LastResponse
  <1> QED
    BY <1>3, <1>4

\* A step that had no response leaves it, one that had becomes it.
LEMMA LastResponseNext ==
  ASSUME NEW p, NEW k \in Nat \ {0}
  PROVE  LastResponse(p, k + 1) =
           IF Executed(p, k) /\ act[Append(p, k)].body.state # "nil"
           THEN ReadAll(act[Append(p, k)].body)
           ELSE LastResponse(p, k)
  <1>1. CASE Executed(p, k) /\ act[Append(p, k)].body.state # "nil"
    <2> DEFINE S == Answered(p, k + 1)
    <2>1. S \subseteq 0..k /\ k \in S
      BY <1>1 DEF Answered
    <2> HIDE DEF S
    <2>2. Max(S) = k
      <3>1. k \in Nat /\ \A m \in S : m <= k
        BY <2>1
      <3> QED
        BY <2>1, <3>1, MaxIs
    <2>3. LastAnswered(p, k + 1) = k
      BY <2>2, Zenon DEF S, LastAnswered
    <2> QED
      BY <1>1, <2>1, <2>3 DEF S, LastResponse
  <1>2. CASE ~(Executed(p, k) /\ act[Append(p, k)].body.state # "nil")
    <2>1. Answered(p, k + 1) = Answered(p, k)
      BY <1>2 DEF Answered
    <2>2. LastAnswered(p, k + 1) = LastAnswered(p, k)
      BY <2>1, Zenon DEF LastAnswered
    <2> QED
      BY <1>2, <2>1, <2>2 DEF LastResponse
  <1> QED
    BY <1>1, <1>2
-----------------------------------------------------------------------------
(***************************************************************************)
(* What a step leaves alone.                                               *)
(***************************************************************************)
\* No child of r comes or goes; one that changes has not ended, and has not
\* returned to a pipeline; it keeps its input.
KidsKept(r) ==
  \A k \in 1..NumSteps(r) :
    /\ Executed(r, k)' <=> Executed(r, k)
    /\ Executed(r, k) =>
         \/ act'[Append(r, k)] = act[Append(r, k)]
         \/ /\ act[Append(r, k)].pc # "ended"
            /\ act[Append(r, k)].pc = "returned" => TypeOf(r) = "Ensemble"
            /\ act'[Append(r, k)].input = act[Append(r, k)].input

\* The children of r stay as they are.
KidsSame(r) ==
  \A k \in 1..NumSteps(r) :
    /\ Executed(r, k)' <=> Executed(r, k)
    /\ Executed(r, k) => act'[Append(r, k)] = act[Append(r, k)]

\* A node has a sequence of steps.
LEMMA StepsType ==
  ASSUME NEW n \in Nodes
  PROVE  /\ StepsOf[n] \in Seq(StepType)
         /\ Len(StepsOf[n]) \in Nat
         /\ DOMAIN StepsOf[n] = 1..Len(StepsOf[n])
         /\ \A k \in 1..Len(StepsOf[n]) : StepsOf[n][k] \in StepType
         /\ n # NoNode
         /\ RouterType[n] \in {"Sequence", "Switch", "Ensemble"}
  BY GraphAssumption, LenProperties, ElementOfSeq

\* The node of an execution decides what its handler is.
LEMMA NodeKept ==
  ASSUME NEW p, act'[p].node = act[p].node
  PROVE  /\ TypeOf(p)' = TypeOf(p)
         /\ IsPipeline(p)' <=> IsPipeline(p)
         /\ NumSteps(p)' = NumSteps(p)
  BY DEF TypeOf, IsPipeline, NumSteps

LEMMA PipeKept ==
  ASSUME NEW r \in DOMAIN act, RecordOK(r), PipeOK(r),
         act'[r] = act[r], init' = init, KidsKept(r)
  PROVE  PipeOK(r)'
  <1> SUFFICES ASSUME act[r].node \in Nodes, IsPipeline(r)
               PROVE  PipeOK(r)'
    BY NodeKept DEF PipeOK
  <1>1. /\ TypeOf(r)' = TypeOf(r) /\ TypeOf(r) # "Ensemble"
        /\ IsPipeline(r)'
        /\ NumSteps(r)' = NumSteps(r)
    BY NodeKept DEF IsPipeline
  <1>2. NumSteps(r) \in Nat /\ act[r].i \in 1..(NumSteps(r) + 1)
    BY StepsType DEF RecordOK, NumSteps
  <1>3. ASSUME NEW k \in 1..NumSteps(r), Executed(r, k)
        PROVE  /\ act'[Append(r, k)].input = act[Append(r, k)].input
               /\ act'[Append(r, k)] = act[Append(r, k)]
                    \/ (act[r].pc = "wait" /\ k = act[r].i)
    BY <1>1, <1>3 DEF KidsKept, PipeOK, StepOK
  <1>4. \A k \in 1..NumSteps(r) : Executed(r, k)' <=> Executed(r, k)
    BY DEF KidsKept
  <1>5. ASSUME NEW k \in 1..act[r].i
        PROVE  LastResponse(r, k)' = LastResponse(r, k)
    <2>1. ASSUME NEW m \in 1..(k - 1)
          PROVE  /\ Executed(r, m)' <=> Executed(r, m)
                 /\ Executed(r, m) => act'[Append(r, m)] = act[Append(r, m)]
      BY <1>2, <1>3, <1>4
    <2> QED
      BY <1>2, <2>1, LastResponseKept
  <1>6. ASSUME NEW k \in 1..NumSteps(r), Executed(r, k)
        PROVE  StepOK(r, k)'
    <2>1. StepOK(r, k) /\ k \in 1..act[r].i
      BY <1>2, <1>6 DEF PipeOK, StepOK
    <2>2. LastResponse(r, k)' = LastResponse(r, k) /\ initInput(r)' = initInput(r)
      BY <1>5, <2>1 DEF initInput
    <2> QED
      BY <1>1, <1>2, <1>3, <1>6, <2>1, <2>2 DEF StepOK
  <1>7. act[r].pc = "node" => (responseBytes(r) = LastResponse(r, act[r].i))'
    BY <1>2, <1>5 DEF PipeOK, responseBytes
  <1>8. act[r].pc = "wait" => (act[r].bytes = LastResponse(r, act[r].i))'
    BY <1>2, <1>5 DEF PipeOK
  <1>9. act[r].pc = "wait" => (act[r].i <= NumSteps(r) /\ Executed(r, act[r].i))'
    BY <1>1, <1>2, <1>4 DEF PipeOK
  <1> QED
    BY <1>1, <1>4, <1>6, <1>7, <1>8, <1>9 DEF PipeOK

LEMMA EnsKept ==
  ASSUME NEW r \in DOMAIN act, EnsOK(r), act'[r] = act[r], KidsKept(r)
  PROVE  EnsOK(r)'
  <1> SUFFICES ASSUME act[r].node \in Nodes, TypeOf(r) = "Ensemble"
               PROVE  EnsOK(r)'
    BY NodeKept DEF EnsOK
  <1>1. TypeOf(r)' = TypeOf(r) /\ NumSteps(r)' = NumSteps(r)
    BY NodeKept
  <1>2. \A k \in 1..NumSteps(r) :
          /\ Executed(r, k)' <=> Executed(r, k)
          /\ Received(r, k) => /\ Received(r, k)'
                               /\ act'[Append(r, k)] = act[Append(r, k)]
    BY DEF KidsKept, Received
  <1>3. Combined(r) => Combined(r)'
    BY <1>1, <1>2 DEF Combined
  <1> QED
    BY <1>1, <1>2, <1>3 DEF EnsOK

\* Tree, init and the requests that have arrived are left alone.
Quiet == /\ init' = init
         /\ \A q \in Requests : handler[q] # "idle" => handler'[q] # "idle"

LEMMA TreeKept ==
  ASSUME NEW r \in DOMAIN act, TreeOK(r), Quiet, DOMAIN act \subseteq DOMAIN act',
         \A x \in DOMAIN act : act'[x].node = act[x].node
  PROVE  TreeOK(r)'
  <1>1. CASE Len(r) > 1
    <2>1. act'[Parent(r)].node = act[Parent(r)].node
      BY <1>1 DEF TreeOK
    <2>2. NumSteps(Parent(r))' = NumSteps(Parent(r)) /\ Parent(r)' = Parent(r)
      BY <2>1 DEF NumSteps, Parent
    <2> QED
      BY <1>1, <2>1, <2>2 DEF TreeOK, Quiet
  <1>2. CASE ~(Len(r) > 1)
    BY <1>2 DEF TreeOK, Quiet
  <1> QED
    BY <1>1, <1>2

\* Only execution p changes, and keeps its node and its input.
Only(p) ==
  /\ DOMAIN act' = DOMAIN act
  /\ \A r \in DOMAIN act : r # p => act'[r] = act[r]
  /\ act'[p].node = act[p].node
  /\ act'[p].input = act[p].input

LEMMA OnlyKidsSame ==
  ASSUME NEW p \in DOMAIN act, TreeOK(p), RecordOK(p), Only(p), act[p].node \in Nodes
  PROVE  KidsSame(p)
  <1>1. NumSteps(p) \in Nat
    BY StepsType DEF NumSteps
  <1>2. \A k \in 1..NumSteps(p) : Append(p, k) # p
    BY <1>1, ChildPath DEF TreeOK
  <1> QED
    BY <1>2 DEF Only, KidsSame, Executed

LEMMA OnlyKidsKept ==
  ASSUME \A x \in DOMAIN act : ExecOK(x),
         NEW p \in DOMAIN act, Only(p), act[p].pc # "ended",
         act[p].pc = "returned" => Len(p) = 1 \/ TypeOf(Parent(p)) = "Ensemble",
         NEW r \in DOMAIN act, r # p, act[r].node \in Nodes
  PROVE  KidsKept(r)
  <1>1. NumSteps(r) \in Nat /\ r \in Path /\ Len(r) \in Nat /\ Len(r) >= 1
    BY StepsType, LenProperties DEF NumSteps, ExecOK, TreeOK, Path
  <1>2. ASSUME NEW k \in 1..NumSteps(r), Append(r, k) = p
        PROVE  Len(p) # 1 /\ Parent(p) = r
    <2>1. k \in Nat
      BY <1>1
    <2>2. Len(Append(r, k)) = Len(r) + 1 /\ Parent(Append(r, k)) = r
      BY <1>1, <2>1, ChildPath, Zenon
    <2> QED
      BY <1>1, <1>2, <2>2
  <1> QED
    BY <1>2 DEF Only, KidsKept, Executed

\* A step that changes one execution keeps the invariants of all others.
LEMMA SingleStep ==
  ASSUME \A x \in DOMAIN act : ExecOK(x),
         NEW p \in DOMAIN act, Only(p), Quiet, act[p].pc # "ended",
         act[p].pc = "returned" => Len(p) = 1 \/ TypeOf(Parent(p)) = "Ensemble",
         RecordOK(p)', PipeOK(p)', EnsOK(p)'
  PROVE  \A r \in DOMAIN act' : ExecOK(r)'
  <1> SUFFICES ASSUME NEW r \in DOMAIN act PROVE ExecOK(r)'
    BY DEF Only
  <1>1. TreeOK(r)'
    BY TreeKept DEF Only, ExecOK
  <1>2. CASE r = p
    BY <1>1, <1>2 DEF ExecOK
  <1>3. CASE r # p
    <2>1. act'[r] = act[r]
      BY <1>3 DEF Only
    <2>2. RecordOK(r)'
      BY <2>1, NodeKept DEF ExecOK, RecordOK
    <2>3. CASE act[r].node \in Nodes
      <3>1. KidsKept(r)
        BY <1>3, <2>3, OnlyKidsKept
      <3> QED
        BY <1>1, <2>1, <2>2, <3>1, PipeKept, EnsKept DEF ExecOK, Quiet
    <2>4. CASE act[r].node \notin Nodes
      BY <1>1, <2>1, <2>2, <2>4 DEF ExecOK, PipeOK, EnsOK
    <2> QED
      BY <2>3, <2>4
  <1> QED
    BY <1>2, <1>3

\* A pipeline that returns, and moves on from there.
LEMMA PipeReturns ==
  ASSUME NEW p \in DOMAIN act, RecordOK(p), PipeOK(p),
         act[p].node \in Nodes => KidsSame(p), init' = init,
         act'[p].node = act[p].node, act'[p].input = act[p].input,
         act'[p].i = act[p].i,
         act'[p].pc \in {"returned", "result", "error", "ended"},
         act[p].pc = "wait" => act[Child(p)].pc = "returned"
  PROVE  PipeOK(p)'
  <1> SUFFICES ASSUME act[p].node \in Nodes, IsPipeline(p)
               PROVE  PipeOK(p)'
    BY NodeKept DEF PipeOK
  <1>1. /\ TypeOf(p)' = TypeOf(p)
        /\ IsPipeline(p)'
        /\ NumSteps(p)' = NumSteps(p)
    BY NodeKept
  <1>2. NumSteps(p) \in Nat /\ act[p].i \in 1..(NumSteps(p) + 1)
    BY StepsType DEF RecordOK, NumSteps
  <1>3. ASSUME NEW k \in 1..NumSteps(p), Executed(p, k)
        PROVE  StepOK(p, k)'
    <2>1. StepOK(p, k) /\ act'[Append(p, k)] = act[Append(p, k)]
      BY <1>3 DEF PipeOK, KidsSame
    <2>2. act[Append(p, k)].pc = "returned"
      BY <2>1 DEF StepOK, Child
    <2>3. LastResponse(p, k)' = LastResponse(p, k)
      <3>1. \A m \in 1..(k - 1) : m \in 1..NumSteps(p)
        BY <1>2
      <3> QED
        BY <3>1, LastResponseKept DEF KidsSame
    <2> QED
      BY <1>1, <1>2, <2>1, <2>2, <2>3 DEF StepOK, initInput
  <1> QED
    BY <1>1, <1>3 DEF PipeOK, KidsSame

\* An Ensemble that has returned moves on without changing what it returned.
LEMMA EnsMoves ==
  ASSUME NEW p \in DOMAIN act, EnsOK(p), act[p].node \in Nodes => KidsSame(p),
         act'[p].node = act[p].node, act'[p].status = act[p].status,
         act'[p].err = act[p].err, act'[p].body.bytes = act[p].body.bytes,
         act'[p].body.state = "nil" <=> act[p].body.state = "nil",
         act'[p].pc \in {"returned", "result", "error", "ended"}
  PROVE  EnsOK(p)'
  <1> SUFFICES ASSUME act[p].node \in Nodes, TypeOf(p) = "Ensemble"
               PROVE  EnsOK(p)'
    BY NodeKept DEF EnsOK
  <1>1. TypeOf(p)' = TypeOf(p) /\ NumSteps(p)' = NumSteps(p)
    BY NodeKept
  <1>2. Combined(p) => Combined(p)'
    BY <1>1 DEF Combined, Received, KidsSame
  <1> QED
    BY <1>1, <1>2 DEF EnsOK

\* What is not a pipeline, or not an Ensemble, stays so.
LEMMA OtherKind ==
  ASSUME NEW p, act'[p].node = act[p].node
  PROVE  /\ ~(act[p].node \in Nodes /\ IsPipeline(p)) => PipeOK(p)'
         /\ ~(act[p].node \in Nodes /\ TypeOf(p) = "Ensemble") => EnsOK(p)'
  BY NodeKept DEF PipeOK, EnsOK

\* An execution that has just begun, or is cut off at once, has no children and
\* nothing to remember.
LEMMA FreshOK ==
  ASSUME NEW c, NEW n \in NodeNames \cup {NoNode}, NEW input \in Bytes,
         \/ act'[c] = executeStep(n, input)
         \/ act'[c] = [executeStep(n, input) EXCEPT !.pc = "ended"],
         \A k \in Nat : ~Executed(c, k)'
  PROVE  RecordOK(c)' /\ PipeOK(c)' /\ EnsOK(c)'
  <1>1. /\ act'[c].node = n /\ act'[c].i = 1 /\ act'[c].input = input
        /\ act'[c].bytes = Nothing /\ act'[c].body = NilBody
        /\ act'[c].status = 0 /\ act'[c].err = FALSE
        /\ act'[c].pc = (IF n = NoNode THEN "call" ELSE "node") \/ act'[c].pc = "ended"
    BY DEF executeStep
  <1>2. Nothing \in Bytes /\ NilBody \in Body
    BY DEF Nothing, Bytes, Kinds, NilBody, Body
  <1>3. act'[c] \in Execution
    <2>1. executeStep(n, input) \in Execution
      BY <1>2 DEF executeStep, Execution
    <2>2. [executeStep(n, input) EXCEPT !.pc = "ended"] \in Execution
      BY <2>1 DEF Execution
    <2> QED
      BY <2>1, <2>2
  <1>4. n \in Nodes => NumSteps(c)' \in Nat /\ n # NoNode
    BY <1>1, StepsType DEF NumSteps
  <1>5. RecordOK(c)'
    BY <1>1, <1>3, <1>4 DEF RecordOK
  <1>6. LastResponse(c, 1)' = Nothing
    BY DEF LastResponse, Answered
  <1>7. act'[c].body.state = "nil"
    BY <1>1 DEF NilBody
  <1>8. \A k \in 1..NumSteps(c)' : act'[c].node \in Nodes => ~Executed(c, k)'
    BY <1>1, <1>4
  <1>9. responseBytes(c)' = Nothing
    BY <1>1, <1>7 DEF responseBytes
  <1>10. PipeOK(c)'
    BY <1>1, <1>6, <1>8, <1>9 DEF PipeOK
  <1>11. EnsOK(c)'
    BY <1>1, <1>7, <1>8 DEF EnsOK
  <1> QED
    BY <1>5, <1>10, <1>11

\* A node starts steps: p is the only execution that changes, and what is new
\* are children of p that have just begun.
LEMMA SpawnStep ==
  ASSUME \A x \in DOMAIN act : ExecOK(x), Quiet,
         NEW p \in DOMAIN act, act[p].node \in Nodes, act[p].pc = "node",
         NEW C, C \subseteq {Append(p, k) : k \in 1..NumSteps(p)},
         DOMAIN act' = DOMAIN act \cup C, C \cap DOMAIN act = {},
         \A r \in DOMAIN act : r # p => act'[r] = act[r],
         act'[p].node = act[p].node, act'[p].input = act[p].input,
         \A c \in C : \E n \in NodeNames \cup {NoNode} : \E input \in Bytes :
            act'[c] = executeStep(n, input),
         RecordOK(p)', PipeOK(p)', EnsOK(p)'
  PROVE  \A r \in DOMAIN act' : ExecOK(r)'
  <1>1. NumSteps(p) \in Nat /\ p \in Path /\ Len(p) \in Nat /\ Len(p) >= 1
    BY StepsType, LenProperties DEF NumSteps, ExecOK, TreeOK, Path
  <1>2. \A r \in DOMAIN act : TreeOK(r)'
    BY TreeKept DEF ExecOK
  <1>3. ASSUME NEW c \in C
        PROVE  /\ c \in Path /\ c \notin DOMAIN act
               /\ Len(c) = Len(p) + 1 /\ Parent(c) = p
               /\ c[1] = p[1] /\ c[Len(c)] \in 1..NumSteps(p)
    <2>1. PICK k \in 1..NumSteps(p) : c = Append(p, k)
      BY <1>3
    <2>2. k \in Nat
      BY <1>1
    <2>3. /\ Append(p, k) \in Path /\ Len(Append(p, k)) = Len(p) + 1
          /\ Parent(Append(p, k)) = p
          /\ \A m \in 1..Len(p) : Append(p, k)[m] = p[m]
          /\ Append(p, k)[Len(p) + 1] = k
      BY <1>1, <2>2, ChildPath, Zenon
    <2> QED
      BY <1>1, <1>3, <2>1, <2>3
  <1>4. ASSUME NEW c \in C PROVE ExecOK(c)'
    <2>1. ASSUME NEW k \in Nat, Append(c, k) \in DOMAIN act'
          PROVE  FALSE
      <3>1. Parent(Append(c, k)) = c /\ Len(Append(c, k)) = Len(c) + 1
        BY <1>3, <1>4, ChildPath
      <3>2. CASE Append(c, k) \in DOMAIN act
        <4>1. Len(Append(c, k)) > 1 /\ c \notin DOMAIN act
          BY <1>1, <1>3, <1>4, <3>1
        <4>2. Parent(Append(c, k)) \in DOMAIN act
          BY <3>2, <4>1 DEF ExecOK, TreeOK
        <4> QED
          BY <3>1, <4>1, <4>2
      <3>3. CASE Append(c, k) \in C
        BY <1>1, <1>3, <1>4, <3>1, <3>3
      <3> QED
        BY <2>1, <3>2, <3>3
    <2>2. RecordOK(c)' /\ PipeOK(c)' /\ EnsOK(c)'
      BY <1>4, <2>1, FreshOK DEF Executed
    <2>3. TreeOK(c)'
      <3>1. TreeOK(p)' /\ NumSteps(p)' = NumSteps(p)
        BY <1>2, NodeKept
      <3>2. /\ Parent(c)' = p /\ Len(c) > 1 /\ Len(c) >= 1
            /\ c \in Path /\ c[1] = p[1] /\ c[Len(c)] \in 1..NumSteps(p)
        BY <1>1, <1>3, <1>4 DEF Parent
      <3> QED
        BY <3>1, <3>2 DEF TreeOK
    <2> QED
      BY <2>2, <2>3 DEF ExecOK
  <1>5. ASSUME NEW r \in DOMAIN act, r # p PROVE ExecOK(r)'
    <2>1. act'[r] = act[r]
      BY <1>5
    <2>2. RecordOK(r)'
      BY <2>1, NodeKept DEF ExecOK, RecordOK
    <2>3. CASE act[r].node \in Nodes
      <3>1. NumSteps(r) \in Nat /\ r \in Path
        BY <2>3, StepsType DEF NumSteps, ExecOK, TreeOK
      <3>2. \A k \in 1..NumSteps(r) : Append(r, k) \notin C
        BY <1>1, <1>3, <1>5, <3>1, ChildPath
      <3>3. KidsKept(r)
        BY <3>2 DEF KidsKept, Executed
      <3> QED
        BY <1>2, <2>1, <2>2, <3>3, PipeKept, EnsKept DEF ExecOK, Quiet
    <2>4. CASE act[r].node \notin Nodes
      BY <1>2, <2>1, <2>2, <2>4 DEF ExecOK, PipeOK, EnsOK
    <2> QED
      BY <2>3, <2>4
  <1> QED
    BY <1>2, <1>4, <1>5 DEF ExecOK

\* A request arrives: its execution is new, nothing else changes.
LEMMA RootStep ==
  ASSUME \A x \in DOMAIN act : ExecOK(x), Quiet,
         NEW q \in Requests, handler[q] = "idle", handler'[q] # "idle",
         DOMAIN act' = DOMAIN act \cup {<<q>>},
         \A r \in DOMAIN act : r # <<q>> => act'[r] = act[r],
         NEW input \in Bytes,
         \/ act'[<<q>>] = executeStep(Root, input)
         \/ act'[<<q>>] = [executeStep(Root, input) EXCEPT !.pc = "ended"]
  PROVE  \A r \in DOMAIN act' : ExecOK(r)'
  <1>1. <<q>> \in Path /\ Len(<<q>>) = 1 /\ <<q>>[1] = q
    BY DEF Path
  <1>2. <<q>> \notin DOMAIN act
    BY <1>1 DEF ExecOK, TreeOK
  <1>3. \A r \in DOMAIN act : act'[r] = act[r]
    BY <1>2
  <1>4. ExecOK(<<q>>)'
    <2>1. ASSUME NEW k \in Nat, Append(<<q>>, k) \in DOMAIN act'
          PROVE  FALSE
      <3>1. Parent(Append(<<q>>, k)) = <<q>> /\ Len(Append(<<q>>, k)) = 2
        BY <1>1, ChildPath
      <3>2. Append(<<q>>, k) \in DOMAIN act /\ Len(Append(<<q>>, k)) > 1
        BY <1>1, <2>1, <3>1
      <3>3. Parent(Append(<<q>>, k)) \in DOMAIN act
        BY <3>2 DEF ExecOK, TreeOK
      <3> QED
        BY <1>2, <3>1, <3>3
    <2>2. RecordOK(<<q>>)' /\ PipeOK(<<q>>)' /\ EnsOK(<<q>>)'
      BY <2>1, FreshOK, GraphAssumption DEF Executed
    <2> QED
      BY <1>1, <2>2 DEF ExecOK, TreeOK
  <1>5. ASSUME NEW r \in DOMAIN act PROVE ExecOK(r)'
    <2>1. TreeOK(r)'
      BY <1>3, TreeKept DEF ExecOK
    <2>2. RecordOK(r)'
      BY <1>3, NodeKept DEF ExecOK, RecordOK
    <2>3. CASE act[r].node \in Nodes
      <3>1. NumSteps(r) \in Nat /\ r \in Path /\ Len(r) \in Nat /\ Len(r) >= 1
        BY <2>3, StepsType, LenProperties DEF NumSteps, ExecOK, TreeOK, Path
      <3>2. \A k \in 1..NumSteps(r) : Append(r, k) # <<q>>
        BY <1>1, <3>1, ChildPath
      <3>3. KidsKept(r)
        BY <1>3, <3>2 DEF KidsKept, Executed
      <3> QED
        BY <1>3, <2>1, <2>2, <3>3, PipeKept, EnsKept DEF ExecOK, Quiet
    <2>4. CASE act[r].node \notin Nodes
      BY <1>3, <2>1, <2>2, <2>4 DEF ExecOK, PipeOK, EnsOK
    <2> QED
      BY <2>3, <2>4
  <1> QED
    BY <1>4, <1>5
-----------------------------------------------------------------------------
(***************************************************************************)
(* The steps of the pipelines.                                             *)
(***************************************************************************)
\* Close and the bodies that are returned.
LEMMA BodyTypes ==
  /\ Nothing \in Bytes
  /\ NilBody \in Body /\ NilBody.state = "nil"
  /\ \A b \in Body : /\ Close(b) \in Body
                     /\ Close(b).bytes = b.bytes
                     /\ Close(b).state = "nil" <=> b.state = "nil"
                     /\ ReadAll(b) \in Bytes
  BY DEF Nothing, Bytes, Kinds, NilBody, Body, Close, ReadAll

LEMMA ReturnEffect ==
  ASSUME NEW p \in DOMAIN act, act[p] \in Execution,
         NEW body \in Body, NEW status \in Nat, NEW err \in BOOLEAN,
         Return(p, body, status, err)
  PROVE  /\ Only(p)
         /\ act'[p] \in Execution
         /\ act'[p].pc = "returned"
         /\ act'[p].i = act[p].i
         /\ act'[p].body = body /\ act'[p].status = status /\ act'[p].err = err
  BY DEF Return, Only, Execution

\* executeStep or a pipeline returns.
LEMMA ReturnStep ==
  ASSUME \A x \in DOMAIN act : ExecOK(x), Quiet,
         NEW p \in DOMAIN act, act[p].pc \notin {"returned", "ended"},
         act[p].pc = "wait" => act[Child(p)].pc = "returned",
         NEW body \in Body, NEW status \in Nat, NEW err \in BOOLEAN,
         err => status = 500,
         Return(p, body, status, err),
         EnsOK(p)'
  PROVE  \A r \in DOMAIN act' : ExecOK(r)'
  <1>1. TreeOK(p) /\ RecordOK(p) /\ PipeOK(p)
    BY DEF ExecOK
  <1>2. /\ Only(p) /\ act'[p] \in Execution /\ act'[p].pc = "returned"
        /\ act'[p].i = act[p].i /\ act'[p].status = status /\ act'[p].err = err
    BY <1>1, ReturnEffect DEF RecordOK
  <1>3. RecordOK(p)'
    <2>1. act'[p].node = act[p].node
      BY <1>2 DEF Only
    <2> QED
      BY <1>1, <1>2, <2>1, NodeKept DEF RecordOK
  <1>4. PipeOK(p)'
    BY <1>1, <1>2, OnlyKidsSame, PipeReturns DEF Only, Quiet
  <1> QED
    BY <1>2, <1>3, <1>4, SingleStep

\* The same for a step or a node that is no Ensemble.
LEMMA OtherReturns ==
  ASSUME \A x \in DOMAIN act : ExecOK(x), Quiet,
         NEW p \in DOMAIN act, act[p].pc \notin {"returned", "ended"},
         act[p].pc = "wait" => act[Child(p)].pc = "returned",
         TypeOf(p) # "Ensemble",
         NEW body \in Body, NEW status \in Nat, NEW err \in BOOLEAN,
         err => status = 500,
         Return(p, body, status, err)
  PROVE  \A r \in DOMAIN act' : ExecOK(r)'
  <1>1. EnsOK(p)'
    BY ReturnEffect, OtherKind DEF ExecOK, RecordOK, Only
  <1> QED
    BY <1>1, ReturnStep

\* ... and for its failure.
LEMMA FailReturns ==
  ASSUME \A x \in DOMAIN act : ExecOK(x), Quiet,
         NEW p \in DOMAIN act, act[p].pc \notin {"returned", "ended"},
         act[p].pc = "wait" => act[Child(p)].pc = "returned",
         TypeOf(p) # "Ensemble",
         Return(p, NilBody, 500, TRUE)
  PROVE  \A r \in DOMAIN act' : ExecOK(r)'
  <1>1. NilBody \in Body /\ 500 \in Nat /\ TRUE \in BOOLEAN
    BY BodyTypes
  <1>2. TRUE => 500 = 500
    OBVIOUS
  <1> QED
    BY <1>1, <1>2, OtherReturns, Zenon

LEMMA AcquireOK ==
  ASSUME \A x \in DOMAIN act : ExecOK(x), Quiet, NEW p \in DOMAIN act, Acquire(p)
  PROVE  \A r \in DOMAIN act' : ExecOK(r)'
  <1>1. /\ Only(p) /\ act[p].pc = "call" /\ act'[p].pc = "flight"
        /\ act'[p] \in Execution /\ act'[p].i = act[p].i
        /\ act'[p].err = act[p].err /\ act'[p].status = act[p].status
    BY DEF Acquire, Is, Running, ExecOK, RecordOK, Execution, Only
  <1>2. act[p].node = NoNode /\ act[p].node \notin Nodes /\ act'[p].node = NoNode
    BY <1>1, GraphAssumption DEF ExecOK, RecordOK, Only
  <1>3. RecordOK(p)'
    BY <1>1, <1>2 DEF RecordOK, ExecOK
  <1> QED
    BY <1>1, <1>2, <1>3, OtherKind, SingleStep DEF Only

LEMMA callServiceOK ==
  ASSUME \A x \in DOMAIN act : ExecOK(x), Quiet, NEW p \in DOMAIN act,
         NEW answer \in Answers, callService(p, answer)
  PROVE  \A r \in DOMAIN act' : ExecOK(r)'
  <1> DEFINE body == [state |-> IF answer.cut THEN "cut" ELSE "open", mem |-> FALSE,
                      bytes |-> [kind |-> answer.kind, has |-> answer.has, of |-> {p}]]
  <1>1. answer \in AnswerType /\ p \in Path /\ act[p].pc = "flight"
    BY TrafficAssumption DEF callService, Is, ExecOK, TreeOK
  <1>2. TypeOf(p) # "Ensemble"
    BY <1>1, GraphAssumption DEF ExecOK, RecordOK, TypeOf
  <1>3. body \in Body
    BY <1>1 DEF AnswerType, Body, Bytes
  <1>4. CASE answer.refused
    <2>1. Return(p, NilBody, 500, TRUE)
      BY <1>4 DEF callService
    <2> QED
      BY <1>1, <1>2, <2>1, FailReturns
  <1>5. CASE ~answer.refused
    <2>1. Return(p, body, answer.status, FALSE) /\ answer.status \in Nat
      BY <1>1, <1>5 DEF callService, AnswerType
    <2> HIDE DEF body
    <2> QED
      BY <1>1, <1>2, <1>3, <2>1, OtherReturns
  <1> QED
    BY <1>4, <1>5

\* A pipeline that has not returned: what it is at, and what it waits for.
LEMMA AtNode ==
  ASSUME \A x \in DOMAIN act : ExecOK(x), NEW p \in DOMAIN act, InPipeline(p)
  PROVE  /\ act[p].pc = "node" /\ act[p].node \in Nodes
         /\ TypeOf(p) \in {"Sequence", "Switch"}
         /\ act[p] \in Execution /\ NumSteps(p) \in Nat
         /\ act[p].i \in 1..(NumSteps(p) + 1)
         /\ ~Executed(p, act[p].i)
         /\ responseBytes(p) = LastResponse(p, act[p].i)
  <1>1. /\ act[p].pc = "node" /\ act[p].node \in Nodes /\ IsPipeline(p)
        /\ TypeOf(p) \in {"Sequence", "Switch"} /\ act[p] \in Execution
    BY DEF InPipeline, Is, IsPipeline, TypeOf, ExecOK, RecordOK
  <1>2. NumSteps(p) \in Nat /\ act[p].i \in 1..(NumSteps(p) + 1)
    BY <1>1, StepsType DEF ExecOK, RecordOK, NumSteps
  <1>3. ASSUME Executed(p, act[p].i) PROVE FALSE
    <2>1. p \in Path /\ Len(p) \in Nat /\ Len(p) >= 1 /\ act[p].i \in Nat
      BY <1>2, LenProperties DEF ExecOK, TreeOK, Path
    <2>2. /\ Len(Append(p, act[p].i)) > 1
          /\ Append(p, act[p].i)[Len(Append(p, act[p].i))] = act[p].i
          /\ Parent(Append(p, act[p].i)) = p
      BY <2>1, ChildPath
    <2>3. act[p].i \in 1..NumSteps(p)
      BY <1>3, <2>2 DEF Executed, ExecOK, TreeOK
    <2> QED
      BY <1>1, <1>3, <2>3 DEF ExecOK, PipeOK, StepOK
  <1> QED
    BY <1>1, <1>2, <1>3 DEF ExecOK, PipeOK

LEMMA AtWait ==
  ASSUME \A x \in DOMAIN act : ExecOK(x), NEW p \in DOMAIN act, Returned(p)
  PROVE  /\ act[p].pc = "wait" /\ act[p].node \in Nodes
         /\ TypeOf(p) \in {"Sequence", "Switch"}
         /\ act[p] \in Execution /\ NumSteps(p) \in Nat
         /\ act[p].i \in 1..NumSteps(p)
         /\ Child(p) \in DOMAIN act /\ act[Child(p)] \in Execution
         /\ act[Child(p)].pc = "returned"
         /\ act[p].bytes = LastResponse(p, act[p].i)
  <1>1. /\ act[p].pc = "wait" /\ act[p].node \in Nodes /\ IsPipeline(p)
        /\ act[Child(p)].pc = "returned"
        /\ TypeOf(p) \in {"Sequence", "Switch"} /\ act[p] \in Execution
    BY DEF Returned, Is, IsPipeline, ExecOK, RecordOK
  <1>2. NumSteps(p) \in Nat /\ act[p].i \in 1..(NumSteps(p) + 1)
    BY <1>1, StepsType DEF ExecOK, RecordOK, NumSteps
  <1>3. /\ act[p].i <= NumSteps(p) /\ Executed(p, act[p].i)
        /\ act[p].bytes = LastResponse(p, act[p].i)
    BY <1>1 DEF ExecOK, PipeOK
  <1>4. Child(p) \in DOMAIN act /\ act[Child(p)] \in Execution
    BY <1>3 DEF Child, Executed, ExecOK, RecordOK
  <1> QED
    BY <1>1, <1>2, <1>3, <1>4

\* The ways a pipeline, or routeStep, fails.
LEMMA FailuresOK ==
  ASSUME \A x \in DOMAIN act : ExecOK(x), Quiet, NEW p \in DOMAIN act,
         \/ InvalidInput(p) \/ InvalidRouteType(p) \/ ReadFails(p)
         \/ ConditionInvalid(p) \/ StepFails(p)
  PROVE  \A r \in DOMAIN act' : ExecOK(r)'
  <1>1. Return(p, NilBody, 500, TRUE)
    BY DEF InvalidInput, InvalidRouteType, ReadFails, ConditionInvalid, StepFails
  <1>2. CASE StepFails(p)
    <2>1. Returned(p)
      BY <1>2 DEF StepFails
    <2>2. act[p].pc = "wait" /\ TypeOf(p) # "Ensemble" /\ act[Child(p)].pc = "returned"
      BY <2>1, AtWait
    <2> QED
      BY <1>1, <2>2, FailReturns
  <1>3. CASE ~StepFails(p)
    <2>1. act[p].pc = "node" /\ TypeOf(p) # "Ensemble"
      BY <1>3 DEF InvalidInput, InvalidRouteType, ReadFails, ConditionInvalid,
                  HasRead, HasMerged, AtStep, InPipeline, IsPipeline, Is
    <2> QED
      BY <1>1, <2>1, FailReturns
  <1> QED
    BY <1>2, <1>3

LEMMA ConditionUnmatchedOK ==
  ASSUME \A x \in DOMAIN act : ExecOK(x), Quiet, NEW p \in DOMAIN act,
         ConditionUnmatched(p)
  PROVE  \A r \in DOMAIN act' : ExecOK(r)'
  <1>1. InPipeline(p) /\ Return(p, Close(act[p].body), 500, FALSE)
    BY DEF ConditionUnmatched, HasRead, HasMerged, AtStep
  <1>2. act[p].pc = "node" /\ TypeOf(p) # "Ensemble" /\ act[p].body \in Body
    BY <1>1, AtNode DEF Execution
  <1>3. Close(act[p].body) \in Body /\ 500 \in Nat
    BY <1>2, BodyTypes
  <1> QED
    BY <1>1, <1>2, <1>3, OtherReturns

LEMMA HardStepFailsOK ==
  ASSUME \A x \in DOMAIN act : ExecOK(x), Quiet, NEW p \in DOMAIN act,
         HardStepFails(p)
  PROVE  \A r \in DOMAIN act' : ExecOK(r)'
  <1>1. Returned(p) /\ Return(p, act[Child(p)].body, act[Child(p)].status, FALSE)
    BY DEF HardStepFails
  <1>2. /\ act[p].pc = "wait" /\ TypeOf(p) # "Ensemble" /\ act[Child(p)].pc = "returned"
        /\ act[Child(p)].body \in Body /\ act[Child(p)].status \in Nat
    BY <1>1, AtWait DEF Execution
  <1> QED
    BY <1>1, <1>2, OtherReturns

LEMMA PipelineEndsOK ==
  ASSUME \A x \in DOMAIN act : ExecOK(x), Quiet, NEW p \in DOMAIN act,
         PipelineEnds(p)
  PROVE  \A r \in DOMAIN act' : ExecOK(r)'
  <1>1. InPipeline(p) /\ Return(p, act[p].body, act[p].status, FALSE)
    BY DEF PipelineEnds
  <1>2. /\ act[p].pc = "node" /\ TypeOf(p) # "Ensemble"
        /\ act[p].body \in Body /\ act[p].status \in Nat
    BY <1>1, AtNode DEF Execution
  <1> QED
    BY <1>1, <1>2, OtherReturns

\* The loop of a pipeline goes on with the next step.
LEMMA LoopGoesOn ==
  ASSUME \A x \in DOMAIN act : ExecOK(x), Quiet, NEW p \in DOMAIN act,
         act[p].node \in Nodes, IsPipeline(p), act[p].pc \in {"node", "wait"},
         act[p].i \in 1..NumSteps(p), Only(p),
         act'[p] \in Execution, act'[p].pc = "node", act'[p].i = act[p].i + 1,
         ~act'[p].err,
         responseBytes(p)' = LastResponse(p, act[p].i + 1),
         Executed(p, act[p].i) =>
           /\ act[Child(p)].pc = "returned"
           /\ ~act[Child(p)].err
           /\ TypeOf(p) = "Sequence" => ~HardFailure(step(p), act[Child(p)].status)
  PROVE  \A r \in DOMAIN act' : ExecOK(r)'
  <1>1. TreeOK(p) /\ RecordOK(p) /\ PipeOK(p) /\ NumSteps(p) \in Nat
    BY StepsType DEF ExecOK, NumSteps
  <1>2. /\ act'[p].node = act[p].node /\ act'[p].input = act[p].input
        /\ TypeOf(p)' = TypeOf(p) /\ TypeOf(p) # "Ensemble"
        /\ IsPipeline(p)' /\ NumSteps(p)' = NumSteps(p)
    BY NodeKept DEF Only, IsPipeline
  <1>3. KidsSame(p)
    BY <1>1, OnlyKidsSame
  <1>4. RecordOK(p)'
    BY <1>1, <1>2, StepsType DEF RecordOK
  <1>5. ASSUME NEW k \in 1..(act[p].i + 1)
        PROVE  LastResponse(p, k)' = LastResponse(p, k)
    <2>1. \A m \in 1..(k - 1) : m \in 1..NumSteps(p)
      BY <1>1
    <2> QED
      BY <1>3, <2>1, LastResponseKept DEF KidsSame
  <1>6. ASSUME NEW k \in 1..NumSteps(p), Executed(p, k)
        PROVE  StepOK(p, k)'
    <2>1. StepOK(p, k) /\ act'[Append(p, k)] = act[Append(p, k)]
      BY <1>1, <1>2, <1>3, <1>6 DEF PipeOK, KidsSame
    <2>2. k \in 1..act[p].i
      BY <1>1, <2>1 DEF StepOK
    <2>3. /\ act[Append(p, k)].pc = "returned"
          /\ ~act[Append(p, k)].err
          /\ TypeOf(p) = "Sequence" =>
               ~HardFailure(StepsOf[act[p].node][k], act[Append(p, k)].status)
      <3>1. CASE k = act[p].i
        BY <1>6, <3>1 DEF Child, step
      <3>2. CASE k # act[p].i
        BY <2>1, <2>2, <3>2 DEF StepOK
      <3> QED
        BY <3>1, <3>2
    <2>4. LastResponse(p, k)' = LastResponse(p, k) /\ initInput(p)' = initInput(p)
      BY <1>5, <2>2 DEF initInput, Quiet
    <2> QED
      BY <1>2, <2>1, <2>2, <2>3, <2>4 DEF StepOK
  <1>7. PipeOK(p)'
    BY <1>2, <1>3, <1>5, <1>6 DEF PipeOK, KidsSame
  <1>8. EnsOK(p)'
    BY <1>2, OtherKind
  <1> QED
    BY <1>4, <1>7, <1>8, SingleStep

LEMMA SkipStepOK ==
  ASSUME \A x \in DOMAIN act : ExecOK(x), Quiet, NEW p \in DOMAIN act, SkipStep(p)
  PROVE  \A r \in DOMAIN act' : ExecOK(r)'
  <1>1. InPipeline(p) /\ act[p].i <= NumSteps(p)
    BY DEF SkipStep
  <1>2. /\ act[p].pc = "node" /\ act[p].node \in Nodes /\ IsPipeline(p)
        /\ act[p] \in Execution /\ NumSteps(p) \in Nat
        /\ act[p].i \in 1..NumSteps(p) /\ ~Executed(p, act[p].i)
        /\ responseBytes(p) = LastResponse(p, act[p].i)
    BY <1>1, AtNode DEF IsPipeline
  <1>3. /\ Only(p) /\ act'[p] \in Execution /\ act'[p].pc = "node"
        /\ act'[p].i = act[p].i + 1
        /\ act'[p].err = act[p].err /\ act'[p].status = act[p].status
        /\ act'[p].body = act[p].body /\ act'[p].bytes = act[p].bytes
    BY <1>2 DEF SkipStep, Only, Execution
  <1>4. responseBytes(p)' = LastResponse(p, act[p].i + 1)
    <2>1. LastResponse(p, act[p].i + 1) = LastResponse(p, act[p].i)
      BY <1>2, LastResponseNext
    <2>2. responseBytes(p)' = responseBytes(p)
      BY <1>3 DEF responseBytes
    <2> QED
      BY <1>2, <2>1, <2>2
  <1>5. ~act'[p].err
    BY <1>2, <1>3 DEF ExecOK, RecordOK
  <1> QED
    BY <1>2, <1>3, <1>4, <1>5, LoopGoesOn

LEMMA StepEndsOK ==
  ASSUME \A x \in DOMAIN act : ExecOK(x), Quiet, NEW p \in DOMAIN act, StepEnds(p)
  PROVE  \A r \in DOMAIN act' : ExecOK(r)'
  <1>1. Returned(p) /\ ~act[Child(p)].err /\ ~StopsAt(p)
    BY DEF StepEnds
  <1>2. /\ act[p].pc = "wait" /\ act[p].node \in Nodes /\ IsPipeline(p)
        /\ act[p] \in Execution /\ NumSteps(p) \in Nat
        /\ act[p].i \in 1..NumSteps(p)
        /\ Child(p) \in DOMAIN act /\ act[Child(p)] \in Execution
        /\ act[Child(p)].pc = "returned"
        /\ act[p].bytes = LastResponse(p, act[p].i)
    BY <1>1, AtWait DEF IsPipeline
  <1>3. /\ act[Child(p)].body \in Body /\ act[Child(p)].status \in Nat
    BY <1>2 DEF Execution
  <1>4. /\ Only(p) /\ act'[p] \in Execution /\ act'[p].pc = "node"
        /\ act'[p].i = act[p].i + 1
        /\ act'[p].err = act[p].err
        /\ act'[p].body = act[Child(p)].body /\ act'[p].bytes = act[p].bytes
    BY <1>2, <1>3 DEF StepEnds, Only, Execution
  <1>5. responseBytes(p)' = LastResponse(p, act[p].i + 1)
    <2>1. LastResponse(p, act[p].i + 1) =
            IF act[Child(p)].body.state # "nil" THEN ReadAll(act[Child(p)].body)
            ELSE LastResponse(p, act[p].i)
      BY <1>2, LastResponseNext DEF Child, Executed
    <2> QED
      BY <1>2, <1>4, <2>1 DEF responseBytes
  <1>6. ~act'[p].err
    BY <1>2, <1>4 DEF ExecOK, RecordOK
  <1>7. TypeOf(p) = "Sequence" => ~HardFailure(step(p), act[Child(p)].status)
    BY <1>1 DEF StopsAt
  <1> QED
    BY <1>1, <1>2, <1>4, <1>5, <1>6, <1>7, LoopGoesOn

LEMMA ExecuteNextOK ==
  ASSUME \A x \in DOMAIN act : ExecOK(x), Quiet, WriterOK, NEW p \in DOMAIN act,
         ExecuteNext(p)
  PROVE  \A r \in DOMAIN act' : ExecOK(r)'
  <1>1. InPipeline(p) /\ act[p].i <= NumSteps(p)
    BY DEF ExecuteNext, HasRead, HasMerged, AtStep
  <1>2. /\ act[p].pc = "node" /\ act[p].node \in Nodes /\ IsPipeline(p)
        /\ TypeOf(p) # "Ensemble"
        /\ act[p] \in Execution /\ NumSteps(p) \in Nat
        /\ act[p].i \in 1..NumSteps(p) /\ ~Executed(p, act[p].i)
        /\ responseBytes(p) = LastResponse(p, act[p].i)
    BY <1>1, AtNode DEF IsPipeline
  <1>3. /\ p \in Path /\ Len(p) \in Nat /\ act[p].i \in Nat
        /\ ~act[p].err /\ TreeOK(p) /\ RecordOK(p) /\ PipeOK(p)
    BY <1>2, LenProperties DEF ExecOK, TreeOK, RecordOK, Path
  <1>4. Child(p) \notin DOMAIN act /\ Child(p) # p
    BY <1>2, <1>3, ChildPath DEF Executed, Child
  <1>5. /\ act'[Child(p)] = executeStep(step(p).nodeName, request(p))
        /\ act'[p] = [act[p] EXCEPT !.pc = "wait", !.bytes = responseBytes(p),
                                    !.body = Close(@)]
        /\ DOMAIN act' = DOMAIN act \cup {Child(p)}
        /\ \A r \in DOMAIN act : r # p => act'[r] = act[r]
    BY <1>4 DEF ExecuteNext
  <1>6. step(p) \in StepType
    BY <1>2, StepsType DEF step, NumSteps
  <1>7. responseBytes(p) \in Bytes /\ Close(act[p].body) \in Body
    BY <1>2, BodyTypes DEF responseBytes, Execution
  <1>8. /\ request(p) \in Bytes
        /\ request(p) = IF step(p).response /\ act[p].i > 1
                        THEN mergeRequests(LastResponse(p, act[p].i), initInput(p))
                        ELSE act[p].input
    BY <1>2, <1>7, BodyTypes DEF request, Merges, mergeRequests, Execution
  <1>9. /\ act'[p] \in Execution /\ act'[p].pc = "wait" /\ act'[p].i = act[p].i
        /\ act'[p].node = act[p].node /\ act'[p].input = act[p].input
        /\ act'[p].bytes = responseBytes(p) /\ ~act'[p].err
    BY <1>2, <1>3, <1>5, <1>7 DEF Execution
  <1>10. act'[Child(p)].input = request(p)
    BY <1>5 DEF executeStep
  <1>11. /\ TypeOf(p)' = TypeOf(p) /\ IsPipeline(p)'
         /\ NumSteps(p)' = NumSteps(p)
    BY <1>2, <1>9, NodeKept
  <1>12. RecordOK(p)'
    BY <1>2, <1>3, <1>9, <1>11 DEF RecordOK
  <1>13. ASSUME NEW k \in 1..NumSteps(p)
         PROVE  /\ Executed(p, k)' <=> Executed(p, k) \/ k = act[p].i
                /\ k # act[p].i /\ Executed(p, k) =>
                     act'[Append(p, k)] = act[Append(p, k)]
    <2>1. Append(p, k) # p /\ (Append(p, k) = Child(p) <=> k = act[p].i)
      <3>1. k \in Nat /\ Append(p, k) # p
        BY <1>2, <1>3, ChildPath
      <3>2. Append(p, k) = Append(p, act[p].i) => k = act[p].i
        BY <1>3, <3>1, SameChild
      <3> QED
        BY <3>1, <3>2 DEF Child
    <2> QED
      BY <1>5, <2>1 DEF Executed
  <1>14. ASSUME NEW k \in 1..act[p].i
         PROVE  LastResponse(p, k)' = LastResponse(p, k)
    <2>1. \A m \in 1..(k - 1) : m \in 1..NumSteps(p) /\ m # act[p].i
      BY <1>2
    <2> QED
      BY <1>13, <2>1, LastResponseKept
  <1>15. initInput(p)' = initInput(p)
    BY DEF initInput, Quiet
  <1>16. ASSUME NEW k \in 1..NumSteps(p), Executed(p, k)'
         PROVE  StepOK(p, k)'
    <2>1. CASE k = act[p].i
      <3>1. act'[Append(p, k)].input = request(p) /\ step(p) = StepsOf[act[p].node][k]
        BY <1>10, <2>1 DEF Child, step
      <3> QED
        BY <1>2, <1>8, <1>9, <1>14, <1>15, <2>1, <3>1 DEF StepOK
    <2>2. CASE k # act[p].i
      <3>1. StepOK(p, k) /\ act'[Append(p, k)] = act[Append(p, k)] /\ k \in 1..act[p].i
        BY <1>2, <1>3, <1>13, <1>16, <2>2 DEF PipeOK, StepOK
      <3> QED
        BY <1>2, <1>9, <1>11, <1>14, <1>15, <2>2, <3>1 DEF StepOK
    <2> QED
      BY <2>1, <2>2
  <1>17. PipeOK(p)'
    BY <1>2, <1>9, <1>11, <1>13, <1>14, <1>16 DEF PipeOK
  <1>18. EnsOK(p)'
    BY <1>2, <1>9, OtherKind
  <1>19. step(p).nodeName \in NodeNames \cup {NoNode}
    BY <1>6 DEF StepType
  <1> DEFINE C == {Child(p)}
  <1>20. /\ C \subseteq {Append(p, k) : k \in 1..NumSteps(p)}
         /\ DOMAIN act' = DOMAIN act \cup C /\ C \cap DOMAIN act = {}
         /\ \A c \in C : \E n \in NodeNames \cup {NoNode} : \E input \in Bytes :
              act'[c] = executeStep(n, input)
    BY <1>2, <1>4, <1>5, <1>8, <1>19 DEF Child
  <1> HIDE DEF C
  <1> QED
    BY <1>2, <1>5, <1>9, <1>12, <1>17, <1>18, <1>20, SpawnStep

LEMMA StartEnsembleOK ==
  ASSUME \A x \in DOMAIN act : ExecOK(x), Quiet, NEW p \in DOMAIN act,
         StartEnsemble(p)
  PROVE  \A r \in DOMAIN act' : ExecOK(r)'
  <1> DEFINE C == {Append(p, k) : k \in 1..NumSteps(p)}
  <1>1. act[p].pc = "node" /\ TypeOf(p) = "Ensemble"
    BY DEF StartEnsemble, Is
  <1>2. act[p].node \in Nodes /\ NumSteps(p) \in Nat
    BY <1>1, StepsType DEF TypeOf, NumSteps
  <1>3. /\ p \in Path /\ act[p] \in Execution /\ ~act[p].err
        /\ TreeOK(p) /\ RecordOK(p) /\ EnsOK(p)
    BY <1>1 DEF ExecOK, TreeOK, RecordOK
  <1>4. /\ C \cap DOMAIN act = {} /\ p \notin C
        /\ \A k \in 1..NumSteps(p) : Append(p, k)[Len(Append(p, k))] = k
    <2>1. ASSUME NEW k \in 1..NumSteps(p)
          PROVE  /\ Append(p, k) \notin DOMAIN act /\ Append(p, k) # p
                 /\ Append(p, k)[Len(Append(p, k))] = k
      <3>1. k \in Nat
        BY <1>2
      <3>2. /\ Append(p, k) # p
            /\ Len(Append(p, k)) = Len(p) + 1 /\ Append(p, k)[Len(p) + 1] = k
        BY <1>3, <3>1, ChildPath, Zenon
      <3>3. ~Executed(p, k)
        BY <1>1, <1>2, <1>3 DEF EnsOK
      <3> QED
        BY <3>2, <3>3 DEF Executed
    <2> QED
      BY <2>1
  <1>5. /\ DOMAIN act' = DOMAIN act \cup C
        /\ \A c \in C : act'[c] =
             executeStep(StepsOf[act[p].node][c[Len(c)]].nodeName, act[p].input)
        /\ act'[p] = [act[p] EXCEPT !.pc = "collect"]
        /\ \A r \in DOMAIN act : r # p => act'[r] = act[r]
    BY <1>4 DEF StartEnsemble
  <1>6. /\ act'[p] \in Execution /\ act'[p].pc = "collect" /\ act'[p].i = act[p].i
        /\ act'[p].node = act[p].node /\ act'[p].input = act[p].input
        /\ act'[p].body = act[p].body /\ ~act'[p].err
    BY <1>3, <1>5 DEF Execution
  <1>7. TypeOf(p)' = TypeOf(p) /\ NumSteps(p)' = NumSteps(p)
    BY <1>6, NodeKept
  <1>8. RecordOK(p)'
    BY <1>1, <1>2, <1>3, <1>6, <1>7 DEF RecordOK
  <1>9. PipeOK(p)'
    BY <1>1, <1>6, OtherKind DEF IsPipeline
  <1>10. ASSUME NEW c \in C
         PROVE  \E n \in NodeNames \cup {NoNode} : \E input \in Bytes :
                  act'[c] = executeStep(n, input)
    <2>1. c[Len(c)] \in 1..NumSteps(p)
      BY <1>4, <1>10
    <2>2. StepsOf[act[p].node][c[Len(c)]].nodeName \in NodeNames \cup {NoNode}
      BY <1>2, <2>1, StepsType DEF StepType, NumSteps
    <2>3. act[p].input \in Bytes
      BY <1>3 DEF Execution
    <2> QED
      BY <1>5, <1>10, <2>2, <2>3
  <1>11. EnsOK(p)'
    <2>1. act[p].i = 1
      BY <1>1, <1>2, <1>3 DEF EnsOK
    <2> QED
      BY <1>1, <1>2, <1>3, <1>5, <1>6, <1>7, <2>1 DEF EnsOK, Executed
  <1>12. C \subseteq {Append(p, k) : k \in 1..NumSteps(p)}
    OBVIOUS
  <1> HIDE DEF C
  <1> QED
    BY <1>1, <1>2, <1>4, <1>5, <1>6, <1>8, <1>9, <1>10, <1>11, <1>12, SpawnStep

\* What has returned moves on without changing what it returned.
LEMMA MoveStep ==
  ASSUME \A x \in DOMAIN act : ExecOK(x), Quiet, NEW p \in DOMAIN act, Only(p),
         act[p].pc = "returned", Len(p) = 1 \/ TypeOf(Parent(p)) = "Ensemble",
         act'[p] \in Execution, act'[p].pc \in {"result", "error", "ended"},
         act[p].err => act'[p].pc = "ended",
         act'[p].i = act[p].i, act'[p].status = act[p].status,
         act'[p].err = act[p].err, act'[p].body.bytes = act[p].body.bytes,
         act'[p].body.state = "nil" <=> act[p].body.state = "nil"
  PROVE  \A r \in DOMAIN act' : ExecOK(r)'
  <1>1. TreeOK(p) /\ RecordOK(p) /\ PipeOK(p) /\ EnsOK(p)
    BY DEF ExecOK
  <1>2. act'[p].node = act[p].node
    BY DEF Only
  <1>3. act[p].node \in Nodes => KidsSame(p)
    BY <1>1, OnlyKidsSame
  <1>4. RecordOK(p)'
    BY <1>1, <1>2, NodeKept DEF RecordOK
  <1>5. PipeOK(p)'
    BY <1>1, <1>3, PipeReturns DEF Only, Quiet
  <1>6. EnsOK(p)'
    BY <1>1, <1>2, <1>3, EnsMoves
  <1> QED
    BY <1>4, <1>5, <1>6, SingleStep

LEMMA GoroutineReadsOK ==
  ASSUME \A x \in DOMAIN act : ExecOK(x), Quiet, NEW p \in DOMAIN act,
         GoroutineReads(p)
  PROVE  \A r \in DOMAIN act' : ExecOK(r)'
  <1>1. /\ act[p] \in Execution /\ act[p].pc = "returned" /\ ~act[p].err
        /\ TypeOf(Parent(p)) = "Ensemble"
    BY DEF GoroutineReads, InGoroutine, Is, ExecOK, RecordOK
  <1>2. /\ act[p].body \in Body /\ Close(act[p].body) \in Body
        /\ Close(act[p].body).bytes = act[p].body.bytes
        /\ Close(act[p].body).state = "nil" <=> act[p].body.state = "nil"
    BY <1>1, BodyTypes DEF Execution
  <1>3. \/ act' = [act EXCEPT ![p].pc = "result"]
        \/ act' = [act EXCEPT ![p].pc = "error", ![p].body = Close(@)]
    BY DEF GoroutineReads
  <1>4. /\ Only(p) /\ act'[p] \in Execution /\ act'[p].pc \in {"result", "error"}
        /\ act'[p].i = act[p].i /\ act'[p].status = act[p].status
        /\ act'[p].err = act[p].err
        /\ act'[p].body = act[p].body \/ act'[p].body = Close(act[p].body)
    <2>1. CASE act' = [act EXCEPT ![p].pc = "result"]
      BY <1>1, <2>1 DEF Only, Execution
    <2>2. CASE act' = [act EXCEPT ![p].pc = "error", ![p].body = Close(@)]
      BY <1>1, <1>2, <2>2 DEF Only, Execution
    <2> QED
      BY <1>3, <2>1, <2>2
  <1>5. /\ act'[p].body.bytes = act[p].body.bytes
        /\ act'[p].body.state = "nil" <=> act[p].body.state = "nil"
    BY <1>2, <1>4
  <1> QED
    BY <1>1, <1>4, <1>5, MoveStep

LEMMA EndOK ==
  ASSUME \A x \in DOMAIN act : ExecOK(x), Quiet, NEW q \in Requests,
         Is(<<q>>, "returned"), End(q)
  PROVE  \A r \in DOMAIN act' : ExecOK(r)'
  <1>1. <<q>> \in DOMAIN act /\ act[<<q>>] \in Execution /\ act[<<q>>].pc = "returned"
    BY DEF Is, Running, ExecOK, RecordOK
  <1>2. /\ Only(<<q>>) /\ act'[<<q>>] \in Execution /\ act'[<<q>>].pc = "ended"
        /\ act'[<<q>>].i = act[<<q>>].i /\ act'[<<q>>].status = act[<<q>>].status
        /\ act'[<<q>>].err = act[<<q>>].err /\ act'[<<q>>].body = act[<<q>>].body
    BY <1>1 DEF End, Only, Execution
  <1>3. Len(<<q>>) = 1
    OBVIOUS
  <1> QED
    BY <1>1, <1>2, <1>3, MoveStep

LEMMA EnsembleEndsOK ==
  ASSUME \A x \in DOMAIN act : ExecOK(x), Quiet, NEW p \in DOMAIN act,
         EnsembleEnds(p)
  PROVE  \A r \in DOMAIN act' : ExecOK(r)'
  <1>1. act[p].pc = "collect" /\ act[p].i > NumSteps(p) /\ act[p] \in Execution
    BY DEF EnsembleEnds, Is, ExecOK, RecordOK
  <1>2. /\ act[p].node \in Nodes /\ TypeOf(p) = "Ensemble" /\ NumSteps(p) \in Nat
        /\ TreeOK(p) /\ RecordOK(p) /\ EnsOK(p)
    BY <1>1, StepsType DEF ExecOK, RecordOK, NumSteps
  <1>3. \A k \in 1..NumSteps(p) : Received(p, k)
    BY <1>1, <1>2 DEF EnsOK, RecordOK
  <1> DEFINE kept == KeptSteps(StepsOf[act[p].node])
             of == UNION {act[Append(p, k)].body.bytes.of : k \in kept}
  <1>4. kept \subseteq 1..NumSteps(p)
    BY <1>2, StepsType DEF KeptSteps, NumSteps
  <1>5. of \in SUBSET Path
    BY <1>3, <1>4 DEF Received, Executed, ExecOK, RecordOK, Execution, Body, Bytes
  <1>6. PICK has \in SUBSET Conditions :
          Return(p, [state |-> "open", mem |-> TRUE,
                     bytes |-> [kind |-> "object", has |-> has, of |-> of]], 200, FALSE)
    BY DEF EnsembleEnds
  <1> DEFINE body == [state |-> "open", mem |-> TRUE,
                      bytes |-> [kind |-> "object", has |-> has, of |-> of]]
  <1>7. body \in Body /\ body.bytes.of = of
    BY <1>5 DEF Body, Bytes, Kinds
  <1>8. \A k \in kept : act[Append(p, k)].body.bytes.of \subseteq of
    OBVIOUS
  <1> HIDE DEF body, of
  <1>9. Return(p, body, 200, FALSE)
    BY <1>6 DEF body
  <1>10. /\ Only(p) /\ act'[p].pc = "returned" /\ act'[p].i = act[p].i
         /\ act'[p].body = body /\ act'[p].node = act[p].node
    BY <1>1, <1>7, <1>9, ReturnEffect DEF Only
  <1>11. /\ KidsSame(p) /\ TypeOf(p)' = TypeOf(p) /\ NumSteps(p)' = NumSteps(p)
         /\ KeptSteps(StepsOf[act[p].node])' = kept
    BY <1>2, <1>10, OnlyKidsSame, NodeKept
  <1>12. EnsOK(p)'
    <2>1. ASSUME NEW k \in 1..NumSteps(p)
          PROVE  /\ Received(p, k)'
                 /\ k \in kept => act'[Append(p, k)].body.bytes.of \subseteq of
      BY <1>3, <1>8, <1>11 DEF Received, KidsSame
    <2>2. Combined(p)'
      BY <1>7, <1>10, <1>11, <2>1 DEF Combined
    <2> QED
      BY <1>10, <2>2 DEF EnsOK
  <1> QED
    BY <1>1, <1>7, <1>9, <1>12, ReturnStep

\* An Ensemble receives from the goroutine of step k, which ends.
LEMMA ReceiveStep ==
  ASSUME \A x \in DOMAIN act : ExecOK(x), Quiet,
         NEW p \in DOMAIN act, act[p].pc = "collect",
         NEW k \in 1..NumSteps(p), Append(p, k) \in DOMAIN act,
         act[Append(p, k)].pc \in {"result", "error"},
         DOMAIN act' = DOMAIN act,
         act'[Append(p, k)] = [act[Append(p, k)] EXCEPT !.pc = "ended"],
         \A r \in DOMAIN act : r # p /\ r # Append(p, k) => act'[r] = act[r],
         act'[p] \in Execution, act'[p].pc \in {"collect", "returned"},
         act'[p].node = act[p].node, act'[p].input = act[p].input,
         act'[p].i \in 1..(NumSteps(p) + 1),
         act'[p].err => act'[p].status = 500 /\ act'[p].pc = "returned",
         act'[p].pc = "collect" =>
           k = act[p].i /\ act'[p].i = act[p].i + 1 /\ act'[p].body = act[p].body,
         act'[p].body.state # "nil" /\ ~act'[p].err =>
           /\ HardFailure(StepsOf[act[p].node][k], act'[p].status)
           /\ act'[p].body.bytes.of = act[Append(p, k)].body.bytes.of
  PROVE  \A r \in DOMAIN act' : ExecOK(r)'
  <1> DEFINE c == Append(p, k)
  <1>1. /\ act[p].node \in Nodes /\ TypeOf(p) = "Ensemble" /\ NumSteps(p) \in Nat
        /\ TreeOK(p) /\ RecordOK(p) /\ EnsOK(p)
        /\ p \in Path /\ Len(p) \in Nat /\ Len(p) >= 1 /\ k \in Nat
    BY StepsType, LenProperties DEF ExecOK, RecordOK, TreeOK, NumSteps, Path
  <1>2. /\ c \in Path /\ Len(c) = Len(p) + 1 /\ Parent(c) = p /\ c # p
    BY <1>1, ChildPath
  <1>3. /\ act[c] \in Execution /\ RecordOK(c) /\ PipeOK(c) /\ EnsOK(c) /\ TreeOK(c)
        /\ ~act[c].err
    BY DEF ExecOK, RecordOK
  <1>4. /\ DOMAIN act' = DOMAIN act
        /\ act'[c] = [act[c] EXCEPT !.pc = "ended"]
        /\ \A r \in DOMAIN act : r # p /\ r # c => act'[r] = act[r]
    OBVIOUS
  <1>5. /\ act'[c] \in Execution /\ act'[c].pc = "ended" /\ act'[c].node = act[c].node
        /\ act'[c].i = act[c].i /\ act'[c].input = act[c].input
        /\ act'[c].body = act[c].body /\ act'[c].status = act[c].status
        /\ act'[c].err = act[c].err
    BY <1>3, <1>4 DEF Execution
  <1> HIDE DEF c
  <1>6. \A r \in DOMAIN act : act'[r].node = act[r].node
    BY <1>4, <1>5
  <1>7. \A r \in DOMAIN act : TreeOK(r)'
    BY <1>4, <1>6, TreeKept DEF ExecOK
  <1>8. ExecOK(p)'
    <2>1. /\ TypeOf(p)' = TypeOf(p) /\ NumSteps(p)' = NumSteps(p)
          /\ ~IsPipeline(p)'
      BY <1>1, NodeKept DEF IsPipeline
    <2>2. RecordOK(p)'
      BY <1>1, <2>1 DEF RecordOK
    <2>3. PipeOK(p)'
      BY <2>1 DEF PipeOK
    <2>4. ASSUME NEW m \in 1..NumSteps(p)
          PROVE  /\ Executed(p, m)' <=> Executed(p, m)
                 /\ Received(p, m) => Received(p, m)'
      <3>1. Append(p, m) # p
        BY <1>1, ChildPath
      <3> QED
        BY <1>4, <1>5, <3>1 DEF Executed, Received
    <2>5. Received(p, k)' /\ act'[Append(p, k)].body = act[Append(p, k)].body
      BY <1>4, <1>5 DEF Executed, Received, c
    <2>6. EnsOK(p)'
      <3>1. act'[p].pc = "collect" => \A m \in 1..NumSteps(p) :
               Executed(p, m)' /\ (m < act'[p].i => Received(p, m)')
        <4> SUFFICES ASSUME act'[p].pc = "collect", NEW m \in 1..NumSteps(p)
                     PROVE  Executed(p, m)' /\ (m < act'[p].i => Received(p, m)')
          OBVIOUS
        <4>1. Executed(p, m) /\ (m < act[p].i => Received(p, m))
          BY <1>1 DEF EnsOK
        <4>2. m < act'[p].i => m < act[p].i \/ m = k
          BY <1>1 DEF RecordOK
        <4> QED
          BY <2>4, <2>5, <4>1, <4>2
      <3>2. act'[p].body.state # "nil" /\ ~act'[p].err => Combined(p)'
        <4> SUFFICES ASSUME act'[p].body.state # "nil", ~act'[p].err
                     PROVE  Combined(p)'
          OBVIOUS
        <4>1. /\ k \in 1..NumSteps(p)' /\ Received(p, k)'
              /\ HardFailure(StepsOf[act'[p].node][k], act'[p].status)
              /\ act'[p].body.bytes.of = act'[Append(p, k)].body.bytes.of
          BY <2>1, <2>5
        <4> QED
          BY <4>1 DEF Combined
      <3>3. act'[p].pc = "collect" => act'[p].body.state = "nil"
        BY <1>1 DEF EnsOK
      <3> QED
        BY <1>1, <2>1, <3>1, <3>2, <3>3 DEF EnsOK
    <2> QED
      BY <1>7, <2>2, <2>3, <2>6 DEF ExecOK
  <1>9. ExecOK(c)'
    <2>1. c \in DOMAIN act
      BY DEF c
    <2>2. act[c].node \in Nodes => KidsSame(c)
      <3> HAVE act[c].node \in Nodes
      <3>1. NumSteps(c) \in Nat
        BY StepsType DEF NumSteps
      <3>2. ASSUME NEW m \in 1..NumSteps(c)
            PROVE  Append(c, m) # c /\ Append(c, m) # p
        <4>1. Len(Append(c, m)) = Len(c) + 1
          BY <1>2, <3>1, ChildPath
        <4> QED
          BY <1>1, <1>2, <4>1
      <3> QED
        BY <1>4, <3>2 DEF KidsSame, Executed
    <2>3. RecordOK(c)'
      BY <1>3, <1>5, NodeKept DEF RecordOK
    <2>4. act[c].pc # "wait"
      BY DEF c
    <2>5. PipeOK(c)'
      BY <1>3, <1>5, <2>1, <2>2, <2>4, PipeReturns DEF Quiet
    <2>6. EnsOK(c)'
      BY <1>3, <1>5, <2>1, <2>2, EnsMoves
    <2> QED
      BY <1>7, <2>1, <2>3, <2>5, <2>6 DEF ExecOK
  <1>10. ASSUME NEW r \in DOMAIN act, r # p, r # c PROVE ExecOK(r)'
    <2>1. act'[r] = act[r] /\ RecordOK(r) /\ PipeOK(r) /\ EnsOK(r) /\ TreeOK(r)
      BY <1>4, <1>10 DEF ExecOK
    <2>2. RecordOK(r)'
      BY <2>1, NodeKept DEF RecordOK
    <2>3. CASE act[r].node \in Nodes
      <3>1. NumSteps(r) \in Nat /\ r \in Path
        BY <2>1, <2>3, StepsType DEF NumSteps, TreeOK
      <3>2. \A m \in 1..NumSteps(r) : Append(r, m) # c
        BY <1>1, <1>10, <3>1, SameChild DEF c
      <3>3. KidsKept(r)
        BY <1>4, <3>2 DEF KidsKept, Executed
      <3> QED
        BY <1>7, <2>1, <2>2, <3>3, PipeKept, EnsKept DEF ExecOK, Quiet
    <2>4. CASE act[r].node \notin Nodes
      BY <1>7, <2>1, <2>2, <2>4 DEF ExecOK, PipeOK, EnsOK
    <2> QED
      BY <2>3, <2>4
  <1> QED
    BY <1>4, <1>8, <1>9, <1>10

\* An Ensemble that collects has started all its steps.
LEMMA AtCollect ==
  ASSUME \A x \in DOMAIN act : ExecOK(x), NEW p \in DOMAIN act, Is(p, "collect")
  PROVE  /\ act[p].pc = "collect" /\ act[p].node \in Nodes
         /\ act[p] \in Execution /\ NumSteps(p) \in Nat
         /\ act[p].i \in 1..(NumSteps(p) + 1)
         /\ act[p].body.state = "nil" /\ ~act[p].err
         /\ p \in Path
         /\ \A k \in 1..NumSteps(p) : /\ Append(p, k) \in DOMAIN act
                                      /\ act[Append(p, k)] \in Execution
                                      /\ Append(p, k) # p
  <1>1. /\ act[p].pc = "collect" /\ act[p].node \in Nodes /\ TypeOf(p) = "Ensemble"
        /\ act[p] \in Execution /\ ~act[p].err /\ p \in Path
    BY DEF Is, ExecOK, RecordOK, TreeOK
  <1>2. NumSteps(p) \in Nat /\ act[p].i \in 1..(NumSteps(p) + 1)
    BY <1>1, StepsType DEF ExecOK, RecordOK, NumSteps
  <1>3. act[p].body.state = "nil" /\ \A k \in 1..NumSteps(p) : Executed(p, k)
    BY <1>1 DEF ExecOK, EnsOK
  <1>4. \A k \in 1..NumSteps(p) : Append(p, k) # p
    BY <1>1, <1>2, ChildPath
  <1> QED
    BY <1>1, <1>2, <1>3, <1>4 DEF Executed, ExecOK, RecordOK

LEMMA ReceiveResultOK ==
  ASSUME \A x \in DOMAIN act : ExecOK(x), Quiet, NEW p \in DOMAIN act,
         ReceiveResult(p)
  PROVE  \A r \in DOMAIN act' : ExecOK(r)'
  <1> DEFINE k == act[p].i
             c == Append(p, k)
  <1>1. Is(p, "collect") /\ act[p].i <= NumSteps(p) /\ act[c].pc = "result"
    BY DEF ReceiveResult, Child
  <1>2. /\ act[p].pc = "collect" /\ act[p].node \in Nodes
        /\ act[p] \in Execution /\ NumSteps(p) \in Nat /\ k \in 1..NumSteps(p)
        /\ act[p].body.state = "nil" /\ ~act[p].err
        /\ c \in DOMAIN act /\ act[c] \in Execution /\ c # p
    BY <1>1, AtCollect
  <1> DEFINE hard == HardFailure(step(p), act[c].status)
             body == [state |-> "open", mem |-> TRUE, bytes |-> act[c].body.bytes]
  <1>3. body \in Body /\ body.bytes.of = act[c].body.bytes.of /\ act[c].status \in Nat
    BY <1>2 DEF Execution, Body
  <1>4. /\ DOMAIN act' = DOMAIN act
        /\ act'[c] = [act[c] EXCEPT !.pc = "ended"]
        /\ \A r \in DOMAIN act : r # p /\ r # c => act'[r] = act[r]
        /\ hard => act'[p] = [act[p] EXCEPT !.pc = "returned",
                                            !.status = act[c].status, !.body = body]
        /\ ~hard => act'[p] = [act[p] EXCEPT !.i = @ + 1]
    <2>1. act' = [act EXCEPT
                    ![c].pc = "ended",
                    ![p] = IF hard THEN [@ EXCEPT !.pc = "returned",
                                                  !.status = act[c].status, !.body = body]
                           ELSE [@ EXCEPT !.i = act[p].i + 1]]
      BY DEF ReceiveResult, Child
    <2>2. c \in DOMAIN act /\ p \in DOMAIN act /\ c # p
      BY <1>2
    <2> HIDE DEF c, hard, body, k
    <2>3. CASE hard
      BY <2>1, <2>2, <2>3
    <2>4. CASE ~hard
      BY <2>1, <2>2, <2>4
    <2> QED
      BY <2>3, <2>4
  <1>5. step(p) = StepsOf[act[p].node][k]
    BY DEF step
  <1> HIDE DEF body, hard, c, k
  <1>6. CASE hard
    <2>1. /\ act'[p] \in Execution /\ act'[p].pc = "returned"
          /\ act'[p].node = act[p].node /\ act'[p].input = act[p].input
          /\ act'[p].i = act[p].i /\ act'[p].err = act[p].err
          /\ act'[p].status = act[c].status /\ act'[p].body = body
      BY <1>2, <1>3, <1>4, <1>6 DEF Execution
    <2>2. /\ HardFailure(StepsOf[act[p].node][k], act'[p].status)
          /\ act'[p].body.bytes.of = act[c].body.bytes.of
      BY <1>3, <1>5, <1>6, <2>1 DEF hard
    <2>3. act'[p].i \in 1..(NumSteps(p) + 1)
      BY <1>2, <2>1 DEF k
    <2> QED
      BY <1>1, <1>2, <1>4, <2>1, <2>2, <2>3, ReceiveStep DEF c
  <1>7. CASE ~hard
    <2>1. /\ act'[p] \in Execution /\ act'[p].pc = "collect"
          /\ act'[p].node = act[p].node /\ act'[p].input = act[p].input
          /\ act'[p].i = k + 1 /\ act'[p].err = act[p].err
          /\ act'[p].body = act[p].body
      BY <1>2, <1>4, <1>7 DEF Execution, k
    <2>2. act'[p].i \in 1..(NumSteps(p) + 1)
      BY <1>2, <2>1
    <2>3. act'[p].body.state = "nil" /\ ~act'[p].err /\ k = act[p].i
      BY <1>2, <2>1 DEF k
    <2> QED
      BY <1>1, <1>2, <1>4, <2>1, <2>2, <2>3, ReceiveStep DEF c
  <1> QED
    BY <1>6, <1>7

LEMMA ReceiveErrorOK ==
  ASSUME \A x \in DOMAIN act : ExecOK(x), Quiet, NEW p \in DOMAIN act,
         ReceiveError(p)
  PROVE  \A r \in DOMAIN act' : ExecOK(r)'
  <1>1. Is(p, "collect")
    BY DEF ReceiveError
  <1>2. PICK k \in 1..NumSteps(p) :
          /\ act[Append(p, k)].pc = "error"
          /\ act' = [act EXCEPT ![Append(p, k)].pc = "ended", ![p].pc = "returned",
                                ![p].status = 500, ![p].err = TRUE]
    BY DEF ReceiveError
  <1>3. /\ act[p].pc = "collect" /\ act[p] \in Execution
        /\ act[p].i \in 1..(NumSteps(p) + 1)
        /\ Append(p, k) \in DOMAIN act /\ act[Append(p, k)] \in Execution
        /\ Append(p, k) # p
    BY <1>1, AtCollect
  <1>4. /\ DOMAIN act' = DOMAIN act
        /\ act'[Append(p, k)] = [act[Append(p, k)] EXCEPT !.pc = "ended"]
        /\ \A r \in DOMAIN act : r # p /\ r # Append(p, k) => act'[r] = act[r]
    BY <1>2, <1>3
  <1>5. /\ act'[p] \in Execution /\ act'[p].pc = "returned"
        /\ act'[p].node = act[p].node /\ act'[p].input = act[p].input
        /\ act'[p].i = act[p].i /\ act'[p].err = TRUE /\ act'[p].status = 500
    BY <1>2, <1>3 DEF Execution
  <1> QED
    BY <1>2, <1>3, <1>4, <1>5, ReceiveStep

\* Every step of the goroutines keeps the tree.
LEMMA PipelineOK ==
  ASSUME \A x \in DOMAIN act : ExecOK(x), WriterOK, NEW p \in DOMAIN act, Pipeline(p)
  PROVE  \A r \in DOMAIN act' : ExecOK(r)'
  <1>1. Quiet
    BY DEF Pipeline, Quiet, clientVars
  <1>2. CASE Acquire(p)
    BY <1>1, <1>2, AcquireOK
  <1>3. CASE \E answer \in Answers : callService(p, answer)
    BY <1>1, <1>3, callServiceOK
  <1>4. CASE \/ InvalidInput(p) \/ InvalidRouteType(p) \/ ReadFails(p)
             \/ ConditionInvalid(p) \/ StepFails(p)
    BY <1>1, <1>4, FailuresOK
  <1>5. CASE SkipStep(p)
    BY <1>1, <1>5, SkipStepOK
  <1>6. CASE ConditionUnmatched(p)
    BY <1>1, <1>6, ConditionUnmatchedOK
  <1>7. CASE ExecuteNext(p)
    BY <1>1, <1>7, ExecuteNextOK
  <1>8. CASE HardStepFails(p)
    BY <1>1, <1>8, HardStepFailsOK
  <1>9. CASE StepEnds(p)
    BY <1>1, <1>9, StepEndsOK
  <1>10. CASE PipelineEnds(p)
    BY <1>1, <1>10, PipelineEndsOK
  <1>11. CASE StartEnsemble(p)
    BY <1>1, <1>11, StartEnsembleOK
  <1>12. CASE GoroutineReads(p)
    BY <1>1, <1>12, GoroutineReadsOK
  <1>13. CASE ReceiveResult(p)
    BY <1>1, <1>13, ReceiveResultOK
  <1>14. CASE ReceiveError(p)
    BY <1>1, <1>14, ReceiveErrorOK
  <1>15. CASE EnsembleEnds(p)
    BY <1>1, <1>15, EnsembleEndsOK
  <1> QED
    BY <1>2, <1>3, <1>4, <1>5, <1>6, <1>7, <1>8, <1>9, <1>10, <1>11, <1>12, <1>13,
       <1>14, <1>15 DEF Pipeline
-----------------------------------------------------------------------------
(***************************************************************************)
(* The handler, and the whole router.                                      *)
(***************************************************************************)
\* Executions do not change.
LEMMA StaticStep ==
  ASSUME \A x \in DOMAIN act : ExecOK(x), Quiet, act' = act
  PROVE  \A r \in DOMAIN act' : ExecOK(r)'
  <1> SUFFICES ASSUME NEW r \in DOMAIN act PROVE ExecOK(r)'
    OBVIOUS
  <1>1. TreeOK(r)'
    BY TreeKept DEF ExecOK
  <1>2. RecordOK(r)'
    BY NodeKept DEF ExecOK, RecordOK
  <1>3. KidsKept(r)
    BY DEF KidsKept, Executed
  <1> QED
    BY <1>1, <1>2, <1>3, PipeKept, EnsKept DEF ExecOK, Quiet

LEMMA HandlerExec ==
  ASSUME RouterInv, NEW q \in Requests, Handler(q)
  PROVE  \A r \in DOMAIN act' : ExecOK(r)'
  <1> USE DEF RouterInv
  <1>1. Quiet
    BY DEF Handler, ReportError, HandlerPanics, Panic, WriteFails, WriteChunk, BodyFails,
           BodyEnds, HandlerReturns, LateWrite, Quiet, WriterOK, clientVars
  <1>2. CASE act' = act
    BY <1>1, <1>2, StaticStep
  <1>3. CASE End(q) /\ Is(<<q>>, "returned")
    BY <1>1, <1>3, EndOK
  <1>4. act' = act \/ (End(q) /\ Is(<<q>>, "returned"))
    BY DEF Handler, ReportError, HandlerPanics, Panic, WriteFails, WriteChunk, BodyFails,
           BodyEnds, HandlerReturns, LateWrite, RouteReturned, Streaming
  <1> QED
    BY <1>2, <1>3, <1>4

LEMMA ArriveExec ==
  ASSUME RouterInv, NEW q \in Requests, Arrive(q) \/ ArriveCut(q)
  PROVE  \A r \in DOMAIN act' : ExecOK(r)'
  <1>1. /\ Quiet /\ handler[q] = "idle" /\ handler'[q] = "serving"
        /\ init[q] \in InputType
    BY TrafficAssumption DEF Arrive, ArriveCut, Quiet, RouterInv, WriterOK
  <1>2. CASE Arrive(q)
    <2> DEFINE input == [kind |-> init[q].kind, has |-> init[q].has, of |-> {}]
    <2>1. /\ DOMAIN act' = DOMAIN act \cup {<<q>>}
          /\ \A r \in DOMAIN act : r # <<q>> => act'[r] = act[r]
          /\ act'[<<q>>] = executeStep(Root, input)
      BY <1>2 DEF Arrive
    <2>2. input \in Bytes
      BY <1>1 DEF InputType, Bytes
    <2> HIDE DEF input
    <2> QED
      BY <1>1, <2>1, <2>2, RootStep DEF RouterInv
  <1>3. CASE ArriveCut(q)
    <2>1. /\ DOMAIN act' = DOMAIN act \cup {<<q>>}
          /\ \A r \in DOMAIN act : r # <<q>> => act'[r] = act[r]
          /\ act'[<<q>>] = [executeStep(Root, Nothing) EXCEPT !.pc = "ended"]
      BY <1>3 DEF ArriveCut
    <2> QED
      BY <1>1, <2>1, BodyTypes, RootStep DEF RouterInv
  <1> QED
    BY <1>2, <1>3

LEMMA ExecNext ==
  ASSUME RouterInv, [RouterNext]_vars
  PROVE  \A r \in DOMAIN act' : ExecOK(r)'
  <1>1. CASE \E p \in DOMAIN act : Pipeline(p)
    BY <1>1, PipelineOK DEF RouterInv
  <1>2. CASE \E p \in DOMAIN act : GoroutinePanics(p) \/ MergePanics(p)
    BY <1>2, StaticStep DEF GoroutinePanics, MergePanics, Panic, Quiet, RouterInv, WriterOK
  <1>3. CASE \E q \in Requests : Handler(q)
    BY <1>3, HandlerExec
  <1>4. CASE \E q \in Requests : Arrive(q) \/ ArriveCut(q)
    BY <1>4, ArriveExec
  <1>5. CASE \E q \in Requests : TimeOut(q)
    BY <1>5, StaticStep DEF TimeOut, Quiet, RouterInv, WriterOK
  <1>6. CASE UNCHANGED vars
    BY <1>6, StaticStep DEF vars, Quiet, RouterInv
  <1> QED
    BY <1>1, <1>2, <1>3, <1>4, <1>5, <1>6 DEF RouterNext, Progress

HandlerStates == {"idle", "serving", "done", "reset"}

Parts == {"error", "chunk", "failure", "timeout", "foreign"}

\* The statuses and the parts the handler writes.
LEMMA Written ==
  /\ 200 \in 200..599 /\ 400 \in 200..599 /\ 500 \in 200..599 /\ 504 \in 200..599
  /\ "error" \in Parts /\ "chunk" \in Parts /\ "failure" \in Parts
  /\ "timeout" \in Parts /\ "foreign" \in Parts
  BY DEF Parts

\* What the http.ResponseWriter is given.
LEMMA PutType ==
  ASSUME WriterOK, NEW q \in Requests, NEW status \in 200..599,
         NEW part \in Parts,
         Put(q, status, part), UNCHANGED <<up, init>>,
         handler' \in [Requests -> HandlerStates], sent' \in [Requests -> 0..MaxChunks]
  PROVE  WriterOK'
  <1>1. header' \in [Requests -> {0} \cup 200..599]
    BY DEF Put, WriterOK
  <1>2. Append(parts[q], part) \in Seq(Parts)
    BY AppendProperties DEF WriterOK, Parts
  <1>3. parts' \in [Requests -> Seq(Parts)]
    BY <1>2 DEF Put, WriterOK, Parts
  <1> QED
    BY <1>1, <1>3 DEF WriterOK, HandlerStates, Parts

LEMMA SilentType ==
  ASSUME WriterOK, UNCHANGED <<init, parts, sent>>, up' \in BOOLEAN,
         handler' \in [Requests -> HandlerStates],
         header' \in [Requests -> {0} \cup 200..599]
  PROVE  WriterOK'
  BY DEF WriterOK, HandlerStates

\* A panic cuts off the requests that are being served, and only those.
LEMMA PanicType ==
  ASSUME WriterOK, Panic
  PROVE  WriterOK' /\ Quiet /\ act' = act
  <1>1. handler' \in [Requests -> HandlerStates]
    BY DEF Panic, WriterOK, HandlerStates
  <1>2. WriterOK'
    BY <1>1, SilentType DEF Panic, WriterOK
  <1> QED
    BY <1>2 DEF Panic, Quiet

LEMMA HandlerWriter ==
  ASSUME RouterInv, NEW q \in Requests, Handler(q)
  PROVE  WriterOK'
  <1>1. /\ WriterOK /\ up \in BOOLEAN
        /\ handler \in [Requests -> HandlerStates] /\ sent \in [Requests -> 0..MaxChunks]
        /\ header \in [Requests -> {0} \cup 200..599]
    BY DEF RouterInv, WriterOK, HandlerStates
  <1>2. CASE ReportError(q)
    <2>1. act[<<q>>].status = 500
      BY <1>2 DEF ReportError, RouteReturned, Is, Running, RouterInv, ExecOK, RecordOK
    <2>2. Put(q, 500, "error") /\ UNCHANGED <<up, init, handler, sent>>
      BY <1>2, <2>1 DEF ReportError
    <2>3. handler' \in [Requests -> HandlerStates] /\ sent' \in [Requests -> 0..MaxChunks]
      BY <1>1, <2>2
    <2> QED
      BY <1>1, <2>2, <2>3, Written, PutType, Zenon
  <1>3. CASE HandlerPanics(q)
    BY <1>1, <1>3, PanicType DEF HandlerPanics
  <1>4. CASE WriteFails(q) \/ BodyEnds(q)
    <2>1. UNCHANGED <<up, init, handler, header, parts, sent>>
      BY <1>4 DEF WriteFails, BodyEnds, clientVars
    <2> QED
      BY <1>1, <2>1, SilentType
  <1>5. CASE WriteChunk(q)
    <2>1. sent[q] \in 0..(MaxChunks - 1)
      BY <1>1, <1>5, TrafficAssumption DEF WriteChunk, HasChunk
    <2>2. sent' \in [Requests -> 0..MaxChunks]
      BY <1>1, <1>5, <2>1, TrafficAssumption DEF WriteChunk
    <2>3. Put(q, 200, "chunk") /\ UNCHANGED <<up, init, handler>>
      BY <1>5 DEF WriteChunk
    <2>4. handler' \in [Requests -> HandlerStates]
      BY <1>1, <2>3
    <2> QED
      BY <1>1, <2>2, <2>3, <2>4, Written, PutType, Zenon
  <1>6. CASE BodyFails(q)
    <2>1. Put(q, 500, "failure") /\ UNCHANGED <<up, init, handler, sent>>
      BY <1>6 DEF BodyFails
    <2>2. handler' \in [Requests -> HandlerStates] /\ sent' \in [Requests -> 0..MaxChunks]
      BY <1>1, <2>1
    <2> QED
      BY <1>1, <2>1, <2>2, Written, PutType, Zenon
  <1>7. CASE HandlerReturns(q)
    <2>1. /\ handler' \in [Requests -> HandlerStates]
          /\ header' \in [Requests -> {0} \cup 200..599]
      BY <1>1, <1>7 DEF HandlerReturns, HandlerStates
    <2> QED
      BY <1>1, <1>7, <2>1, SilentType DEF HandlerReturns
  <1>8. CASE LateWrite(q)
    <2>1. CASE UNCHANGED <<up, init, clientVars>>
      BY <1>1, <2>1, SilentType DEF clientVars
    <2>2. CASE Panic
      BY <1>1, <2>2, PanicType
    <2>3. CASE \E r \in Requests : /\ Put(r, 200, "foreign")
                                   /\ UNCHANGED <<up, init, handler, sent>>
      <3>1. PICK r \in Requests : /\ Put(r, 200, "foreign")
                                  /\ UNCHANGED <<up, init, handler, sent>>
        BY <2>3
      <3>2. handler' \in [Requests -> HandlerStates] /\ sent' \in [Requests -> 0..MaxChunks]
        BY <1>1, <3>1
      <3> QED
        BY <1>1, <3>1, <3>2, Written, PutType, Zenon
    <2> QED
      BY <1>8, <2>1, <2>2, <2>3 DEF LateWrite
  <1> QED
    BY <1>2, <1>3, <1>4, <1>5, <1>6, <1>7, <1>8 DEF Handler

LEMMA WriterNext ==
  ASSUME RouterInv, [RouterNext]_vars
  PROVE  WriterOK'
  <1>1. /\ WriterOK /\ up \in BOOLEAN
        /\ handler \in [Requests -> HandlerStates] /\ sent \in [Requests -> 0..MaxChunks]
        /\ header \in [Requests -> {0} \cup 200..599]
    BY DEF RouterInv, WriterOK, HandlerStates
  <1>2. CASE \E p \in DOMAIN act : Pipeline(p)
    BY <1>1, <1>2, SilentType DEF Pipeline, clientVars
  <1>3. CASE \E p \in DOMAIN act : GoroutinePanics(p) \/ MergePanics(p)
    BY <1>1, <1>3, PanicType DEF GoroutinePanics, MergePanics
  <1>4. CASE \E q \in Requests : Handler(q)
    BY <1>4, HandlerWriter
  <1>5. ASSUME NEW q \in Requests, Arrive(q) PROVE WriterOK'
    <2>1. handler' \in [Requests -> HandlerStates]
      BY <1>1, <1>5 DEF Arrive, HandlerStates
    <2> QED
      BY <1>1, <1>5, <2>1, SilentType DEF Arrive
  <1>6. ASSUME NEW q \in Requests, ArriveCut(q) PROVE WriterOK'
    <2>1. handler' \in [Requests -> HandlerStates]
      BY <1>1, <1>6 DEF ArriveCut, HandlerStates
    <2> QED
      BY <1>1, <1>6, <2>1, Written, PutType, Zenon DEF ArriveCut
  <1>7. ASSUME NEW q \in Requests, TimeOut(q) PROVE WriterOK'
    <2>1. handler' \in [Requests -> HandlerStates]
      BY <1>1, <1>7 DEF TimeOut, HandlerStates
    <2> QED
      BY <1>1, <1>7, <2>1, Written, PutType, Zenon DEF TimeOut
  <1>8. CASE UNCHANGED vars
    BY <1>1, <1>8, SilentType DEF vars
  <1> QED
    BY <1>2, <1>3, <1>4, <1>5, <1>6, <1>7, <1>8 DEF RouterNext, Progress

LEMMA RouterInvInit ==
  ASSUME RouterInit
  PROVE  RouterInv
  <1>1. DOMAIN act = {}
    BY DEF RouterInit
  <1>2. WriterOK
    BY TrafficAssumption DEF RouterInit, WriterOK
  <1> QED
    BY <1>1, <1>2 DEF RouterInv

\* The tree and what every execution knows of its steps, in every behaviour.
LEMMA RouterInvCorrect == RouterSpec => []RouterInv
  <1>1. RouterInit => RouterInv
    BY RouterInvInit
  <1>2. RouterInv /\ [RouterNext]_vars => RouterInv'
    BY ExecNext, WriterNext DEF RouterInv
  <1> QED
    BY <1>1, <1>2, PTL DEF RouterSpec
-----------------------------------------------------------------------------
(***************************************************************************)
(* What follows for every graph.                                           *)
(***************************************************************************)
\* Type correctness: executions, statuses and written parts stay in their
\* types, and the loop index of a node never leaves its steps, so that
\* handleSequencePipeline never indexes a step that is not there.
THEOREM RouterTypeCorrect == RouterSpec => []RouterTypeOK
  <1>1. RouterInv => RouterTypeOK
    BY DEF RouterInv, WriterOK, ExecOK, TreeOK, RecordOK, RouterTypeOK
  <1> QED
    BY <1>1, RouterInvCorrect, PTL

\* No step of a Sequence is executed after an unsuccessful hard dependency, and
\* none of any pipeline after an error, however the graph is nested.
THEOREM HardStopsCorrect == RouterSpec => []HardStops
  <1>1. RouterInv => HardStops
    <2> SUFFICES ASSUME RouterInv, NEW p \in DOMAIN act,
                        act[p].node \in Nodes, IsPipeline(p),
                        NEW k \in 1..NumSteps(p), NEW m \in 1..NumSteps(p),
                        k < m, Executed(p, k), Executed(p, m)
                 PROVE  /\ ~act[Append(p, k)].err
                        /\ TypeOf(p) = "Sequence" =>
                             ~HardFailure(StepsOf[act[p].node][k], act[Append(p, k)].status)
      BY DEF HardStops
    <2>1. StepOK(p, k) /\ StepOK(p, m) /\ act[p].i \in Nat /\ NumSteps(p) \in Nat
      BY StepsType DEF RouterInv, ExecOK, PipeOK, RecordOK, Execution, NumSteps
    <2>2. k < act[p].i
      BY <2>1 DEF StepOK
    <2> QED
      BY <2>1, <2>2 DEF StepOK
  <1> QED
    BY <1>1, RouterInvCorrect, PTL

\* Every step that asks for "$response" was given the response of the last step
\* before it that had one, every other step the input of its node.
THEOREM ChainsPreviousCorrect == RouterSpec => []ChainsPrevious
  <1>1. RouterInv => ChainsPrevious
    BY DEF RouterInv, ExecOK, PipeOK, StepOK, ChainsPrevious
  <1> QED
    BY <1>1, RouterInvCorrect, PTL

\* No two steps of a node have the same name.
DistinctNames == \A n \in Nodes : KeptSteps(StepsOf[n]) = DOMAIN StepsOf[n]

\* The response of an Ensemble holds those of all its steps, and no goroutine is
\* left behind, unless it is that of an unsuccessful hard dependency: whatever
\* the other steps do meanwhile, timeouts included.
THEOREM EnsembleCompleteCorrect ==
  DistinctNames => (RouterSpec => []EnsembleComplete)
  <1> SUFFICES ASSUME DistinctNames PROVE RouterSpec => []EnsembleComplete
    OBVIOUS
  <1>1. RouterInv => EnsembleComplete
    <2> SUFFICES ASSUME RouterInv, NEW p \in DOMAIN act, act[p].node \in Nodes,
                        TypeOf(p) = "Ensemble", ~act[p].err, act[p].body.state # "nil"
                 PROVE  \/ \A c \in {Append(p, k) : k \in 1..NumSteps(p)} :
                             /\ act[c].pc = "ended"
                             /\ act[c].body.bytes.of \subseteq act[p].body.bytes.of
                        \/ \E k \in 1..NumSteps(p) :
                             /\ HardFailure(StepsOf[act[p].node][k], act[p].status)
                             /\ act[p].body.bytes.of = act[Append(p, k)].body.bytes.of
      BY DEF EnsembleComplete
    <2>1. Combined(p)
      BY DEF RouterInv, ExecOK, EnsOK
    <2>2. KeptSteps(StepsOf[act[p].node]) = 1..NumSteps(p)
      BY StepsType DEF DistinctNames, NumSteps
    <2> QED
      BY <2>1, <2>2 DEF Combined, Received
  <1> QED
    BY <1>1, RouterInvCorrect, PTL
-----------------------------------------------------------------------------
(***************************************************************************)
(* Graphs without Ensembles, requests that are waited for: one goroutine   *)
(* per request.                                                            *)
(*                                                                         *)
(* Now whole branches of the tree matter.  An execution that has not       *)
(* returned is at the end of a branch on which everything waits; an error  *)
(* has been handed to all of the branch that no longer waits; and a        *)
(* response comes from the last service called below the execution.        *)
(***************************************************************************)
Plain == ~MayTimeOut /\ \A n \in Nodes : RouterType[n] # "Ensemble"

\* The first m steps of the branch of p.
Up(p, m) == SubSeq(p, 1, m)

\* p is below r, or r itself.
Below(r, p) == Len(r) <= Len(p) /\ Up(p, Len(r)) = r

Leaf(p) == p \in DOMAIN act /\ act[p].node = NoNode

BranchOK(p) ==
  /\ act[p].pc \notin {"collect", "result", "error"}
  /\ act[p].pc = "ended" => Len(p) = 1
  /\ Len(p) = 1 => act[p].node # NoNode
  /\ \A m \in 1..Len(p) : Up(p, m) \in DOMAIN act
  /\ act[p].pc \notin {"returned", "ended"} => \A m \in 1..(Len(p) - 1) :
       act[Up(p, m)].pc = "wait" /\ act[Up(p, m)].i = p[m + 1]
  /\ act[p].err => /\ act[p].body.state = "nil"
                   /\ \A m \in 1..(Len(p) - 1) :
                        act[Up(p, m)].pc = "wait" \/ act[Up(p, m)].err

\* The response p has is that of c, the last service called below p.
From(p, c) ==
  /\ Leaf(c) /\ Below(p, c)
  /\ act[p].body.bytes.of = {c}
  /\ \A l \in DOMAIN act : Leaf(l) /\ Below(p, l) /\ l # c => Before(l, c)

LatestOK(p) ==
  act[p].pc # "wait" /\ act[p].body.state # "nil" => \E c \in DOMAIN act : From(p, c)

Clean(q) == header[q] = 0 /\ parts[q] = <<>> /\ sent[q] = 0

Chunks(n) == [k \in 1..n |-> "chunk"]

\* What the handler of request q has written.
WrittenOK(q) ==
  /\ handler[q] = "idle" => Clean(q)
  /\ handler[q] # "idle" =>
       /\ <<q>> \in DOMAIN act
       /\ act[<<q>>].pc \notin {"returned", "ended"} => Clean(q)
       /\ act[<<q>>].pc = "returned" =>
            IF act[<<q>>].err THEN Clean(q)
            ELSE /\ parts[q] = Chunks(sent[q])
                 /\ header[q] = IF sent[q] = 0 THEN 0 ELSE 200
       /\ act[<<q>>].pc = "ended" =>
            /\ act[<<q>>].err => header[q] = 500 /\ parts[q] = <<"error">>
            /\ act[<<q>>].body.state = "open" =>
                 header[q] = 200 /\ parts[q] = Chunks(MaxChunks)
  /\ handler[q] = "done" => act[<<q>>].pc = "ended"

PlainInv ==
  /\ \A p \in DOMAIN act : BranchOK(p) /\ LatestOK(p)
  /\ \A q \in Requests : WrittenOK(q)

\* Every node has a step that is always executed.
Answering ==
  \A n \in Nodes : \E k \in DOMAIN StepsOf[n] :
    /\ ~StepsOf[n][k].downstream
    /\ RouterType[n] = "Switch" => StepsOf[n][k].condition = Always

\* The loop of p has passed only steps that may be skipped.
AllSkipped(p) ==
  \A k \in 1..(act[p].i - 1) : LET s == StepsOf[act[p].node][k] IN
    s.downstream \/ (TypeOf(p) = "Switch" /\ s.condition # Always)

\* What has returned without an error has a response.
AnswerOK(p) ==
  /\ act[p].pc = "returned" /\ ~act[p].err => act[p].body.state # "nil"
  /\ act[p].pc = "node" /\ act[p].node \in Nodes /\ act[p].body.state = "nil" =>
       act[p].bytes = Nothing /\ AllSkipped(p)

\* The process ends in mergeRequests only, and requests are cut off by that only.
AnswerInv ==
  /\ \A p \in DOMAIN act : AnswerOK(p)
  /\ ~up => \E p \in DOMAIN act : DiedMerging(p)
  /\ \A q \in Requests : handler[q] = "reset" => ~up

\* Branches: their beginnings, and how they go on.
LEMMA UpPath ==
  ASSUME NEW p \in Path, NEW m \in 1..Len(p)
  PROVE  /\ Up(p, m) \in Path /\ Len(Up(p, m)) = m
         /\ \A n \in 1..m : Up(p, m)[n] = p[n]
         /\ m < Len(p) => Up(p, m) # p
         /\ \A n \in 1..m : Up(Up(p, m), n) = Up(p, n)
  <1>1. Len(p) \in Nat
    BY LenProperties DEF Path
  <1>2. /\ Up(p, m) \in Path /\ Len(Up(p, m)) = m
        /\ \A n \in 1..m : Up(p, m)[n] = p[n]
    BY <1>1, Prefixes DEF Up
  <1>3. m < Len(p) => Up(p, m) # p
    BY <1>1, <1>2
  <1>4. ASSUME NEW n \in 1..m PROVE Up(Up(p, m), n) = Up(p, n)
    <2>1. /\ Up(p, n) \in Path /\ Len(Up(p, n)) = n
          /\ \A j \in 1..n : Up(p, n)[j] = p[j]
      BY <1>1, Prefixes DEF Up
    <2>2. /\ Up(Up(p, m), n) \in Path /\ Len(Up(Up(p, m), n)) = n
          /\ \A j \in 1..n : Up(Up(p, m), n)[j] = Up(p, m)[j]
      <3> DEFINE r == Up(p, m)
      <3>1. r \in Path /\ n \in 0..Len(r)
        BY <1>1, <1>2
      <3> HIDE DEF r
      <3>2. /\ Up(r, n) \in Path /\ Len(Up(r, n)) = n
            /\ \A j \in 1..n : Up(r, n)[j] = r[j]
        BY <3>1, Prefixes DEF Up
      <3> QED
        BY <3>2 DEF r
    <2>3. \A j \in 1..n : Up(Up(p, m), n)[j] = Up(p, n)[j]
      BY <1>1, <1>2, <2>1, <2>2
    <2> QED
      BY <2>1, <2>2, <2>3, SeqEqual DEF Path
  <1> QED
    BY <1>2, <1>3, <1>4

LEMMA UpWhole ==
  ASSUME NEW p \in Path
  PROVE  Up(p, Len(p)) = p
  BY SubSeqFull DEF Path, Up

LEMMA UpChild ==
  ASSUME NEW p \in Path, NEW k \in Nat
  PROVE  /\ \A m \in 1..Len(p) : Up(Append(p, k), m) = Up(p, m)
         /\ Up(Append(p, k), Len(p) + 1) = Append(p, k)
  <1> DEFINE c == Append(p, k)
  <1>1. /\ Len(p) \in Nat /\ c \in Path /\ Len(c) = Len(p) + 1 /\ Parent(c) = p
    BY ChildPath, LenProperties DEF Path
  <1> HIDE DEF c
  <1>2. Up(c, Len(p)) = p
    BY <1>1 DEF Up, Parent
  <1>3. ASSUME NEW m \in 1..Len(p) PROVE Up(c, m) = Up(p, m)
    <2>1. Len(p) \in 1..Len(c)
      BY <1>1
    <2>2. Up(Up(c, Len(p)), m) = Up(c, m)
      BY <1>1, <2>1, UpPath
    <2> QED
      BY <1>2, <2>2
  <1>4. Up(c, Len(p) + 1) = c
    BY <1>1, UpWhole
  <1> QED
    BY <1>3, <1>4 DEF c

\* Two executions next to each other on a branch are a node and its step.
LEMMA BranchStep ==
  ASSUME RouterInv, Plain, NEW x \in DOMAIN act, BranchOK(x),
         NEW m \in 1..(Len(x) - 1)
  PROVE  /\ Up(x, m) \in DOMAIN act /\ act[Up(x, m)].node \in Nodes
         /\ Len(Up(x, m)) = m /\ Up(x, m) # x
         /\ IsPipeline(Up(x, m))
         /\ x[m + 1] \in 1..NumSteps(Up(x, m)) /\ x[m + 1] \in Nat
         /\ Up(x, m + 1) = Append(Up(x, m), x[m + 1])
         /\ Executed(Up(x, m), x[m + 1])
         /\ StepOK(Up(x, m), x[m + 1])
  <1> DEFINE p == Up(x, m)
             c == Up(x, m + 1)
  <1>1. x \in Path /\ Len(x) \in Nat /\ m + 1 \in 1..Len(x) /\ m \in 1..(m + 1)
        /\ m \in 1..Len(x) /\ m < Len(x) /\ m \in Nat
    BY LenProperties DEF RouterInv, ExecOK, TreeOK, Path
  <1>2. p \in DOMAIN act /\ c \in DOMAIN act
    BY <1>1 DEF BranchOK
  <1>3. /\ p \in Path /\ Len(p) = m /\ p # x
        /\ c \in Path /\ Len(c) = m + 1 /\ c[m + 1] = x[m + 1] /\ Up(c, m) = p
    BY <1>1, UpPath
  <1> HIDE DEF p, c
  <1>4. Parent(c) = p
    BY <1>1, <1>3 DEF Parent, Up
  <1>5. act[p].node \in Nodes /\ x[m + 1] \in 1..NumSteps(p)
    BY <1>1, <1>2, <1>3, <1>4 DEF RouterInv, ExecOK, TreeOK
  <1>6. x[m + 1] \in Nat
    BY <1>5, StepsType DEF NumSteps
  <1>7. c = Append(p, x[m + 1])
    BY <1>1, <1>3, <1>4, <1>6, ParentPath
  <1>8. IsPipeline(p)
    BY <1>5, StepsType DEF Plain, IsPipeline, TypeOf
  <1>9. Executed(p, x[m + 1]) /\ StepOK(p, x[m + 1])
    BY <1>2, <1>5, <1>7, <1>8 DEF Executed, RouterInv, ExecOK, PipeOK
  <1> QED
    BY <1>2, <1>3, <1>5, <1>6, <1>7, <1>8, <1>9 DEF p, c

\* Everything below a step that has returned has returned, and without an error
\* if the step has none.
LEMMA BelowReturned ==
  ASSUME RouterInv, Plain, NEW x \in DOMAIN act, BranchOK(x),
         NEW m \in 1..(Len(x) - 1),
         act[Up(x, m + 1)].pc = "returned"
  PROVE  /\ act[x].pc \in {"returned", "ended"}
         /\ ~act[Up(x, m + 1)].err => ~act[x].err
  <1>1. x \in Path /\ Len(x) \in Nat
    BY LenProperties DEF RouterInv, ExecOK, TreeOK, Path
  <1>2. CASE m + 1 = Len(x)
    BY <1>1, <1>2, UpWhole
  <1>3. CASE m + 1 # Len(x)
    <2>1. m + 1 \in 1..(Len(x) - 1)
      BY <1>1, <1>3
    <2> QED
      BY <2>1 DEF BranchOK
  <1> QED
    BY <1>2, <1>3

\* One execution changes, as the steps of a pipeline and the handler let it.
Moves(p) ==
  /\ Only(p)
  /\ act'[p].pc \in {"flight", "node", "returned", "ended"}
  /\ act'[p].pc = "ended" => Len(p) = 1 /\ act[p].pc = "returned"
  /\ act[p].pc # "ended"
  /\ act[p].pc = "returned" => /\ Len(p) = 1 /\ act'[p].pc = "ended"
                               /\ act'[p].err = act[p].err
                               /\ act'[p].body = act[p].body
  /\ act[p].pc = "wait" => /\ Returned(p)
                           /\ act[Child(p)].err => act'[p].err
  /\ act'[p].err => act'[p].body.state = "nil"
  /\ act'[p].body.state # "nil" =>
       \/ /\ act[p].pc # "wait" /\ act[p].body.state # "nil"
          /\ act'[p].body.bytes = act[p].body.bytes
       \/ act[p].pc = "wait" /\ act'[p].body = act[Child(p)].body
       \/ act[p].node = NoNode /\ act'[p].body.bytes.of = {p}

\* A pipeline that stops waiting has nothing below it that runs, or that failed
\* without its step failing.
LEMMA StopsWaiting ==
  ASSUME RouterInv, Plain, NEW x \in DOMAIN act, BranchOK(x),
         NEW m \in 1..(Len(x) - 1), act[Up(x, m)].pc = "wait",
         act[Child(Up(x, m))].pc = "returned"
  PROVE  /\ act[x].pc \in {"returned", "ended"}
         /\ ~act[Child(Up(x, m))].err => ~act[x].err
  <1> DEFINE p == Up(x, m)
             k == x[m + 1]
  <1>1. /\ Up(x, m + 1) = Append(p, k) /\ StepOK(p, k) /\ p \in DOMAIN act
        /\ act[p].node \in Nodes /\ k \in Nat
    BY BranchStep
  <1>2. act[p].i \in Nat
    BY <1>1 DEF RouterInv, ExecOK, RecordOK, Execution
  <1> HIDE DEF p, k
  <1>3. CASE k = act[p].i
    <2>1. Up(x, m + 1) = Child(p)
      BY <1>1, <1>3 DEF Child
    <2> QED
      BY <2>1, BelowReturned DEF p
  <1>4. CASE k # act[p].i
    <2>1. k < act[p].i
      BY <1>1, <1>2, <1>4 DEF StepOK
    <2>2. act[Append(p, k)].pc = "returned" /\ ~act[Append(p, k)].err
      BY <1>1, <1>4, <2>1 DEF StepOK
    <2>3. act[Up(x, m + 1)].pc = "returned" /\ ~act[Up(x, m + 1)].err
      BY <1>1, <2>2
    <2>4. act[x].pc \in {"returned", "ended"} /\ ~act[x].err
      BY <2>3, BelowReturned
    <2> QED
      BY <2>4
  <1> QED
    BY <1>3, <1>4

LEMMA MovesBranch ==
  ASSUME RouterInv, Plain, \A x \in DOMAIN act : BranchOK(x),
         NEW p \in DOMAIN act, Moves(p)
  PROVE  \A x \in DOMAIN act' : BranchOK(x)'
  <1>1. DOMAIN act' = DOMAIN act /\ Only(p)
    BY DEF Moves, Only
  <1> SUFFICES ASSUME NEW x \in DOMAIN act PROVE BranchOK(x)'
    BY <1>1
  <1>2. BranchOK(x) /\ x \in Path /\ Len(x) \in Nat
    BY LenProperties DEF RouterInv, ExecOK, TreeOK, Path
  <1>3. \A m \in 1..Len(x) : Up(x, m) \in DOMAIN act
    BY <1>2 DEF BranchOK
  <1>4. CASE x = p
    <2>1. \A m \in 1..(Len(x) - 1) : Up(x, m) \in DOMAIN act /\ Up(x, m) # p
      BY <1>2, <1>4, BranchStep
    <2>2. \A m \in 1..(Len(x) - 1) : act'[Up(x, m)] = act[Up(x, m)]
      BY <1>1, <2>1 DEF Only
    <2>3. \A m \in 1..(Len(x) - 1) : act[p].pc # "returned"
      <3> SUFFICES ASSUME NEW m \in 1..(Len(x) - 1), act[p].pc = "returned"
                   PROVE  FALSE
        OBVIOUS
      <3>1. Len(x) = 1
        BY <1>4 DEF Moves
      <3>2. m \in Nat /\ 1 <= m /\ m <= Len(x) - 1
        BY <1>2
      <3> QED
        BY <3>1, <3>2
    <2>4. act'[x].pc \notin {"collect", "result", "error"}
      BY <1>4 DEF Moves
    <2>5. Len(x) = 1 => act'[x].node # NoNode
      BY <1>1, <1>2, <1>4 DEF Only, BranchOK
    <2>6. /\ act'[x].pc = "ended" => Len(x) = 1
          /\ act'[x].err => act'[x].body.state = "nil"
      BY <1>4 DEF Moves
    <2>7. act[p].pc # "ended"
      BY DEF Moves
    <2>8. \A m \in 1..(Len(x) - 1) :
            act'[Up(x, m)].pc = "wait" /\ act'[Up(x, m)].i = x[m + 1]
      BY <1>2, <1>4, <2>2, <2>3, <2>7 DEF BranchOK
    <2> QED
      BY <1>1, <1>3, <2>4, <2>5, <2>6, <2>8 DEF BranchOK
  <1>5. CASE x # p
    <2>1. act'[x] = act[x]
      BY <1>1, <1>5 DEF Only
    <2>2. ASSUME NEW m \in 1..(Len(x) - 1), act[x].pc \notin {"returned", "ended"}
          PROVE  act'[Up(x, m)].pc = "wait" /\ act'[Up(x, m)].i = x[m + 1]
      <3>1. act[Up(x, m)].pc = "wait" /\ act[Up(x, m)].i = x[m + 1]
        BY <1>2, <2>2 DEF BranchOK
      <3>2. Up(x, m) # p
        BY <1>2, <2>2, <3>1, StopsWaiting DEF Moves, Returned
      <3>3. Up(x, m) \in DOMAIN act
        BY <1>2, BranchStep
      <3> QED
        BY <1>1, <3>1, <3>2, <3>3 DEF Only
    <2>3. ASSUME NEW m \in 1..(Len(x) - 1), act[x].err
          PROVE  act'[Up(x, m)].pc = "wait" \/ act'[Up(x, m)].err
      <3>1. act[Up(x, m)].pc = "wait" \/ act[Up(x, m)].err
        BY <1>2, <2>3 DEF BranchOK
      <3>2. Up(x, m) \in DOMAIN act
        BY <1>2, BranchStep
      <3>3. CASE Up(x, m) # p
        BY <1>1, <3>1, <3>2, <3>3 DEF Only
      <3>4. CASE Up(x, m) = p /\ act[p].pc = "wait"
        BY <1>2, <2>3, <3>4, StopsWaiting DEF Moves, Returned
      <3>5. CASE Up(x, m) = p /\ act[p].pc # "wait"
        <4>1. act[p].err /\ act[p].pc \in {"returned", "ended"}
          BY <3>1, <3>5 DEF RouterInv, ExecOK, RecordOK
        <4> QED
          BY <3>5, <4>1 DEF Moves
      <3> QED
        BY <3>3, <3>4, <3>5
    <2> QED
      BY <1>1, <1>2, <1>3, <2>1, <2>2, <2>3 DEF BranchOK
  <1> QED
    BY <1>4, <1>5

\* What is below a step is below its node.
LEMMA BelowChild ==
  ASSUME NEW p \in Path, NEW k \in Nat, NEW l \in Path, Below(Append(p, k), l),
         Len(p) >= 1
  PROVE  /\ Below(p, l) /\ Len(p) < Len(l) /\ l[Len(p) + 1] = k
  <1>1. /\ Len(p) \in Nat /\ Len(l) \in Nat /\ Len(Append(p, k)) = Len(p) + 1
        /\ Append(p, k)[Len(p) + 1] = k
    BY ChildPath, LenProperties DEF Path
  <1>2. Len(p) + 1 <= Len(l) /\ Up(l, Len(p) + 1) = Append(p, k)
    BY <1>1 DEF Below
  <1>3. Len(p) + 1 \in 1..Len(l) /\ Len(p) \in 1..(Len(p) + 1)
    BY <1>1, <1>2
  <1>4. /\ Up(Up(l, Len(p) + 1), Len(p)) = Up(l, Len(p))
        /\ Up(l, Len(p) + 1)[Len(p) + 1] = l[Len(p) + 1]
    BY <1>1, <1>3, UpPath
  <1>5. Up(Append(p, k), Len(p)) = p
    <2>1. Up(Append(p, k), Len(p)) = Up(p, Len(p))
      BY <1>1, UpChild
    <2> QED
      BY <2>1, UpWhole
  <1>6. Up(l, Len(p)) = p /\ l[Len(p) + 1] = k
    BY <1>1, <1>2, <1>4, <1>5
  <1>7. Len(p) < Len(l) /\ Len(p) <= Len(l)
    BY <1>1, <1>2
  <1> QED
    BY <1>6, <1>7 DEF Below

\* A step of a node before another, and all that is below them.
LEMMA BeforeBelow ==
  ASSUME NEW p \in Path, Len(p) >= 1, NEW l \in Path, NEW c \in Path,
         Below(p, l), Below(p, c), Len(p) < Len(l), Len(p) < Len(c),
         l[Len(p) + 1] < c[Len(p) + 1]
  PROVE  Before(l, c)
  <1>1. Len(p) \in Nat /\ Len(l) \in Nat /\ Len(c) \in Nat
    BY LenProperties DEF Path
  <1> DEFINE m == Len(p) + 1
  <1>2. m \in 2..Len(l) /\ m <= Len(c) /\ m - 1 = Len(p)
    BY <1>1
  <1>3. SubSeq(l, 1, Len(p)) = SubSeq(c, 1, Len(p))
    BY DEF Below, Up
  <1>4. SubSeq(l, 1, m - 1) = SubSeq(c, 1, m - 1)
    BY <1>2, <1>3
  <1> HIDE DEF m
  <1>5. l[m] < c[m]
    BY DEF m
  <1> QED
    BY <1>2, <1>4, <1>5 DEF Before

\* The leaves below a node: each is below one of its steps.
LEMMA LeafBelow ==
  ASSUME RouterInv, Plain, NEW p \in DOMAIN act, NEW l \in DOMAIN act, BranchOK(l),
         Below(p, l), l # p
  PROVE  /\ Len(p) < Len(l) /\ act[p].node \in Nodes
         /\ l[Len(p) + 1] \in Nat
         /\ Executed(p, l[Len(p) + 1]) /\ StepOK(p, l[Len(p) + 1])
         /\ Below(Append(p, l[Len(p) + 1]), l)
  <1>1. /\ p \in Path /\ l \in Path /\ Len(p) \in Nat /\ Len(l) \in Nat /\ Len(p) >= 1
    BY LenProperties DEF RouterInv, ExecOK, TreeOK, Path
  <1>2. Len(p) <= Len(l) /\ Up(l, Len(p)) = p
    BY DEF Below
  <1>3. Len(p) # Len(l)
    BY <1>1, <1>2, UpWhole
  <1> DEFINE m == Len(p)
  <1>4. m \in 1..(Len(l) - 1)
    BY <1>1, <1>2, <1>3
  <1>5. /\ act[Up(l, m)].node \in Nodes /\ l[m + 1] \in Nat
        /\ Executed(Up(l, m), l[m + 1]) /\ StepOK(Up(l, m), l[m + 1])
        /\ Up(l, m + 1) = Append(Up(l, m), l[m + 1])
    BY <1>4, BranchStep
  <1>6. Below(Append(p, l[m + 1]), l)
    <2>1. Len(Append(p, l[m + 1])) = m + 1
      BY <1>1, <1>5, ChildPath
    <2> QED
      BY <1>1, <1>2, <1>4, <1>5, <2>1 DEF Below
  <1> QED
    BY <1>1, <1>2, <1>3, <1>5, <1>6

\* What a pipeline takes over from the step that has just returned is the
\* response of the last service called below it.
LEMMA TakesOver ==
  ASSUME RouterInv, Plain, \A x \in DOMAIN act : BranchOK(x),
         NEW p \in DOMAIN act, Returned(p), NEW c \in DOMAIN act, From(Child(p), c)
  PROVE  /\ Leaf(c) /\ Below(p, c)
         /\ act[Child(p)].body.bytes.of = {c}
         /\ \A l \in DOMAIN act : Leaf(l) /\ Below(p, l) /\ l # c => Before(l, c)
  <1>1. /\ act[p].node \in Nodes /\ act[p].i \in 1..NumSteps(p) /\ NumSteps(p) \in Nat
        /\ Child(p) \in DOMAIN act
    BY AtWait DEF RouterInv
  <1>2. act[p].i \in Nat /\ p \in Path /\ Len(p) \in Nat /\ Len(p) >= 1 /\ c \in Path
    BY <1>1, LenProperties DEF RouterInv, ExecOK, TreeOK, Path
  <1>3. Leaf(c) /\ Below(Append(p, act[p].i), c) /\ act[Child(p)].body.bytes.of = {c}
    BY DEF From, Child
  <1>4. Below(p, c) /\ Len(p) < Len(c) /\ c[Len(p) + 1] = act[p].i
    BY <1>2, <1>3, BelowChild
  <1>5. ASSUME NEW l \in DOMAIN act, Leaf(l), Below(p, l), l # c
        PROVE  Before(l, c)
    <2>1. l # p /\ l \in Path
      BY <1>1, <1>5, GraphAssumption DEF Leaf, RouterInv, ExecOK, TreeOK
    <2> DEFINE k == l[Len(p) + 1]
    <2>2. /\ Len(p) < Len(l) /\ k \in Nat /\ StepOK(p, k) /\ Below(Append(p, k), l)
      BY <1>5, <2>1, LeafBelow
    <2> HIDE DEF k
    <2>3. k <= act[p].i
      BY <2>2 DEF StepOK
    <2>4. CASE k = act[p].i
      BY <1>5, <2>2, <2>4 DEF From, Child
    <2>5. CASE k # act[p].i
      <3>1. l[Len(p) + 1] < c[Len(p) + 1]
        BY <1>2, <1>4, <2>2, <2>3, <2>5 DEF k
      <3> QED
        BY <1>2, <1>4, <1>5, <2>1, <2>2, <3>1, BeforeBelow
    <2> QED
      BY <2>4, <2>5
  <1> QED
    BY <1>3, <1>4, <1>5

LEMMA MovesLatest ==
  ASSUME RouterInv, Plain, \A x \in DOMAIN act : BranchOK(x),
         \A x \in DOMAIN act : LatestOK(x), NEW p \in DOMAIN act, Moves(p)
  PROVE  \A x \in DOMAIN act' : LatestOK(x)'
  <1>1. /\ DOMAIN act' = DOMAIN act
        /\ \A x \in DOMAIN act : act'[x].node = act[x].node
        /\ \A x \in DOMAIN act : x # p => act'[x] = act[x]
    BY DEF Moves, Only
  <1>2. \A x \in DOMAIN act : Leaf(x)' <=> Leaf(x)
    BY <1>1 DEF Leaf
  <1> SUFFICES ASSUME NEW x \in DOMAIN act, act'[x].pc # "wait",
                      act'[x].body.state # "nil"
               PROVE  \E c \in DOMAIN act : From(x, c)'
    BY <1>1 DEF LatestOK
  <1>3. CASE x # p
    <2>1. act'[x] = act[x]
      BY <1>1, <1>3
    <2>2. PICK c \in DOMAIN act : From(x, c)
      BY <2>1 DEF LatestOK
    <2>3. From(x, c)'
      BY <1>1, <1>2, <2>1, <2>2 DEF From
    <2> QED
      BY <2>3
  <1>4. CASE x = p
    <2>1. CASE /\ act[p].pc # "wait" /\ act[p].body.state # "nil"
               /\ act'[p].body.bytes = act[p].body.bytes
      <3>1. PICK c \in DOMAIN act : From(p, c)
        BY <2>1 DEF LatestOK
      <3>2. From(p, c)'
        BY <1>1, <1>2, <2>1, <3>1 DEF From
      <3> QED
        BY <1>4, <3>2
    <2>2. CASE act[p].pc = "wait" /\ act'[p].body = act[Child(p)].body
      <3>1. Returned(p)
        BY <2>2 DEF Moves
      <3>2. Child(p) \in DOMAIN act /\ act[Child(p)].pc # "wait"
        BY <3>1, AtWait DEF RouterInv
      <3>3. PICK c \in DOMAIN act : From(Child(p), c)
        BY <1>4, <2>2, <3>2 DEF LatestOK
      <3>4. /\ Leaf(c) /\ Below(p, c)
            /\ act[Child(p)].body.bytes.of = {c}
            /\ \A l \in DOMAIN act : Leaf(l) /\ Below(p, l) /\ l # c => Before(l, c)
        BY <3>1, <3>3, TakesOver
      <3>5. From(p, c)'
        BY <1>1, <1>2, <2>2, <3>4 DEF From
      <3> QED
        BY <1>4, <3>5
    <2>3. CASE act[p].node = NoNode /\ act'[p].body.bytes.of = {p}
      <3>1. Leaf(p) /\ Below(p, p)
        BY <2>3, UpWhole DEF Leaf, Below, RouterInv, ExecOK, TreeOK, Path
      <3>2. \A l \in DOMAIN act : Below(p, l) => l = p
        BY <2>3, LeafBelow, GraphAssumption
      <3>3. From(p, p)'
        BY <1>1, <1>2, <2>3, <3>1, <3>2 DEF From
      <3> QED
        BY <1>4, <3>3
    <2> QED
      BY <1>4, <2>1, <2>2, <2>3 DEF Moves
  <1> QED
    BY <1>3, <1>4

\* ExecuteNext: p waits for a child that has just begun.
LEMMA ExecuteEffect ==
  ASSUME RouterInv, NEW p \in DOMAIN act, ExecuteNext(p)
  PROVE  /\ act[p].pc = "node" /\ act[p].node \in Nodes /\ ~act[p].err
         /\ p \in Path /\ Len(p) \in Nat /\ Len(p) >= 1 /\ act[p].i \in Nat
         /\ Child(p) \notin DOMAIN act
         /\ DOMAIN act' = DOMAIN act \cup {Child(p)}
         /\ \A r \in DOMAIN act : r # p => act'[r] = act[r]
         /\ act'[p].pc = "wait" /\ act'[p].i = act[p].i /\ act'[p].node = act[p].node
         /\ ~act'[p].err
         /\ act'[Child(p)].pc \in {"call", "node"} /\ ~act'[Child(p)].err
         /\ act'[Child(p)].body.state = "nil"
  <1>1. InPipeline(p)
    BY DEF ExecuteNext, HasRead, HasMerged, AtStep
  <1>2. /\ act[p].pc = "node" /\ act[p].node \in Nodes /\ act[p] \in Execution
        /\ act[p].i \in Nat /\ ~Executed(p, act[p].i) /\ p \in Path /\ Len(p) \in Nat
        /\ Len(p) >= 1 /\ ~act[p].err
    BY <1>1, AtNode, LenProperties DEF RouterInv, ExecOK, TreeOK, RecordOK, Path
  <1>3. Child(p) \notin DOMAIN act /\ Child(p) # p
    BY <1>2, ChildPath DEF Executed, Child
  <1>4. /\ act'[Child(p)] = executeStep(step(p).nodeName, request(p))
        /\ act'[p] = [act[p] EXCEPT !.pc = "wait", !.bytes = responseBytes(p),
                                    !.body = Close(@)]
        /\ DOMAIN act' = DOMAIN act \cup {Child(p)}
        /\ \A r \in DOMAIN act : r # p => act'[r] = act[r]
    BY <1>3 DEF ExecuteNext
  <1>5. /\ act'[p].pc = "wait" /\ act'[p].i = act[p].i /\ act'[p].node = act[p].node
        /\ ~act'[p].err
    BY <1>2, <1>4 DEF Execution
  <1>6. /\ act'[Child(p)].pc \in {"call", "node"} /\ ~act'[Child(p)].err
        /\ act'[Child(p)].body.state = "nil"
    BY <1>4 DEF executeStep, NilBody
  <1> QED
    BY <1>2, <1>3, <1>4, <1>5, <1>6

LEMMA ExecuteBranch ==
  ASSUME RouterInv, Plain, \A x \in DOMAIN act : BranchOK(x),
         NEW p \in DOMAIN act, ExecuteNext(p)
  PROVE  \A x \in DOMAIN act' : BranchOK(x)'
  <1>0. PICK c : c = Child(p)
    OBVIOUS
  <1>1. /\ act[p].pc = "node" /\ act[p].node \in Nodes /\ ~act[p].err
        /\ p \in Path /\ Len(p) \in Nat /\ Len(p) >= 1 /\ act[p].i \in Nat
        /\ c \notin DOMAIN act
        /\ DOMAIN act' = DOMAIN act \cup {c}
        /\ \A r \in DOMAIN act : r # p => act'[r] = act[r]
        /\ act'[p].pc = "wait" /\ act'[p].i = act[p].i /\ act'[p].node = act[p].node
        /\ ~act'[p].err
        /\ act'[c].pc \in {"call", "node"} /\ ~act'[c].err
    BY <1>0, ExecuteEffect
  <1>2. /\ Len(c) = Len(p) + 1 /\ c[Len(p) + 1] = act[p].i
        /\ \A m \in 1..Len(p) : c[m] = p[m]
        /\ \A m \in 1..Len(p) : Up(c, m) = Up(p, m)
        /\ Up(c, Len(p) + 1) = c /\ Up(p, Len(p)) = p
    <2>1. c = Append(p, act[p].i)
      BY <1>0 DEF Child
    <2>2. Len(c) = Len(p) + 1 /\ c[Len(p) + 1] = act[p].i
          /\ \A m \in 1..Len(p) : c[m] = p[m]
      BY <1>1, <2>1, ChildPath
    <2>3. /\ \A m \in 1..Len(p) : Up(c, m) = Up(p, m)
          /\ Up(c, Len(p) + 1) = c
      BY <1>1, <2>1, UpChild
    <2>4. Up(p, Len(p)) = p
      BY <1>1, UpWhole
    <2> QED
      BY <2>2, <2>3, <2>4
  <1>3. ASSUME NEW m \in 1..(Len(p) - 1)
        PROVE  /\ act'[Up(p, m)].pc = "wait" /\ act'[Up(p, m)].i = p[m + 1]
    <2>1. Up(p, m) \in DOMAIN act /\ Up(p, m) # p
      BY BranchStep
    <2> QED
      BY <1>1, <2>1 DEF BranchOK
  <1>4. ASSUME NEW x \in DOMAIN act, x # p PROVE BranchOK(x)'
    <2>1. BranchOK(x) /\ act'[x] = act[x] /\ x \in Path /\ Len(x) \in Nat
      BY <1>1, <1>4, LenProperties DEF RouterInv, ExecOK, TreeOK, Path
    <2>2. \A m \in 1..Len(x) : Up(x, m) \in DOMAIN act'
      BY <1>1, <2>1 DEF BranchOK
    <2>3. ASSUME NEW m \in 1..(Len(x) - 1), Up(x, m) # p
          PROVE  act'[Up(x, m)] = act[Up(x, m)]
      <3>1. Up(x, m) \in DOMAIN act
        BY <2>1, BranchStep
      <3> QED
        BY <1>1, <2>3, <3>1
    <2>4. ASSUME NEW m \in 1..(Len(x) - 1), Up(x, m) = p
          PROVE  ~act[x].err /\ act[x].pc \in {"returned", "ended"}
      BY <1>1, <2>1, <2>4 DEF BranchOK
    <2>5. ASSUME NEW m \in 1..(Len(x) - 1), act[x].pc \notin {"returned", "ended"}
          PROVE  act'[Up(x, m)].pc = "wait" /\ act'[Up(x, m)].i = x[m + 1]
      BY <2>1, <2>3, <2>4, <2>5 DEF BranchOK
    <2>6. ASSUME NEW m \in 1..(Len(x) - 1), act[x].err
          PROVE  act'[Up(x, m)].pc = "wait" \/ act'[Up(x, m)].err
      BY <2>1, <2>3, <2>4, <2>6 DEF BranchOK
    <2> QED
      BY <2>1, <2>2, <2>5, <2>6 DEF BranchOK
  <1>5. BranchOK(p)'
    <2>1. \A m \in 1..Len(p) : Up(p, m) \in DOMAIN act'
      BY <1>1 DEF BranchOK
    <2>2. Len(p) = 1 => act'[p].node # NoNode
      BY <1>1, StepsType
    <2> QED
      BY <1>1, <1>3, <2>1, <2>2 DEF BranchOK
  <1>6. BranchOK(c)'
    <2>1. ASSUME NEW m \in 1..Len(c) PROVE Up(c, m) \in DOMAIN act'
      <3>1. CASE m = Len(p) + 1
        BY <1>1, <1>2, <3>1
      <3>2. CASE m # Len(p) + 1
        <4>1. m \in 1..Len(p)
          BY <1>1, <1>2, <3>2
        <4> QED
          BY <1>1, <1>2, <4>1 DEF BranchOK
      <3> QED
        BY <3>1, <3>2
    <2>2. ASSUME NEW m \in 1..(Len(c) - 1)
          PROVE  act'[Up(c, m)].pc = "wait" /\ act'[Up(c, m)].i = c[m + 1]
      <3>1. CASE m = Len(p)
        BY <1>1, <1>2, <3>1
      <3>2. CASE m # Len(p)
        <4>1. m \in 1..(Len(p) - 1) /\ m \in 1..Len(p) /\ m + 1 \in 1..Len(p)
          BY <1>1, <1>2, <3>2
        <4> QED
          BY <1>2, <1>3, <4>1
      <3> QED
        BY <3>1, <3>2
    <2>3. Len(c) # 1
      BY <1>1, <1>2
    <2> QED
      BY <1>1, <2>1, <2>2, <2>3 DEF BranchOK
  <1> QED
    BY <1>1, <1>4, <1>5, <1>6

LEMMA ExecuteLatest ==
  ASSUME RouterInv, Plain, \A x \in DOMAIN act : BranchOK(x),
         \A x \in DOMAIN act : LatestOK(x), NEW p \in DOMAIN act, ExecuteNext(p)
  PROVE  \A x \in DOMAIN act' : LatestOK(x)'
  <1> DEFINE c == Child(p)
  <1>1. /\ act[p].pc = "node"
        /\ p \in Path /\ Len(p) \in Nat /\ Len(p) >= 1 /\ act[p].i \in Nat
        /\ c \notin DOMAIN act
        /\ DOMAIN act' = DOMAIN act \cup {c}
        /\ \A r \in DOMAIN act : r # p => act'[r] = act[r]
        /\ act'[p].pc = "wait" /\ act'[p].node = act[p].node
        /\ act'[c].body.state = "nil"
    BY ExecuteEffect
  <1>2. /\ Len(c) = Len(p) + 1 /\ c \in Path
        /\ \A m \in 1..Len(p) : Up(c, m) = Up(p, m)
        /\ Up(c, Len(p) + 1) = c /\ Up(p, Len(p)) = p
    BY <1>1, ChildPath, UpChild, UpWhole DEF Child
  <1> HIDE DEF c
  <1> SUFFICES ASSUME NEW x \in DOMAIN act', act'[x].pc # "wait",
                      act'[x].body.state # "nil"
               PROVE  \E y \in DOMAIN act' : From(x, y)'
    BY DEF LatestOK
  <1>3. x \in DOMAIN act /\ x # p /\ act'[x] = act[x]
    BY <1>1
  <1>4. x \in Path /\ Len(x) \in Nat /\ Len(x) >= 1
    BY <1>3, LenProperties DEF RouterInv, ExecOK, TreeOK, Path
  <1>5. ASSUME Below(x, c) PROVE FALSE
    <2>1. Len(x) <= Len(c) /\ Up(c, Len(x)) = x
      BY <1>5 DEF Below
    <2>2. Len(x) \in 1..Len(p)
      BY <1>1, <1>2, <1>3, <1>4, <2>1
    <2>3. Up(p, Len(x)) = x
      BY <1>2, <2>1, <2>2
    <2>4. Len(x) \in 1..(Len(p) - 1)
      BY <1>1, <1>2, <1>3, <2>2, <2>3
    <2>5. act[x].pc = "wait"
      BY <1>1, <2>3, <2>4 DEF BranchOK
    <2> QED
      BY <1>3, <2>5
  <1>6. PICK y \in DOMAIN act : From(x, y)
    BY <1>3 DEF LatestOK
  <1>7. \A l \in DOMAIN act : Leaf(l)' <=> Leaf(l)
    BY <1>1 DEF Leaf
  <1>8. From(x, y)'
    BY <1>1, <1>3, <1>5, <1>6, <1>7 DEF From
  <1> QED
    BY <1>1, <1>8

\* A request arrives.
LEMMA ArriveBranch ==
  ASSUME RouterInv, Plain, \A x \in DOMAIN act : BranchOK(x) /\ LatestOK(x),
         NEW q \in Requests, Arrive(q) \/ ArriveCut(q)
  PROVE  \A x \in DOMAIN act' : (BranchOK(x) /\ LatestOK(x))'
  <1>1. handler[q] = "idle"
    BY DEF Arrive, ArriveCut
  <1>2. <<q>> \in Path /\ Len(<<q>>) = 1 /\ <<q>>[1] = q
    BY DEF Path
  <1>3. <<q>> \notin DOMAIN act
    BY <1>1, <1>2 DEF RouterInv, ExecOK, TreeOK
  <1>4. /\ DOMAIN act' = DOMAIN act \cup {<<q>>}
        /\ \A x \in DOMAIN act : act'[x] = act[x]
        /\ act'[<<q>>].pc \in {"node", "ended"} /\ ~act'[<<q>>].err
        /\ act'[<<q>>].node = Root /\ act'[<<q>>].body.state = "nil"
    <2>1. Root # NoNode
      BY GraphAssumption
    <2> QED
      BY <1>3, <2>1 DEF Arrive, ArriveCut, executeStep, NilBody
  <1>5. (BranchOK(<<q>>) /\ LatestOK(<<q>>))'
    <2>1. Up(<<q>>, 1) = <<q>>
      BY <1>2, UpWhole
    <2>2. \A m \in 1..Len(<<q>>) : Up(<<q>>, m) \in DOMAIN act'
      BY <1>2, <1>4, <2>1
    <2>3. Root # NoNode
      BY GraphAssumption
    <2>4. \A m \in 1..(Len(<<q>>) - 1) : m \notin Nat
      BY <1>2
    <2>5. BranchOK(<<q>>)'
      BY <1>2, <1>4, <2>2, <2>3, <2>4 DEF BranchOK
    <2> QED
      BY <1>4, <2>5 DEF LatestOK
  <1>6. ASSUME NEW x \in DOMAIN act PROVE (BranchOK(x) /\ LatestOK(x))'
    <2>1. x \in Path /\ Len(x) \in Nat /\ Len(x) >= 1 /\ x # <<q>> /\ act'[x] = act[x]
      BY <1>3, <1>4, LenProperties DEF RouterInv, ExecOK, TreeOK, Path
    <2>2. \A m \in 1..Len(x) : Up(x, m) \in DOMAIN act
      BY DEF BranchOK
    <2>3. \A m \in 1..(Len(x) - 1) : m \in 1..Len(x)
      BY <2>1
    <2>4. BranchOK(x)'
      <3>1. \A m \in 1..Len(x) : act'[Up(x, m)] = act[Up(x, m)]
        BY <1>4, <2>2
      <3>2. \A m \in 1..Len(x) : Up(x, m) \in DOMAIN act'
        BY <1>4, <2>2
      <3>3. BranchOK(x)
        OBVIOUS
      <3> QED
        BY <2>1, <2>3, <3>1, <3>2, <3>3 DEF BranchOK
    <2>5. ~Below(x, <<q>>)
      <3> DEFINE r == <<q>>
      <3>1. r \in Path /\ Len(r) = 1 /\ x # r
        BY <1>2, <2>1
      <3>2. Up(r, Len(r)) = r
        BY <3>1, UpWhole
      <3> HIDE DEF r
      <3>3. ~Below(x, r)
        BY <2>1, <3>1, <3>2 DEF Below
      <3> QED
        BY <3>3 DEF r
    <2>6. \A l \in DOMAIN act : Leaf(l)' <=> Leaf(l)
      BY <1>4 DEF Leaf
    <2>7. \A y \in DOMAIN act : From(x, y) => From(x, y)'
      BY <1>4, <2>1, <2>5, <2>6 DEF From
    <2>8. LatestOK(x)'
      BY <1>4, <2>1, <2>7 DEF LatestOK
    <2> QED
      BY <2>4, <2>8
  <1> QED
    BY <1>4, <1>5, <1>6

\* A step, a node or routeStep returns.
LEMMA ReturnMoves ==
  ASSUME RouterInv, NEW p \in DOMAIN act, act[p].pc \notin {"returned", "ended"},
         NEW body \in Body, NEW status \in Nat, NEW err \in BOOLEAN,
         Return(p, body, status, err),
         act[p].pc = "wait" => Returned(p) /\ (act[Child(p)].err => err),
         err => body.state = "nil",
         body.state # "nil" =>
           \/ /\ act[p].pc # "wait" /\ act[p].body.state # "nil"
              /\ body.bytes = act[p].body.bytes
           \/ act[p].pc = "wait" /\ body = act[Child(p)].body
           \/ act[p].node = NoNode /\ body.bytes.of = {p}
  PROVE  Moves(p)
  <1>1. act[p] \in Execution
    BY DEF RouterInv, ExecOK, RecordOK
  <1>2. /\ Only(p) /\ act'[p].pc = "returned" /\ act'[p].body = body
        /\ act'[p].err = err
    BY <1>1, ReturnEffect
  <1> QED
    BY <1>2 DEF Moves

LEMMA FailMoves ==
  ASSUME RouterInv, NEW p \in DOMAIN act, act[p].pc \notin {"returned", "ended"},
         Return(p, NilBody, 500, TRUE), act[p].pc = "wait" => Returned(p)
  PROVE  Moves(p) /\ act'[p].err
  <1>1. NilBody \in Body /\ NilBody.state = "nil"
    BY BodyTypes
  <1>2. act[p] \in Execution /\ 500 \in Nat
    BY DEF RouterInv, ExecOK, RecordOK
  <1>3. /\ Only(p) /\ act'[p].pc = "returned" /\ act'[p].body = NilBody
        /\ act'[p].err
    BY <1>1, <1>2 DEF Return, Only, Execution
  <1> QED
    BY <1>1, <1>3 DEF Moves

\* Without Ensembles, whatever a pipeline or a call does is such a move, or the
\* execution of the next step.
LEMMA PipelineMoves ==
  ASSUME RouterInv, Plain, \A x \in DOMAIN act : BranchOK(x),
         NEW p \in DOMAIN act, Pipeline(p), ~ExecuteNext(p)
  PROVE  Moves(p)
  <1>1. /\ act[p] \in Execution /\ act[p].body \in Body /\ act[p].status \in Nat
        /\ p \in Path /\ TypeOf(p) # "Ensemble"
        /\ act[p].pc \notin {"collect", "result", "error"}
        /\ act[p].err => act[p].pc \in {"returned", "ended"}
    <2>1. TypeOf(p) # "Ensemble"
      BY StepsType DEF Plain, TypeOf
    <2>2. ExecOK(p) /\ BranchOK(p)
      BY DEF RouterInv
    <2> QED
      BY <2>1, <2>2 DEF ExecOK, RecordOK, TreeOK, Execution, BranchOK
  <1>2. CASE Acquire(p)
    <2>1. /\ Only(p) /\ act[p].pc = "call" /\ act'[p].pc = "flight"
          /\ act'[p].err = act[p].err /\ act'[p].body = act[p].body
      BY <1>1, <1>2 DEF Acquire, Is, Only, Execution
    <2> QED
      BY <1>1, <2>1 DEF Moves
  <1>3. ASSUME NEW answer \in Answers, callService(p, answer) PROVE Moves(p)
    <2> DEFINE body == [state |-> IF answer.cut THEN "cut" ELSE "open", mem |-> FALSE,
                        bytes |-> [kind |-> answer.kind, has |-> answer.has, of |-> {p}]]
    <2>1. answer \in AnswerType /\ act[p].pc = "flight" /\ act[p].node = NoNode
      BY <1>3, TrafficAssumption DEF callService, Is, RouterInv, ExecOK, RecordOK
    <2>2. CASE answer.refused
      BY <1>3, <2>1, <2>2, FailMoves DEF callService
    <2>3. CASE ~answer.refused
      <3>1. body \in Body /\ body.bytes.of = {p}
        BY <1>1, <2>1 DEF AnswerType, Body, Bytes
      <3>2. Return(p, body, answer.status, FALSE) /\ answer.status \in Nat
        BY <1>3, <2>1, <2>3 DEF callService, AnswerType
      <3> HIDE DEF body
      <3> QED
        BY <2>1, <3>1, <3>2, ReturnMoves
    <2> QED
      BY <2>2, <2>3
  <1>4. CASE InvalidInput(p) \/ InvalidRouteType(p) \/ ReadFails(p) \/ ConditionInvalid(p)
    <2>1. act[p].pc = "node" /\ Return(p, NilBody, 500, TRUE)
      BY <1>4 DEF InvalidInput, InvalidRouteType, ReadFails, ConditionInvalid, HasRead,
                  HasMerged, AtStep, InPipeline, Is
    <2> QED
      BY <2>1, FailMoves
  <1>5. CASE SkipStep(p)
    <2>1. act[p].pc = "node"
      BY <1>5 DEF SkipStep, InPipeline, Is
    <2>2. /\ Only(p) /\ act'[p].pc = "node"
          /\ act'[p].err = act[p].err /\ act'[p].body = act[p].body
      BY <1>1, <1>5, <2>1 DEF SkipStep, Only, Execution
    <2> QED
      BY <1>1, <2>1, <2>2 DEF Moves
  <1>6. CASE ConditionUnmatched(p)
    <2>1. act[p].pc = "node" /\ Return(p, Close(act[p].body), 500, FALSE)
      BY <1>6 DEF ConditionUnmatched, HasRead, HasMerged, AtStep, InPipeline, Is
    <2>2. /\ Close(act[p].body) \in Body /\ 500 \in Nat
          /\ Close(act[p].body).bytes = act[p].body.bytes
          /\ Close(act[p].body).state = "nil" <=> act[p].body.state = "nil"
      BY <1>1, BodyTypes
    <2> QED
      BY <2>1, <2>2, ReturnMoves
  <1>7. CASE StepFails(p)
    <2>1. Returned(p) /\ act[p].pc = "wait" /\ Return(p, NilBody, 500, TRUE)
      BY <1>7 DEF StepFails, Returned, Is
    <2> QED
      BY <2>1, FailMoves
  <1>8. CASE HardStepFails(p)
    <2>1. /\ Returned(p) /\ act[p].pc = "wait" /\ ~act[Child(p)].err
          /\ Return(p, act[Child(p)].body, act[Child(p)].status, FALSE)
      BY <1>8 DEF HardStepFails, Returned, Is
    <2>2. act[Child(p)].body \in Body /\ act[Child(p)].status \in Nat
      BY <2>1, AtWait DEF RouterInv, Execution
    <2> QED
      BY <2>1, <2>2, ReturnMoves
  <1>9. CASE StepEnds(p)
    <2>1. Returned(p) /\ act[p].pc = "wait" /\ ~act[Child(p)].err
      BY <1>9 DEF StepEnds, Returned, Is
    <2>2. /\ Only(p) /\ act'[p].pc = "node"
          /\ act'[p].err = act[p].err /\ act'[p].body = act[Child(p)].body
      BY <1>1, <1>9 DEF StepEnds, Only, Execution
    <2> QED
      BY <1>1, <2>1, <2>2 DEF Moves
  <1>10. CASE PipelineEnds(p)
    <2>1. act[p].pc = "node" /\ Return(p, act[p].body, act[p].status, FALSE)
      BY <1>10 DEF PipelineEnds, InPipeline, Is
    <2> QED
      BY <1>1, <2>1, ReturnMoves
  <1>11. ~StartEnsemble(p) /\ ~ReceiveResult(p) /\ ~ReceiveError(p) /\ ~EnsembleEnds(p)
    BY <1>1 DEF StartEnsemble, ReceiveResult, ReceiveError, EnsembleEnds, Is
  <1>12. ~InGoroutine(p)
    BY StepsType DEF InGoroutine, TypeOf, Plain
  <1> QED
    BY <1>2, <1>3, <1>4, <1>5, <1>6, <1>7, <1>8, <1>9, <1>10, <1>11, <1>12
       DEF Pipeline, GoroutineReads

\* The goroutine of request q ends.
LEMMA EndMoves ==
  ASSUME RouterInv, \A x \in DOMAIN act : BranchOK(x), NEW q \in Requests,
         Is(<<q>>, "returned"), End(q)
  PROVE  Moves(<<q>>) /\ <<q>> \in DOMAIN act
  <1> DEFINE r == <<q>>
  <1>1. r \in DOMAIN act /\ act[r] \in Execution /\ act[r].pc = "returned" /\ Len(r) = 1
    BY DEF Is, Running, RouterInv, ExecOK, RecordOK
  <1>2. act' = [act EXCEPT ![r].pc = "ended"]
    BY DEF End
  <1> HIDE DEF r
  <1>3. /\ Only(r) /\ act'[r].pc = "ended"
        /\ act'[r].err = act[r].err /\ act'[r].body = act[r].body
    BY <1>1, <1>2 DEF Only, Execution
  <1>4. act[r].err => act[r].body.state = "nil"
    BY <1>1 DEF BranchOK
  <1>5. Moves(r)
    BY <1>1, <1>3, <1>4 DEF Moves
  <1> QED
    BY <1>1, <1>5 DEF r

\* Executions do not change.
LEMMA StaticBranch ==
  ASSUME RouterInv, \A x \in DOMAIN act : BranchOK(x) /\ LatestOK(x), act' = act
  PROVE  \A x \in DOMAIN act' : (BranchOK(x) /\ LatestOK(x))'
  <1>1. \A x \in DOMAIN act : BranchOK(x)'
    BY DEF BranchOK
  <1>2. \A x, y \in DOMAIN act : From(x, y)' <=> From(x, y)
    BY DEF From, Leaf
  <1>3. \A x \in DOMAIN act : LatestOK(x)'
    BY <1>2 DEF LatestOK
  <1> QED
    BY <1>1, <1>3

LEMMA PipelineRuns ==
  ASSUME Plain, NEW p \in DOMAIN act, Pipeline(p)
  PROVE  up /\ act[p].pc \notin {"returned", "ended"} /\ UNCHANGED <<up, init, clientVars>>
  <1>1. ~GoroutineReads(p)
    BY StepsType DEF GoroutineReads, InGoroutine, TypeOf, Plain
  <1>2. \E pc \in {"call", "flight", "node", "wait", "collect"} : Is(p, pc)
    BY <1>1 DEF Pipeline, Acquire, callService, InvalidInput, InvalidRouteType, SkipStep,
         ReadFails, ConditionInvalid, ConditionUnmatched, ExecuteNext, StepFails,
         HardStepFails, StepEnds, PipelineEnds, StartEnsemble, ReceiveResult,
         ReceiveError, EnsembleEnds, HasRead, HasMerged, AtStep, InPipeline, Returned
  <1>3. up /\ act[p].pc \notin {"returned", "ended"}
    BY <1>2 DEF Is, Running
  <1> QED
    BY <1>3 DEF Pipeline

\* What the handler of request q does, if it does not write for another one.
LEMMA HandlerEffect ==
  ASSUME RouterInv, Plain, NEW q \in Requests, Handler(q), WrittenOK(q)
  PROVE  \/ ReportError(q) \/ HandlerPanics(q) \/ WriteChunk(q) \/ BodyFails(q)
         \/ BodyEnds(q) \/ HandlerReturns(q)
  <1>1. ~WriteFails(q)
    BY DEF WriteFails, Plain
  <1>2. ~LateWrite(q)
    BY DEF LateWrite, WrittenOK, Is
  <1> QED
    BY <1>1, <1>2 DEF Handler

LEMMA BranchNext ==
  ASSUME RouterInv, Plain, PlainInv, [RouterNext]_vars
  PROVE  \A x \in DOMAIN act' : (BranchOK(x) /\ LatestOK(x))'
  <1>1. /\ \A x \in DOMAIN act : BranchOK(x) /\ LatestOK(x)
        /\ \A x \in DOMAIN act : BranchOK(x)
        /\ \A x \in DOMAIN act : LatestOK(x)
    BY DEF PlainInv
  <1>2. ASSUME NEW p \in DOMAIN act, Moves(p)
        PROVE  \A x \in DOMAIN act' : (BranchOK(x) /\ LatestOK(x))'
    <2>1. \A x \in DOMAIN act' : BranchOK(x)'
      BY <1>1, <1>2, MovesBranch
    <2>2. \A x \in DOMAIN act' : LatestOK(x)'
      BY <1>1, <1>2, MovesLatest
    <2> QED
      BY <2>1, <2>2
  <1>3. ASSUME NEW p \in DOMAIN act, Pipeline(p)
        PROVE  \A x \in DOMAIN act' : (BranchOK(x) /\ LatestOK(x))'
    <2>1. CASE ExecuteNext(p)
      <3>1. \A x \in DOMAIN act' : BranchOK(x)'
        BY <1>1, <2>1, ExecuteBranch
      <3>2. \A x \in DOMAIN act' : LatestOK(x)'
        BY <1>1, <2>1, ExecuteLatest
      <3> QED
        BY <3>1, <3>2
    <2>2. CASE ~ExecuteNext(p)
      BY <1>1, <1>2, <1>3, <2>2, PipelineMoves
    <2> QED
      BY <2>1, <2>2
  <1>4. CASE act' = act
    BY <1>1, <1>4, StaticBranch
  <1>5. ASSUME NEW q \in Requests, Handler(q)
        PROVE  \A x \in DOMAIN act' : (BranchOK(x) /\ LatestOK(x))'
    <2>1. CASE End(q) /\ Is(<<q>>, "returned")
      BY <1>1, <1>2, <2>1, EndMoves
    <2>2. act' = act \/ (End(q) /\ Is(<<q>>, "returned"))
      BY <1>5 DEF Handler, ReportError, HandlerPanics, Panic, WriteFails, WriteChunk,
           BodyFails, BodyEnds, HandlerReturns, LateWrite, RouteReturned, Streaming
    <2> QED
      BY <1>4, <2>1, <2>2
  <1>6. ASSUME NEW q \in Requests, Arrive(q) \/ ArriveCut(q)
        PROVE  \A x \in DOMAIN act' : (BranchOK(x) /\ LatestOK(x))'
    BY <1>1, <1>6, ArriveBranch
  <1>7. CASE \/ \E p \in DOMAIN act : GoroutinePanics(p) \/ MergePanics(p)
             \/ \E q \in Requests : TimeOut(q)
             \/ UNCHANGED vars
    BY <1>4, <1>7 DEF GoroutinePanics, MergePanics, Panic, TimeOut, vars
  <1> QED
    BY <1>3, <1>5, <1>6, <1>7 DEF RouterNext, Progress
-----------------------------------------------------------------------------
(***************************************************************************)
(* What is written for a request.                                          *)
(***************************************************************************)
LEMMA ChunksNext ==
  /\ Chunks(0) = <<>>
  /\ \A n \in Nat : Append(Chunks(n), "chunk") = Chunks(n + 1)
  <1>1. Chunks(0) = <<>>
    BY DEF Chunks
  <1>2. ASSUME NEW n \in Nat PROVE Append(Chunks(n), "chunk") = Chunks(n + 1)
    <2> DEFINE S == {"chunk"}
    <2>1. Chunks(n) \in Seq(S) /\ Len(Chunks(n)) = n
      BY DEF Chunks
    <2>2. Chunks(n + 1) \in Seq(S) /\ Len(Chunks(n + 1)) = n + 1
      BY DEF Chunks
    <2>3. \A k \in 1..n : Chunks(n)[k] = "chunk"
      BY DEF Chunks
    <2>4. \A k \in 1..(n + 1) : Chunks(n + 1)[k] = "chunk"
      BY DEF Chunks
    <2> DEFINE c == Chunks(n)
               d == Chunks(n + 1)
    <2> HIDE DEF c, d
    <2>5. /\ c \in Seq(S) /\ Len(c) = n /\ d \in Seq(S) /\ Len(d) = n + 1
          /\ \A k \in 1..n : c[k] = "chunk"
          /\ \A k \in 1..(n + 1) : d[k] = "chunk"
      BY <2>1, <2>2, <2>3, <2>4 DEF c, d
    <2>6. /\ Append(c, "chunk") \in Seq(S) /\ Len(Append(c, "chunk")) = n + 1
          /\ \A k \in 1..n : Append(c, "chunk")[k] = c[k]
          /\ Append(c, "chunk")[n + 1] = "chunk"
      BY <2>5, AppendProperties
    <2>7. \A k \in 1..(n + 1) : Append(c, "chunk")[k] = d[k]
      <3> SUFFICES ASSUME NEW k \in 1..(n + 1) PROVE Append(c, "chunk")[k] = "chunk"
        BY <2>5
      <3>1. k = n + 1 \/ k \in 1..n
        OBVIOUS
      <3> QED
        BY <2>5, <2>6, <3>1
    <2>8. Append(c, "chunk") = d
      BY <2>5, <2>6, <2>7, SeqEqual
    <2> QED
      BY <2>8 DEF c, d
  <1> QED
    BY <1>1, <1>2

\* The handler of r and what it has written are left alone.
Untouched(r) ==
  /\ handler'[r] = "idle" <=> handler[r] = "idle"
  /\ handler'[r] = "done" => handler[r] = "done"
  /\ header'[r] = header[r] /\ parts'[r] = parts[r] /\ sent'[r] = sent[r]

LEMMA WrittenKept ==
  ASSUME NEW r \in Requests, WrittenOK(r), Untouched(r),
         handler[r] # "idle" =>
           /\ <<r>> \in DOMAIN act'
           /\ \/ act'[<<r>>] = act[<<r>>]
              \/ /\ act[<<r>>].pc \notin {"returned", "ended"}
                 /\ act'[<<r>>].pc # "ended"
  PROVE  WrittenOK(r)'
  <1> DEFINE p == <<r>>
  <1>1. Clean(r)' <=> Clean(r)
    BY DEF Clean, Untouched
  <1>2. CASE handler[r] = "idle"
    BY <1>1, <1>2 DEF WrittenOK, Untouched
  <1>3. CASE handler[r] # "idle" /\ act'[p] = act[p]
    BY <1>1, <1>3 DEF WrittenOK, Untouched
  <1>4. CASE /\ handler[r] # "idle"
             /\ act[p].pc \notin {"returned", "ended"}
             /\ act'[p].pc # "ended"
    <2>1. Clean(r) /\ handler[r] # "done"
      BY <1>4 DEF WrittenOK
    <2>2. parts'[r] = Chunks(sent'[r]) /\ sent'[r] = 0 /\ header'[r] = 0
      BY <2>1, ChunksNext DEF Clean, Untouched
    <2> QED
      BY <1>1, <1>4, <2>1, <2>2 DEF WrittenOK, Untouched
  <1> QED
    BY <1>2, <1>3, <1>4

\* A handler that only ends, or panics, leaves the other requests alone.
LEMMA WrittenFrame ==
  ASSUME RouterInv, NEW q \in Requests, NEW r \in Requests, r # q, WrittenOK(r),
         Untouched(r), act' = act \/ End(q)
  PROVE  WrittenOK(r)'
  <1>1. <<r>> # <<q>>
    OBVIOUS
  <1>2. handler[r] # "idle" => <<r>> \in DOMAIN act
    BY DEF WrittenOK
  <1>3. handler[r] # "idle" => <<r>> \in DOMAIN act' /\ act'[<<r>>] = act[<<r>>]
    BY <1>1, <1>2 DEF End
  <1> QED
    BY <1>3, WrittenKept

LEMMA PutEffect ==
  ASSUME WriterOK, NEW q \in Requests, NEW status, NEW part, Put(q, status, part)
  PROVE  /\ header'[q] = IF header[q] = 0 THEN status ELSE header[q]
         /\ parts'[q] = Append(parts[q], part)
         /\ \A r \in Requests : r # q => header'[r] = header[r] /\ parts'[r] = parts[r]
  BY DEF WriterOK, Put

LEMMA HandlerWritten ==
  ASSUME RouterInv, Plain, PlainInv, NEW q \in Requests, Handler(q)
  PROVE  \A r \in Requests : WrittenOK(r)'
  <1> DEFINE p == <<q>>
  <1>1. /\ WriterOK /\ \A r \in Requests : WrittenOK(r) /\ sent[r] \in Nat
        /\ \A x \in DOMAIN act : BranchOK(x)
    BY TrafficAssumption DEF RouterInv, PlainInv, WriterOK
  <1>2. ASSUME RouteReturned(q)
        PROVE  /\ p \in DOMAIN act /\ act[p] \in Execution /\ act[p].pc = "returned"
               /\ handler[q] = "serving" /\ handler[q] # "idle" /\ handler[q] # "done"
               /\ act[p].err => act[p].status = 500 /\ act[p].body.state = "nil"
    BY <1>1, <1>2 DEF RouteReturned, Is, Running, RouterInv, ExecOK, RecordOK, BranchOK
  <1>3. ASSUME RouteReturned(q), End(q)
        PROVE  /\ p \in DOMAIN act' /\ act'[p].pc = "ended" /\ act'[p].err = act[p].err
               /\ act'[p].body = act[p].body
    BY <1>2, <1>3 DEF End, Execution
  <1>4. ASSUME NEW r \in Requests, r # q PROVE WrittenOK(r)'
    <2>1. Untouched(r) /\ (act' = act \/ End(q))
      <3>1. CASE ReportError(q) \/ BodyFails(q)
        BY <1>1, <1>4, <3>1, PutEffect DEF ReportError, BodyFails, Untouched
      <3>2. CASE WriteChunk(q)
        BY <1>1, <1>4, <3>2, PutEffect DEF WriteChunk, Untouched, WriterOK
      <3>3. CASE HandlerPanics(q)
        BY <1>1, <3>3 DEF HandlerPanics, Panic, Untouched, WriterOK
      <3>4. CASE BodyEnds(q)
        BY <3>4 DEF BodyEnds, Untouched, clientVars
      <3>5. CASE HandlerReturns(q)
        BY <1>1, <1>4, <3>5 DEF HandlerReturns, Untouched, WriterOK
      <3> QED
        BY <1>1, <3>1, <3>2, <3>3, <3>4, <3>5, HandlerEffect
    <2> QED
      BY <1>1, <1>4, <2>1, WrittenFrame
  <1>5. ASSUME ReportError(q) PROVE WrittenOK(q)'
    <2>1. RouteReturned(q) /\ act[p].err /\ Put(q, act[p].status, "error") /\ End(q)
          /\ handler' = handler
      BY <1>5 DEF ReportError
    <2>2. Clean(q)
      BY <1>1, <1>2, <2>1 DEF WrittenOK
    <2>3. header'[q] = 500 /\ parts'[q] = Append(<<>>, "error")
      BY <1>1, <1>2, <2>1, <2>2, PutEffect DEF Clean
    <2>4. Append(<<>>, "error") = <<"error">>
      OBVIOUS
    <2> QED
      BY <1>2, <1>3, <2>1, <2>3, <2>4 DEF WrittenOK
  <1>6. ASSUME HandlerPanics(q) PROVE WrittenOK(q)'
    <2>1. act' = act /\ Untouched(q) /\ (handler[q] # "idle" => <<q>> \in DOMAIN act)
      BY <1>1, <1>6 DEF HandlerPanics, Panic, Untouched, WriterOK, WrittenOK
    <2> QED
      BY <1>1, <2>1, WrittenKept
  <1>7. ASSUME WriteChunk(q) PROVE WrittenOK(q)'
    <2>1. /\ RouteReturned(q) /\ ~act[p].err /\ Put(q, 200, "chunk")
          /\ act' = act /\ handler' = handler
          /\ sent'[q] = sent[q] + 1
      BY <1>1, <1>7 DEF WriteChunk, Streaming, WriterOK
    <2>2. parts[q] = Chunks(sent[q]) /\ header[q] = IF sent[q] = 0 THEN 0 ELSE 200
      BY <1>1, <1>2, <2>1 DEF WrittenOK
    <2>3. header'[q] = 200 /\ parts'[q] = Append(Chunks(sent[q]), "chunk")
      BY <1>1, <2>1, <2>2, PutEffect
    <2>4. parts'[q] = Chunks(sent'[q]) /\ sent'[q] # 0
      <3>1. sent[q] \in Nat
        BY <1>1
      <3>2. Append(Chunks(sent[q]), "chunk") = Chunks(sent[q] + 1)
        BY <3>1, ChunksNext, Zenon
      <3>3. sent'[q] # 0
        BY <2>1, <3>1
      <3>4. Chunks(sent'[q]) = Chunks(sent[q] + 1)
        BY <2>1, Zenon
      <3> QED
        BY <2>3, <3>2, <3>3, <3>4, Zenon
    <2> QED
      BY <1>2, <2>1, <2>3, <2>4 DEF WrittenOK
  <1>8. ASSUME BodyFails(q) PROVE WrittenOK(q)'
    <2>1. /\ RouteReturned(q) /\ ~act[p].err /\ act[p].body.state # "open" /\ End(q)
          /\ handler' = handler
      BY <1>8 DEF BodyFails, Streaming
    <2> QED
      BY <1>2, <1>3, <2>1 DEF WrittenOK
  <1>9. ASSUME BodyEnds(q) PROVE WrittenOK(q)'
    <2>1. /\ RouteReturned(q) /\ ~act[p].err /\ End(q)
          /\ act[p].body.state = "open" => sent[q] = MaxChunks
          /\ UNCHANGED <<handler, header, parts, sent>>
      BY <1>9 DEF BodyEnds, Streaming, clientVars
    <2>2. parts[q] = Chunks(sent[q]) /\ header[q] = IF sent[q] = 0 THEN 0 ELSE 200
      BY <1>1, <1>2, <2>1 DEF WrittenOK
    <2>3. act[p].body.state = "open" => header[q] = 200 /\ parts[q] = Chunks(MaxChunks)
      BY <2>1, <2>2, TrafficAssumption
    <2> QED
      BY <1>2, <1>3, <2>1, <2>3 DEF WrittenOK
  <1>10. ASSUME HandlerReturns(q) PROVE WrittenOK(q)'
    <2>1. /\ p \in DOMAIN act /\ act[p].pc = "ended" /\ handler[q] # "idle"
          /\ act' = act /\ parts' = parts /\ handler'[q] = "done"
          /\ header'[q] = IF header[q] = 0 THEN 200 ELSE header[q]
      BY <1>1, <1>10 DEF HandlerReturns, Is, Running, WriterOK
    <2>2. /\ act[p].err => header[q] = 500 /\ parts[q] = <<"error">>
          /\ act[p].body.state = "open" => header[q] = 200 /\ parts[q] = Chunks(MaxChunks)
      BY <1>1, <2>1 DEF WrittenOK
    <2> QED
      BY <2>1, <2>2 DEF WrittenOK
  <1> QED
    <2>1. WrittenOK(q)'
      BY <1>1, <1>5, <1>6, <1>7, <1>8, <1>9, <1>10, HandlerEffect
    <2> QED
      BY <1>4, <2>1

LEMMA WrittenNext ==
  ASSUME RouterInv, Plain, PlainInv, [RouterNext]_vars
  PROVE  \A r \in Requests : WrittenOK(r)'
  <1>1. /\ WriterOK /\ \A r \in Requests : WrittenOK(r)
        /\ \A x \in DOMAIN act : BranchOK(x)
    BY DEF RouterInv, PlainInv
  <1>2. ASSUME act' = act, \A r \in Requests : Untouched(r)
        PROVE  \A r \in Requests : WrittenOK(r)'
    <2> SUFFICES ASSUME NEW r \in Requests PROVE WrittenOK(r)'
      OBVIOUS
    <2>1. handler[r] # "idle" => <<r>> \in DOMAIN act'
      BY <1>1, <1>2 DEF WrittenOK
    <2> QED
      BY <1>1, <1>2, <2>1, WrittenKept
  <1>3. ASSUME NEW p \in DOMAIN act, Pipeline(p)
        PROVE  \A r \in Requests : WrittenOK(r)'
    <2> SUFFICES ASSUME NEW r \in Requests PROVE WrittenOK(r)'
      OBVIOUS
    <2>1. act[p].pc \notin {"returned", "ended"} /\ Untouched(r)
      BY <1>3, PipelineRuns DEF Untouched, clientVars
    <2>2. /\ DOMAIN act \subseteq DOMAIN act'
          /\ \A x \in DOMAIN act : x # p => act'[x] = act[x]
          /\ act'[p].pc # "ended"
      <3>1. CASE ExecuteNext(p)
        BY <3>1, ExecuteEffect
      <3>2. CASE ~ExecuteNext(p)
        BY <1>1, <1>3, <2>1, <3>2, PipelineMoves DEF Moves, Only
      <3> QED
        BY <3>1, <3>2
    <2>3. handler[r] # "idle" => <<r>> \in DOMAIN act
      BY <1>1 DEF WrittenOK
    <2> QED
      BY <1>1, <2>1, <2>2, <2>3, WrittenKept
  <1>4. ASSUME NEW q \in Requests, Arrive(q) \/ ArriveCut(q)
        PROVE  \A r \in Requests : WrittenOK(r)'
    <2>1. handler[q] = "idle" /\ handler'[q] = "serving"
      BY <1>1, <1>4 DEF Arrive, ArriveCut, WriterOK
    <2>2. <<q>> \notin DOMAIN act
      BY <2>1 DEF RouterInv, ExecOK, TreeOK
    <2>3. /\ DOMAIN act' = DOMAIN act \cup {<<q>>}
          /\ \A x \in DOMAIN act : act'[x] = act[x]
      BY <1>4, <2>2 DEF Arrive, ArriveCut
    <2>4. ASSUME NEW r \in Requests, r # q PROVE WrittenOK(r)'
      <3>1. handler[r] # "idle" => <<r>> \in DOMAIN act
        BY <1>1 DEF WrittenOK
      <3>2. Untouched(r)
        BY <1>1, <1>4, <2>4, PutEffect DEF Arrive, ArriveCut, Untouched, WriterOK
      <3> QED
        BY <1>1, <2>3, <3>1, <3>2, WrittenKept
    <2>5. CASE Arrive(q)
      <3>1. act'[<<q>>].pc = "node"
        <4>1. Root # NoNode
          BY GraphAssumption
        <4> QED
          BY <2>5, <4>1 DEF Arrive, executeStep
      <3>2. Clean(q)'
        BY <1>1, <2>1, <2>5 DEF WrittenOK, Arrive, Clean
      <3> QED
        BY <2>1, <2>3, <2>4, <3>1, <3>2 DEF WrittenOK
    <2>6. CASE ArriveCut(q)
      <3>1. /\ act'[<<q>>].pc = "ended" /\ ~act'[<<q>>].err
            /\ act'[<<q>>].body.state = "nil"
        BY <2>6 DEF ArriveCut, executeStep, NilBody
      <3> QED
        BY <2>1, <2>3, <2>4, <3>1 DEF WrittenOK
    <2> QED
      BY <1>4, <2>5, <2>6
  <1>5. CASE \E p \in DOMAIN act : GoroutinePanics(p) \/ MergePanics(p)
    BY <1>1, <1>2, <1>5 DEF GoroutinePanics, MergePanics, Panic, Untouched, WriterOK
  <1>6. CASE UNCHANGED vars
    BY <1>2, <1>6 DEF vars, Untouched
  <1>7. \A q \in Requests : ~TimeOut(q)
    BY DEF TimeOut, Plain
  <1> QED
    BY <1>3, <1>4, <1>5, <1>6, <1>7, HandlerWritten DEF RouterNext, Progress

LEMMA PlainInvInit ==
  ASSUME RouterInit
  PROVE  PlainInv
  <1>1. DOMAIN act = {}
    BY DEF RouterInit
  <1>2. \A q \in Requests : WrittenOK(q)
    BY DEF RouterInit, WrittenOK, Clean
  <1> QED
    BY <1>1, <1>2 DEF PlainInv

LEMMA PlainInvCorrect ==
  ASSUME Plain
  PROVE  RouterSpec => [](RouterInv /\ PlainInv)
  <1>1. RouterInit => RouterInv /\ PlainInv
    BY RouterInvInit, PlainInvInit
  <1>2. (RouterInv /\ PlainInv) /\ [RouterNext]_vars => (RouterInv /\ PlainInv)'
    <2> SUFFICES ASSUME RouterInv, PlainInv, [RouterNext]_vars
                 PROVE  (RouterInv /\ PlainInv)'
      OBVIOUS
    <2>1. RouterInv'
      BY ExecNext, WriterNext DEF RouterInv
    <2>2. PlainInv'
      BY BranchNext, WrittenNext DEF PlainInv
    <2> QED
      BY <2>1, <2>2
  <1> QED
    BY <1>1, <1>2, PTL DEF RouterSpec

\* What belongs to a request is below its root.
LEMMA BelowRoot ==
  ASSUME NEW p \in Path, Len(p) >= 1, NEW q \in Requests
  PROVE  Below(<<q>>, p) <=> p[1] = q
  <1> DEFINE r == <<q>>
  <1>1. r \in Path /\ Len(r) = 1 /\ r[1] = q
    BY DEF Path
  <1>2. Len(p) \in Nat /\ 1 \in 1..Len(p)
    BY LenProperties DEF Path
  <1>3. Up(p, 1) \in Path /\ Len(Up(p, 1)) = 1 /\ Up(p, 1)[1] = p[1]
    <2>1. 1 \in 1..1
      OBVIOUS
    <2> QED
      BY <1>2, <2>1, UpPath, Zenon
  <1> HIDE DEF r
  <1>4. ASSUME p[1] = q PROVE Up(p, 1) = r
    <2>1. \A k \in 1..1 : Up(p, 1)[k] = r[k]
      BY <1>1, <1>3, <1>4
    <2> QED
      BY <1>1, <1>3, <2>1, SeqEqual DEF Path
  <1>5. ASSUME Up(p, 1) = r PROVE p[1] = q
    BY <1>1, <1>3, <1>5
  <1>6. Below(r, p) <=> Up(p, 1) = r
    BY <1>1, <1>2 DEF Below
  <1> QED
    BY <1>4, <1>5, <1>6 DEF r

\* Without Ensembles and timeouts, a request that routeStep has a response for
\* gets all its chunks with status 200, and the response is that of the service
\* called last for the request, at any depth of the graph.
THEOREM LastAnswersCorrect == Plain => (RouterSpec => []LastAnswers)
  <1> SUFFICES ASSUME Plain PROVE RouterSpec => []LastAnswers
    OBVIOUS
  <1>1. RouterInv /\ PlainInv => LastAnswers
    <2> SUFFICES ASSUME RouterInv, PlainInv, NEW q \in Requests, handler[q] = "done",
                        act[<<q>>].body.state = "open"
                 PROVE  /\ header[q] = 200
                        /\ parts[q] = [k \in 1..MaxChunks |-> "chunk"]
                        /\ \E c \in Leaves(q) :
                             /\ act[<<q>>].body.bytes.of = {c}
                             /\ \A p \in Leaves(q) \ {c} : Before(p, c)
      BY DEF LastAnswers
    <2>1. <<q>> \in DOMAIN act /\ act[<<q>>].pc = "ended"
      BY DEF PlainInv, WrittenOK
    <2>2. header[q] = 200 /\ parts[q] = [k \in 1..MaxChunks |-> "chunk"]
      BY <2>1 DEF PlainInv, WrittenOK, Chunks
    <2>3. PICK c \in DOMAIN act : From(<<q>>, c)
      BY <2>1 DEF PlainInv, LatestOK
    <2>4. \A p \in DOMAIN act : Below(<<q>>, p) <=> p[1] = q
      BY BelowRoot DEF RouterInv, ExecOK, TreeOK
    <2>5. c \in Leaves(q) /\ act[<<q>>].body.bytes.of = {c}
      BY <2>3, <2>4 DEF From, Leaf, Leaves
    <2>6. \A p \in Leaves(q) \ {c} : Before(p, c)
      BY <2>3, <2>4 DEF From, Leaf, Leaves
    <2> QED
      BY <2>2, <2>5, <2>6
  <1> QED
    BY <1>1, PlainInvCorrect, PTL
-----------------------------------------------------------------------------
(***************************************************************************)
(* Every node answers: what has returned without an error has a response,  *)
(* so nothing panics and every request gets an answer.                     *)
(***************************************************************************)
LEMMA AnswerKept ==
  ASSUME NEW x \in DOMAIN act, AnswerOK(x), act'[x] = act[x]
  PROVE  AnswerOK(x)'
  <1>1. TypeOf(x)' = TypeOf(x)
    BY DEF TypeOf
  <1>2. AllSkipped(x)' <=> AllSkipped(x)
    BY <1>1 DEF AllSkipped
  <1> QED
    BY <1>2 DEF AnswerOK

LEMMA AnswerStep ==
  ASSUME \A x \in DOMAIN act : AnswerOK(x), NEW p \in DOMAIN act, Only(p), AnswerOK(p)'
  PROVE  \A x \in DOMAIN act' : AnswerOK(x)'
  BY AnswerKept DEF Only

\* A body that is returned, or an error.
LEMMA AnswerReturns ==
  ASSUME RouterInv, \A x \in DOMAIN act : AnswerOK(x), NEW p \in DOMAIN act,
         NEW body \in Body, NEW status \in Nat, NEW err \in BOOLEAN,
         Return(p, body, status, err), err \/ body.state # "nil"
  PROVE  \A x \in DOMAIN act' : AnswerOK(x)'
  <1>1. /\ Only(p) /\ act'[p].pc = "returned" /\ act'[p].body = body
        /\ act'[p].err = err
    BY ReturnEffect DEF RouterInv, ExecOK, RecordOK
  <1>2. AnswerOK(p)'
    BY <1>1 DEF AnswerOK
  <1> QED
    BY <1>1, <1>2, AnswerStep

LEMMA AnswerPipeline ==
  ASSUME RouterInv, Plain, Answering, \A x \in DOMAIN act : BranchOK(x) /\ AnswerOK(x),
         NEW p \in DOMAIN act, Pipeline(p)
  PROVE  \A x \in DOMAIN act' : AnswerOK(x)'
  <1>1. /\ act[p] \in Execution /\ act[p].body \in Body /\ act[p].status \in Nat
        /\ p \in Path /\ AnswerOK(p) /\ TypeOf(p) # "Ensemble"
        /\ act[p].pc \notin {"collect", "result", "error"}
    <2>1. TypeOf(p) # "Ensemble"
      BY StepsType DEF Plain, TypeOf
    <2>2. ExecOK(p) /\ BranchOK(p) /\ AnswerOK(p)
      BY DEF RouterInv
    <2> QED
      BY <2>1, <2>2 DEF ExecOK, RecordOK, TreeOK, Execution, BranchOK
  <1>2. CASE Acquire(p)
    <2>1. Only(p) /\ act'[p].pc = "flight"
      BY <1>1, <1>2 DEF Acquire, Only, Execution
    <2>2. AnswerOK(p)'
      BY <2>1 DEF AnswerOK
    <2> QED
      BY <2>1, <2>2, AnswerStep
  <1>3. ASSUME Return(p, NilBody, 500, TRUE) PROVE \A x \in DOMAIN act' : AnswerOK(x)'
    <2>1. Only(p) /\ act'[p].pc = "returned" /\ act'[p].err
      BY <1>1, <1>3 DEF Return, Only, Execution
    <2>2. AnswerOK(p)'
      BY <2>1 DEF AnswerOK
    <2> QED
      BY <2>1, <2>2, AnswerStep
  <1>4. ASSUME NEW answer \in Answers, callService(p, answer)
        PROVE  \A x \in DOMAIN act' : AnswerOK(x)'
    <2> DEFINE body == [state |-> IF answer.cut THEN "cut" ELSE "open", mem |-> FALSE,
                        bytes |-> [kind |-> answer.kind, has |-> answer.has, of |-> {p}]]
    <2>1. answer \in AnswerType
      BY TrafficAssumption
    <2>2. CASE answer.refused
      BY <1>3, <1>4, <2>2 DEF callService
    <2>3. CASE ~answer.refused
      <3>1. body \in Body /\ body.state # "nil"
        BY <1>1, <2>1 DEF AnswerType, Body, Bytes
      <3>2. Return(p, body, answer.status, FALSE) /\ answer.status \in Nat
        BY <1>4, <2>1, <2>3 DEF callService, AnswerType
      <3> HIDE DEF body
      <3> QED
        BY <3>1, <3>2, AnswerReturns
    <2> QED
      BY <2>2, <2>3
  <1>5. CASE \/ InvalidInput(p) \/ InvalidRouteType(p) \/ ReadFails(p)
             \/ ConditionInvalid(p) \/ StepFails(p)
    BY <1>3, <1>5 DEF InvalidInput, InvalidRouteType, ReadFails, ConditionInvalid, StepFails
  <1>6. CASE SkipStep(p)
    <2>1. InPipeline(p) /\ Skipped(p)
      BY <1>6 DEF SkipStep
    <2>2. act[p].pc = "node" /\ act[p].node \in Nodes /\ act[p].i \in Nat
      BY <2>1, AtNode DEF RouterInv, Execution
    <2>3. /\ Only(p) /\ act'[p].pc = "node" /\ act'[p].i = act[p].i + 1
          /\ act'[p].body = act[p].body /\ act'[p].bytes = act[p].bytes
          /\ act'[p].node = act[p].node
      BY <1>1, <1>6, <2>2 DEF SkipStep, Only, Execution
    <2>4. TypeOf(p)' = TypeOf(p)
      BY <2>3 DEF TypeOf
    <2>5. AllSkipped(p) => AllSkipped(p)'
      <3> DEFINE Passed(k) ==
            \/ StepsOf[act[p].node][k].downstream
            \/ TypeOf(p) = "Switch" /\ StepsOf[act[p].node][k].condition # Always
      <3>1. Passed(act[p].i)
        BY <2>1 DEF Skipped, step
      <3>2. AllSkipped(p) => \A k \in 1..(act[p].i - 1) : Passed(k)
        BY DEF AllSkipped
      <3>3. (\A k \in 1..(act'[p].i - 1) : Passed(k)) => AllSkipped(p)'
        BY <2>3, <2>4 DEF AllSkipped
      <3> HIDE DEF Passed
      <3>4. \A k \in 1..(act'[p].i - 1) : k = act[p].i \/ k \in 1..(act[p].i - 1)
        BY <2>2, <2>3
      <3> QED
        BY <3>1, <3>2, <3>3, <3>4
    <2>6. AnswerOK(p)'
      BY <1>1, <2>2, <2>3, <2>5 DEF AnswerOK
    <2> QED
      BY <2>3, <2>6, AnswerStep
  <1>7. CASE ConditionUnmatched(p)
    <2>1. /\ InPipeline(p) /\ responseBytes(p).kind # "text"
          /\ Return(p, Close(act[p].body), 500, FALSE)
      BY <1>7 DEF ConditionUnmatched, HasRead, HasMerged, AtStep
    <2>2. act[p].pc = "node" /\ act[p].node \in Nodes
      BY <2>1, AtNode DEF RouterInv
    <2>3. act[p].body.state # "nil"
      BY <1>1, <2>1, <2>2 DEF AnswerOK, responseBytes, Nothing
    <2>4. Close(act[p].body) \in Body /\ Close(act[p].body).state # "nil" /\ 500 \in Nat
      BY <1>1, <2>3, BodyTypes
    <2> QED
      BY <2>1, <2>4, AnswerReturns
  <1>8. CASE ExecuteNext(p)
    <2>1. PICK c : c = Child(p)
      OBVIOUS
    <2>2. /\ DOMAIN act' = DOMAIN act \cup {c} /\ c \notin DOMAIN act
          /\ \A r \in DOMAIN act : r # p => act'[r] = act[r]
          /\ act'[p].pc = "wait"
      BY <1>8, <2>1, ExecuteEffect
    <2>3. act'[c] = executeStep(step(p).nodeName, request(p))
      BY <1>8, <2>1 DEF ExecuteNext
    <2>4. AnswerOK(p)'
      BY <2>2 DEF AnswerOK
    <2>5. AnswerOK(c)'
      <3>1. /\ act'[c].pc # "returned" /\ act'[c].bytes = Nothing /\ act'[c].i = 1
        BY <2>3 DEF executeStep
      <3>2. AllSkipped(c)'
        BY <3>1 DEF AllSkipped
      <3> QED
        BY <3>1, <3>2 DEF AnswerOK
    <2> QED
      BY <2>2, <2>4, <2>5, AnswerKept
  <1>9. CASE HardStepFails(p)
    <2>1. /\ Returned(p) /\ ~act[Child(p)].err
          /\ Return(p, act[Child(p)].body, act[Child(p)].status, FALSE)
      BY <1>9 DEF HardStepFails
    <2>2. /\ Child(p) \in DOMAIN act /\ act[Child(p)].pc = "returned"
          /\ act[Child(p)].body \in Body /\ act[Child(p)].status \in Nat
      BY <2>1, AtWait DEF RouterInv, Execution
    <2>3. act[Child(p)].body.state # "nil"
      BY <2>1, <2>2 DEF AnswerOK
    <2> QED
      BY <2>1, <2>2, <2>3, AnswerReturns
  <1>10. CASE StepEnds(p)
    <2>1. Returned(p) /\ ~act[Child(p)].err
      BY <1>10 DEF StepEnds
    <2>2. Child(p) \in DOMAIN act /\ act[Child(p)].pc = "returned"
      BY <2>1, AtWait DEF RouterInv
    <2>3. Only(p) /\ act'[p].pc = "node" /\ act'[p].body = act[Child(p)].body
      BY <1>1, <1>10 DEF StepEnds, Only, Execution
    <2>4. AnswerOK(p)'
      BY <2>1, <2>2, <2>3 DEF AnswerOK
    <2> QED
      BY <2>3, <2>4, AnswerStep
  <1>11. CASE PipelineEnds(p)
    <2>1. /\ InPipeline(p) /\ act[p].i > NumSteps(p)
          /\ Return(p, act[p].body, act[p].status, FALSE)
      BY <1>11 DEF PipelineEnds
    <2>2. /\ act[p].pc = "node" /\ act[p].node \in Nodes /\ act[p].i \in Nat
          /\ NumSteps(p) \in Nat
      BY <2>1, AtNode DEF RouterInv, Execution
    <2>3. PICK k \in DOMAIN StepsOf[act[p].node] :
            /\ ~StepsOf[act[p].node][k].downstream
            /\ TypeOf(p) = "Switch" => StepsOf[act[p].node][k].condition = Always
      BY <2>2 DEF Answering, TypeOf
    <2>4. k \in 1..(act[p].i - 1)
      BY <2>1, <2>2, <2>3, StepsType DEF NumSteps
    <2>5. act[p].body.state # "nil"
      BY <1>1, <2>2, <2>3, <2>4 DEF AnswerOK, AllSkipped
    <2> QED
      BY <1>1, <2>1, <2>5, AnswerReturns
  <1>12. ~StartEnsemble(p) /\ ~ReceiveResult(p) /\ ~ReceiveError(p) /\ ~EnsembleEnds(p)
    BY <1>1 DEF StartEnsemble, ReceiveResult, ReceiveError, EnsembleEnds, Is
  <1>13. ~GoroutineReads(p)
    BY StepsType DEF GoroutineReads, InGoroutine, TypeOf, Plain
  <1> QED
    BY <1>2, <1>4, <1>5, <1>6, <1>7, <1>8, <1>9, <1>10, <1>11, <1>12, <1>13 DEF Pipeline

LEMMA AnswerNext ==
  ASSUME RouterInv, Plain, Answering, PlainInv, AnswerInv, [RouterNext]_vars
  PROVE  AnswerInv'
  <1>1. /\ WriterOK /\ \A x \in DOMAIN act : BranchOK(x) /\ AnswerOK(x)
        /\ \A x \in DOMAIN act : BranchOK(x)
        /\ \A x \in DOMAIN act : AnswerOK(x)
        /\ up => \A q \in Requests : handler[q] # "reset"
    BY DEF RouterInv, PlainInv, AnswerInv
  <1>2. ASSUME NEW p \in DOMAIN act, Pipeline(p) PROVE AnswerInv'
    <2>1. \A x \in DOMAIN act' : AnswerOK(x)'
      BY <1>1, <1>2, AnswerPipeline
    <2>2. handler' = handler /\ up' = up /\ up
      BY <1>2, PipelineRuns DEF Pipeline, clientVars
    <2> QED
      BY <1>1, <2>1, <2>2 DEF AnswerInv
  <1>3. ASSUME NEW q \in Requests, Handler(q) PROVE AnswerInv'
    <2>1. ~HandlerPanics(q)
      BY <1>1 DEF HandlerPanics, Is, Running, AnswerOK
    <2>2. \/ ReportError(q) \/ WriteChunk(q) \/ BodyFails(q) \/ BodyEnds(q)
          \/ HandlerReturns(q)
      BY <1>3, <2>1, HandlerEffect DEF PlainInv
    <2>3. handler' = handler \/ handler' = [handler EXCEPT ![q] = "done"]
      BY <2>2 DEF ReportError, WriteChunk, BodyFails, BodyEnds, HandlerReturns, clientVars
    <2>9. up /\ up'
      BY <2>2 DEF ReportError, WriteChunk, BodyFails, BodyEnds, HandlerReturns,
                  RouteReturned, Streaming, Is, Running
    <2>4. \A r \in Requests : handler'[r] # "reset"
      BY <1>1, <2>3, <2>9 DEF WriterOK
    <2>5. act' = act \/ (End(q) /\ Is(<<q>>, "returned"))
      BY <2>2 DEF ReportError, WriteChunk, BodyFails, BodyEnds, HandlerReturns,
                  RouteReturned, Streaming
    <2>6. CASE act' = act
      BY <1>1, <2>4, <2>6, <2>9, AnswerKept DEF AnswerInv
    <2>7. CASE End(q) /\ Is(<<q>>, "returned")
      <3>1. <<q>> \in DOMAIN act /\ act[<<q>>] \in Execution
        BY <2>7 DEF Is, Running, RouterInv, ExecOK, RecordOK
      <3>2. Only(<<q>>) /\ act'[<<q>>].pc = "ended"
        BY <2>7, <3>1 DEF End, Only, Execution
      <3>3. AnswerOK(<<q>>)'
        BY <3>2 DEF AnswerOK
      <3>4. \A x \in DOMAIN act' : AnswerOK(x)'
        BY <1>1, <3>1, <3>2, <3>3, AnswerStep
      <3> QED
        BY <2>4, <2>9, <3>4 DEF AnswerInv
    <2> QED
      BY <2>5, <2>6, <2>7
  <1>4. ASSUME NEW q \in Requests, Arrive(q) \/ ArriveCut(q) PROVE AnswerInv'
    <2>0. up /\ up'
      BY <1>4 DEF Arrive, ArriveCut
    <2>1. \A r \in Requests : handler'[r] # "reset"
      BY <1>1, <1>4, <2>0 DEF Arrive, ArriveCut, WriterOK
    <2>2. <<q>> \notin DOMAIN act
      BY <1>4 DEF Arrive, ArriveCut, RouterInv, ExecOK, TreeOK
    <2>3. /\ DOMAIN act' = DOMAIN act \cup {<<q>>}
          /\ \A x \in DOMAIN act : act'[x] = act[x]
      BY <1>4, <2>2 DEF Arrive, ArriveCut
    <2>4. /\ act'[<<q>>].pc # "returned" /\ act'[<<q>>].bytes = Nothing
          /\ act'[<<q>>].i = 1
      BY <1>4 DEF Arrive, ArriveCut, executeStep
    <2>5. AnswerOK(<<q>>)'
      <3>1. AllSkipped(<<q>>)'
        BY <2>4 DEF AllSkipped
      <3> QED
        BY <2>4, <3>1 DEF AnswerOK
    <2>6. \A x \in DOMAIN act' : AnswerOK(x)'
      BY <1>1, <2>3, <2>5, AnswerKept
    <2> QED
      BY <2>0, <2>1, <2>6 DEF AnswerInv
  <1>5. /\ \A p \in DOMAIN act : ~GoroutinePanics(p)
        /\ \A q \in Requests : ~TimeOut(q)
    BY StepsType DEF GoroutinePanics, InGoroutine, TypeOf, TimeOut, Plain
  <1>6. CASE UNCHANGED vars
    <2>1. UNCHANGED <<up, act, init, handler>>
      BY <1>6 DEF vars
    <2>2. (\E p \in DOMAIN act : DiedMerging(p)) => (\E p \in DOMAIN act : DiedMerging(p))'
      BY <2>1 DEF DiedMerging, Unmergeable, Merges, MergeFails, IsMap, responseBytes, ReadAll,
                  step, initInput, NumSteps
    <2> QED
      BY <1>1, <2>1, <2>2, AnswerKept DEF AnswerInv
  <1>7. ASSUME NEW p \in DOMAIN act, MergePanics(p) PROVE AnswerInv'
    <2>1. InPipeline(p) /\ act[p].i <= NumSteps(p) /\ Unmergeable(p)
      BY <1>7 DEF MergePanics, HasRead, AtStep
    <2>2. ~up' /\ UNCHANGED <<act, init>>
      BY <1>7 DEF MergePanics, Panic
    <2>3. act[p].pc = "node" /\ act[p].node \in Nodes
      BY <2>1, AtNode DEF RouterInv
    <2>4. DiedMerging(p)'
      BY <2>1, <2>2, <2>3 DEF DiedMerging, Unmergeable, Merges, MergeFails, IsMap,
                              responseBytes, ReadAll, step, initInput, NumSteps
    <2> QED
      BY <1>1, <2>2, <2>4, AnswerKept DEF AnswerInv
  <1> QED
    BY <1>2, <1>3, <1>4, <1>5, <1>6, <1>7 DEF RouterNext, Progress

LEMMA AnswerInvCorrect ==
  ASSUME Plain, Answering
  PROVE  RouterSpec => []AnswerInv
  <1>1. RouterInit => AnswerInv
    BY DEF RouterInit, AnswerInv
  <1>2. RouterInv /\ PlainInv /\ AnswerInv /\ [RouterNext]_vars => AnswerInv'
    BY AnswerNext
  <1> QED
    BY <1>1, <1>2, PlainInvCorrect, PTL DEF RouterSpec

\* After a failed call nothing of its request is executed any more: where the
\* branch of another execution leaves that of the call, the loop has not passed
\* the failed step.
LEMMA FailureLast ==
  ASSUME RouterInv, Plain, PlainInv, NEW l \in DOMAIN act, act[l].err,
         NEW p \in DOMAIN act, p[1] = l[1]
  PROVE  act[p].pc # "node"
  <1> SUFFICES ASSUME act[p].pc = "node" PROVE FALSE
    OBVIOUS
  <1> DEFINE S == {m \in 1..Len(l) : m <= Len(p) /\ Up(l, m) = Up(p, m)}
             n == Max(S)
             w == Up(l, n)
  <1>1. /\ BranchOK(l) /\ BranchOK(p) /\ l \in Path /\ p \in Path
        /\ Len(l) \in Nat /\ Len(p) \in Nat /\ Len(l) >= 1 /\ Len(p) >= 1
        /\ p[1] \in Requests
        /\ act[l].pc \in {"returned", "ended"}
    BY LenProperties DEF PlainInv, RouterInv, ExecOK, TreeOK, RecordOK, Path
  <1>2. 1 \in S
    <2>1. Below(<<p[1]>>, p) /\ Below(<<p[1]>>, l)
      BY <1>1, BelowRoot
    <2>2. Up(p, 1) = <<p[1]>> /\ Up(l, 1) = <<p[1]>>
      BY <2>1 DEF Below
    <2> QED
      BY <1>1, <2>2
  <1>3. n \in S /\ \A m \in S : m <= n
    <2>1. S \subseteq 0..Len(l) /\ S # {}
      BY <1>1, <1>2
    <2> HIDE DEF S
    <2> QED
      BY <1>1, <2>1, MaxExists
  <1>4. n \in 1..Len(l) /\ n <= Len(p) /\ Up(p, n) = w /\ n \in Nat
    BY <1>1, <1>3
  <1>5. n + 1 <= Len(l) /\ n + 1 <= Len(p) => Up(l, n + 1) # Up(p, n + 1)
    <2>1. n + 1 \notin S
      <3> HIDE DEF S
      <3>1. n \in Nat /\ ~(n + 1 <= n)
        BY <1>4
      <3> QED
        BY <1>3, <3>1
    <2> HIDE DEF n
    <2> QED
      BY <1>1, <1>4, <2>1
  <1> HIDE DEF n, S
  <1>6. CASE n = Len(p)
    <2>1. w = p
      BY <1>1, <1>4, <1>6, UpWhole
    <2>2. n # Len(l)
      BY <1>1, <2>1, UpWhole DEF w
    <2>3. n \in 1..(Len(l) - 1)
      BY <1>1, <1>4, <2>2
    <2>4. act[w].pc = "wait" \/ act[w].err
      BY <1>1, <2>3 DEF BranchOK, w
    <2> QED
      BY <2>1, <2>4 DEF RouterInv, ExecOK, RecordOK
  <1>7. CASE n # Len(p)
    <2>1. n \in 1..(Len(p) - 1) /\ n + 1 <= Len(p)
      BY <1>1, <1>4, <1>7
    <2>2. act[w].pc = "wait" /\ act[w].i = p[n + 1]
      BY <1>1, <1>4, <2>1 DEF BranchOK
    <2>3. n # Len(l)
      BY <1>1, <2>2, UpWhole DEF w
    <2>4. n \in 1..(Len(l) - 1) /\ n + 1 <= Len(l) /\ n + 1 \in 1..Len(l)
      BY <1>1, <1>4, <2>3
    <2>5. /\ w \in DOMAIN act /\ act[w].node \in Nodes /\ StepOK(w, l[n + 1])
          /\ l[n + 1] \in 1..NumSteps(w) /\ Up(l, n + 1) = Append(w, l[n + 1])
      BY <1>1, <2>4, BranchStep DEF w
    <2>6. Up(p, n + 1) = Append(w, p[n + 1])
      BY <1>1, <1>4, <2>1, BranchStep
    <2>7. l[n + 1] # act[w].i
      BY <1>5, <2>1, <2>2, <2>4, <2>5, <2>6
    <2>8. act[Up(l, n + 1)].pc = "returned" /\ ~act[Up(l, n + 1)].err
      <3>1. act[w].i \in Nat /\ l[n + 1] \in Nat
        BY <2>5 DEF RouterInv, ExecOK, RecordOK, Execution
      <3>2. l[n + 1] < act[w].i
        BY <2>5, <2>7, <3>1 DEF StepOK
      <3> QED
        BY <2>5, <2>7, <3>2 DEF StepOK
    <2>9. CASE n + 1 = Len(l)
      BY <1>1, <2>8, <2>9, UpWhole
    <2>10. CASE n + 1 # Len(l)
      <3>1. n + 1 \in 1..(Len(l) - 1)
        BY <1>1, <2>4, <2>10
      <3> QED
        BY <1>1, <2>8, <3>1 DEF BranchOK
    <2> QED
      BY <2>9, <2>10
  <1> QED
    BY <1>6, <1>7

\* In a graph without Ensembles whose nodes each have a step that is always
\* executed, and without timeouts, a request for which a call has failed is
\* answered with status 500 and the error, however deep the call was: every node
\* on the way up hands the error on.  It is cut off only when mergeRequests
\* panics (main.go 246 and 251) in another request.
THEOREM FailureReportedCorrect ==
  Plain /\ Answering => (RouterSpec => []FailureReported)
  <1> SUFFICES ASSUME Plain, Answering PROVE RouterSpec => []FailureReported
    OBVIOUS
  <1>1. RouterInv /\ PlainInv /\ AnswerInv => FailureReported
    <2> SUFFICES ASSUME RouterInv, PlainInv, AnswerInv, NEW q \in Requests,
                        NEW p \in Leaves(q), act[p].err
                 PROVE  /\ handler[q] = "reset" =>
                             \E r \in DOMAIN act : r[1] # q /\ DiedMerging(r)
                        /\ handler[q] = "done" =>
                             header[q] = 500 /\ parts[q] = <<"error">>
      BY DEF FailureReported
    <2>1. /\ p \in DOMAIN act /\ BranchOK(p) /\ p \in Path /\ Len(p) \in Nat
          /\ Len(p) >= 1 /\ p[1] = q /\ act[p].node = NoNode
      BY LenProperties DEF PlainInv, RouterInv, ExecOK, TreeOK, Path, Leaves
    <2>2. Len(p) # 1
      BY <2>1 DEF BranchOK
    <2>3. 1 \in 1..(Len(p) - 1)
      <3> DEFINE n == Len(p)
      <3>1. n \in Nat /\ n >= 1 /\ n # 1
        BY <2>1, <2>2
      <3> HIDE DEF n
      <3>2. 1 \in 1..(n - 1)
        BY <3>1
      <3> QED
        BY <3>2 DEF n
    <2>4. Up(p, 1) = <<q>>
      <3>1. Below(<<q>>, p)
        BY <2>1, BelowRoot
      <3> QED
        BY <3>1 DEF Below
    <2>5. act[<<q>>].pc = "wait" \/ act[<<q>>].err
      BY <2>1, <2>3, <2>4 DEF BranchOK
    <2>6. ASSUME handler[q] = "done"
          PROVE  header[q] = 500 /\ parts[q] = <<"error">>
      <3>1. act[<<q>>].pc = "ended" /\ WrittenOK(q)
        BY <2>6 DEF PlainInv, WrittenOK
      <3> QED
        BY <2>5, <2>6, <3>1 DEF WrittenOK
    <2>7. ASSUME handler[q] = "reset"
          PROVE  \E r \in DOMAIN act : r[1] # q /\ DiedMerging(r)
      <3>1. PICK r \in DOMAIN act : DiedMerging(r)
        BY <2>7 DEF AnswerInv
      <3>2. act[r].pc = "node"
        BY <3>1 DEF DiedMerging
      <3>3. r[1] # p[1]
        BY <2>1, <3>2, FailureLast
      <3> QED
        BY <2>1, <3>1, <3>3
    <2> QED
      BY <2>6, <2>7
  <1> QED
    BY <1>1, PlainInvCorrect, AnswerInvCorrect, PTL
=============================================================================
