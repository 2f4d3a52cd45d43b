---------------------------- MODULE ScrapeProofs ----------------------------
(***************************************************************************)
(* Proofs about ClassCollector, for every set of classes and of requests,  *)
(* every choice of collectors and filters and every limit on requests.     *)
(***************************************************************************)
EXTENDS ClassCollector, TLAPS

USE DEF resctrlVars, loopVars, Collectors, Cached

ScrapeType ==
  [pc : {"new", "collect", "done", "refused", "lost"},
   filters : SUBSET (Collectors \cup {"unknown"}),
   wait : SUBSET Collectors, left : SUBSET Classes, told : SUBSET Collectors]

(* The classes, the caches and the background loops.                       *)
LoopType ==
  /\ up \in BOOLEAN
  /\ dirs \subseteq Classes
  /\ changes \in 0..MaxChanges
  /\ classCache \in [Classes -> Cached]
  /\ nodeCache \in Cached \ {"absent"}
  /\ listed \subseteq Classes
  /\ pass \in [on : BOOLEAN, must : SUBSET Classes, seen : SUBSET Classes]

(* Collectors that have reported and collectors that are waited for are    *)
(* together those the request selects, all of them enabled.                *)
Accounted(s) ==
  s.pc \in {"collect", "done"} =>
    /\ s.filters \subseteq Enabled
    /\ s.told \cup s.wait = Selected(s.filters)
    /\ s.pc = "done" => s.wait = {}

ScrapeInv ==
  /\ scrape \in [Requests -> ScrapeType]
  /\ \A r \in Requests : Accounted(scrape[r])

LEMMA TypeParts == LoopType /\ ScrapeInv => ScrapeTypeOK
BY DEF LoopType, ScrapeInv, ScrapeTypeOK, ScrapeType

LEMMA InitParts == Init => LoopType /\ ScrapeInv
<1> SUFFICES ASSUME Init PROVE LoopType /\ ScrapeInv
  OBVIOUS
<1>1. LoopType
  BY ScrapeAssumption DEF Init, LoopType, NoCache, Asleep
<1>2. NoRequest \in ScrapeType /\ Accounted(NoRequest)
  BY DEF NoRequest, ScrapeType, Accounted
<1>3. ScrapeInv
  BY <1>2 DEF Init, ScrapeInv
<1> QED
  BY <1>1, <1>3

-----------------------------------------------------------------------------
(* The loops and the administrator leave the requests alone.               *)
LEMMA LoopStep ==
  ASSUME LoopType, [Next]_vars
  PROVE  LoopType'
<1>1. CASE ReadDir
  BY <1>1 DEF LoopType, ReadDir
<1>2. CASE updateClasses
  BY <1>2 DEF LoopType, updateClasses
<1>3. CASE BeginPass
  BY <1>3 DEF LoopType, BeginPass, Keys
<1>4. CASE EndPass
  BY <1>4 DEF LoopType, EndPass, Asleep
<1>5. CASE nodeUpdateStats
  BY <1>5 DEF LoopType, nodeUpdateStats, Refreshed
<1>6. CASE main
  BY <1>6 DEF LoopType, main, NoCache, Asleep
<1>7. ASSUME NEW c \in Classes, ChangeClass(c)
      PROVE  LoopType'
  BY <1>7, ScrapeAssumption DEF LoopType, ChangeClass
<1>8. ASSUME NEW c \in Classes, updateStats(c)
      PROVE  LoopType'
  <2>1. UNCHANGED <<up, dirs, changes, nodeCache, listed>>
    BY <1>8 DEF updateStats
  <2>2. classCache' \in [Classes -> Cached]
    BY <1>8 DEF LoopType, updateStats, Refreshed
  <2>3. pass' \in [on : BOOLEAN, must : SUBSET Classes, seen : SUBSET Classes]
    <3>1. pass' \in {Asleep, [pass EXCEPT !.seen = @ \cup {c}]}
      BY <1>8 DEF updateStats
    <3>2. Asleep \in [on : BOOLEAN, must : SUBSET Classes, seen : SUBSET Classes]
      BY DEF Asleep
    <3>3. [pass EXCEPT !.seen = @ \cup {c}] \in
            [on : BOOLEAN, must : SUBSET Classes, seen : SUBSET Classes]
      BY DEF LoopType
    <3> QED
      BY <3>1, <3>2, <3>3
  <2> QED
    BY <2>1, <2>2, <2>3 DEF LoopType
<1>9. ASSUME UNCHANGED <<resctrlVars, loopVars>>, up' \in BOOLEAN
      PROVE  LoopType'
  BY <1>9 DEF LoopType
<1>10. ASSUME NEW r \in Requests, NEW c \in Classes, Panic(r, c)
       PROVE  LoopType'
  BY <1>9, <1>10 DEF Panic
<1>11. ASSUME UNCHANGED <<up, resctrlVars, loopVars>>
       PROVE  LoopType'
  BY <1>11 DEF LoopType
<1> QED
  BY <1>1, <1>2, <1>3, <1>4, <1>5, <1>6, <1>7, <1>8, <1>10, <1>11
  DEF Next, vars, ServeHTTP, ClassMetric, execute, Collect

(* One request changes: it is enough that it stays accounted for.          *)
LEMMA SetAccounted ==
  ASSUME ScrapeInv, NEW r \in Requests, NEW s \in ScrapeType, Accounted(s), Set(r, s)
  PROVE  ScrapeInv'
BY DEF ScrapeInv, Set

LEMMA ServeAccounted ==
  ASSUME LoopType, ScrapeInv, NEW r \in Requests, NEW filters \in Filters,
         ServeHTTP(r, filters)
  PROVE  ScrapeInv'
<1>1. filters \in SUBSET (Collectors \cup {"unknown"}) /\ Enabled \subseteq Collectors
  BY ScrapeAssumption
<1>2. CASE filters \subseteq Enabled /\ Admits(filters)
  <2> DEFINE s == [pc |-> "collect", filters |-> filters, wait |-> Selected(filters),
                   left |-> Keys, told |-> {}]
  <2>1. s \in ScrapeType
    BY <1>1, <1>2 DEF ScrapeType, Selected, Keys
  <2>2. Accounted(s)
    BY <1>2 DEF Accounted, Selected
  <2>3. Set(r, s)
    BY <1>2 DEF ServeHTTP
  <2> HIDE DEF s
  <2> QED
    BY <2>1, <2>2, <2>3, SetAccounted
<1>3. CASE ~(filters \subseteq Enabled /\ Admits(filters))
  <2> DEFINE s == [NoRequest EXCEPT !.pc = "refused", !.filters = filters]
  <2>1. s \in ScrapeType /\ Accounted(s)
    BY <1>1 DEF ScrapeType, Accounted, NoRequest
  <2>2. Set(r, s)
    BY <1>3 DEF ServeHTTP
  <2> HIDE DEF s
  <2> QED
    BY <2>1, <2>2, SetAccounted
<1> QED
  BY <1>2, <1>3

(* The goroutines of Collect, and its end.                                 *)
LEMMA CollectAccounted ==
  ASSUME ScrapeInv, NEW r \in Requests,
         \/ \E c \in Classes : ClassMetric(r, c)
         \/ \E col \in Collectors : execute(r, col)
         \/ Collect(r)
  PROVE  ScrapeInv'
<1>0. scrape[r] \in ScrapeType /\ Accounted(scrape[r]) /\ scrape[r].pc = "collect"
  BY DEF ScrapeInv, ClassMetric, execute, Collect, InHandler
<1>1. ASSUME NEW c \in Classes, ClassMetric(r, c)
      PROVE  ScrapeInv'
  <2> DEFINE s == [scrape[r] EXCEPT !.left = @ \ {c}]
  <2>1. s \in ScrapeType /\ Accounted(s)
    BY <1>0 DEF ScrapeType, Accounted
  <2>2. Set(r, s)
    BY <1>1 DEF ClassMetric
  <2> HIDE DEF s
  <2> QED
    BY <2>1, <2>2, SetAccounted
<1>2. ASSUME NEW col \in Collectors, execute(r, col)
      PROVE  ScrapeInv'
  <2> DEFINE s == [scrape[r] EXCEPT !.wait = @ \ {col}, !.told = @ \cup {col}]
  <2>1. s \in ScrapeType
    BY <1>0 DEF ScrapeType
  <2>2. col \in scrape[r].wait
    BY <1>2 DEF execute
  <2>3. Accounted(s)
    BY <1>0, <2>2 DEF ScrapeType, Accounted
  <2>4. Set(r, s)
    BY <1>2 DEF execute
  <2> HIDE DEF s
  <2> QED
    BY <2>1, <2>3, <2>4, SetAccounted
<1>3. CASE Collect(r)
  <2> DEFINE s == [scrape[r] EXCEPT !.pc = "done"]
  <2>1. s \in ScrapeType /\ Accounted(s)
    BY <1>0, <1>3 DEF ScrapeType, Accounted, Collect, Collected
  <2>2. Set(r, s)
    BY <1>3 DEF Collect
  <2> HIDE DEF s
  <2> QED
    BY <2>1, <2>2, SetAccounted
<1> QED
  BY <1>1, <1>2, <1>3

(* The panic of one goroutine cuts off every request that is being served. *)
LEMMA PanicAccounted ==
  ASSUME ScrapeInv, NEW r \in Requests, NEW c \in Classes, Panic(r, c)
  PROVE  ScrapeInv'
<1>1. ASSUME NEW q \in Requests
      PROVE  scrape'[q] \in ScrapeType /\ Accounted(scrape'[q])
  <2>1. scrape[q] \in ScrapeType /\ Accounted(scrape[q])
    BY DEF ScrapeInv
  <2>2. scrape'[q] \in {scrape[q], [scrape[q] EXCEPT !.pc = "lost"]}
    BY DEF Panic
  <2> QED
    BY <2>1, <2>2 DEF ScrapeType, Accounted
<1>2. scrape' \in [Requests -> ScrapeType]
  BY <1>1 DEF Panic
<1> QED
  BY <1>1, <1>2 DEF ScrapeInv

LEMMA ScrapeStep ==
  ASSUME LoopType, ScrapeInv, [Next]_vars
  PROVE  ScrapeInv'
<1>1. ASSUME NEW r \in Requests, NEW filters \in Filters, ServeHTTP(r, filters)
      PROVE  ScrapeInv'
  BY <1>1, ServeAccounted
<1>2. ASSUME NEW r \in Requests,
             \/ \E c \in Classes : ClassMetric(r, c)
             \/ \E col \in Collectors : execute(r, col)
             \/ Collect(r)
      PROVE  ScrapeInv'
  BY <1>2, CollectAccounted
<1>3. ASSUME NEW r \in Requests, NEW c \in Classes, Panic(r, c)
      PROVE  ScrapeInv'
  BY <1>3, PanicAccounted
<1>4. ASSUME UNCHANGED scrape
      PROVE  ScrapeInv'
  BY <1>4 DEF ScrapeInv
<1> QED
  BY <1>1, <1>2, <1>3, <1>4
  DEF Next, vars, ReadDir, updateClasses, BeginPass, EndPass, nodeUpdateStats, main,
      ChangeClass, updateStats

(* The invariant of the loops and of the requests.                         *)
LEMMA ScrapeInvariant == Spec => [](LoopType /\ ScrapeInv)
<1>1. LoopType /\ ScrapeInv /\ [Next]_vars => (LoopType /\ ScrapeInv)'
  BY LoopStep, ScrapeStep
<1> QED
  BY <1>1, InitParts, PTL DEF Spec

(* The caches, the loops and the requests keep their types, whatever       *)
(* panics and restarts come between (ServeHTTP, execute, updateStats).     *)
THEOREM ScrapeTypeCorrect == Spec => []ScrapeTypeOK
  BY ScrapeInvariant, TypeParts, PTL

(* A scrape is never answered before each collector it selects has         *)
(* reported, and reports no collector that is disabled, for any number of  *)
(* scrapes at a time and any interleaving of their goroutines with the     *)
(* background loops (Collect, execute, NewCollector).                      *)
THEOREM AnsweredCompleteCorrect == Spec => []AnsweredComplete
<1>1. ScrapeInv => AnsweredComplete
  <2> SUFFICES ASSUME ScrapeInv, NEW r \in Requests, scrape[r].pc = "done"
               PROVE  scrape[r].told = Selected(scrape[r].filters) \cap Enabled
    BY DEF AnsweredComplete
  <2>1. scrape[r] \in ScrapeType /\ Accounted(scrape[r])
    BY DEF ScrapeInv
  <2> QED
    BY <2>1 DEF Accounted, ScrapeType, Selected
<1> QED
  BY <1>1, ScrapeInvariant, PTL
=============================================================================
