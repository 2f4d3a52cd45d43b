--------------------------- MODULE ClassCollector ---------------------------
(***************************************************************************)
(* A scrape of the memory bandwidth exporter, from ServeHTTP (cmd/main.go) *)
(* through Collect and execute (collector/collector.go) to Update, against *)
(* the background loops of the class and node collectors.  The caches are  *)
(* shared by the loops and the scrapes without a lock.  A panic in a       *)
(* goroutine of Collect is not recovered: it ends the process.  The        *)
(* container collector is present as a collector that is asked and answers.*)
(***************************************************************************)
EXTENDS Naturals, FiniteSets

CONSTANTS
  Classes,      \* directories that may exist under /sys/fs/resctrl
  Requests,     \* scrape requests
  Enabled,      \* the collectors whose metrics flag is not "none"
  Filters,      \* the values of collect[] requests carry
  MaxRequests,  \* --web.max-requests (40; 0 disables the limit)
  MaxChanges    \* bound: classes made and removed

Collectors == {"container", "class", "node"}

ASSUME ScrapeAssumption ==
  /\ Enabled \subseteq Collectors
  /\ Filters \subseteq SUBSET (Collectors \cup {"unknown"})
  /\ MaxRequests \in Nat
  /\ MaxChanges \in Nat

VARIABLES
  up,          \* the exporter process runs
  dirs,        \* the class directories that exist
  changes,     \* how many times dirs has changed
  classCache,  \* classCollector.statsCache; "nil" is a key without statistics
  nodeCache,   \* nodeCollector.statsCache
  listed,      \* what the last ReadDir of updateClasses has returned
  pass,        \* the iteration of the class collector's updateStats
  scrape       \* the requests

resctrlVars == <<dirs, changes>>
loopVars == <<classCache, nodeCache, listed, pass>>
vars == <<up, resctrlVars, loopVars, scrape>>

Cached == {"absent", "nil", "first", "rate"}
Asleep == [on |-> FALSE, must |-> {}, seen |-> {}]
NoRequest == [pc |-> "new", filters |-> {}, wait |-> {}, left |-> {}, told |-> {}]
NoCache == [c \in Classes |-> "absent"]
Keys == {c \in Classes : classCache[c] # "absent"}

Init ==
  /\ up = TRUE
  /\ dirs \in SUBSET Classes /\ changes = 0
  /\ classCache = NoCache /\ nodeCache = "nil"
  /\ listed = {} /\ pass = Asleep
  /\ scrape = [r \in Requests |-> NoRequest]

-----------------------------------------------------------------------------
(* The administrator makes and removes classes of service.                 *)

ChangeClass(c) ==
  /\ changes < MaxChanges /\ changes' = changes + 1
  /\ dirs' = IF c \in dirs THEN dirs \ {c} ELSE dirs \cup {c}
  /\ UNCHANGED <<up, loopVars, scrape>>

-----------------------------------------------------------------------------
(* The background loops.  updateClasses reads the directory, then adds the *)
(* keys that are missing; nothing ever removes one.  updateStats ranges    *)
(* over the map in an order Go chooses at random, may or may not meet the  *)
(* keys that are added meanwhile, and returns at the first error.          *)

ReadDir ==
  /\ up /\ "class" \in Enabled
  /\ listed' = dirs
  /\ UNCHANGED <<up, resctrlVars, classCache, nodeCache, pass, scrape>>

\* Mutant: the keys that are in the map already are not left alone.
updateClasses_Reset ==
  /\ up /\ listed # {}
  /\ classCache' = [c \in Classes |-> IF c \in listed THEN "nil" ELSE classCache[c]]
  /\ UNCHANGED <<up, resctrlVars, nodeCache, listed, pass, scrape>>

updateClasses ==
  /\ up /\ ~(listed \subseteq Keys)
  /\ classCache' = [c \in Classes |->
       IF c \in listed \ Keys THEN "nil" ELSE classCache[c]]
  /\ UNCHANGED <<up, resctrlVars, nodeCache, listed, pass, scrape>>

Refreshed(old) == IF old = "nil" THEN "first" ELSE "rate"

BeginPass ==
  /\ up /\ "class" \in Enabled /\ ~pass.on
  /\ pass' = [on |-> TRUE, must |-> Keys, seen |-> {}]
  /\ UNCHANGED <<up, resctrlVars, classCache, nodeCache, listed, scrape>>

updateStats(c) ==
  /\ up /\ pass.on /\ c \in Keys \ pass.seen
  /\ IF c \in dirs
       THEN /\ classCache' = [classCache EXCEPT ![c] = Refreshed(@)]
            /\ pass' = [pass EXCEPT !.seen = @ \cup {c}]
       ELSE pass' = Asleep /\ UNCHANGED classCache
  /\ UNCHANGED <<up, resctrlVars, nodeCache, listed, scrape>>

EndPass ==
  /\ up /\ pass.on /\ pass.must \subseteq pass.seen
  /\ pass' = Asleep
  /\ UNCHANGED <<up, resctrlVars, classCache, nodeCache, listed, scrape>>

nodeUpdateStats ==
  /\ up /\ "node" \in Enabled
  /\ nodeCache' = Refreshed(nodeCache)
  /\ UNCHANGED <<up, resctrlVars, classCache, listed, pass, scrape>>

-----------------------------------------------------------------------------
(* Scrapes.  An unfiltered request goes to the one prepared handler, which *)
(* admits MaxRequests at a time.  A filtered one gets a handler of its own *)
(* (innerHandler), with a limit of its own, over the same collectors       *)
(* (NewCollector takes them from initiatedCollectors).                     *)

Set(r, rec) == scrape' = [scrape EXCEPT ![r] = rec]
InHandler == {r \in Requests : scrape[r].pc = "collect"}
Admits(filters) ==
  \/ MaxRequests = 0
  \/ filters # {}
  \/ Cardinality({r \in InHandler : scrape[r].filters = {}}) < MaxRequests

(* NewCollector: a filter that is unknown or disabled is an error.         *)
Selected(filters) == IF filters = {} THEN Enabled ELSE filters

\* Mutant: the filters are not compared with the collectors there are.
ServeHTTP_Unchecked(r, filters) ==
  /\ up /\ scrape[r].pc = "new"
  /\ Set(r, [pc |-> "collect", filters |-> filters,
             wait |-> Selected(filters), left |-> Keys, told |-> {}])
  /\ UNCHANGED <<up, resctrlVars, loopVars>>

ServeHTTP(r, filters) ==
  /\ up /\ scrape[r].pc = "new"
  /\ Set(r, IF filters \subseteq Enabled /\ Admits(filters)
              THEN [pc |-> "collect", filters |-> filters,
                    wait |-> Selected(filters), left |-> Keys, told |-> {}]
              ELSE [NoRequest EXCEPT !.pc = "refused", !.filters = filters])
  /\ UNCHANGED <<up, resctrlVars, loopVars>>

(* classCollector.Update, one key at a time; a key without statistics is   *)
(* a nil pointer, and one that is added meanwhile may be met as well.      *)
ClassMetric(r, c) ==
  /\ up /\ r \in InHandler /\ "class" \in scrape[r].wait /\ c \in scrape[r].left
  /\ classCache[c] # "nil"
  /\ Set(r, [scrape[r] EXCEPT !.left = @ \ {c}])
  /\ UNCHANGED <<up, resctrlVars, loopVars>>

Panic(r, c) ==
  /\ up /\ r \in InHandler /\ "class" \in scrape[r].wait
  /\ classCache[c] = "nil"
  /\ up' = FALSE
  /\ scrape' = [q \in Requests |-> IF q \in InHandler
                                     THEN [scrape[q] EXCEPT !.pc = "lost"]
                                     ELSE scrape[q]]
  /\ UNCHANGED <<resctrlVars, loopVars>>

(* The end of execute: the collector's success is one more metric.         *)
\* Mutant: a collector that has no metrics to send never reports.
execute_Silent(r, col) ==
  /\ up /\ r \in InHandler /\ col \in scrape[r].wait
  /\ col = "class" => scrape[r].left = {} /\ Keys # {}
  /\ Set(r, [scrape[r] EXCEPT !.wait = @ \ {col}, !.told = @ \cup {col}])
  /\ UNCHANGED <<up, resctrlVars, loopVars>>

execute(r, col) ==
  /\ up /\ r \in InHandler /\ col \in scrape[r].wait
  /\ col = "class" => scrape[r].left = {}
  /\ Set(r, [scrape[r] EXCEPT !.wait = @ \ {col}, !.told = @ \cup {col}])
  /\ UNCHANGED <<up, resctrlVars, loopVars>>

(* Collect returns, and the answer is written, when every collector has.   *)
\* Mutant: the WaitGroup waits for one collector.
Collected_First(r) == scrape[r].told # {}

Collected(r) == scrape[r].wait = {}

Collect(r) ==
  /\ up /\ r \in InHandler /\ Collected(r)
  /\ Set(r, [scrape[r] EXCEPT !.pc = "done"])
  /\ UNCHANGED <<up, resctrlVars, loopVars>>

(* The container is restarted, with empty caches.                          *)
main ==
  /\ ~up /\ up' = TRUE
  /\ classCache' = NoCache /\ nodeCache' = "nil"
  /\ listed' = {} /\ pass' = Asleep
  /\ UNCHANGED <<resctrlVars, scrape>>

Next ==
  \/ ReadDir \/ updateClasses \/ BeginPass \/ EndPass \/ nodeUpdateStats \/ main
  \/ \E c \in Classes : ChangeClass(c) \/ updateStats(c)
  \/ \E r \in Requests :
       \/ \E filters \in Filters : ServeHTTP(r, filters)
       \/ \E c \in Classes : ClassMetric(r, c) \/ Panic(r, c)
       \/ \E col \in Collectors : execute(r, col)
       \/ Collect(r)

Spec == Init /\ [][Next]_vars

(* The loops and the goroutines of a scrape run, and the container is      *)
(* restarted.  Go's random order of iteration meets each key first again   *)
(* and again: strong fairness of the visit of each key.                    *)
Fairness ==
  /\ WF_vars(ReadDir) /\ WF_vars(updateClasses) /\ WF_vars(BeginPass)
  /\ WF_vars(EndPass) /\ WF_vars(main)
  /\ \A c \in Classes : SF_vars(updateStats(c))
  /\ \A r \in Requests :
       /\ WF_vars(Collect(r))
       /\ \A c \in Classes : WF_vars(ClassMetric(r, c) \/ Panic(r, c))
       /\ \A col \in Collectors : WF_vars(execute(r, col))

FairSpec == Spec /\ Fairness

-----------------------------------------------------------------------------
(* Type invariant.                                                         *)
ScrapeTypeOK ==
  /\ up \in BOOLEAN
  /\ dirs \subseteq Classes
  /\ changes \in 0..MaxChanges
  /\ classCache \in [Classes -> Cached]
  /\ nodeCache \in Cached \ {"absent"}
  /\ listed \subseteq Classes
  /\ pass \in [on : BOOLEAN, must : SUBSET Classes, seen : SUBSET Classes]
  /\ scrape \in [Requests ->
       [pc : {"new", "collect", "done", "refused", "lost"},
        filters : SUBSET (Collectors \cup {"unknown"}),
        wait : SUBSET Collectors, left : SUBSET Classes, told : SUBSET Collectors]]

(* An answered scrape reports the success of every collector it asked for, *)
(* however its goroutines have been interleaved (Collect, execute), and    *)
(* only of collectors that are enabled (NewCollector).                     *)
AnsweredComplete ==
  \A r \in Requests : scrape[r].pc = "done" =>
    scrape[r].told = Selected(scrape[r].filters) \cap Enabled

(* Every scrape that is admitted ends: it is answered, or the process dies.*)
EveryScrapeEnds ==
  \A r \in Requests : (scrape[r].pc = "collect") ~> (scrape[r].pc \in {"done", "lost"})

(* A class that stays gets a bandwidth, although a class that has been     *)
(* removed is never forgotten and makes every pass of updateStats fail.    *)
ClassesMeasured ==
  \A c \in Classes : (c \in dirs) ~> (c \notin dirs \/ classCache[c] = "rate")
=============================================================================
