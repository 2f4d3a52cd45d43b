------------------------- MODULE ContainerCollector -------------------------
(***************************************************************************)
(* The memory bandwidth exporter's container side: the NRI plugin that     *)
(* puts container events on ContainerInfoChan (plugin/hook-injector.go),   *)
(* the container collector that takes them off and keeps statsCache and    *)
(* containerInfos (collector/container_collector.go), the housekeeping     *)
(* goroutine of each container, and the OCI hook scripts that make and     *)
(* remove a container's resctrl monitoring group.                          *)
(*                                                                         *)
(* A sample read from resctrl is represented by its age relative to the    *)
(* other samples of the container: all that processStats needs to know is  *)
(* whether the sample it is given is younger than the cached one.          *)
(***************************************************************************)
EXTENDS Naturals, Sequences, FiniteSets

CONSTANTS
  Containers,     \* container ids; an id is used once
  Started,        \* the containers running before the exporter starts
  Unstarted,      \* the containers created, without a task, before the exporter
  Whitelisted,    \* the containers of the namespaces of --namespaceWhiteList
  Annotated,      \* the containers of the pods that carry the RDT annotation
  Metrics,        \* --collector.container.metrics
  ChanSize,       \* capacity of ContainerInfoChan (100 in the code)
  MonTimes,       \* --collector.container.monTimes
  MaxCrashes,     \* bound: deaths of the exporter process
  MaxGlitches,    \* bound: files that exist and cannot be read once
  MaxDisconnects, \* bound: NRI connections lost
  MaxRaces,       \* bound: scans that race with a fork or an exit of a thread
  MaxLate         \* bound: housekeepers that are held up between stat and delete

ASSUME ContainersAssumption ==
  /\ Started \subseteq Containers
  /\ Unstarted \subseteq Containers \ Started
  /\ Whitelisted \subseteq Containers
  /\ Annotated \subseteq Containers
  /\ Metrics \subseteq {"mb", "llc", "cpu", "memory"}

ASSUME BoundsAssumption ==
  /\ ChanSize \in Nat \ {0}
  /\ MonTimes \in Nat
  /\ MaxCrashes \in Nat
  /\ MaxGlitches \in Nat
  /\ MaxDisconnects \in Nat
  /\ MaxRaces \in Nat
  /\ MaxLate \in Nat

VARIABLES
  phase,     \* the runtime's state of a container; tasked: its task, and with it
             \* the cgroup, has been made for a start that goes on
  stopped,   \* the containers whose StopContainer request has been made
  hooked,    \* the containers created with the OCI hooks injected
  groups,    \* the containers whose monitoring group exists
  strays,    \* the containers with a thread outside their monitoring group
  plugin,    \* the NRI connection: off, sync, on, dead
  todo,      \* the containers Synchronize has yet to send
  events,    \* ContainerInfoChan
  infos,     \* keys of containerInfos
  stats,     \* statsCache: what is cached for a container
  keeper,    \* where the housekeeper started by operation 1 or 2 is
  sample,    \* the age of the sample the housekeeper holds
  scan,      \* the updatePids loop of a container
  used       \* how often each bounded fault has happened

runtimeVars == <<phase, stopped, hooked, groups, strays>>
pluginVars == <<plugin, todo>>
cacheVars == <<infos, stats>>
keeperVars == <<keeper, sample>>
vars == <<runtimeVars, pluginVars, events, cacheVars, keeperVars, scan, used>>

Phase == {"none", "created", "tasked", "running", "exited"}
Operation == 0..2      \* 0: delete, 1: add, 2: add and watch
Cached == {"absent", "first", "rate", "inverted"}
KeeperPC == {"off", "wait", "gone", "rdt", "cgroup", "store"}
Age == {"newest", "older", "stale"}
Fault == {"crash", "glitch", "disconnect", "race", "late"}
Limit == [f \in Fault |-> CASE f = "crash" -> MaxCrashes
                            [] f = "glitch" -> MaxGlitches
                            [] f = "disconnect" -> MaxDisconnects
                            [] f = "race" -> MaxRaces
                            [] f = "late" -> MaxLate]
NoScan == [pc |-> "off", left |-> 0, raced |-> FALSE]
Scan == [pc : {"read", "write"}, left : 1..MonTimes, raced : BOOLEAN] \cup {NoScan}

isNeedCollectMbLLc == Metrics \cap {"mb", "llc"} # {}
isNeedCollectCgroup == Metrics \cap {"cpu", "memory"} # {}

Happens(f) ==
  /\ used[f] < Limit[f]
  /\ used' = [used EXCEPT ![f] = @ + 1]

\* The container has a task and thus a cgroup.
Exists(c) == phase[c] \in {"tasked", "running"}

-----------------------------------------------------------------------------
(* Init: a node with some containers on it, and the exporter just started. *)

NoStats == [c \in Containers |-> "absent"]
NoKeepers == [c \in Containers |-> [k \in 1..2 |-> "off"]]
NoSamples == [c \in Containers |-> [k \in 1..2 |-> "newest"]]
NoScans == [c \in Containers |-> NoScan]

Init ==
  /\ phase = [c \in Containers |-> IF c \in Started THEN "running"
                                   ELSE IF c \in Unstarted THEN "created"
                                   ELSE "none"]
  /\ stopped = {} /\ hooked = {} /\ groups = {}
  /\ strays = Started
  /\ plugin = "off" /\ todo = {} /\ events = <<>>
  /\ infos = {} /\ stats = NoStats
  /\ keeper = NoKeepers /\ sample = NoSamples /\ scan = NoScans
  /\ used = [f \in Fault |-> 0]

-----------------------------------------------------------------------------
(* The plugin.  The runtime makes no other NRI request while a plugin is   *)
(* being synchronized.  A send on a full channel is an error, which ends   *)
(* Synchronize (and with it the plugin), refuses a start and loses a stop. *)

\* Mutant: the length is compared with the wrong bound.
Full_Late == Len(events) > ChanSize

Full == Len(events) = ChanSize
Send(c, op) == events' = Append(events, [id |-> c, op |-> op])

Run ==
  /\ plugin = "off"
  /\ plugin' = "sync"
  /\ todo' = {c \in Containers : phase[c] \notin {"none", "exited"}} \ Annotated
  /\ UNCHANGED <<runtimeVars, events, cacheVars, keeperVars, scan, used>>

Synchronize(c) ==
  /\ plugin = "sync" /\ c \in todo
  /\ IF Full
       THEN plugin' = "dead" /\ todo' = {} /\ UNCHANGED events
       ELSE Send(c, 2) /\ todo' = todo \ {c} /\ UNCHANGED plugin
  /\ UNCHANGED <<runtimeVars, cacheVars, keeperVars, scan, used>>

Synchronized ==
  /\ plugin = "sync" /\ todo = {}
  /\ plugin' = "on"
  /\ UNCHANGED <<runtimeVars, todo, events, cacheVars, keeperVars, scan, used>>

(* Plugin.Run returns an error, at its start or when the connection is     *)
(* lost; main logs it, and the exporter goes on without a plugin.          *)
Disconnect ==
  /\ plugin # "dead" /\ Happens("disconnect")
  /\ plugin' = "dead" /\ todo' = {}
  /\ UNCHANGED <<runtimeVars, events, cacheVars, keeperVars, scan>>

InjectsHooks(c) == plugin = "on" /\ isNeedCollectMbLLc /\ c \notin Annotated

(* The container gets its OCI spec, with the hooks or without; it has no   *)
(* process and no cgroup yet.                                              *)
CreateContainer(c) ==
  /\ plugin # "sync" /\ phase[c] = "none"
  /\ phase' = [phase EXCEPT ![c] = "created"]
  /\ hooked' = IF InjectsHooks(c) THEN hooked \cup {c} ELSE hooked
  /\ UNCHANGED <<stopped, groups, strays, pluginVars, events, cacheVars,
                 keeperVars, scan, used>>

(* A start begins with the task, which is no NRI request.  createRuntime   *)
(* makes the group and puts the first process into it, so that every later *)
(* thread is born in it.                                                   *)
CreateTask(c) ==
  /\ phase[c] = "created"
  /\ phase' = [phase EXCEPT ![c] = "tasked"]
  /\ IF c \in hooked
       THEN groups' = groups \cup {c} /\ UNCHANGED strays
       ELSE strays' = strays \cup {c} /\ UNCHANGED groups
  /\ UNCHANGED <<stopped, hooked, pluginVars, events, cacheVars, keeperVars,
                 scan, used>>

StartContainer(c) ==
  /\ plugin # "sync" /\ phase[c] = "tasked"
  /\ IF plugin = "on" /\ c \notin Annotated
       THEN IF Full
              THEN phase' = [phase EXCEPT ![c] = "exited"] /\ UNCHANGED events
              ELSE phase' = [phase EXCEPT ![c] = "running"] /\ Send(c, 1)
       ELSE phase' = [phase EXCEPT ![c] = "running"] /\ UNCHANGED events
  /\ UNCHANGED <<stopped, hooked, groups, strays, pluginVars, cacheVars,
                 keeperVars, scan, used>>

(* The request may come before the container's end or after it.            *)
StopContainer(c) ==
  /\ plugin # "sync" /\ phase[c] \in {"running", "exited"} /\ c \notin stopped
  /\ stopped' = stopped \cup {c}
  /\ IF plugin = "on" /\ c \notin Annotated /\ ~Full
       THEN Send(c, 0)
       ELSE UNCHANGED events
  /\ UNCHANGED <<phase, hooked, groups, strays, pluginVars, cacheVars,
                 keeperVars, scan, used>>

ExitContainer(c) ==
  /\ Exists(c)
  /\ phase' = [phase EXCEPT ![c] = "exited"]
  /\ UNCHANGED <<stopped, hooked, groups, strays, pluginVars, events,
                 cacheVars, keeperVars, scan, used>>

(* The poststop hook removes the group after the cgroup is gone.           *)
PostStop(c) ==
  /\ phase[c] = "exited" /\ c \in hooked \cap groups
  /\ groups' = groups \ {c}
  /\ UNCHANGED <<phase, stopped, hooked, strays, pluginVars, events,
                 cacheVars, keeperVars, scan, used>>

-----------------------------------------------------------------------------
(* The collector's receive loop.  A stop event carries no namespace, so    *)
(* the whitelist never filters it.  Without container metrics no collector *)
(* is made and nobody receives.                                            *)

Filtered(e) == e.op # 0 /\ e.id \in Whitelisted

\* Mutant: the delete from statsCache is missing.
Forget_InfoOnly(c) ==
  /\ infos' = infos \ {c}
  /\ UNCHANGED stats

Forget(c) ==
  /\ infos' = infos \ {c}
  /\ stats' = [stats EXCEPT ![c] = "absent"]

\* Mutant: a container found by Synchronize gets no housekeeper.
Watch_NoKeeper(e) ==
  /\ infos' = infos \cup {e.id}
  /\ keeper' = IF e.op = 1 THEN [keeper EXCEPT ![e.id][1] = "wait"] ELSE keeper
  /\ UNCHANGED <<groups, scan, stats>>

\* Mutant: the monitoring group is not made.
Watch_NoGroup(e) ==
  /\ infos' = infos \cup {e.id}
  /\ keeper' = [keeper EXCEPT ![e.id][e.op] = "wait"]
  /\ UNCHANGED <<groups, scan, stats>>

Watch(e) ==
  /\ infos' = infos \cup {e.id}
  /\ keeper' = [keeper EXCEPT ![e.id][e.op] = "wait"]
  /\ IF e.op = 2 /\ isNeedCollectMbLLc
       THEN /\ groups' = groups \cup {e.id}
            /\ scan' = [scan EXCEPT ![e.id] =
                 IF MonTimes = 0 THEN NoScan
                 ELSE [pc |-> "read", left |-> MonTimes, raced |-> FALSE]]
       ELSE UNCHANGED <<groups, scan>>
  /\ UNCHANGED stats

processContainerData ==
  /\ Metrics # {} /\ events # <<>>
  /\ events' = Tail(events)
  /\ LET e == Head(events) IN
     CASE Filtered(e) -> UNCHANGED <<cacheVars, keeper, groups, scan>>
       [] ~Filtered(e) /\ e.op = 0 ->
            Forget(e.id) /\ UNCHANGED <<keeper, groups, scan>>
       [] ~Filtered(e) /\ e.op # 0 -> Watch(e)
  /\ UNCHANGED <<phase, stopped, hooked, strays, pluginVars, sample, used>>

(* makeMonitorGroup fails: the housekeeper is already running, and nobody  *)
(* will scan the container's threads.                                      *)
makeMonitorGroupFails ==
  /\ Metrics # {} /\ events # <<>> /\ isNeedCollectMbLLc
  /\ LET e == Head(events) IN
     /\ ~Filtered(e) /\ e.op = 2 /\ e.id \notin groups
     /\ infos' = infos \cup {e.id}
     /\ keeper' = [keeper EXCEPT ![e.id][2] = "wait"]
  /\ events' = Tail(events)
  /\ Happens("glitch")
  /\ UNCHANGED <<runtimeVars, pluginVars, stats, sample, scan>>

-----------------------------------------------------------------------------
(* updatePids: MonTimes times, read cgroup.threads and write each thread   *)
(* to the group's tasks file.  A thread born between the two is not moved, *)
(* and one that ended there makes the write fail and leaves the rest.      *)

EndScan(c) == scan' = [scan EXCEPT ![c] = NoScan]

\* Mutant: the loop ends after the first scan.
NextScan_Once(c) == EndScan(c)

NextScan(c) ==
  scan' = [scan EXCEPT ![c] = IF @.left = 1 THEN NoScan
             ELSE [pc |-> "read", left |-> @.left - 1, raced |-> FALSE]]

updatePidsReads(c) ==
  /\ scan[c].pc = "read"
  /\ IF c \notin infos THEN EndScan(c)
     ELSE IF ~Exists(c) THEN NextScan(c)
     ELSE scan' = [scan EXCEPT ![c].pc = "write"]
  /\ UNCHANGED <<runtimeVars, pluginVars, events, cacheVars, keeperVars, used>>

ThreadsChange(c) ==
  /\ scan[c].pc = "write" /\ ~scan[c].raced /\ Exists(c) /\ c \in strays
  /\ Happens("race")
  /\ scan' = [scan EXCEPT ![c].raced = TRUE]
  /\ UNCHANGED <<runtimeVars, pluginVars, events, cacheVars, keeperVars>>

updatePidsWrites(c) ==
  /\ scan[c].pc = "write"
  /\ strays' = IF Exists(c) /\ c \in groups /\ ~scan[c].raced
                 THEN strays \ {c} ELSE strays
  /\ NextScan(c)
  /\ UNCHANGED <<phase, stopped, hooked, groups, pluginVars, events,
                 cacheVars, keeperVars, used>>

-----------------------------------------------------------------------------
(* housekeeping: at each tick, stat the cgroup, then updateStats reads the *)
(* group, reads the cgroup and stores.  Every access looks the container's *)
(* paths up again; a container that has been forgotten has empty paths,    *)
(* which do not exist.  Any error ends the housekeeper for good.           *)

MoveKeeper(c, k, pc) == keeper' = [keeper EXCEPT ![c][k] = pc]
RestUnchanged == UNCHANGED <<runtimeVars, pluginVars, events, scan>>

CgroupFound(c) == c \in infos /\ Exists(c)
GroupFound(c) == c \in infos /\ c \in groups

\* Mutant: a housekeeper that finds no cgroup ends and deletes nothing.
housekeepingTick_Ends(c, k) ==
  /\ keeper[c][k] = "wait"
  /\ MoveKeeper(c, k, IF CgroupFound(c) THEN "rdt" ELSE "off")
  /\ UNCHANGED <<cacheVars, sample, used>> /\ RestUnchanged

housekeepingTick(c, k) ==
  /\ keeper[c][k] = "wait"
  /\ IF CgroupFound(c)
       THEN MoveKeeper(c, k, "rdt") /\ UNCHANGED cacheVars
       ELSE MoveKeeper(c, k, "off") /\ Forget(c)
  /\ UNCHANGED <<sample, used>> /\ RestUnchanged

(* The stat finds nothing, and others run before the entries are deleted.  *)
housekeepingLate(c, k) ==
  /\ keeper[c][k] = "wait" /\ ~CgroupFound(c)
  /\ Happens("late")
  /\ MoveKeeper(c, k, "gone")
  /\ UNCHANGED <<cacheVars, sample>> /\ RestUnchanged

housekeepingDeletes(c, k) ==
  /\ keeper[c][k] = "gone"
  /\ MoveKeeper(c, k, "off") /\ Forget(c)
  /\ UNCHANGED <<sample, used>> /\ RestUnchanged

getIntelRDTStats(c, k) ==
  /\ keeper[c][k] = "rdt"
  /\ IF GroupFound(c) \/ ~isNeedCollectMbLLc
       THEN /\ MoveKeeper(c, k, "cgroup")
            /\ sample' = [sample EXCEPT ![c] = [j \in 1..2 |->
                 IF j = k THEN "newest"
                 ELSE IF @[j] = "newest" THEN "older" ELSE @[j]]]
       ELSE MoveKeeper(c, k, "off") /\ UNCHANGED sample
  /\ UNCHANGED <<cacheVars, used>> /\ RestUnchanged

getCgroupStats(c, k) ==
  /\ keeper[c][k] = "cgroup"
  /\ MoveKeeper(c, k, IF CgroupFound(c) \/ ~isNeedCollectCgroup
                        THEN "store" ELSE "off")
  /\ UNCHANGED <<cacheVars, sample, used>> /\ RestUnchanged

\* Mutant: a sample out of order stays the one the next ones are compared with.
processStats_Keep(c, k) ==
  IF stats[c] = "inverted" \/ sample[c][k] = "stale" THEN "inverted" ELSE "rate"

processStats(c, k) == IF sample[c][k] = "stale" THEN "inverted" ELSE "rate"

updateStats(c, k) ==
  /\ keeper[c][k] = "store"
  /\ MoveKeeper(c, k, "wait")
  /\ stats' = [stats EXCEPT ![c] = IF @ = "absent" THEN "first"
                                   ELSE processStats(c, k)]
  /\ sample' = [sample EXCEPT ![c] = [j \in 1..2 |->
       IF j # k /\ @[k] = "newest" /\ @[j] = "older" THEN "stale" ELSE @[j]]]
  /\ UNCHANGED <<infos, used>> /\ RestUnchanged

(* A file that exists cannot be read, or reads "Unavailable".              *)
Glitch(c, k) ==
  /\ keeper[c][k] \in {"wait", "rdt", "cgroup"} /\ CgroupFound(c)
  /\ Happens("glitch")
  /\ MoveKeeper(c, k, "off")
  /\ UNCHANGED <<cacheVars, sample>> /\ RestUnchanged

housekeeping(c, k) ==
  \/ housekeepingTick(c, k)
  \/ housekeepingLate(c, k)
  \/ housekeepingDeletes(c, k)
  \/ getIntelRDTStats(c, k)
  \/ getCgroupStats(c, k)
  \/ updateStats(c, k)
  \/ Glitch(c, k)

-----------------------------------------------------------------------------
(* The maps are shared without a lock: the Go runtime may end the process  *)
(* for a concurrent map access.  A new process starts empty.               *)

Crash ==
  /\ \E c \in Containers : \E k \in 1..2 : keeper[c][k] # "off"
  /\ Happens("crash")
  /\ plugin' = "off" /\ todo' = {} /\ events' = <<>>
  /\ infos' = {} /\ stats' = NoStats
  /\ keeper' = NoKeepers /\ sample' = NoSamples /\ scan' = NoScans
  /\ UNCHANGED runtimeVars

Next ==
  \/ Run \/ Synchronized \/ Disconnect \/ Crash
  \/ processContainerData \/ makeMonitorGroupFails
  \/ \E c \in Containers :
       \/ Synchronize(c)
       \/ CreateContainer(c) \/ CreateTask(c) \/ StartContainer(c)
       \/ StopContainer(c) \/ ExitContainer(c) \/ PostStop(c)
       \/ updatePidsReads(c) \/ ThreadsChange(c) \/ updatePidsWrites(c)
       \/ \E k \in 1..2 : housekeeping(c, k)

Spec == Init /\ [][Next]_vars

(* Goroutines that can run do run, and the runtime and its hooks finish    *)
(* what they began; nobody has to create, start or end a container.        *)
Fairness ==
  /\ WF_vars(Run) /\ WF_vars(Synchronized) /\ WF_vars(processContainerData)
  /\ \A c \in Containers :
       /\ WF_vars(Synchronize(c))
       /\ WF_vars(phase[c] = "exited" /\ StopContainer(c))
       /\ WF_vars(PostStop(c))
       /\ WF_vars(updatePidsReads(c)) /\ WF_vars(updatePidsWrites(c))
       /\ \A k \in 1..2 : WF_vars(housekeeping(c, k))

FairSpec == Spec /\ Fairness

-----------------------------------------------------------------------------
(* Type invariant, with the channel's capacity: a send never blocks the    *)
(* runtime, since the length is tested before (hook-injector.go).          *)
CollectorTypeOK ==
  /\ phase \in [Containers -> Phase]
  /\ stopped \subseteq Containers
  /\ hooked \subseteq Containers
  /\ groups \subseteq Containers
  /\ strays \subseteq Containers
  /\ plugin \in {"off", "sync", "on", "dead"}
  /\ todo \subseteq Containers
  /\ events \in Seq([id : Containers, op : Operation])
  /\ Len(events) <= ChanSize
  /\ infos \subseteq Containers
  /\ stats \in [Containers -> Cached]
  /\ keeper \in [Containers -> [1..2 -> KeeperPC]]
  /\ sample \in [Containers -> [1..2 -> Age]]
  /\ scan \in [Containers -> Scan]
  /\ used \in [Fault -> Nat]

(* The labels of an exported metric are looked up in containerInfos.  A    *)
(* sample stored after a stop event has been processed has none, and is    *)
(* exported with empty labels; a housekeeper that ticks, or is about to    *)
(* delete, is then there to remove it (processContainerData against        *)
(* updateStats).                                                           *)
Exported == {c \in Containers : stats[c] # "absent"}

OrphanSwept ==
  \A c \in Exported :
    c \notin infos => \E k \in 1..2 : keeper[c][k] \in {"wait", "gone"}

(* While no read of an existing file fails, a container that is recorded   *)
(* and has not ended has a housekeeper: its metrics are refreshed at each  *)
(* interval, or its record is deleted for want of a cgroup (a housekeeper  *)
(* ends for good on any error of updateStats).                             *)
WatchedKept ==
  \A c \in infos : phase[c] # "exited" => \E k \in 1..2 : keeper[c][k] # "off"

(* A container reported by Synchronize and by StartContainer has two       *)
(* housekeepers, and the later of two stores may hold the earlier sample:  *)
(* a rate of a wrapped difference.  It does not last: while the container  *)
(* is alive and its files can be read, a younger sample replaces it        *)
(* (housekeeping, updateStats, processStats).                              *)
RatesCorrected ==
  \A c \in Containers : (stats[c] = "inverted") ~> (stats[c] # "inverted")

(* Every container that runs, and is not filtered out, gets a bandwidth    *)
(* unless it is stopped first, also when the exporter process dies on the  *)
(* way, and when it was recorded and deleted again before it had a cgroup, *)
(* while no housekeeper is held up between its stat and its delete for as  *)
(* long as a start takes (Synchronize, StartContainer, housekeeping).      *)
RunningObserved ==
  \A c \in Containers \ (Whitelisted \cup Annotated) :
    (phase[c] = "running") ~>
      (c \in stopped \/ phase[c] = "exited" \/ stats[c] \in {"rate", "inverted"})

(* A stop event that reaches the channel is the end of the container's     *)
(* metrics: whatever its housekeepers hold or fail to read at that time,   *)
(* its entries go away and stay away (processContainerData, housekeeping). *)
StopForgets ==
  \A c \in Containers :
    (\E i \in 1..Len(events) : events[i] = [id |-> c, op |-> 0])
      ~> [](c \notin infos /\ stats[c] = "absent")

(* The plugin is to list the container, or its event is on the way, and    *)
(* the container has a task already.                                       *)
Found(c) ==
  /\ Exists(c)
  /\ \/ plugin = "off" \/ c \in todo
     \/ \E i \in 1..Len(events) : events[i] = [id |-> c, op |-> 2]

(* When fewer scans than monTimes race with a change of the container's    *)
(* threads, every thread of a container created before the exporter        *)
(* started ends up in its monitoring group, provided that the container    *)
(* has a task when the collector takes up its event: for one without, the  *)
(* scans are wasted or end with its record (updatePids, housekeeping).     *)
ThreadsMonitored ==
  \A c \in Containers \ (Whitelisted \cup Annotated) :
    Found(c) ~> (c \in stopped \/ phase[c] = "exited" \/ c \notin strays)
=============================================================================
