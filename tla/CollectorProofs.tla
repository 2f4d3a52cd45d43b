--------------------------- MODULE CollectorProofs --------------------------
(***************************************************************************)
(* Proofs about ContainerCollector, for every set of containers, every     *)
(* capacity of the channel and every number of faults.                     *)
(***************************************************************************)
EXTENDS ContainerCollector, SequenceTheorems, TLAPS

Event == [id : Containers, op : Operation]

(* The head of a channel of events is an event, and the rest a channel.    *)
LEMMA HeadTail ==
  ASSUME events \in Seq(Event), Len(events) <= ChanSize, events # <<>>
  PROVE  /\ Head(events) \in Event
         /\ Tail(events) \in Seq(Event)
         /\ Len(Tail(events)) <= ChanSize
<1>1. Head(events) \in Event /\ Tail(events) \in Seq(Event)
  BY HeadTailProperties
<1>2. Len(Tail(events)) = Len(events) - 1
  BY HeadTailProperties
<1>3. Len(events) \in Nat /\ ChanSize \in Nat
  BY LenProperties, BoundsAssumption
<1> QED
  BY <1>1, <1>2, <1>3

(* A send on a channel that is not full keeps it a channel.                *)
LEMMA SendType ==
  ASSUME events \in Seq(Event), Len(events) <= ChanSize, ~Full,
         NEW c \in Containers, NEW op \in Operation, Send(c, op)
  PROVE  events' \in Seq(Event) /\ Len(events') <= ChanSize
<1> DEFINE e == [id |-> c, op |-> op]
<1>1. e \in Event
  BY DEF Event
<1>2. events' = Append(events, e)
  BY DEF Send
<1>3. events' \in Seq(Event) /\ Len(events') = Len(events) + 1
  BY <1>1, <1>2, AppendProperties
<1>4. Len(events) \in Nat /\ ChanSize \in Nat /\ Len(events) # ChanSize
  BY LenProperties, BoundsAssumption DEF Full
<1> QED
  BY <1>3, <1>4

-----------------------------------------------------------------------------
USE DEF Event, Phase, Operation, Cached, KeeperPC, Age, Fault, Scan, NoScan,
        runtimeVars, pluginVars, cacheVars, keeperVars

(* The type of everything but the channel, which the two lemmas cover.     *)
RuntimeType ==
  /\ phase \in [Containers -> Phase]
  /\ stopped \subseteq Containers
  /\ hooked \subseteq Containers
  /\ groups \subseteq Containers
  /\ strays \subseteq Containers
  /\ plugin \in {"off", "sync", "on", "dead"}
  /\ todo \subseteq Containers
  /\ used \in [Fault -> Nat]

ChannelType ==
  /\ events \in Seq(Event)
  /\ Len(events) <= ChanSize

CacheType ==
  /\ infos \subseteq Containers
  /\ stats \in [Containers -> Cached]

KeeperType ==
  /\ keeper \in [Containers -> [1..2 -> KeeperPC]]
  /\ sample \in [Containers -> [1..2 -> Age]]

ScanType == scan \in [Containers -> Scan]

AllTypes == RuntimeType /\ ChannelType /\ CacheType /\ KeeperType /\ ScanType

(* The parts make up the type invariant.                                   *)
LEMMA TypeParts == AllTypes <=> CollectorTypeOK
BY DEF AllTypes, CollectorTypeOK, RuntimeType, ChannelType, CacheType,
       KeeperType, ScanType

LEMMA InitType == Init => AllTypes
<1> SUFFICES ASSUME Init PROVE AllTypes
  OBVIOUS
<1>1. RuntimeType
  BY ContainersAssumption DEF Init, RuntimeType
<1>2. ChannelType
  BY BoundsAssumption DEF Init, ChannelType
<1>3. CacheType
  BY DEF Init, CacheType, NoStats
<1>4. KeeperType
  BY DEF Init, KeeperType, NoKeepers, NoSamples
<1>5. ScanType
  BY BoundsAssumption DEF Init, ScanType, NoScans
<1> QED
  BY <1>1, <1>2, <1>3, <1>4, <1>5 DEF AllTypes

(* The plugin and the runtime.                                             *)
LEMMA RuntimeStepType ==
  ASSUME AllTypes, NEW c \in Containers,
         \/ Run \/ Synchronized \/ Disconnect \/ Synchronize(c)
         \/ CreateContainer(c) \/ CreateTask(c) \/ StartContainer(c) \/ StopContainer(c)
         \/ ExitContainer(c) \/ PostStop(c)
  PROVE  AllTypes'
<1>0. RuntimeType /\ ChannelType /\ CacheType /\ KeeperType /\ ScanType
  BY DEF AllTypes
<1>1. UNCHANGED <<cacheVars, keeperVars, scan>>
  BY DEF Run, Synchronized, Disconnect, Synchronize, CreateContainer, CreateTask,
         StartContainer, StopContainer, ExitContainer, PostStop
<1>2. CacheType' /\ KeeperType' /\ ScanType'
  BY <1>0, <1>1 DEF CacheType, KeeperType, ScanType
<1>3. ChannelType'
  <2>1. CASE UNCHANGED events
    BY <1>0, <2>1 DEF ChannelType
  <2>2. CASE \E op \in Operation : ~Full /\ Send(c, op)
    BY <1>0, <2>2, SendType DEF ChannelType
  <2>3. UNCHANGED events \/ \E op \in Operation : ~Full /\ Send(c, op)
    BY DEF Run, Synchronized, Disconnect, Synchronize, CreateContainer, CreateTask,
           StartContainer, StopContainer, ExitContainer, PostStop
  <2> QED
    BY <2>1, <2>2, <2>3
<1>4. RuntimeType'
  <2>1. CASE Run
    BY <1>0, <2>1 DEF RuntimeType, Run
  <2>2. CASE Synchronized
    BY <1>0, <2>2 DEF RuntimeType, Synchronized
  <2>3. CASE Disconnect
    BY <1>0, <2>3 DEF RuntimeType, Disconnect, Happens
  <2>4. CASE Synchronize(c)
    BY <1>0, <2>4 DEF RuntimeType, Synchronize
  <2>5. CASE CreateContainer(c)
    BY <1>0, <2>5 DEF RuntimeType, CreateContainer
  <2>t. CASE CreateTask(c)
    BY <1>0, <2>t DEF RuntimeType, CreateTask
  <2>6. CASE StartContainer(c)
    BY <1>0, <2>6 DEF RuntimeType, StartContainer
  <2>7. CASE StopContainer(c)
    BY <1>0, <2>7 DEF RuntimeType, StopContainer
  <2>8. CASE ExitContainer(c)
    BY <1>0, <2>8 DEF RuntimeType, ExitContainer
  <2>9. CASE PostStop(c)
    BY <1>0, <2>9 DEF RuntimeType, PostStop
  <2> QED
    BY <2>1, <2>2, <2>3, <2>4, <2>5, <2>t, <2>6, <2>7, <2>8, <2>9
<1> QED
  BY <1>2, <1>3, <1>4 DEF AllTypes

(* The receive loop.                                                       *)
LEMMA ReceiveStepType ==
  ASSUME AllTypes, processContainerData \/ makeMonitorGroupFails
  PROVE  AllTypes'
<1> DEFINE e == Head(events)
<1>0. RuntimeType /\ ChannelType /\ CacheType /\ KeeperType /\ ScanType
  BY DEF AllTypes
<1>1. events # <<>> /\ events' = Tail(events)
  BY DEF processContainerData, makeMonitorGroupFails
<1>2. e \in Event /\ ChannelType'
  BY <1>0, <1>1, HeadTail DEF ChannelType
<1>3. e.id \in Containers /\ e.op \in 0..2
  BY <1>2
<1> HIDE DEF e
<1>4. CASE makeMonitorGroupFails
  <2>1. /\ infos' = infos \cup {e.id}
        /\ keeper' = [keeper EXCEPT ![e.id][2] = "wait"]
        /\ UNCHANGED <<stats, sample, scan, runtimeVars, pluginVars>>
        /\ used' = [used EXCEPT !["glitch"] = @ + 1]
    BY <1>4 DEF makeMonitorGroupFails, Happens, e
  <2>2. RuntimeType'
    BY <1>0, <2>1 DEF RuntimeType
  <2>3. CacheType' /\ KeeperType' /\ ScanType'
    BY <1>0, <1>3, <2>1 DEF CacheType, KeeperType, ScanType
  <2> QED
    BY <1>2, <2>2, <2>3 DEF AllTypes
<1>5. CASE processContainerData
  <2>1. UNCHANGED <<phase, stopped, hooked, strays, plugin, todo, sample, used>>
    BY <1>5 DEF processContainerData
  <2>2. CASE e.op # 0 /\ Watch(e)
    <3>1. e.op \in 1..2
      BY <1>3, <2>2
    <3>2. groups' \subseteq Containers
      BY <1>0, <1>3, <2>2 DEF Watch, RuntimeType
    <3>3. CacheType' /\ KeeperType'
      BY <1>0, <1>3, <2>1, <2>2, <3>1 DEF Watch, CacheType, KeeperType
    <3>4. ScanType'
      <4>1. NoScan \in Scan /\ (MonTimes # 0 =>
              [pc |-> "read", left |-> MonTimes, raced |-> FALSE] \in Scan)
        BY BoundsAssumption
      <4> HIDE DEF Scan, NoScan
      <4> QED
        BY <1>0, <1>3, <2>2, <4>1 DEF Watch, ScanType
    <3>5. RuntimeType'
      BY <1>0, <2>1, <3>2 DEF RuntimeType
    <3> QED
      BY <1>2, <3>3, <3>4, <3>5 DEF AllTypes
  <2>3. CASE Forget(e.id) /\ UNCHANGED <<keeper, groups, scan>>
    <3>1. CacheType'
      BY <1>0, <1>3, <2>3 DEF Forget, CacheType
    <3>2. RuntimeType' /\ KeeperType' /\ ScanType'
      BY <1>0, <2>1, <2>3 DEF RuntimeType, KeeperType, ScanType
    <3> QED
      BY <1>2, <3>1, <3>2 DEF AllTypes
  <2>4. CASE UNCHANGED <<cacheVars, keeper, groups, scan>>
    <3>1. RuntimeType' /\ CacheType' /\ KeeperType' /\ ScanType'
      BY <1>0, <2>1, <2>4 DEF RuntimeType, CacheType, KeeperType, ScanType
    <3> QED
      BY <1>2, <3>1 DEF AllTypes
  <2>5. \/ e.op # 0 /\ Watch(e)
        \/ Forget(e.id) /\ UNCHANGED <<keeper, groups, scan>>
        \/ UNCHANGED <<cacheVars, keeper, groups, scan>>
    BY <1>5 DEF processContainerData, e
  <2> QED
    BY <2>2, <2>3, <2>4, <2>5
<1> QED
  BY <1>4, <1>5

(* The scans of a container's threads.                                     *)
LEMMA ScanStepType ==
  ASSUME AllTypes, NEW c \in Containers,
         updatePidsReads(c) \/ ThreadsChange(c) \/ updatePidsWrites(c)
  PROVE  AllTypes'
<1>0. RuntimeType /\ ChannelType /\ CacheType /\ KeeperType /\ ScanType
  BY DEF AllTypes
<1>1. UNCHANGED <<events, cacheVars, keeperVars>>
  BY DEF updatePidsReads, ThreadsChange, updatePidsWrites
<1>2. ChannelType' /\ CacheType' /\ KeeperType'
  BY <1>0, <1>1 DEF ChannelType, CacheType, KeeperType
<1>3. RuntimeType'
  BY <1>0 DEF RuntimeType, updatePidsReads, ThreadsChange, updatePidsWrites, Happens
<1>4. scan[c] \in Scan /\ MonTimes \in Nat
  BY <1>0, BoundsAssumption DEF ScanType
<1>5. CASE scan[c].pc = "off"
  BY <1>5 DEF updatePidsReads, ThreadsChange, updatePidsWrites
<1>6. CASE scan[c].pc # "off"
  <2>1. scan[c] \in [pc : {"read", "write"}, left : 1..MonTimes, raced : BOOLEAN]
    BY <1>4, <1>6
  <2>2. scan[c].left \in 1..MonTimes /\ scan[c].raced \in BOOLEAN
    BY <2>1
  <2>3. ScanType'
    <3>1. CASE NextScan(c)
      <4>1. scan[c].left # 1 => scan[c].left - 1 \in 1..MonTimes
        BY <1>4, <2>2
      <4>2. scan[c].left # 1 =>
              [pc |-> "read", left |-> scan[c].left - 1, raced |-> FALSE] \in Scan
        BY <4>1
      <4>3. NoScan \in Scan
        OBVIOUS
      <4> HIDE DEF Scan, NoScan
      <4> QED
        BY <1>0, <3>1, <4>2, <4>3 DEF NextScan, ScanType
    <3>2. CASE EndScan(c)
      BY <1>0, <3>2 DEF EndScan, ScanType
    <3>3. CASE scan' = [scan EXCEPT ![c].pc = "write"]
      <4>1. [scan[c] EXCEPT !.pc = "write"] \in Scan
        BY <2>1
      <4> HIDE DEF Scan, NoScan
      <4> QED
        BY <1>0, <3>3, <4>1 DEF ScanType
    <3>4. CASE scan' = [scan EXCEPT ![c].raced = TRUE]
      <4>1. [scan[c] EXCEPT !.raced = TRUE] \in Scan
        BY <2>1
      <4> HIDE DEF Scan, NoScan
      <4> QED
        BY <1>0, <3>4, <4>1 DEF ScanType
    <3> QED
      BY <3>1, <3>2, <3>3, <3>4 DEF updatePidsReads, ThreadsChange, updatePidsWrites
  <2> QED
    BY <1>2, <1>3, <2>3 DEF AllTypes
<1> QED
  BY <1>5, <1>6

(* The housekeepers.                                                       *)
LEMMA KeeperStepType ==
  ASSUME AllTypes, NEW c \in Containers, NEW k \in 1..2, housekeeping(c, k)
  PROVE  AllTypes'
<1> USE DEF RestUnchanged, MoveKeeper
<1>0. RuntimeType /\ ChannelType /\ CacheType /\ KeeperType /\ ScanType
  BY DEF AllTypes
<1>1. UNCHANGED <<runtimeVars, pluginVars, events, scan>>
  BY DEF housekeeping, housekeepingTick, housekeepingLate,
         housekeepingDeletes, getIntelRDTStats, getCgroupStats,
         updateStats, Glitch
<1>2. ChannelType' /\ ScanType'
  BY <1>0, <1>1 DEF ChannelType, ScanType
<1>3. used' \in [Fault -> Nat]
  BY <1>0 DEF RuntimeType, housekeeping, housekeepingTick, housekeepingLate,
         housekeepingDeletes, getIntelRDTStats,
              getCgroupStats, updateStats, Glitch, Happens
<1>4. RuntimeType'
  BY <1>0, <1>1, <1>3 DEF RuntimeType
<1>5. CacheType'
  <2>1. CASE housekeepingTick(c, k) \/ housekeepingDeletes(c, k)
    BY <1>0, <2>1 DEF CacheType, housekeepingTick, housekeepingDeletes, Forget
  <2>2. CASE updateStats(c, k)
    BY <1>0, <2>2 DEF CacheType, updateStats, processStats
  <2>3. CASE UNCHANGED cacheVars
    BY <1>0, <2>3 DEF CacheType
  <2> QED
    BY <2>1, <2>2, <2>3 DEF housekeeping, housekeepingLate, getIntelRDTStats, getCgroupStats, Glitch
<1>6. keeper' \in [Containers -> [1..2 -> KeeperPC]]
  <2>1. \E pc \in KeeperPC : MoveKeeper(c, k, pc)
    BY DEF housekeeping, housekeepingTick, housekeepingLate,
         housekeepingDeletes, getIntelRDTStats, getCgroupStats,
           updateStats, Glitch
  <2> QED
    BY <1>0, <2>1 DEF KeeperType
<1>7. sample' \in [Containers -> [1..2 -> Age]]
  <2>1. CASE UNCHANGED sample
    BY <1>0, <2>1 DEF KeeperType
  <2>2. CASE getIntelRDTStats(c, k)
    BY <1>0, <2>2 DEF KeeperType, getIntelRDTStats
  <2>3. CASE updateStats(c, k)
    BY <1>0, <2>3 DEF KeeperType, updateStats
  <2> QED
    BY <2>1, <2>2, <2>3 DEF housekeeping, housekeepingTick, housekeepingLate, housekeepingDeletes,
       getCgroupStats, Glitch
<1>8. KeeperType'
  BY <1>6, <1>7 DEF KeeperType
<1> QED
  BY <1>2, <1>4, <1>5, <1>8 DEF AllTypes

(* A crash empties the process.                                            *)
LEMMA CrashType ==
  ASSUME AllTypes, Crash
  PROVE  AllTypes'
<1>0. RuntimeType
  BY DEF AllTypes
<1>1. RuntimeType'
  BY <1>0 DEF RuntimeType, Crash, Happens
<1>2. ChannelType'
  BY BoundsAssumption DEF ChannelType, Crash
<1>3. CacheType' /\ KeeperType' /\ ScanType'
  BY DEF CacheType, KeeperType, ScanType, Crash, NoStats, NoKeepers, NoSamples,
         NoScans
<1> QED
  BY <1>1, <1>2, <1>3 DEF AllTypes

(* Every step keeps the types.                                             *)
LEMMA NextType == AllTypes /\ [Next]_vars => AllTypes'
<1> SUFFICES ASSUME AllTypes, [Next]_vars PROVE AllTypes'
  OBVIOUS
<1>1. CASE Run \/ Synchronized \/ Disconnect
  <2>1. CASE Containers = {}
    BY <1>1, <2>1, BoundsAssumption DEF AllTypes, RuntimeType, ChannelType, CacheType,
       KeeperType, ScanType, Run, Synchronized, Disconnect, Happens
  <2>2. CASE Containers # {}
    BY <1>1, <2>2, RuntimeStepType
  <2> QED
    BY <2>1, <2>2
<1>2. CASE Crash
  BY <1>2, CrashType
<1>3. CASE processContainerData \/ makeMonitorGroupFails
  BY <1>3, ReceiveStepType
<1>4. ASSUME NEW c \in Containers,
             \/ Synchronize(c) \/ CreateContainer(c) \/ CreateTask(c) \/ StartContainer(c)
             \/ StopContainer(c) \/ ExitContainer(c) \/ PostStop(c)
      PROVE  AllTypes'
  BY <1>4, RuntimeStepType
<1>5. ASSUME NEW c \in Containers,
             updatePidsReads(c) \/ ThreadsChange(c) \/ updatePidsWrites(c)
      PROVE  AllTypes'
  BY <1>5, ScanStepType
<1>6. ASSUME NEW c \in Containers, NEW k \in 1..2, housekeeping(c, k)
      PROVE  AllTypes'
  BY <1>6, KeeperStepType
<1>7. CASE UNCHANGED vars
  BY <1>7 DEF vars, AllTypes, RuntimeType, ChannelType, CacheType, KeeperType,
              ScanType
<1> QED
  BY <1>1, <1>2, <1>3, <1>4, <1>5, <1>6, <1>7 DEF Next

(* The collector's state has its types in every reachable state, and the   *)
(* channel never holds more than its capacity: the send that follows the   *)
(* test of its length never blocks the container runtime.                  *)
THEOREM CollectorTypeCorrect == Spec => []CollectorTypeOK
<1>1. Spec => []AllTypes
  BY InitType, NextType, PTL DEF Spec
<1> QED
  BY <1>1, TypeParts, PTL

-----------------------------------------------------------------------------
(* OrphanSwept.  It is inductive together with the types: a store leaves   *)
(* the housekeeper that makes it waiting for its next tick, and a tick     *)
(* that finds no record deletes both entries before the housekeeper ends.  *)

(* What the steps of others leave alone.                                   *)
LEMMA OrphanUnchanged ==
  ASSUME OrphanSwept, UNCHANGED <<infos, stats, keeper>>
  PROVE  OrphanSwept'
BY DEF OrphanSwept, Exported

LEMMA OrphanReceive ==
  ASSUME AllTypes, OrphanSwept, processContainerData \/ makeMonitorGroupFails
  PROVE  OrphanSwept'
<1> DEFINE e == Head(events)
<1>0. ChannelType /\ CacheType /\ KeeperType
  BY DEF AllTypes
<1>1. e \in Event
  BY <1>0, HeadTail DEF ChannelType, processContainerData, makeMonitorGroupFails
<1>2. e.id \in Containers /\ e.op \in 0..2
  BY <1>1
<1>3. \/ UNCHANGED <<infos, stats, keeper>>
      \/ Forget(e.id) /\ UNCHANGED keeper
      \/ /\ infos' = infos \cup {e.id} /\ UNCHANGED stats
         /\ \E k \in 1..2 : keeper' = [keeper EXCEPT ![e.id][k] = "wait"]
  <2>1. CASE processContainerData
    <3>1. \/ UNCHANGED <<cacheVars, keeper>>
          \/ Forget(e.id) /\ UNCHANGED keeper
          \/ e.op # 0 /\ Watch(e)
      BY <2>1 DEF processContainerData
    <3>2. CASE e.op # 0 /\ Watch(e)
      <4>1. e.op \in 1..2
        BY <1>2, <3>2
      <4>2. /\ infos' = infos \cup {e.id} /\ UNCHANGED stats
            /\ keeper' = [keeper EXCEPT ![e.id][e.op] = "wait"]
        BY <3>2 DEF Watch
      <4> QED
        BY <4>1, <4>2
    <3> QED
      BY <3>1, <3>2
  <2>2. CASE makeMonitorGroupFails
    BY <2>2 DEF makeMonitorGroupFails
  <2> QED
    BY <2>1, <2>2
<1> HIDE DEF e
<1>4. CASE Forget(e.id) /\ UNCHANGED keeper
  BY <1>0, <1>2, <1>4 DEF Forget, OrphanSwept, Exported, CacheType
<1>5. CASE /\ infos' = infos \cup {e.id} /\ UNCHANGED stats
           /\ \E k \in 1..2 : keeper' = [keeper EXCEPT ![e.id][k] = "wait"]
  BY <1>0, <1>2, <1>5 DEF OrphanSwept, Exported, KeeperType, CacheType
<1> QED
  BY <1>3, <1>4, <1>5, OrphanUnchanged

LEMMA OrphanKeeper ==
  ASSUME AllTypes, OrphanSwept,
         NEW c \in Containers, NEW k \in 1..2, housekeeping(c, k)
  PROVE  OrphanSwept'
<1> USE DEF MoveKeeper
<1>0. CacheType /\ KeeperType
  BY DEF AllTypes
<1>1. CASE housekeepingTick(c, k)
  <2>1. CASE c \in infos /\ MoveKeeper(c, k, "rdt") /\ UNCHANGED cacheVars
    BY <1>0, <2>1 DEF OrphanSwept, Exported, CacheType, KeeperType
  <2>2. CASE MoveKeeper(c, k, "off") /\ Forget(c)
    BY <1>0, <2>2 DEF OrphanSwept, Exported, CacheType, KeeperType, Forget
  <2> QED
    BY <1>1, <2>1, <2>2 DEF housekeepingTick, CgroupFound
<1>l. CASE housekeepingLate(c, k)
  <2>1. UNCHANGED cacheVars /\ keeper' = [keeper EXCEPT ![c][k] = "gone"]
    BY <1>l DEF housekeepingLate
  <2> QED
    BY <1>0, <2>1 DEF OrphanSwept, Exported, CacheType, KeeperType
<1>d. CASE housekeepingDeletes(c, k)
  <2>1. MoveKeeper(c, k, "off") /\ Forget(c)
    BY <1>d DEF housekeepingDeletes
  <2> QED
    BY <1>0, <2>1 DEF OrphanSwept, Exported, CacheType, KeeperType, Forget
<1>2. CASE updateStats(c, k)
  <2>1. UNCHANGED infos /\ keeper' = [keeper EXCEPT ![c][k] = "wait"]
    BY <1>2 DEF updateStats
  <2>2. \A d \in Containers \ {c} : stats'[d] = stats[d]
    BY <1>0, <1>2 DEF updateStats, CacheType
  <2> QED
    BY <1>0, <2>1, <2>2 DEF OrphanSwept, Exported, CacheType, KeeperType
<1>3. CASE getIntelRDTStats(c, k) \/ getCgroupStats(c, k)
  <2>1. UNCHANGED cacheVars /\ keeper[c][k] \notin {"wait", "gone"}
    BY <1>3 DEF getIntelRDTStats, getCgroupStats
  <2>2. \E pc \in KeeperPC : MoveKeeper(c, k, pc)
    BY <1>3 DEF getIntelRDTStats, getCgroupStats
  <2> QED
    BY <1>0, <2>1, <2>2 DEF OrphanSwept, Exported, CacheType, KeeperType
<1>4. CASE Glitch(c, k)
  <2>1. UNCHANGED cacheVars /\ MoveKeeper(c, k, "off") /\ c \in infos
    BY <1>4 DEF Glitch, CgroupFound
  <2> QED
    BY <1>0, <2>1 DEF OrphanSwept, Exported, CacheType, KeeperType
<1> QED
  BY <1>1, <1>l, <1>d, <1>2, <1>3, <1>4 DEF housekeeping

LEMMA OrphanNext == AllTypes /\ OrphanSwept /\ [Next]_vars => OrphanSwept'
<1> SUFFICES ASSUME AllTypes, OrphanSwept, [Next]_vars PROVE OrphanSwept'
  OBVIOUS
<1>1. CASE Crash
  BY <1>1 DEF Crash, OrphanSwept, Exported, NoStats
<1>2. CASE processContainerData \/ makeMonitorGroupFails
  BY <1>2, OrphanReceive
<1>3. ASSUME NEW c \in Containers, NEW k \in 1..2, housekeeping(c, k)
      PROVE  OrphanSwept'
  BY <1>3, OrphanKeeper
<1>4. CASE UNCHANGED <<infos, stats, keeper>>
  BY <1>4, OrphanUnchanged
<1> QED
  BY <1>1, <1>2, <1>3, <1>4
  DEF Next, vars, Run, Synchronized, Disconnect, Synchronize, CreateContainer, CreateTask,
      StartContainer, StopContainer, ExitContainer, PostStop, updatePidsReads,
      ThreadsChange, updatePidsWrites

(* Statistics stored after their container's stop event has been processed *)
(* always have a housekeeper left whose next tick removes them, with any   *)
(* number of containers, housekeepers in flight, read errors, crashes and  *)
(* lost connections (processContainerData, housekeeping, updateStats).     *)
THEOREM OrphanSweptCorrect == Spec => []OrphanSwept
<1>1. Init => OrphanSwept
  BY DEF Init, OrphanSwept, Exported, NoStats
<1>2. Spec => []AllTypes
  BY InitType, NextType, PTL DEF Spec
<1> QED
  BY <1>1, <1>2, OrphanNext, PTL DEF Spec

-----------------------------------------------------------------------------
(* WatchedKept.  A housekeeper ends when its container's monitoring group  *)
(* is not there.  The group is made by the createRuntime hook, or by the   *)
(* collector when it takes a Synchronize event: what has to be invariant   *)
(* is that such an event is ahead of every StartContainer event of a       *)
(* container without the hook.  It ends also when the cgroup it has found  *)
(* is not there any more: it has found none before the container's task.   *)
Calm == used["glitch"] = 0

Announced(c, n) == \E m \in 1..n : events[m] = [id |-> c, op |-> 2]

(* The group is there, or one of the first n events makes it.              *)
GroupComes(c, n) == c \in groups \/ Announced(c, n)

GroupOK(c) ==
  /\ c \in infos => c \in groups
  /\ c \notin Whitelisted =>
       \A n \in 1..Len(events) :
         events[n] = [id |-> c, op |-> 1] => GroupComes(c, n - 1)
  /\ c \notin Whitelisted \cup Annotated =>
       /\ plugin = "on" /\ phase[c] \in {"created", "tasked"} =>
            GroupComes(c, Len(events)) \/ (phase[c] = "created" /\ c \in hooked)
       /\ plugin = "sync" /\ phase[c] # "none" => c \in todo \/ GroupComes(c, Len(events))

GroupInv ==
  Calm /\ isNeedCollectMbLLc => \A c \in Containers : phase[c] # "exited" => GroupOK(c)

(* Faults are only ever counted up.                                        *)
LEMMA CalmBefore ==
  ASSUME AllTypes, [Next]_vars, Calm'
  PROVE  Calm
<1>1. used["glitch"] \in Nat
  BY DEF AllTypes, RuntimeType
<1>2. ASSUME NEW c \in Containers, NEW k \in 1..2, housekeeping(c, k)
      PROVE  UNCHANGED used \/ \E f \in Fault : used' = [used EXCEPT ![f] = @ + 1]
  BY <1>2 DEF housekeeping, housekeepingTick, housekeepingLate, housekeepingDeletes,
     getIntelRDTStats, getCgroupStats, updateStats, Glitch, Happens
<1>3. ASSUME NEW c \in Containers,
             \/ Synchronize(c) \/ CreateContainer(c) \/ CreateTask(c) \/ StartContainer(c)
             \/ StopContainer(c) \/ ExitContainer(c) \/ PostStop(c)
             \/ updatePidsReads(c) \/ ThreadsChange(c) \/ updatePidsWrites(c)
      PROVE  UNCHANGED used \/ \E f \in Fault : used' = [used EXCEPT ![f] = @ + 1]
  BY <1>3 DEF Synchronize, CreateContainer, CreateTask, StartContainer, StopContainer,
     ExitContainer, PostStop, updatePidsReads, ThreadsChange, updatePidsWrites, Happens
<1>4. UNCHANGED used \/ \E f \in Fault : used' = [used EXCEPT ![f] = @ + 1]
  BY <1>2, <1>3 DEF Next, vars, Run, Synchronized, Disconnect, Crash, processContainerData,
     makeMonitorGroupFails, Happens
<1> QED
  BY <1>1, <1>4 DEF Calm, AllTypes, RuntimeType

(* A step that leaves the channel alone, and adds nothing to the records   *)
(* and removes nothing from the groups of containers that are alive.       *)
LEMMA GroupKept ==
  ASSUME NEW c \in Containers, GroupOK(c), UNCHANGED <<events, plugin, todo>>,
         infos' \subseteq infos, c \in groups => c \in groups', c \in hooked => c \in hooked',
         phase'[c] \in {"created", "tasked"} => phase[c] = phase'[c],
         phase[c] = "none" => phase'[c] = "none"
  PROVE  GroupOK(c)'
BY DEF GroupOK, GroupComes, Announced

(* A send puts an event behind those that are there.                       *)
LEMMA GroupSend ==
  ASSUME NEW c \in Containers, NEW d \in Containers, NEW op \in Operation,
         ChannelType, Send(d, op), GroupOK(c), UNCHANGED <<infos, groups, hooked>>,
         c = d /\ op = 1 /\ c \notin Whitelisted => GroupComes(c, Len(events)),
         plugin' = plugin,
         phase'[c] \in {"created", "tasked"} => phase[c] = phase'[c],
         phase[c] = "none" => phase'[c] = "none",
         c \in todo => c \in todo' \/ (c = d /\ op = 2)
  PROVE  GroupOK(c)'
<1> DEFINE e == [id |-> d, op |-> op]
<1>0. e \in Event /\ events \in Seq(Event) /\ Len(events) \in Nat
  BY DEF ChannelType
<1>1. /\ events' = Append(events, e)
      /\ Len(events') = Len(events) + 1
      /\ \A m \in 1..Len(events) : events'[m] = events[m]
      /\ events'[Len(events) + 1] = e
  BY <1>0 DEF Send
<1>2. GroupComes(c, Len(events)) =>
        c \in groups' \/ \E m \in 1..Len(events') : events'[m] = [id |-> c, op |-> 2]
  BY <1>0, <1>1 DEF GroupComes, Announced
<1>3. c = d /\ op = 2 => \E m \in 1..Len(events') : events'[m] = [id |-> c, op |-> 2]
  BY <1>0, <1>1
<1>4. c \notin Whitelisted =>
        \A n \in 1..Len(events') : events'[n] = [id |-> c, op |-> 1] =>
          c \in groups' \/ \E m \in 1..(n - 1) : events'[m] = [id |-> c, op |-> 2]
  <2> SUFFICES ASSUME c \notin Whitelisted, NEW n \in 1..Len(events'),
                      events'[n] = [id |-> c, op |-> 1]
               PROVE  c \in groups' \/ \E m \in 1..(n - 1) : events'[m] = [id |-> c, op |-> 2]
    OBVIOUS
  <2>1. CASE n \in 1..Len(events)
    <3>1. GroupComes(c, n - 1)
      BY <1>1, <2>1 DEF GroupOK
    <3> QED
      BY <1>0, <1>1, <2>1, <3>1 DEF GroupComes, Announced
  <2>2. CASE n = Len(events) + 1
    <3>1. c = d /\ op = 1
      BY <1>1, <2>2
    <3>2. GroupComes(c, Len(events))
      BY <3>1
    <3> QED
      BY <1>0, <1>1, <2>2, <3>2 DEF GroupComes, Announced
  <2> QED
    BY <1>0, <1>1, <2>1, <2>2
<1> QED
  BY <1>2, <1>3, <1>4 DEF GroupOK, GroupComes, Announced

(* The plugin and the runtime.                                             *)
LEMMA GroupRuntime ==
  ASSUME AllTypes, NEW c \in Containers, phase[c] # "exited" => GroupOK(c),
         phase'[c] # "exited", NEW d \in Containers, isNeedCollectMbLLc,
         \/ Synchronize(d) \/ CreateContainer(d) \/ CreateTask(d) \/ StartContainer(d)
         \/ StopContainer(d) \/ ExitContainer(d) \/ PostStop(d)
  PROVE  GroupOK(c)'
<1>0. RuntimeType /\ ChannelType
  BY DEF AllTypes
<1>1. CASE Synchronize(d)
  <2>1. GroupOK(c) /\ UNCHANGED <<infos, groups, hooked, phase>>
    BY <1>1 DEF Synchronize
  <2>2. CASE Full
    BY <1>1, <2>1, <2>2 DEF Synchronize, GroupOK, GroupComes, Announced
  <2>3. CASE ~Full
    <3>1. Send(d, 2) /\ todo' = todo \ {d} /\ plugin' = plugin
      BY <1>1, <2>3 DEF Synchronize
    <3>2. c \in todo => c \in todo' \/ c = d
      BY <3>1
    <3> QED
      BY <1>0, <2>1, <3>1, <3>2, GroupSend
  <2> QED
    BY <2>2, <2>3
<1>2. CASE CreateContainer(d)
  <2>1. UNCHANGED <<events, infos, plugin, todo, groups>> /\ hooked \subseteq hooked'
    BY <1>2 DEF CreateContainer
  <2>2. CASE c # d
    <3>1. phase'[c] = phase[c]
      BY <1>0, <1>2, <2>2 DEF CreateContainer, RuntimeType
    <3> QED
      BY <2>1, <3>1, GroupKept
  <2>3. CASE c = d
    <3>1. phase[c] = "none" /\ plugin # "sync" /\ GroupOK(c)
      BY <1>2, <2>3 DEF CreateContainer
    <3>2. plugin = "on" /\ c \notin Annotated => c \in hooked'
      BY <1>2, <2>3 DEF CreateContainer, InjectsHooks
    <3>3. phase'[c] = "created"
      BY <1>0, <1>2, <2>3 DEF CreateContainer, RuntimeType
    <3> QED
      BY <2>1, <3>1, <3>2, <3>3 DEF GroupOK, GroupComes, Announced
  <2> QED
    BY <2>2, <2>3
<1>t. CASE CreateTask(d)
  <2>1. UNCHANGED <<events, infos, plugin, todo, hooked>> /\ groups \subseteq groups'
    BY <1>t DEF CreateTask
  <2>2. CASE c # d
    <3>1. phase'[c] = phase[c]
      BY <1>0, <1>t, <2>2 DEF CreateTask, RuntimeType
    <3> QED
      BY <2>1, <3>1, GroupKept
  <2>3. CASE c = d
    <3>1. phase[c] = "created" /\ phase'[c] = "tasked" /\ GroupOK(c)
      BY <1>0, <1>t, <2>3 DEF CreateTask, RuntimeType
    <3>2. c \in hooked => c \in groups'
      BY <1>t, <2>3 DEF CreateTask
    <3> QED
      BY <2>1, <3>1, <3>2 DEF GroupOK, GroupComes, Announced
  <2> QED
    BY <2>2, <2>3
<1>3. CASE StartContainer(d)
  <2>1. /\ UNCHANGED <<infos, groups, hooked, plugin, todo>>
        /\ phase[d] = "tasked" /\ plugin # "sync"
        /\ \A x \in Containers \ {d} : phase'[x] = phase[x]
        /\ phase'[d] \in {"running", "exited"}
    BY <1>0, <1>3 DEF StartContainer, RuntimeType
  <2>2. GroupOK(c) /\ (phase[c] = "none" => phase'[c] = "none")
        /\ (phase'[c] \in {"created", "tasked"} => phase[c] = phase'[c])
    BY <2>1
  <2>3. CASE UNCHANGED events
    BY <2>1, <2>2, <2>3, GroupKept
  <2>4. CASE Send(d, 1) /\ plugin = "on" /\ d \notin Annotated
    <3>1. c = d /\ c \notin Whitelisted => GroupComes(c, Len(events))
      BY <2>1, <2>2, <2>4 DEF GroupOK
    <3> QED
      BY <1>0, <2>1, <2>2, <2>4, <3>1, GroupSend
  <2> QED
    BY <1>3, <2>3, <2>4 DEF StartContainer
<1>4. CASE StopContainer(d)
  <2>1. GroupOK(c) /\ UNCHANGED <<infos, groups, hooked, phase, plugin, todo>>
    BY <1>4 DEF StopContainer
  <2>2. CASE UNCHANGED events
    BY <2>1, <2>2, GroupKept
  <2>3. CASE Send(d, 0)
    BY <1>0, <2>1, <2>3, GroupSend
  <2> QED
    BY <1>4, <2>2, <2>3 DEF StopContainer
<1>5. CASE ExitContainer(d)
  <2>1. UNCHANGED <<infos, groups, hooked, events, plugin, todo>> /\ phase'[c] = phase[c]
    BY <1>0, <1>5 DEF ExitContainer, RuntimeType
  <2> QED
    BY <2>1, GroupKept
<1>6. CASE PostStop(d)
  <2>1. UNCHANGED <<infos, events, hooked, plugin, todo, phase>> /\ c # d /\ groups' = groups \ {d}
    BY <1>6 DEF PostStop
  <2> QED
    BY <2>1, GroupKept
<1> QED
  BY <1>1, <1>2, <1>t, <1>3, <1>4, <1>5, <1>6

(* The connection of the plugin.                                           *)
LEMMA GroupPlugin ==
  ASSUME AllTypes, NEW c \in Containers, phase[c] # "exited" => GroupOK(c),
         phase'[c] # "exited", Run \/ Synchronized \/ Disconnect
  PROVE  GroupOK(c)'
<1>1. CASE Run
  <2>1. GroupOK(c) /\ UNCHANGED <<events, infos, groups, hooked, phase>> /\ plugin' = "sync"
    BY <1>1 DEF Run
  <2>2. phase[c] # "none" /\ c \notin Annotated => c \in todo'
    BY <1>1, <2>1 DEF Run, Exists, AllTypes, RuntimeType
  <2> QED
    BY <2>1, <2>2 DEF GroupOK, GroupComes, Announced
<1>2. CASE Synchronized
  BY <1>2 DEF Synchronized, GroupOK, GroupComes, Announced
<1>3. CASE Disconnect
  BY <1>3 DEF Disconnect, GroupOK, GroupComes, Announced
<1> QED
  BY <1>1, <1>2, <1>3

(* The head of the channel is taken.  Before a StartContainer event is the *)
(* head, the event that makes the group has been the head.                 *)
LEMMA GroupReceive ==
  ASSUME AllTypes, NEW c \in Containers, GroupOK(c), isNeedCollectMbLLc,
         processContainerData
  PROVE  GroupOK(c)'
<1> DEFINE e == Head(events)
<1>0. /\ events \in Seq(Event) /\ events # <<>> /\ Len(events) \in Nat /\ Len(events) >= 1
      /\ e = events[1] /\ e \in Event
      /\ events' = Tail(events) /\ Len(events') = Len(events) - 1
      /\ \A m \in 1..Len(events') : events'[m] = events[m + 1]
  <2>1. events \in Seq(Event) /\ events # <<>> /\ events' = Tail(events)
    BY DEF AllTypes, ChannelType, processContainerData
  <2> HIDE DEF Event
  <2>2. e \in Event /\ Len(Tail(events)) = Len(events) - 1
    BY <2>1, HeadTailProperties
  <2>3. Len(events) \in Nat /\ Len(events) >= 1 /\ e = events[1]
    BY <2>1
  <2>4. \A m \in 1..Len(events') : events'[m] = events[m + 1]
    BY <2>1, <2>2, <2>3
  <2> QED
    BY <2>1, <2>2, <2>3, <2>4
<1>1. UNCHANGED <<phase, hooked, plugin, todo>>
  BY DEF processContainerData
<1> HIDE DEF e
<1>2. \/ Filtered(e) /\ UNCHANGED <<cacheVars, keeper, groups, scan>>
      \/ e.op = 0 /\ Forget(e.id) /\ UNCHANGED <<keeper, groups, scan>>
      \/ ~Filtered(e) /\ e.op # 0 /\ Watch(e)
  <2>1. CASE Filtered(e)
    BY <2>1 DEF processContainerData, e
  <2>2. CASE ~Filtered(e) /\ e.op = 0
    BY <2>2 DEF processContainerData, e
  <2>3. CASE ~Filtered(e) /\ e.op # 0
    BY <2>3 DEF processContainerData, e
  <2> QED
    BY <2>1, <2>2, <2>3
<1>3. CASE c \in groups'
  BY <1>3 DEF GroupOK, GroupComes
<1>4. CASE c \notin groups' /\ c \in infos' /\ c \notin infos
  <2>1. ~Filtered(e) /\ e.op # 0 /\ Watch(e) /\ e.id = c
    BY <1>4, <1>2 DEF Watch, Forget
  <2>2. e.op = 1
    BY <1>0, <1>4, <2>1 DEF Watch
  <2>3. events[1] = [id |-> c, op |-> 1] /\ c \notin Whitelisted
    BY <1>0, <2>1, <2>2 DEF Filtered
  <2>4. c \in groups
    BY <1>0, <2>3 DEF GroupOK, GroupComes, Announced
  <2>5. groups \subseteq groups'
    BY <2>1 DEF Watch
  <2> QED
    BY <1>4, <2>4, <2>5
<1>5. CASE c \notin groups' /\ (c \in infos' => c \in infos)
  <2>1. groups \subseteq groups'
    BY <1>2 DEF Watch
  <2>2. c \notin infos'
    BY <1>5, <2>1 DEF GroupOK
  <2>3. ASSUME c \notin Whitelisted
        PROVE  events[1] # [id |-> c, op |-> 2]
    <3> SUFFICES ASSUME events[1] = [id |-> c, op |-> 2] PROVE FALSE
      OBVIOUS
    <3>1. Watch(e) /\ e.op = 2 /\ e.id = c
      BY <1>0, <1>2, <2>3 DEF Filtered
    <3> QED
      BY <1>5, <3>1 DEF Watch
  <2>4. ASSUME c \notin Whitelisted, NEW n \in 1..Len(events), GroupComes(c, n)
        PROVE  \E m \in 1..(n - 1) : events'[m] = [id |-> c, op |-> 2]
    <3>1. PICK m \in 1..n : events[m] = [id |-> c, op |-> 2]
      BY <1>5, <2>1, <2>4 DEF GroupComes, Announced
    <3>2. m # 1
      BY <2>3, <2>4, <3>1
    <3>3. m \in Nat /\ n \in Nat /\ m - 1 \in 1..(n - 1) /\ m - 1 \in 1..Len(events')
      BY <1>0, <3>1, <3>2
    <3>4. events'[m - 1] = events[m]
      BY <1>0, <3>3
    <3> QED
      BY <3>1, <3>3, <3>4
  <2>5. ASSUME c \notin Whitelisted, NEW n \in 1..Len(events'),
               events'[n] = [id |-> c, op |-> 1]
        PROVE  \E m \in 1..(n - 1) : events'[m] = [id |-> c, op |-> 2]
    <3>1. events[n + 1] = [id |-> c, op |-> 1] /\ n + 1 \in 1..Len(events)
      BY <1>0, <2>5
    <3>2. GroupComes(c, n)
      BY <1>0, <2>5, <3>1 DEF GroupOK
    <3> QED
      BY <1>0, <2>4, <2>5, <3>2
  <2>6. c \notin Whitelisted \cup Annotated /\ GroupComes(c, Len(events)) =>
          \E m \in 1..Len(events') : events'[m] = [id |-> c, op |-> 2]
    <3>1. Len(events) \in 1..Len(events) /\ Len(events') = Len(events) - 1
      BY <1>0
    <3> QED
      BY <2>4, <3>1
  <2> QED
    BY <1>1, <2>2, <2>5, <2>6 DEF GroupOK, GroupComes, Announced
<1> QED
  BY <1>3, <1>4, <1>5

(* The other steps of the exporter: records go, groups and events stay.    *)
LEMMA GroupRest ==
  ASSUME NEW c \in Containers, GroupOK(c), NEW d \in Containers,
         \/ updatePidsReads(d) \/ ThreadsChange(d) \/ updatePidsWrites(d)
         \/ \E k \in 1..2 : housekeeping(d, k)
  PROVE  GroupOK(c)'
<1>1. UNCHANGED <<groups, hooked, phase, events, plugin, todo>> /\ infos' \subseteq infos
  BY DEF updatePidsReads, ThreadsChange, updatePidsWrites, housekeeping,
         housekeepingTick, housekeepingLate,
         housekeepingDeletes, Forget, getIntelRDTStats, getCgroupStats, updateStats,
         Glitch, RestUnchanged
<1> QED
  BY <1>1, GroupKept

LEMMA GroupNext == AllTypes /\ GroupInv /\ [Next]_vars => GroupInv'
<1> SUFFICES ASSUME AllTypes, GroupInv, [Next]_vars, Calm', isNeedCollectMbLLc,
                    NEW c \in Containers, phase'[c] # "exited"
             PROVE  GroupOK(c)'
  BY DEF GroupInv, isNeedCollectMbLLc
<1>0. Calm /\ (phase[c] # "exited" => GroupOK(c))
  BY CalmBefore DEF GroupInv
<1>1. CASE Run \/ Synchronized \/ Disconnect
  BY <1>0, <1>1, GroupPlugin
<1>2. CASE Crash
  BY <1>2 DEF Crash, GroupOK
<1>3. CASE processContainerData
  <2>1. phase'[c] = phase[c]
    BY <1>3 DEF processContainerData
  <2> QED
    BY <1>0, <1>3, <2>1, GroupReceive
<1>4. CASE makeMonitorGroupFails
  BY <1>0, <1>4 DEF makeMonitorGroupFails, Happens, Calm, AllTypes, RuntimeType
<1>5. ASSUME NEW d \in Containers,
             \/ Synchronize(d) \/ CreateContainer(d) \/ CreateTask(d) \/ StartContainer(d)
             \/ StopContainer(d) \/ ExitContainer(d) \/ PostStop(d)
      PROVE  GroupOK(c)'
  BY <1>0, <1>5, GroupRuntime
<1>6. ASSUME NEW d \in Containers,
             \/ updatePidsReads(d) \/ ThreadsChange(d) \/ updatePidsWrites(d)
             \/ \E k \in 1..2 : housekeeping(d, k)
      PROVE  GroupOK(c)'
  <2>1. UNCHANGED phase
    BY <1>6 DEF updatePidsReads, ThreadsChange, updatePidsWrites, housekeeping,
         housekeepingTick, housekeepingLate,
         housekeepingDeletes, getIntelRDTStats, getCgroupStats, updateStats,
         Glitch, RestUnchanged
  <2> QED
    BY <1>0, <1>6, <2>1, GroupRest
<1>7. CASE UNCHANGED vars
  BY <1>0, <1>7, GroupKept DEF vars
<1> QED
  BY <1>1, <1>2, <1>3, <1>4, <1>5, <1>6, <1>7 DEF Next

-----------------------------------------------------------------------------
(* A housekeeper of a container that is recorded and has not ended either  *)
(* goes on or deletes the record.                                          *)
Kept(c) == \E k \in 1..2 : keeper[c][k] # "off"

(* A housekeeper that reads or stores has found the cgroup.                *)
StageInv ==
  \A c \in Containers, k \in 1..2 :
    keeper[c][k] \in {"rdt", "cgroup", "store"} => phase[c] \notin {"none", "created"}

LEMMA StageNext == AllTypes /\ StageInv /\ [Next]_vars => StageInv'
<1> SUFFICES ASSUME AllTypes, StageInv, [Next]_vars PROVE StageInv'
  OBVIOUS
<1>0. KeeperType /\ RuntimeType
  BY DEF AllTypes
<1>1. CASE Crash
  BY <1>1 DEF Crash, StageInv, NoKeepers
<1>2. CASE processContainerData \/ makeMonitorGroupFails
  <2>1. UNCHANGED phase
    BY <1>2 DEF processContainerData, makeMonitorGroupFails
  <2>2. UNCHANGED keeper \/ \E d, j : keeper' = [keeper EXCEPT ![d][j] = "wait"]
    BY <1>2 DEF processContainerData, makeMonitorGroupFails, Watch
  <2>3. ASSUME NEW c \in Containers, NEW k \in 1..2
        PROVE  keeper'[c][k] \in {keeper[c][k], "wait"}
    BY <1>0, <2>2 DEF KeeperType
  <2> QED
    BY <2>1, <2>3 DEF StageInv
<1>3. ASSUME NEW d \in Containers, NEW j \in 1..2, housekeeping(d, j)
      PROVE  StageInv'
  <2>1. UNCHANGED phase
    BY <1>3 DEF housekeeping, housekeepingTick, housekeepingLate, housekeepingDeletes,
       getIntelRDTStats, getCgroupStats, updateStats, Glitch, RestUnchanged
  <2>2. \E pc \in KeeperPC :
          /\ keeper' = [keeper EXCEPT ![d][j] = pc]
          /\ pc \in {"rdt", "cgroup", "store"} =>
               Exists(d) \/ keeper[d][j] \in {"rdt", "cgroup", "store"}
    BY <1>3 DEF housekeeping, housekeepingTick, housekeepingLate, housekeepingDeletes,
       getIntelRDTStats, getCgroupStats, updateStats, Glitch, MoveKeeper, CgroupFound
  <2>3. PICK pc \in KeeperPC :
          /\ keeper' = [keeper EXCEPT ![d][j] = pc]
          /\ pc \in {"rdt", "cgroup", "store"} => phase[d] \notin {"none", "created"}
    BY <2>2 DEF Exists, StageInv
  <2>4. ASSUME NEW c \in Containers, NEW k \in 1..2,
               keeper'[c][k] \in {"rdt", "cgroup", "store"}
        PROVE  phase[c] \notin {"none", "created"}
    <3>1. CASE c = d /\ k = j
      BY <1>0, <2>3, <2>4, <3>1 DEF KeeperType
    <3>2. CASE ~(c = d /\ k = j)
      <4>1. keeper'[c][k] = keeper[c][k]
        BY <1>0, <2>3, <3>2 DEF KeeperType
      <4> QED
        BY <2>4, <4>1 DEF StageInv
    <3> QED
      BY <3>1, <3>2
  <2> QED
    BY <2>1, <2>4 DEF StageInv
<1>4. ASSUME UNCHANGED keeper,
             \A c \in Containers : phase'[c] \in {"none", "created"} => phase[c] \in {"none", "created"}
      PROVE  StageInv'
  BY <1>4 DEF StageInv
<1>5. ASSUME NEW d \in Containers,
             \/ Synchronize(d) \/ CreateContainer(d) \/ CreateTask(d) \/ StartContainer(d)
             \/ StopContainer(d) \/ ExitContainer(d) \/ PostStop(d)
      PROVE  StageInv'
  <2>1. UNCHANGED keeper
    BY <1>5 DEF Synchronize, CreateContainer, CreateTask, StartContainer, StopContainer,
                ExitContainer, PostStop
  <2>2. \A c \in Containers : phase'[c] \in {"none", "created"} => phase[c] \in {"none", "created"}
    BY <1>0, <1>5 DEF Synchronize, CreateContainer, CreateTask, StartContainer, StopContainer,
                ExitContainer, PostStop, RuntimeType
  <2> QED
    BY <1>4, <2>1, <2>2
<1>6. CASE UNCHANGED <<keeper, phase>>
  BY <1>6 DEF StageInv
<1> QED
  BY <1>1, <1>2, <1>3, <1>5, <1>6
  DEF Next, vars, Run, Synchronized, Disconnect, updatePidsReads, ThreadsChange,
      updatePidsWrites

LEMMA KeptKeeper ==
  ASSUME AllTypes, GroupInv, StageInv, WatchedKept, Calm, Calm',
         NEW d \in Containers, NEW k \in 1..2, housekeeping(d, k)
  PROVE  WatchedKept'
<1> SUFFICES ASSUME NEW c \in infos', phase'[c] # "exited"
             PROVE  Kept(c)'
  BY DEF WatchedKept, Kept
<1> USE DEF MoveKeeper
<1>0. KeeperType /\ CacheType /\ RuntimeType
  BY DEF AllTypes
<1>1. UNCHANGED <<phase, groups>> /\ infos' \subseteq infos
  BY DEF housekeeping, housekeepingTick, housekeepingLate,
         housekeepingDeletes, Forget, getIntelRDTStats, getCgroupStats,
         updateStats, Glitch, RestUnchanged
<1>2. c \in infos /\ c \in Containers /\ phase[c] # "exited" /\ Kept(c)
  BY <1>0, <1>1 DEF CacheType, WatchedKept, Kept
<1>3. c \in groups \/ ~isNeedCollectMbLLc
  BY <1>2 DEF GroupInv, GroupOK
<1>4. ASSUME c = d, keeper' = [keeper EXCEPT ![d][k] = "off"]
      PROVE  FALSE
  <2>1. CASE housekeepingTick(d, k)
    BY <1>0, <1>2, <1>4, <2>1 DEF housekeepingTick, CgroupFound, KeeperType, Forget
  <2>l. CASE housekeepingLate(d, k)
    BY <1>0, <1>4, <2>l DEF housekeepingLate, KeeperType
  <2>d. CASE housekeepingDeletes(d, k)
    BY <1>4, <2>d DEF housekeepingDeletes, Forget
  <2>2. CASE getIntelRDTStats(d, k)
    BY <1>0, <1>2, <1>3, <1>4, <2>2 DEF getIntelRDTStats, GroupFound, KeeperType
  <2>3. CASE getCgroupStats(d, k)
    <3>1. keeper[d][k] = "cgroup"
      BY <2>3 DEF getCgroupStats
    <3>2. phase[c] \in Phase /\ phase[c] \notin {"none", "created"}
      BY <1>0, <1>2, <1>4, <3>1 DEF StageInv, RuntimeType
    <3>3. CgroupFound(d)
      BY <1>2, <1>4, <3>2 DEF CgroupFound, Exists
    <3> QED
      BY <1>0, <1>4, <2>3, <3>3 DEF getCgroupStats, KeeperType
  <2>4. CASE updateStats(d, k)
    BY <1>0, <1>4, <2>4 DEF updateStats, KeeperType
  <2>5. CASE Glitch(d, k)
    BY <1>0, <2>5 DEF Glitch, Happens, Calm, RuntimeType
  <2> QED
    BY <2>1, <2>l, <2>d, <2>2, <2>3, <2>4, <2>5 DEF housekeeping
<1>5. \E pc \in KeeperPC : keeper' = [keeper EXCEPT ![d][k] = pc]
  BY DEF housekeeping, housekeepingTick, housekeepingLate,
         housekeepingDeletes, getIntelRDTStats, getCgroupStats,
         updateStats, Glitch
<1>6. CASE c # d
  BY <1>0, <1>2, <1>5, <1>6 DEF Kept, KeeperType
<1>7. CASE c = d
  <2>1. PICK pc \in KeeperPC : keeper' = [keeper EXCEPT ![d][k] = pc]
    BY <1>5
  <2>2. pc # "off"
    BY <1>4, <1>7, <2>1
  <2>3. keeper'[c][k] = pc
    BY <1>0, <1>7, <2>1 DEF KeeperType
  <2> QED
    BY <2>2, <2>3 DEF Kept
<1> QED
  BY <1>6, <1>7

LEMMA KeptReceive ==
  ASSUME AllTypes, WatchedKept, processContainerData
  PROVE  WatchedKept'
<1> DEFINE e == Head(events)
<1>1. e.id \in Containers /\ e.op \in 0..2
  BY HeadTail DEF AllTypes, ChannelType, processContainerData
<1>2. UNCHANGED phase
  BY DEF processContainerData
<1>3. \/ UNCHANGED keeper /\ infos' \subseteq infos
      \/ e.op # 0 /\ Watch(e)
  BY DEF processContainerData, Forget
<1> HIDE DEF e
<1>4. CASE UNCHANGED keeper /\ infos' \subseteq infos
  BY <1>2, <1>4 DEF WatchedKept
<1>5. CASE e.op # 0 /\ Watch(e)
  <2>1. /\ e.op \in 1..2 /\ infos' = infos \cup {e.id}
        /\ keeper' = [keeper EXCEPT ![e.id][e.op] = "wait"]
    BY <1>1, <1>5 DEF Watch
  <2> QED
    BY <1>1, <1>2, <2>1 DEF WatchedKept, AllTypes, KeeperType, CacheType
<1> QED
  BY <1>3, <1>4, <1>5

LEMMA KeptNext ==
  ASSUME AllTypes, GroupInv, StageInv, Calm => WatchedKept, [Next]_vars, Calm'
  PROVE  WatchedKept'
<1>0. Calm /\ WatchedKept
  BY CalmBefore
<1>1. CASE Crash
  BY <1>1 DEF Crash, WatchedKept
<1>2. CASE processContainerData
  BY <1>0, <1>2, KeptReceive
<1>3. CASE makeMonitorGroupFails
  BY <1>0, <1>3 DEF makeMonitorGroupFails, Happens, Calm, AllTypes, RuntimeType
<1>4. ASSUME NEW c \in Containers, NEW k \in 1..2, housekeeping(c, k)
      PROVE  WatchedKept'
  BY <1>0, <1>4, KeptKeeper
<1>5. ASSUME UNCHANGED <<infos, keeper>>,
             \A c \in infos : phase'[c] # "exited" => phase[c] # "exited"
      PROVE  WatchedKept'
  BY <1>0, <1>5 DEF WatchedKept
<1>6. ASSUME NEW c \in Containers,
             \/ Synchronize(c) \/ CreateContainer(c) \/ CreateTask(c) \/ StartContainer(c)
             \/ StopContainer(c) \/ ExitContainer(c) \/ PostStop(c)
      PROVE  WatchedKept'
  <2>1. UNCHANGED <<infos, keeper>>
    BY <1>6 DEF Synchronize, CreateContainer, CreateTask, StartContainer, StopContainer,
                ExitContainer, PostStop
  <2>2. \A d \in infos : phase'[d] # "exited" => phase[d] # "exited"
    BY <1>6 DEF Synchronize, CreateContainer, CreateTask, StartContainer, StopContainer,
                ExitContainer, PostStop, Exists, AllTypes, RuntimeType, CacheType
  <2> QED
    BY <1>5, <2>1, <2>2
<1>7. ASSUME UNCHANGED <<infos, keeper, phase>>
      PROVE  WatchedKept'
  BY <1>0, <1>7 DEF WatchedKept
<1> QED
  BY <1>1, <1>2, <1>3, <1>4, <1>6, <1>7
  DEF Next, vars, Run, Synchronized, Disconnect, updatePidsReads, ThreadsChange,
      updatePidsWrites

(* As long as no read of an existing file and no mkdir fails, a container  *)
(* that is recorded and has not ended keeps a housekeeper, whatever the    *)
(* order of its creation, the plugin's synchronization, its task, its      *)
(* start, a stat and a late delete, a full channel, a lost connection and  *)
(* a restart of the exporter (Synchronize, StartContainer,                 *)
(* processContainerData, housekeeping).                                    *)
THEOREM WatchedKeptCorrect == Spec => [](used["glitch"] = 0 => WatchedKept)
<1>1. Init => AllTypes /\ GroupInv /\ StageInv /\ (Calm => WatchedKept)
  <2> SUFFICES ASSUME Init PROVE AllTypes /\ GroupInv /\ StageInv /\ (Calm => WatchedKept)
    OBVIOUS
  <2>1. events = <<>> /\ infos = {} /\ todo = {} /\ plugin = "off"
    BY DEF Init
  <2>2. GroupInv /\ StageInv /\ WatchedKept
    BY <2>1 DEF GroupInv, GroupOK, StageInv, WatchedKept, Init, NoKeepers
  <2> QED
    BY <2>2, InitType
<1>2. AllTypes /\ GroupInv /\ StageInv /\ (Calm => WatchedKept) /\ [Next]_vars
      => (AllTypes /\ GroupInv /\ StageInv /\ (Calm => WatchedKept))'
  BY NextType, GroupNext, StageNext, KeptNext
<1> QED
  BY <1>1, <1>2, PTL DEF Spec, Calm
=============================================================================
