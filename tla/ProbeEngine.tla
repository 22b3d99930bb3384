----------------------------- MODULE ProbeEngine -----------------------------
(***************************************************************************)
(* Lifecycle of the probe engine, src/internal/probe/engine.go.            *)
(*                                                                         *)
(* Any number of goroutines call Start, Stop and TriggerOnce.  A critical  *)
(* section under e.mu is one step (it never blocks); everything a method   *)
(* does outside the mutex is a step of its own.  Channels are numbers: a   *)
(* channel made by the n-th call that makes one is n, 0 is the channel of  *)
(* NewEngine that no loop owns (stopCh, doneCh) or nil (stopDone).  A      *)
(* probe cycle is the interval between its first and its last statement;   *)
(* ProbeCycle models what happens inside.                                  *)
(***************************************************************************)
EXTENDS Integers, FiniteSets

CONSTANTS Callers,    \* goroutines that call Start and Stop
          Manual,     \* goroutines that TriggerOnce may have running at once
          MaxStarts,  \* bound: calls of Start that take effect
          MaxStops    \* bound: calls of Stop that make a stopDone channel

ASSUME BoundsAssumption == MaxStarts \in Nat /\ MaxStops \in Nat
ASSUME ManualAssumption == IsFiniteSet(Manual)

Loops == 1..MaxStarts

VARIABLES running, stopping, stopped,  \* the flags of Engine
          stopCh, doneCh, stopDone,    \* its channels
          work,                        \* counter of the WaitGroup
          closedStop, closedDone, closedStopDone, \* closed channels of each field
          stops,                       \* stopDone channels made so far
          pc, done, myStopDone,        \* callers: position, locals done and stopDone
          loop, loopDone, tick,        \* e.run(): position, deferred doneCh, ticker.C
          manual                       \* goroutines of TriggerOnce

flags    == <<running, stopping, stopped>>
channels == <<stopCh, doneCh, stopDone, closedStop, closedDone, closedStopDone, stops>>
callers  == <<pc, done, myStopDone>>
loops    == <<loop, loopDone, tick>>
vars     == <<flags, channels, work, callers, loops, manual>>

TypeOK ==
  /\ running \in BOOLEAN /\ stopping \in BOOLEAN /\ stopped \in BOOLEAN
  /\ stopCh \in 0..MaxStarts /\ doneCh \in 0..MaxStarts
  /\ stopDone \in 0..MaxStops /\ stops \in 0..MaxStops
  /\ work \in Nat
  /\ closedStop \subseteq 0..MaxStarts /\ closedDone \subseteq 0..MaxStarts
  /\ closedStopDone \subseteq 0..MaxStops
  /\ pc \in [Callers -> {"idle", "spawn", "waitDone", "waitWork", "finish", "waitOther"}]
  /\ done \in [Callers -> 0..MaxStarts]
  /\ myStopDone \in [Callers -> 0..MaxStops]
  /\ loop \in [Loops -> {"none", "spawned", "first", "select", "probing", "over"}]
  /\ loopDone \in [Loops -> 0..MaxStarts]
  /\ tick \in [Loops -> BOOLEAN]
  /\ manual \in [Manual -> {"none", "added", "probing"}]

(* NewEngine: not running, yet stopped is false, so a trigger is accepted. *)
Init ==
  /\ running = FALSE /\ stopping = FALSE /\ stopped = FALSE
  /\ stopCh = 0 /\ doneCh = 0 /\ stopDone = 0 /\ stops = 0
  /\ work = 0
  /\ closedStop = {} /\ closedDone = {} /\ closedStopDone = {}
  /\ pc = [c \in Callers |-> "idle"]
  /\ done = [c \in Callers |-> 0]
  /\ myStopDone = [c \in Callers |-> 0]
  /\ loop = [g \in Loops |-> "none"]
  /\ loopDone = [g \in Loops |-> 0]
  /\ tick = [g \in Loops |-> FALSE]
  /\ manual = [w \in Manual |-> "none"]

----------------------------------------------------------------------------
(* What the calls decide on.  A name with an underscore is a slip that the *)
(* checks must notice: the same definition with a plausible mistake.       *)
MayStart == ~running /\ ~stopping

MayTrigger_AfterStop == ~stopping
MayTrigger == ~stopped /\ ~stopping

RunningAfterStop == FALSE

LoopIsDone_NotAwaited(c) == TRUE
LoopIsDone(c) == done[c] \in closedDone

WorkIsDone_NotAwaited == TRUE
WorkIsDone == work = 0

WorkAdded == work + 1

StopDoneClosed_Forgotten(c) == closedStopDone
StopDoneClosed(c) == closedStopDone \cup {myStopDone[c]}

(* Start.  A call that finds the engine running or stopping returns with   *)
(* nothing changed.  done[c] remembers which Start this is, to name the    *)
(* goroutine that Spawn creates; the code has no such variable.            *)
Start(c) ==
  /\ pc[c] = "idle"
  /\ MayStart
  /\ stopCh < MaxStarts
  /\ running' = TRUE /\ stopped' = FALSE
  /\ stopCh' = stopCh + 1
  /\ doneCh' = stopCh + 1
  /\ pc' = [pc EXCEPT ![c] = "spawn"]
  /\ done' = [done EXCEPT ![c] = stopCh + 1]
  /\ UNCHANGED <<stopping, stopDone, closedStop, closedDone, closedStopDone, stops,
                 work, myStopDone, loops, manual>>

(* go e.run(), after the unlock. *)
Spawn(c) ==
  /\ pc[c] = "spawn"
  /\ pc' = [pc EXCEPT ![c] = "idle"]
  /\ loop' = [loop EXCEPT ![done[c]] = "spawned"]
  /\ UNCHANGED <<flags, channels, work, done, myStopDone, loopDone, tick, manual>>

(* Stop, when no other Stop is in progress. *)
Stop(c) ==
  /\ pc[c] = "idle"
  /\ ~stopping
  /\ stops < MaxStops
  /\ stopping' = TRUE /\ stopped' = TRUE /\ running' = RunningAfterStop
  /\ stops' = stops + 1
  /\ stopDone' = stops + 1
  /\ myStopDone' = [myStopDone EXCEPT ![c] = stops + 1]
  /\ done' = [done EXCEPT ![c] = doneCh]
  /\ closedStop' = IF running THEN closedStop \cup {stopCh} ELSE closedStop
  /\ pc' = [pc EXCEPT ![c] = IF running THEN "waitDone" ELSE "waitWork"]
  /\ UNCHANGED <<stopCh, doneCh, closedDone, closedStopDone, work, loops, manual>>

(* Stop, when another call is already stopping the engine: wait for it.    *)
StopJoin(c) ==
  /\ pc[c] = "idle"
  /\ stopping
  /\ myStopDone' = [myStopDone EXCEPT ![c] = stopDone]
  /\ pc' = [pc EXCEPT ![c] = "waitOther"]
  /\ UNCHANGED <<flags, channels, work, done, loops, manual>>

(* <-done, then work.Wait(), then the closing critical section. *)
StopLoopDone(c) ==
  /\ pc[c] = "waitDone"
  /\ LoopIsDone(c)
  /\ pc' = [pc EXCEPT ![c] = "waitWork"]
  /\ UNCHANGED <<flags, channels, work, done, myStopDone, loops, manual>>

StopWorkDone(c) ==
  /\ pc[c] = "waitWork"
  /\ WorkIsDone
  /\ pc' = [pc EXCEPT ![c] = "finish"]
  /\ UNCHANGED <<flags, channels, work, done, myStopDone, loops, manual>>

StopFinish(c) ==
  /\ pc[c] = "finish"
  /\ stopping' = FALSE
  /\ stopDone' = 0
  /\ closedStopDone' = StopDoneClosed(c)
  /\ pc' = [pc EXCEPT ![c] = "idle"]
  /\ UNCHANGED <<running, stopped, stopCh, doneCh, closedStop, closedDone, stops,
                 work, done, myStopDone, loops, manual>>

(* <-done of a joined Stop; receiving from nil (0) would block for ever.   *)
StopJoined(c) ==
  /\ pc[c] = "waitOther"
  /\ myStopDone[c] \in closedStopDone
  /\ pc' = [pc EXCEPT ![c] = "idle"]
  /\ UNCHANGED <<flags, channels, work, done, myStopDone, loops, manual>>

----------------------------------------------------------------------------
(* e.run().  The deferred close evaluates e.doneCh when the goroutine      *)
(* begins, without the mutex; the select reads e.stopCh every time round.  *)
LoopBegin(g) ==
  /\ loop[g] = "spawned"
  /\ loop' = [loop EXCEPT ![g] = "first"]
  /\ loopDone' = [loopDone EXCEPT ![g] = doneCh]
  /\ UNCHANGED <<flags, channels, work, callers, tick, manual>>

(* A probe cycle ends; the first one is followed by time.NewTicker. *)
LoopCycleEnds(g) ==
  /\ loop[g] \in {"first", "probing"}
  /\ loop' = [loop EXCEPT ![g] = "select"]
  /\ UNCHANGED <<flags, channels, work, callers, loopDone, tick, manual>>

(* ticker.C holds one tick; a tick that finds it full is dropped. *)
Tick(g) ==
  /\ loop[g] \in {"select", "probing"}
  /\ ~tick[g]
  /\ tick' = [tick EXCEPT ![g] = TRUE]
  /\ UNCHANGED <<flags, channels, work, callers, loop, loopDone, manual>>

LoopTick(g) ==
  /\ loop[g] = "select"
  /\ tick[g]
  /\ loop' = [loop EXCEPT ![g] = "probing"]
  /\ tick' = [tick EXCEPT ![g] = FALSE]
  /\ UNCHANGED <<flags, channels, work, callers, loopDone, manual>>

LoopStop(g) ==
  /\ loop[g] = "select"
  /\ stopCh \in closedStop
  /\ loop' = [loop EXCEPT ![g] = "over"]
  /\ closedDone' = closedDone \cup {loopDone[g]}
  /\ UNCHANGED <<flags, stopCh, doneCh, stopDone, closedStop, closedStopDone, stops,
                 work, callers, loopDone, tick, manual>>

----------------------------------------------------------------------------
(* TriggerOnce: the mutex part, the go statement, the end of the cycle.    *)
(* A rejected call changes nothing.                                        *)
Trigger(w) ==
  /\ manual[w] = "none"
  /\ MayTrigger
  /\ work' = WorkAdded
  /\ manual' = [manual EXCEPT ![w] = "added"]
  /\ UNCHANGED <<flags, channels, callers, loops>>

ManualBegin(w) ==
  /\ manual[w] = "added"
  /\ manual' = [manual EXCEPT ![w] = "probing"]
  /\ UNCHANGED <<flags, channels, work, callers, loops>>

ManualDone(w) ==
  /\ manual[w] = "probing"
  /\ manual' = [manual EXCEPT ![w] = "none"]
  /\ work' = work - 1
  /\ UNCHANGED <<flags, channels, callers, loops>>

CallerStep(c) == \/ Start(c) \/ Spawn(c) \/ Stop(c) \/ StopJoin(c) \/ StopLoopDone(c)
                 \/ StopWorkDone(c) \/ StopFinish(c) \/ StopJoined(c)
LoopStep(g)   == LoopBegin(g) \/ LoopCycleEnds(g) \/ Tick(g) \/ LoopTick(g) \/ LoopStop(g)
ManualStep(w) == Trigger(w) \/ ManualBegin(w) \/ ManualDone(w)

Next == \/ \E c \in Callers : CallerStep(c)
        \/ \E g \in Loops : LoopStep(g)
        \/ \E w \in Manual : ManualStep(w)

(* Scheduled goroutines run, and a probe cycle ends because every request  *)
(* has a timeout.  Nobody has to call Start, Stop or TriggerOnce.  Go's    *)
(* select picks a ready case at random, so a stop channel that stays ready *)
(* is chosen in the end even when a tick is ready every time: strong       *)
(* fairness.                                                               *)
Fairness ==
  /\ \A c \in Callers : WF_vars(Spawn(c)) /\ WF_vars(StopLoopDone(c))
                        /\ WF_vars(StopWorkDone(c)) /\ WF_vars(StopFinish(c))
                        /\ WF_vars(StopJoined(c))
  /\ \A g \in Loops : WF_vars(LoopBegin(g)) /\ WF_vars(LoopCycleEnds(g))
                      /\ WF_vars(LoopTick(g)) /\ SF_vars(LoopStop(g))
  /\ \A w \in Manual : WF_vars(ManualBegin(w)) /\ WF_vars(ManualDone(w))

Spec == Init /\ [][Next]_vars
FairSpec == Spec /\ Fairness

----------------------------------------------------------------------------
(* Jobs in progress: a loop counts from the moment Start decided on it,    *)
(* before its goroutine exists, until it has closed doneCh.                *)
Pending(g)   == \E c \in Callers : pc[c] = "spawn" /\ done[c] = g
LiveLoop(g)  == Pending(g) \/ loop[g] \in {"spawned", "first", "select", "probing"}
LiveLoops    == {g \in Loops : LiveLoop(g)}
LiveManual   == {w \in Manual : manual[w] # "none"}
Waiters      == {c \in Callers : pc[c] \in {"waitDone", "waitWork", "finish"}}

(* After a Stop returned and until the next Start nothing is probing and   *)
(* nothing is about to: main closes the database at that point.            *)
StoppedIsQuiet == stopped /\ ~stopping => LiveLoops = {} /\ LiveManual = {}

(* run() reads e.stopCh and e.doneCh without the mutex, more than once: no *)
(* Start may replace them while the loop that owns them is alive, so no    *)
(* second loop is made meanwhile either.                                   *)
LoopReadsItsChannels ==
  \A g \in LiveLoops : /\ stopCh = g /\ doneCh = g
                       /\ loop[g] \in {"first", "select", "probing"} => loopDone[g] = g

(* Go panics when a channel is closed twice: whoever is about to close one *)
(* finds it open.                                                          *)
NoDoubleClose ==
  /\ running => stopCh \notin closedStop
  /\ \A g \in Loops : loop[g] \in {"first", "select", "probing"} => loopDone[g] \notin closedDone
  /\ \A c \in Callers : pc[c] = "finish" => myStopDone[c] \notin closedStopDone

(* A Stop that joins another one never waits on a nil channel or on one    *)
(* that nobody is left to close.                                           *)
JoinedStopHasOwner ==
  \A c \in Callers : pc[c] = "waitOther" =>
     \/ myStopDone[c] \in closedStopDone
     \/ \E d \in Waiters : myStopDone[d] = myStopDone[c]

(* sync.WaitGroup forbids an Add from zero while a Wait is in progress     *)
(* (it panics, or lets the Wait miss the new work).                        *)
NoAddDuringWait ==
  [][work' > work => \A c \in Callers : pc[c] # "waitWork"]_vars

(* Every call of Stop returns. *)
StopReturns == \A c \in Callers : pc[c] \in {"waitDone", "waitWork", "finish", "waitOther"}
                                    ~> pc[c] = "idle"

(* The engine implements its contract.  A job is tagged with its kind. *)
Contract == INSTANCE EngineContract WITH
  LoopJobs   <- {"loop"} \X Loops,
  ManualJobs <- {"manual"} \X Manual,
  phase      <- IF stopping THEN "draining" ELSE IF stopped THEN "closed" ELSE "open",
  jobs       <- ({"loop"} \X LiveLoops) \cup ({"manual"} \X LiveManual)

ImplementsContract == Contract!Spec

----------------------------------------------------------------------------
(* The inductive invariant, in named parts. *)

(* The WaitGroup counts the manual goroutines that were accepted and are   *)
(* not over, those that do not exist yet included.                         *)
WorkCounts == work = Cardinality(LiveManual)

(* The flags exclude each other, and stopDone is the open channel of the   *)
(* Stop in progress.                                                       *)
FlagsAgree ==
  /\ running => ~stopping /\ ~stopped
  /\ stopping => stopped /\ stopDone = stops /\ stops \notin closedStopDone
  /\ \A n \in closedStopDone : n <= stops

(* While stopping, one caller carries the Stop out, and none otherwise. *)
OneWaiter ==
  /\ stopping => \E c \in Callers : c \in Waiters
  /\ \A c \in Waiters : stopping /\ myStopDone[c] = stopDone
  /\ \A c, d \in Waiters : c = d

(* The only loop that may be alive is the one of the last Start. *)
ChannelsAgree ==
  /\ doneCh = stopCh
  /\ \A n \in closedStop : n <= stopCh
  /\ running => stopCh \notin closedStop
  /\ \A n \in closedDone : n \in Loops /\ n <= stopCh /\ loop[n] = "over"
  /\ \A g \in Loops : loop[g] \notin {"none", "over"} => g = stopCh
  /\ \A g \in Loops : loop[g] \in {"first", "select", "probing"} => loopDone[g] = g
  /\ \A g \in Loops : g > stopCh => loop[g] = "none"

(* A Start that has not reached its go statement is alone, and its loop is *)
(* the last one.                                                           *)
SpawnAlone ==
  /\ \A c \in Callers : pc[c] = "spawn" =>
        done[c] = stopCh /\ stopCh \in Loops /\ loop[stopCh] = "none"
  /\ \A c, d \in Callers : pc[c] = "spawn" /\ pc[d] = "spawn" => c = d

(* A live loop either belongs to a running engine or is being waited for. *)
LoopIsAwaited ==
  /\ \A c \in Callers : pc[c] = "waitDone" => done[c] = stopCh
  /\ \A g \in LiveLoops : running \/ \E c \in Callers : pc[c] = "waitDone"

(* The work is over when Wait has returned, and stays over. *)
WorkIsAwaited ==
  /\ \A c \in Callers : pc[c] = "finish" => LiveManual = {}
  /\ stopped /\ ~stopping => LiveManual = {}

IInv == /\ TypeOK /\ WorkCounts /\ FlagsAgree /\ OneWaiter /\ ChannelsAgree
        /\ SpawnAlone /\ LoopIsAwaited /\ WorkIsAwaited /\ JoinedStopHasOwner
==============================================================================
