------------------------------- MODULE Services -------------------------------
(***************************************************************************)
(* The life of the background loops.  Seven services start a daemon thread *)
(* and stop it by a flag, an event or a pill in a queue, then wait for it  *)
(* a few seconds and give up:                                              *)
(*                                                                         *)
(*   "watchdog"      Watchdog (core/watchdog.py)                           *)
(*   "sender"        NodeManager's heartbeat sender (core/node_manager.py) *)
(*   "scanner"       LeaseManager (lease/lease_manager.py)                 *)
(*   "auto"          RecoveryManager (recovery/manager.py)                 *)
(*   "sync"          SyncCoordinator (sync/__init__.py)                    *)
(*   "detector"      Detector (recovery/detector.py)                       *)
(*   "coreDetector"  RecoveryDetector (core/recovery.py)                   *)
(*                                                                         *)
(* start and stop are called one after the other: in the app by its event  *)
(* loop.  A behaviour has one service; what its loop does in a pass is     *)
(* modelled elsewhere and here is one step, "work", that may take longer   *)
(* than stop waits.                                                        *)
(***************************************************************************)
EXTENDS Naturals, Sequences, FiniteSets

CONSTANTS
    Kinds,       \* the services to look at
    MaxQueue,    \* the size of the Detector's queue (100 in the code)
    MaxLoops,    \* bound: threads ever started
    MaxEvents    \* bound: offline events ever sent

AllKinds == {"watchdog", "sender", "scanner", "auto", "sync", "detector", "coreDetector"}
ASSUME KindsAssumption == Kinds \subseteq AllKinds
ASSUME BoundsAssumption == MaxQueue \in Nat \ {0} /\ MaxLoops \in Nat /\ MaxEvents \in Nat

VARIABLES
    kind,      \* the service, the same for ever
    running,   \* _running; "sync" has none: what was asked of it last
    stopEvent, \* _stop_event; "coreDetector" has none
    loops,     \* the threads ever started, _thread being the last of them
    queue,     \* the detectors' queue of offline events and pills
    caller,    \* where the caller of start and stop is
    gaveUp,    \* has a stop ever returned with its thread still alive?
    events     \* how many offline events were sent

vars == <<kind, running, stopEvent, loops, queue, caller, gaveUp, events>>

Detectors == {"detector", "coreDetector"}
Alive(i) == loops[i] # "ended"
LastAlive == loops # <<>> /\ Alive(Len(loops))
AliveLoops == {i \in DOMAIN loops : Alive(i)}

Init ==
    /\ kind \in Kinds
    /\ running = FALSE
    /\ stopEvent = FALSE
    /\ loops = <<>>
    /\ queue = <<>>
    /\ caller = "idle"
    /\ gaveUp = FALSE
    /\ events = 0

-----------------------------------------------------------------------------
(* start and stop.                                                         *)

\* What start takes for running: the flag, for "sync" its last thread.
SeemsRunning == IF kind = "sync" THEN LastAlive ELSE running

Spawn == loops' = Append(loops, IF kind = "detector" THEN "wait" ELSE "test")

\* Fault: starts without a look at what is running.
StartAnyway ==
    /\ caller = "idle"
    /\ Len(loops) < MaxLoops
    /\ running' = TRUE
    /\ stopEvent' = FALSE
    /\ Spawn
    /\ UNCHANGED <<kind, queue, caller, gaveUp, events>>

\* Fault: the event of the last stop stays set.
StartStopped ==
    /\ caller = "idle"
    /\ ~SeemsRunning
    /\ Len(loops) < MaxLoops
    /\ running' = TRUE
    /\ Spawn
    /\ UNCHANGED <<kind, stopEvent, queue, caller, gaveUp, events>>

Start ==
    /\ caller = "idle"
    /\ IF SeemsRunning
       THEN running' = TRUE /\ UNCHANGED <<stopEvent, loops>>
       ELSE /\ Len(loops) < MaxLoops
            /\ running' = TRUE
            /\ stopEvent' = FALSE
            /\ Spawn
    /\ UNCHANGED <<kind, queue, caller, gaveUp, events>>

\* Fault: the loop's event is forgotten.
StopFlagOnly ==
    /\ caller = "idle"
    /\ running \/ kind = "sync"
    /\ running' = FALSE
    /\ caller' = IF ~LastAlive THEN "idle" ELSE IF kind = "detector" THEN "put" ELSE "join"
    /\ UNCHANGED <<kind, stopEvent, loops, queue, gaveUp, events>>

\* "sync" stops whether it runs or not.
Stop ==
    /\ caller = "idle"
    /\ running \/ kind = "sync"
    /\ running' = FALSE
    /\ stopEvent' = TRUE
    /\ caller' = IF ~LastAlive THEN "idle" ELSE IF kind = "detector" THEN "put" ELSE "join"
    /\ UNCHANGED <<kind, loops, queue, gaveUp, events>>

\* The pill waits for room in the queue.
PutPill ==
    /\ caller = "put"
    /\ Len(queue) < MaxQueue
    /\ queue' = Append(queue, "pill")
    /\ caller' = "join"
    /\ UNCHANGED <<kind, running, stopEvent, loops, gaveUp, events>>

\* The thread has ended or the time is up.
Join ==
    /\ caller = "join"
    /\ caller' = "idle"
    /\ gaveUp' = (gaveUp \/ LastAlive)
    /\ UNCHANGED <<kind, running, stopEvent, loops, queue, events>>

\* A full queue drops the event; that of "coreDetector" is a list.
NotifyOffline ==
    /\ kind \in Detectors
    /\ events < MaxEvents
    /\ queue' = IF kind = "coreDetector" \/ Len(queue) < MaxQueue
                THEN Append(queue, "event") ELSE queue
    /\ events' = events + 1
    /\ UNCHANGED <<kind, running, stopEvent, loops, caller, gaveUp>>

-----------------------------------------------------------------------------
(* The loops.                                                              *)

Loop(i, from, to) == loops[i] = from /\ loops' = [loops EXCEPT ![i] = to]

OnlyLoops == UNCHANGED <<kind, running, stopEvent, queue, caller, gaveUp, events>>

\* Watchdog and RecoveryDetector look at the flag, the others at the event.
MustEnd == IF kind \in {"watchdog", "coreDetector"} THEN ~running ELSE stopEvent

\* The condition of the while.
Test(i) ==
    /\ Loop(i, "test", IF MustEnd THEN "ended" ELSE IF kind = "coreDetector" THEN "wait" ELSE "work")
    /\ OnlyLoops

Work(i) ==
    /\ Loop(i, "work", IF kind = "coreDetector" THEN "test" ELSE "wait")
    /\ OnlyLoops

\* The interval is over or the event is set.
WakeUp(i) ==
    /\ kind \notin Detectors
    /\ Loop(i, "wait", "test")
    /\ OnlyLoops

\* A pill ends the Detector's loop, whoever has put it there.
TakeEvent(i) ==
    /\ kind \in Detectors
    /\ queue # <<>>
    /\ Loop(i, "wait", IF Head(queue) = "pill" THEN "ended" ELSE "work")
    /\ queue' = Tail(queue)
    /\ UNCHANGED <<kind, running, stopEvent, caller, gaveUp, events>>

\* The wait for an event times out.
GetTimesOut(i) ==
    /\ kind \in Detectors
    /\ queue = <<>>
    /\ MustEnd
    /\ Loop(i, "wait", IF kind = "detector" THEN "ended" ELSE "test")
    /\ OnlyLoops

LoopStep(i) == Test(i) \/ Work(i) \/ WakeUp(i) \/ TakeEvent(i) \/ GetTimesOut(i)

-----------------------------------------------------------------------------
Next ==
    \/ Start \/ Stop \/ PutPill \/ Join \/ NotifyOffline
    \/ \E i \in DOMAIN loops : LoopStep(i)

Spec == Init /\ [][Next]_vars

\* Every thread runs, and a pass over its work comes to its end.
FairSpec ==
    /\ Spec
    /\ WF_vars(PutPill) /\ WF_vars(Join)
    /\ \A i \in 1..MaxLoops : WF_vars(i \in DOMAIN loops /\ LoopStep(i))

-----------------------------------------------------------------------------
(* Properties.                                                             *)

\* A service that is stopped for good comes to rest: all its threads end, those
\* included that an earlier stop gave up waiting for.
StoppedEnds == <>[](~running) => <>[](AliveLoops = {})

\* While a service counts as running a thread serves it, however often it has
\* been stopped and started and however long its threads took to notice.
RunningIsServed ==
    kind \notin {"sync", "detector"} /\ running /\ caller = "idle" => AliveLoops # {}

\* If every stop has seen its thread end, no two threads serve one service.
OneLoop == ~gaveUp => Cardinality(AliveLoops) <= 1

-----------------------------------------------------------------------------
(* What the code says and does not do.                                     *)

\* detector.py: "Main detector loop - blocks on queue until stopped".  A pill
\* that an earlier stop has left behind ends a loop nobody has stopped.
LoopsUntilStopped ==
    [][\A i \in DOMAIN loops : Alive(i) /\ loops'[i] = "ended" => ~running]_vars

\* detector.py: stop puts the pill to "Unblock get()", and returns.
StopReturns == caller # "idle" ~> caller = "idle"

\* sync/__init__.py: "Start the background sync loop".
StartedIsServed == <>[]running => <>[](AliveLoops # {})
=============================================================================
