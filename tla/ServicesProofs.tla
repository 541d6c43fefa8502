--------------------------- MODULE ServicesProofs ---------------------------
(***************************************************************************)
(* Proofs about Services for any number of threads and events: a running   *)
(* service has a thread, a stopped one none, and none has two, unless a    *)
(* stop gave up on its thread.                                             *)
(***************************************************************************)
EXTENDS Services, FiniteSetTheorems, TLAPS

States == {"test", "work", "wait", "ended"}

ServicesTypes ==
    /\ kind \in AllKinds
    /\ running \in BOOLEAN /\ stopEvent \in BOOLEAN /\ gaveUp \in BOOLEAN
    /\ loops \in Seq(States) /\ queue \in Seq({"event", "pill"})
    /\ caller \in {"idle", "put", "join"}
    /\ events \in Nat

\* Only the Detector is sent pills, and a running service is not told to stop.
Signals ==
    /\ kind # "detector" => caller # "put" /\ \A i \in DOMAIN queue : queue[i] = "event"
    /\ kind # "sync" /\ running => ~stopEvent

\* The thread that start has left in _thread is the one that serves.
Serves == kind \notin {"sync", "detector"} /\ running => LastAlive

\* Without a stop that gave up no other thread is alive, and none at all when
\* stop has returned.
Alone ==
    ~gaveUp => /\ \A i \in DOMAIN loops : Alive(i) => i = Len(loops)
               /\ ~running /\ caller = "idle" => ~LastAlive

Inv == ServicesTypes /\ Signals /\ Serves /\ Alone

LEMMA InitInv == Init => Inv
<1> SUFFICES ASSUME Init PROVE Inv
  OBVIOUS
<1>1. kind \in AllKinds
  BY KindsAssumption DEF Init
<1>2. /\ running = FALSE /\ stopEvent = FALSE /\ gaveUp = FALSE /\ events = 0
      /\ loops = <<>> /\ queue = <<>> /\ caller = "idle"
  BY DEF Init
<1>3. ServicesTypes
  <2>1. loops \in Seq(States) /\ queue \in Seq({"event", "pill"})
    BY <1>2
  <2>2. events \in Nat
    BY <1>2
  <2>3. QED
    BY <1>1, <1>2, <2>1, <2>2, Zenon DEF ServicesTypes
<1>4. Signals /\ Serves /\ Alone
  BY <1>2 DEF Signals, Serves, Alone, LastAlive
<1>5. QED
  BY <1>3, <1>4 DEF Inv

-----------------------------------------------------------------------------
(* The steps.                                                              *)

LEMMA SpawnFacts ==
    ASSUME Inv, Spawn
    PROVE  /\ loops' \in Seq(States) /\ Len(loops') = Len(loops) + 1 /\ loops' # <<>>
           /\ loops'[Len(loops')] \in {"wait", "test"}
           /\ \A i \in DOMAIN loops : loops'[i] = loops[i]
           /\ DOMAIN loops' = DOMAIN loops \cup {Len(loops')}
BY DEF Inv, ServicesTypes, Spawn, States

LEMMA StartKeepsInv == ASSUME Inv, Start PROVE Inv'
<1>1. UNCHANGED <<kind, queue, caller, gaveUp, events>> /\ caller = "idle" /\ running' = TRUE
  BY DEF Start
<1>2. CASE SeemsRunning
  <2>1. UNCHANGED <<stopEvent, loops>>
    BY <1>2 DEF Start
  <2>2. kind # "sync" => running
    BY <1>2 DEF SeemsRunning
  <2>3. QED
    BY <1>1, <2>1, <2>2 DEF Inv, ServicesTypes, Signals, Serves, Alone, Alive, LastAlive
<1>3. CASE ~SeemsRunning
  <2>1. stopEvent' = FALSE /\ Spawn
    BY <1>3 DEF Start
  <2>2. ~gaveUp => \A i \in DOMAIN loops : ~Alive(i)
    <3>1. ~gaveUp => ~LastAlive
      BY <1>1, <1>3 DEF SeemsRunning, Inv, Alone
    <3>2. \A i \in DOMAIN loops : loops # <<>>
      BY DEF Inv, ServicesTypes
    <3>3. QED
      BY <3>1, <3>2 DEF Inv, Alone, LastAlive
  <2>3. ServicesTypes' /\ Signals'
    BY <1>1, <2>1, SpawnFacts DEF Inv, ServicesTypes, Signals
  <2>4. LastAlive'
    BY <2>1, SpawnFacts DEF LastAlive, Alive
  <2>5. ~gaveUp => \A i \in DOMAIN loops' : loops'[i] # "ended" => i = Len(loops')
    BY <2>1, <2>2, SpawnFacts DEF Alive
  <2>6. Alone'
    BY <1>1, <2>5 DEF Alone, Alive
  <2>7. QED
    BY <2>3, <2>4, <2>6 DEF Inv, Serves
<1>4. QED
  BY <1>2, <1>3

LEMMA StopKeepsInv == ASSUME Inv, Stop \/ PutPill \/ Join PROVE Inv'
<1>1. CASE Stop
  BY <1>1 DEF Stop, Inv, ServicesTypes, Signals, Serves, Alone, Alive, LastAlive
<1>2. CASE PutPill
  <2>1. kind = "detector" /\ queue' \in Seq({"event", "pill"})
    BY <1>2 DEF PutPill, Inv, ServicesTypes, Signals
  <2>2. QED
    BY <1>2, <2>1 DEF PutPill, Inv, ServicesTypes, Signals, Serves, Alone, Alive, LastAlive
<1>3. CASE Join
  BY <1>3 DEF Join, Inv, ServicesTypes, Signals, Serves, Alone, Alive, LastAlive
<1>4. QED
  BY <1>1, <1>2, <1>3

LEMMA NotifyKeepsInv == ASSUME Inv, NotifyOffline PROVE Inv'
<1>1. /\ queue' = queue \/ queue' = Append(queue, "event")
      /\ events' = events + 1
      /\ UNCHANGED <<kind, running, stopEvent, loops, caller, gaveUp>>
  BY DEF NotifyOffline
<1>2. queue' \in Seq({"event", "pill"})
  BY <1>1 DEF Inv, ServicesTypes
<1>3. (\A i \in DOMAIN queue : queue[i] = "event") => \A i \in DOMAIN queue' : queue'[i] = "event"
  BY <1>1 DEF Inv, ServicesTypes
<1>4. QED
  BY <1>1, <1>2, <1>3 DEF Inv, ServicesTypes, Signals, Serves, Alone, Alive, LastAlive

\* No thread comes back to life, and one ends only when it is told to.
LEMMA LoopKeepsInv ==
    ASSUME Inv, NEW i \in DOMAIN loops, LoopStep(i)
    PROVE  Inv'
<1>1. PICK to \in States :
          /\ loops[i] # "ended" /\ loops' = [loops EXCEPT ![i] = to]
          /\ to = "ended" => MustEnd \/ Head(queue) = "pill"
          /\ to = "ended" /\ ~MustEnd => queue # <<>>
  BY DEF LoopStep, Test, Work, WakeUp, TakeEvent, GetTimesOut, Loop, States
<1>2. /\ UNCHANGED <<kind, running, stopEvent, caller, gaveUp, events>>
      /\ queue' = queue \/ (queue # <<>> /\ queue' = Tail(queue))
  BY DEF LoopStep, Test, Work, WakeUp, TakeEvent, GetTimesOut, OnlyLoops
<1>3. /\ loops' \in Seq(States) /\ Len(loops') = Len(loops) /\ DOMAIN loops' = DOMAIN loops
      /\ loops # <<>> /\ loops' # <<>> /\ Len(loops) \in DOMAIN loops
      /\ \A j \in DOMAIN loops : loops'[j] = IF j = i THEN to ELSE loops[j]
  BY <1>1 DEF Inv, ServicesTypes
<1>4. /\ queue' \in Seq({"event", "pill"})
      /\ (\A j \in DOMAIN queue : queue[j] = "event") => \A j \in DOMAIN queue' : queue'[j] = "event"
  BY <1>2 DEF Inv, ServicesTypes
<1>5. ServicesTypes'
  BY <1>2, <1>3, <1>4 DEF Inv, ServicesTypes
<1>6. Signals'
  BY <1>2, <1>4 DEF Inv, Signals
<1>7. kind \notin {"sync", "detector"} /\ running => to # "ended"
  <2>1. SUFFICES ASSUME kind \notin {"sync", "detector"}, running, to = "ended"
                 PROVE  FALSE
    OBVIOUS
  <2>2. ~MustEnd
    BY <2>1 DEF MustEnd, Inv, Signals
  <2>3. Head(queue) = "event"
    BY <1>1, <2>1, <2>2 DEF Inv, ServicesTypes, Signals
  <2>4. QED
    BY <1>1, <2>1, <2>2, <2>3
<1>8. Serves'
  BY <1>2, <1>3, <1>7 DEF Inv, Serves, LastAlive, Alive
<1>9. Alone'
  BY <1>1, <1>2, <1>3 DEF Inv, Alone, LastAlive, Alive
<1>10. QED
  BY <1>5, <1>6, <1>8, <1>9 DEF Inv

LEMMA NextKeepsInv == Inv /\ [Next]_vars => Inv'
<1> SUFFICES ASSUME Inv, [Next]_vars PROVE Inv'
  OBVIOUS
<1>1. CASE UNCHANGED vars
  BY <1>1 DEF vars, Inv, ServicesTypes, Signals, Serves, Alone, LastAlive, Alive
<1>2. CASE Next
  BY <1>2, StartKeepsInv, StopKeepsInv, NotifyKeepsInv, LoopKeepsInv DEF Next
<1>3. QED
  BY <1>1, <1>2

LEMMA InvHolds == Spec => []Inv
BY InitInv, NextKeepsInv, PTL DEF Spec

-----------------------------------------------------------------------------
(* The theorems.                                                           *)

LEMMA InvImplies == Inv => RunningIsServed /\ OneLoop
<1> SUFFICES ASSUME Inv PROVE RunningIsServed /\ OneLoop
  OBVIOUS
<1>1. loops # <<>> => Len(loops) \in DOMAIN loops
  BY DEF Inv, ServicesTypes
<1>2. RunningIsServed
  BY <1>1 DEF Inv, Serves, RunningIsServed, LastAlive, AliveLoops
<1>3. ASSUME ~gaveUp
      PROVE  Cardinality(AliveLoops) <= 1
  <2>1. AliveLoops \subseteq {Len(loops)}
    BY <1>3 DEF Inv, Alone, AliveLoops
  <2>2. IsFiniteSet({Len(loops)}) /\ Cardinality({Len(loops)}) = 1
    BY FS_Singleton
  <2>3. QED
    BY <2>1, <2>2, FS_Subset
<1>4. QED
  BY <1>2, <1>3 DEF OneLoop

\* Between calls a service that counts as running has a thread (start and stop
\* of the watchdog, the sender, the scanner, auto-recovery, RecoveryDetector).
THEOREM RunningServed == Spec => []RunningIsServed
BY InvHolds, InvImplies, PTL

\* A service has two threads only after a stop that returned with its thread
\* alive (the join with a timeout in every stop).
THEOREM LoopAlone == Spec => []OneLoop
BY InvHolds, InvImplies, PTL

\* A service whose stop has returned, and seen its thread end, is at rest: no
\* thread of this start or of an earlier one is left, of the sync coordinator
\* neither, which keeps no flag (stop of all seven services).
THEOREM StopLeavesNobody ==
    Spec => [](~gaveUp /\ ~running /\ caller = "idle" => AliveLoops = {})
<1>1. ASSUME Inv, ~gaveUp, ~running, caller = "idle"
      PROVE  AliveLoops = {}
  <2>1. ~LastAlive /\ \A i \in DOMAIN loops : Alive(i) => i = Len(loops)
    BY <1>1 DEF Inv, Alone
  <2>2. \A i \in DOMAIN loops : loops # <<>>
    BY <1>1 DEF Inv, ServicesTypes
  <2>3. QED
    BY <2>1, <2>2 DEF LastAlive, AliveLoops
<1>2. QED
  BY <1>1, InvHolds, PTL
=============================================================================
