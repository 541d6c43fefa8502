------------------------------ MODULE NodeWatch ------------------------------
(***************************************************************************)
(* How the silence of a node turns into a recovery: heartbeats and the     *)
(* NodeManager (core/node_manager.py) on the request threads, the watchdog *)
(* (core/watchdog.py) on its own, the listener that create_app connects    *)
(* (app.py), and the event queue of the Detector (recovery/detector.py).   *)
(*                                                                         *)
(* The watchdog reads the clock, then every node without a lock, heartbeat *)
(* before status, and only then acts on what it has read.  Time is kept as *)
(* the class a heartbeat falls into: younger than degraded_after, younger  *)
(* than offline_after, older.  Names, loads and capabilities decide        *)
(* nothing here.                                                           *)
(*                                                                         *)
(* The app itself changes a status by heartbeats and the watchdog only;    *)
(* leave and set_status are called by programs that embed the manager.     *)
(* The app never starts the loop of the detector either, so that nothing   *)
(* here may count on an event being taken from the queue: it can happen,   *)
(* in a program that starts the detector, and need not.                    *)
(***************************************************************************)
EXTENDS Naturals, Sequences, FiniteSets

CONSTANTS
    Nodes,      \* ids of nodes that may join
    Strangers,  \* other ids that leases name: a claim asks for no registered node
    Watchdog,   \* the watchdog thread
    Callers,    \* threads that call set_status and leave
    None,       \* no node
    MaxQueue,   \* the size of the detector's queue (100 in the code)
    MaxCalls    \* bound: calls of set_status and leave, and expiries of leases

ASSUME WatchdogAssumption == Watchdog \notin Callers
ASSUME NoneAssumption == None \notin Nodes \cup Strangers
ASSUME BoundsAssumption == MaxQueue \in Nat \ {0} /\ MaxCalls \in Nat

VARIABLES
    node,      \* _nodes: status and last_heartbeat of every node
    beating,   \* the node in the critical section of update_heartbeat
    pass,      \* the watchdog's pass over the nodes
    change,    \* the call of set_status each thread is in
    queue,     \* _event_queue of the detector
    handling,  \* the node the detector is recovering
    left,      \* the nodes leave was called for, kept for the properties
    calls      \* how many of the bounded calls were made

vars == <<node, beating, pass, change, queue, handling, left, calls>>

Names == Nodes \cup Strangers
Setters == Callers \cup {Watchdog}
Ages == {"fresh", "late", "lost"}
NodeStatus == {"online", "degraded", "offline"}
Row == [status: NodeStatus \cup {"absent"}, beat: Ages]
NoRow == [status |-> "absent", beat |-> "fresh"]

\* now is the age every heartbeat had when the clock was read, seen what was
\* read of each node, and left holds the nodes still to be looked at.
NoPass == [pc |-> "wait", left |-> {}, at |-> None,
           now |-> [n \in Nodes |-> "fresh"], seen |-> [n \in Nodes |-> NoRow]]
NoChange == [pc |-> "idle", node |-> None, old |-> "online", new |-> "online"]

Known(n) == node[n].status # "absent"

\* _nodes_lock, which update_heartbeat holds from the time to the status.
Unlocked == beating = None

Init ==
    /\ node = [n \in Nodes |-> NoRow]
    /\ beating = None
    /\ pass = NoPass
    /\ change = [p \in Setters |-> NoChange]
    /\ queue = <<>>
    /\ handling = None
    /\ left = {}
    /\ calls = 0

-----------------------------------------------------------------------------
(* The detector.                                                           *)

\* notify_offline: a full queue drops the event.
NotifyOffline(n) ==
    queue' = IF Len(queue) < MaxQueue THEN Append(queue, n) ELSE queue

\* Fault: the event stays in the queue.
TakeEventKeeping ==
    /\ handling = None
    /\ queue # <<>>
    /\ handling' = Head(queue)
    /\ UNCHANGED <<node, beating, pass, change, queue, left, calls>>

TakeEvent ==
    /\ handling = None
    /\ queue # <<>>
    /\ handling' = Head(queue)
    /\ queue' = Tail(queue)
    /\ UNCHANGED <<node, beating, pass, change, left, calls>>

HandledOffline ==
    /\ handling # None
    /\ handling' = None
    /\ UNCHANGED <<node, beating, pass, change, queue, left, calls>>

\* A lease expired; create_app connects that to the detector, too, whatever
\* node the lease names.
LeaseExpired(n) ==
    /\ calls < MaxCalls
    /\ NotifyOffline(n)
    /\ calls' = calls + 1
    /\ UNCHANGED <<node, beating, pass, change, handling, left>>

-----------------------------------------------------------------------------
(* set_status, on any thread: the test, the write, the event.              *)

\* Fault: the status is not read again.
SetStatusUnread(p, n, s) ==
    change' = IF ~Known(n) THEN change
              ELSE [change EXCEPT ![p] = [pc |-> "write", node |-> n,
                                          old |-> node[n].status, new |-> s]]

SetStatus(p, n, s) ==
    change' = IF node[n].status \in {"absent", s} THEN change
              ELSE [change EXCEPT ![p] = [pc |-> "write", node |-> n,
                                          old |-> node[n].status, new |-> s]]

WriteStatus(p) ==
    /\ change[p].pc = "write"
    /\ Unlocked
    /\ node' = [node EXCEPT ![change[p].node].status = change[p].new]
    /\ change' = [change EXCEPT ![p].pc = "emit"]
    /\ UNCHANGED <<beating, pass, queue, handling, left, calls>>

\* Fault: the listener waits for a degraded node to go offline.
EmitStatusInOrder(p) ==
    /\ change[p].pc = "emit"
    /\ IF change[p].old = "degraded" /\ change[p].new = "offline"
       THEN NotifyOffline(change[p].node)
       ELSE UNCHANGED queue
    /\ change' = [change EXCEPT ![p] = NoChange]
    /\ UNCHANGED <<node, beating, pass, handling, left, calls>>

\* _on_node_event looks for "offline" in "old -> new", on either side of it.
EmitStatus(p) ==
    /\ change[p].pc = "emit"
    /\ IF "offline" \in {change[p].old, change[p].new}
       THEN NotifyOffline(change[p].node)
       ELSE UNCHANGED queue
    /\ change' = [change EXCEPT ![p] = NoChange]
    /\ UNCHANGED <<node, beating, pass, handling, left, calls>>

CallSetStatus(p, n, s) ==
    /\ calls < MaxCalls
    /\ change[p].pc = "idle"
    /\ Unlocked
    /\ Known(n)
    /\ SetStatus(p, n, s)
    /\ calls' = calls + 1
    /\ UNCHANGED <<node, beating, pass, queue, handling, left>>

\* leave keeps the node; its event "left" interests no listener.
Leave(p, n) ==
    /\ calls < MaxCalls
    /\ change[p].pc = "idle"
    /\ Unlocked
    /\ Known(n)
    /\ node' = [node EXCEPT ![n].status = "offline"]
    /\ left' = left \cup {n}
    /\ calls' = calls + 1
    /\ UNCHANGED <<beating, pass, change, queue, handling>>

-----------------------------------------------------------------------------
(* Joining and heartbeats.                                                 *)

\* A node that has joined before sends a heartbeat.
Join(n) ==
    /\ ~Known(n)
    /\ Unlocked
    /\ node' = [node EXCEPT ![n] = [status |-> "online", beat |-> "fresh"]]
    /\ UNCHANGED <<beating, pass, change, queue, handling, left, calls>>

\* update_heartbeat writes the time, and the status after it.
SendHeartbeat(n) ==
    /\ Known(n)
    /\ Unlocked
    /\ node' = [node EXCEPT ![n].beat = "fresh"]
    /\ pass' = [pass EXCEPT !.now[n] = "fresh"]
    /\ beating' = n
    /\ UNCHANGED <<change, queue, handling, left, calls>>

HeartbeatOnline ==
    /\ ~Unlocked
    /\ node' = [node EXCEPT ![beating].status = "online"]
    /\ beating' = None
    /\ UNCHANGED <<pass, change, queue, handling, left, calls>>

GetOlder(n) ==
    /\ Known(n)
    /\ node[n].beat # "lost"
    /\ node' = [node EXCEPT ![n].beat = IF @ = "fresh" THEN "late" ELSE "lost"]
    /\ UNCHANGED <<beating, pass, change, queue, handling, left, calls>>

-----------------------------------------------------------------------------
(* The watchdog's pass.                                                    *)

Verdict(age) == CASE age = "fresh" -> "online"
                  [] age = "late"  -> "degraded"
                  [] age = "lost"  -> "offline"

ReadClock ==
    /\ pass.pc = "wait"
    /\ Unlocked
    /\ \E n \in Nodes : Known(n)
    /\ pass' = [NoPass EXCEPT !.pc = "beat", !.left = {n \in Nodes : Known(n)},
                              !.now = [n \in Nodes |-> node[n].beat]]
    /\ UNCHANGED <<node, beating, change, queue, handling, left, calls>>

\* A heartbeat that came after the clock was read counts as fresh.
ReadBeat(n) ==
    /\ pass.pc = "beat"
    /\ n \in pass.left
    /\ pass' = [pass EXCEPT !.pc = "status", !.at = n,
                              !.now[n] = "fresh", !.seen[n].beat = pass.now[n]]
    /\ UNCHANGED <<node, beating, change, queue, handling, left, calls>>

\* Fault: every node is taken for online.
ReadStatusOnline ==
    /\ pass.pc = "status"
    /\ LET n == pass.at
           all == {m \in Nodes : pass.seen[m].status # "absent"} \cup {n}
       IN pass' = [pass EXCEPT
              !.seen[n].status = "online", !.at = None,
              !.pc = IF pass.left = {n} THEN "judge" ELSE "beat",
              !.left = IF @ = {n} THEN all ELSE @ \ {n}]
    /\ UNCHANGED <<node, beating, change, queue, handling, left, calls>>

ReadStatus ==
    /\ pass.pc = "status"
    /\ LET n == pass.at
           all == {m \in Nodes : pass.seen[m].status # "absent"} \cup {n}
       IN pass' = [pass EXCEPT
              !.seen[n].status = node[n].status, !.at = None,
              !.pc = IF pass.left = {n} THEN "judge" ELSE "beat",
              !.left = IF @ = {n} THEN all ELSE @ \ {n}]
    /\ UNCHANGED <<node, beating, change, queue, handling, left, calls>>

\* The node is judged by what was read of it; set_status looks again.
Judge(n) ==
    /\ pass.pc = "judge"
    /\ n \in pass.left
    /\ change[Watchdog].pc = "idle"
    /\ LET verdict == Verdict(pass.seen[n].beat)
       IN IF verdict = pass.seen[n].status
          THEN UNCHANGED change
          ELSE Unlocked /\ SetStatus(Watchdog, n, verdict)
    /\ pass' = [pass EXCEPT !.left = @ \ {n}, !.seen[n] = NoRow]
    /\ UNCHANGED <<node, beating, queue, handling, left, calls>>

EndPass ==
    /\ pass.pc = "judge"
    /\ pass.left = {}
    /\ change[Watchdog].pc = "idle"
    /\ pass' = NoPass
    /\ UNCHANGED <<node, beating, change, queue, handling, left, calls>>

-----------------------------------------------------------------------------
WatchStep ==
    \/ ReadClock \/ ReadStatus \/ EndPass
    \/ \E n \in Nodes : ReadBeat(n) \/ Judge(n)
    \/ WriteStatus(Watchdog) \/ EmitStatus(Watchdog)

CallStep(p) == WriteStatus(p) \/ EmitStatus(p)

Detect == TakeEvent \/ HandledOffline

Next ==
    \/ WatchStep \/ Detect \/ HeartbeatOnline
    \/ \E n \in Nodes : Join(n) \/ SendHeartbeat(n) \/ GetOlder(n)
    \/ \E n \in Names : LeaseExpired(n)
    \/ \E p \in Callers :
          \/ CallStep(p)
          \/ \E n \in Nodes, s \in NodeStatus : CallSetStatus(p, n, s)
          \/ \E n \in Nodes : Leave(p, n)

Spec == Init /\ [][Next]_vars

\* The threads run; one that waits for the lock of the nodes gets it in the end,
\* heartbeats or not.  The detector is left out: nothing starts it.
FairSpec ==
    /\ Spec
    /\ SF_vars(WatchStep)
    /\ \A p \in Callers : SF_vars(CallStep(p))
    /\ WF_vars(HeartbeatOnline)

-----------------------------------------------------------------------------
(* Properties.                                                             *)

\* Types; the queue keeps its bound, a node being looked at was known, and a
\* thread in set_status has a real change in hand.
TypeOK ==
    /\ node \in [Nodes -> Row]
    /\ beating \in {n \in Nodes : Known(n)} \cup {None}
    /\ pass \in [pc: {"wait", "beat", "status", "judge"},
                 left: SUBSET {n \in Nodes : Known(n)}, at: Nodes \cup {None},
                 now: [Nodes -> Ages], seen: [Nodes -> Row]]
    /\ change \in [Setters -> [pc: {"idle", "write", "emit"}, node: Nodes \cup {None},
                               old: NodeStatus, new: NodeStatus]]
    /\ \A p \in Setters :
          change[p].pc # "idle" => change[p].node # None /\ change[p].old # change[p].new
    /\ queue \in Seq(Names) /\ Len(queue) <= MaxQueue
    /\ handling \in Names \cup {None}
    /\ left \in SUBSET Nodes
    /\ calls \in 0..MaxCalls

\* Whatever stale readings and concurrent calls have done to the table: a node
\* whose heartbeat stays of one age for good ends up with the status that the
\* watchdog gives to this age, and keeps it (Watchdog._check).
Settles ==
    \A n \in Nodes, age \in Ages :
        <>[](Known(n) /\ node[n].beat = age) => <>[](node[n].status = Verdict(age))

\* The thread that has written n's status as offline has yet to report it.
Reporting(n) ==
    \E p \in Setters : change[p].pc = "emit" /\ change[p].node = n /\ change[p].new = "offline"

Queued(n) == \E i \in DOMAIN queue : queue[i] = n

\* The report comes when the queue is full of other events: it will be dropped.
Crowded(n) == Reporting(n) /\ Len(queue) = MaxQueue /\ ~Queued(n)

\* A node that is silent for so long that it counts as lost, and is not offline
\* yet, comes to the detector, whatever the watchdog has read before and whoever
\* else sets its status (Watchdog._check, set_status, create_app's listener):
\* unless it is heard of again or leaves, it is queued or being recovered.  The
\* one way in which its event gets lost is a queue full of others' events.
LostIsReported ==
    \A n \in Nodes :
        (node[n].beat = "lost" /\ node[n].status \in {"online", "degraded"})
        ~> (Queued(n) \/ handling = n \/ node[n].beat # "lost" \/ n \in left \/ Crowded(n))

\* A node that stays silent is not recovered over and over, however often the
\* watchdog passes by.
NoRecoveryStorm ==
    \A n \in Nodes :
        <>[](node[n].beat = "lost") => <>[][handling' = n => handling = n]_vars

-----------------------------------------------------------------------------
(* What the code says and does not do.                                     *)

\* app.py: "watchdog detects offline -> trigger recovery".  A node that has
\* just been seen again is reported, too.
OnlyOfflineReported ==
    [][\A p \in Setters :
         change[p].pc = "emit" /\ change'[p].pc = "idle" /\ change[p].new # "offline"
         => queue' = queue]_vars

\* app.py: "watchdog detects offline -> trigger recovery".  The app queues the
\* event for a detector that is never started.
LostIsRecovered ==
    \A n \in Nodes :
        (node[n].beat = "lost" /\ node[n].status \in {"online", "degraded"})
        ~> (handling = n \/ node[n].beat # "lost" \/ n \in left)

=============================================================================
