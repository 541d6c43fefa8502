--------------------------- MODULE NodeWatchProofs ---------------------------
(***************************************************************************)
(* Type correctness of NodeWatch for any nodes, callers and bounds.  Its   *)
(* point are the parts that are not types: nobody is looked at or reported *)
(* who is not known, every status change under way is a real one, and the  *)
(* detector's queue keeps its bound.  From it: the news that a node is     *)
(* offline is handed from thread to queue to detector and lost only by a   *)
(* full queue.                                                             *)
(***************************************************************************)
EXTENDS NodeWatch, SequenceTheorems, TLAPS

KnownNodes == {n \in Nodes : Known(n)}

Pass == [pc: {"wait", "beat", "status", "judge"}, left: SUBSET Nodes,
         at: Nodes \cup {None}, now: [Nodes -> Ages], seen: [Nodes -> Row]]
Change == [pc: {"idle", "write", "emit"}, node: Nodes \cup {None},
           old: NodeStatus, new: NodeStatus]

\* The pass knows only known nodes: those left, the one whose status comes next,
\* and those it has read.
PassOK ==
    /\ pass \in Pass
    /\ pass.left \subseteq KnownNodes
    /\ pass.pc = "status" => pass.at \in KnownNodes
    /\ \A n \in Nodes : pass.seen[n].status # "absent" => n \in KnownNodes

ChangesOK ==
    /\ change \in [Setters -> Change]
    /\ \A p \in Setters :
          change[p].pc # "idle" => change[p].node # None /\ change[p].old # change[p].new

QueueOK == queue \in Seq(Names) /\ Len(queue) <= MaxQueue

Inv ==
    /\ node \in [Nodes -> Row] /\ beating \in KnownNodes \cup {None}
    /\ PassOK /\ ChangesOK /\ QueueOK
    /\ handling \in Names \cup {None} /\ left \in SUBSET Nodes /\ calls \in 0..MaxCalls

LEMMA InvImpliesTypes == Inv => TypeOK
<1> SUFFICES ASSUME Inv PROVE TypeOK
  OBVIOUS
<1>1. pass \in [pc: {"wait", "beat", "status", "judge"}, left: SUBSET KnownNodes,
                at: Nodes \cup {None}, now: [Nodes -> Ages], seen: [Nodes -> Row]]
  BY DEF Inv, PassOK, Pass
<1>2. QED
  BY <1>1 DEF Inv, ChangesOK, Change, QueueOK, TypeOK, KnownNodes

\* Nodes get known and stay known.
Grown == node' \in [Nodes -> Row] /\ KnownNodes \subseteq KnownNodes'

LEMMA NoPassOK ==
    /\ NoPass \in Pass /\ NoPass.left = {} /\ NoPass.pc = "wait"
    /\ NoPass.seen = [n \in Nodes |-> NoRow] /\ NoRow \in Row /\ NoRow.status = "absent"
    /\ NoChange \in Change /\ NoChange.pc = "idle"
<1>1. NoRow \in Row /\ NoRow.status = "absent"
  BY DEF NoRow, Row, Ages
<1>2. NoChange \in Change /\ NoChange.pc = "idle"
  BY DEF NoChange, Change, NodeStatus
<1>3. [n \in Nodes |-> NoRow] \in [Nodes -> Row] /\ [n \in Nodes |-> "fresh"] \in [Nodes -> Ages]
  BY <1>1 DEF Ages
<1>4. QED
  BY <1>1, <1>2, <1>3 DEF NoPass, Pass

LEMMA InitInv == Init => Inv
<1> SUFFICES ASSUME Init PROVE Inv
  OBVIOUS
<1>1. /\ node = [n \in Nodes |-> NoRow] /\ beating = None /\ pass = NoPass
      /\ change = [p \in Setters |-> NoChange] /\ queue = <<>> /\ handling = None
      /\ left = {} /\ calls = 0
  BY DEF Init
<1>2. node \in [Nodes -> Row]
  BY <1>1, NoPassOK
<1>3. PassOK /\ ChangesOK
  BY <1>1, NoPassOK DEF PassOK, ChangesOK
<1>4. QueueOK /\ calls \in 0..MaxCalls
  BY <1>1, BoundsAssumption DEF QueueOK
<1>5. QED
  BY <1>1, <1>2, <1>3, <1>4 DEF Inv

-----------------------------------------------------------------------------
(* What the parts of a step keep.                                          *)

LEMMA PassUntouched == ASSUME Inv, Grown, UNCHANGED pass PROVE PassOK'
BY DEF Inv, Grown, PassOK

LEMMA NotifyFacts ==
    ASSUME Inv, NEW n \in Names, NotifyOffline(n) \/ UNCHANGED queue
    PROVE  QueueOK'
<1>1. /\ queue \in Seq(Names) /\ Len(queue) <= MaxQueue /\ MaxQueue \in Nat
      /\ queue' = queue \/ (Len(queue) < MaxQueue /\ queue' = Append(queue, n))
  BY BoundsAssumption DEF Inv, QueueOK, NotifyOffline
<1>2. QED
  BY <1>1 DEF QueueOK

LEMMA SameNodes == ASSUME Inv, UNCHANGED node PROVE Grown
BY DEF Inv, Grown, KnownNodes, Known

LEMMA SetFacts ==
    ASSUME Inv, NEW n \in Nodes,
           \/ \E s \in NodeStatus : node' = [node EXCEPT ![n].status = s]
           \/ \E age \in Ages : node' = [node EXCEPT ![n].beat = age]
           \/ node' = [node EXCEPT ![n] = [status |-> "online", beat |-> "fresh"]]
    PROVE  Grown
<1>1. node \in [Nodes -> Row] /\ node[n] \in Row
  BY DEF Inv
<1>2. PICK row \in Row : /\ node' = [node EXCEPT ![n] = row]
                         /\ row.status # "absent" \/ row.status = node[n].status
  <2>1. ASSUME NEW s \in NodeStatus
        PROVE  [node[n] EXCEPT !.status = s] \in Row /\ [node[n] EXCEPT !.status = s].status # "absent"
    BY <1>1 DEF Row, NodeStatus
  <2>2. ASSUME NEW age \in Ages
        PROVE  /\ [node[n] EXCEPT !.beat = age] \in Row
               /\ [node[n] EXCEPT !.beat = age].status = node[n].status
    BY <1>1 DEF Row
  <2>3. [status |-> "online", beat |-> "fresh"] \in Row
    BY DEF Row, NodeStatus, Ages
  <2>4. QED
    BY <2>1, <2>2, <2>3
<1>3. QED
  BY <1>1, <1>2 DEF Grown, KnownNodes, Known

LEMMA SetStatusFacts ==
    ASSUME Inv, NEW p \in Setters, NEW n \in Nodes, NEW s \in NodeStatus, SetStatus(p, n, s)
    PROVE  ChangesOK'
<1>1. change \in [Setters -> Change] /\ node[n] \in Row
  BY DEF Inv, ChangesOK
<1>2. CASE node[n].status \in {"absent", s}
  BY <1>2 DEF SetStatus, Inv, ChangesOK
<1>3. CASE node[n].status \notin {"absent", s}
  <2> DEFINE new == [pc |-> "write", node |-> n, old |-> node[n].status, new |-> s]
  <2>1. new \in Change /\ new.node # None /\ new.old # new.new
    BY <1>1, <1>3, NoneAssumption DEF Change, Row, NodeStatus
  <2>2. change' = [change EXCEPT ![p] = new]
    BY <1>3 DEF SetStatus
  <2> HIDE DEF new
  <2>3. QED
    BY <1>1, <2>1, <2>2 DEF Inv, ChangesOK
<1>4. QED
  BY <1>2, <1>3

-----------------------------------------------------------------------------
(* The steps.                                                              *)

LEMMA DetectKeepsInv == ASSUME Inv, Detect PROVE Inv'
<1>1. UNCHANGED <<node, beating, pass, change, left, calls>>
  BY DEF Detect, TakeEvent, HandledOffline
<1>2. QueueOK' /\ handling' \in Names \cup {None}
  <2>1. CASE TakeEvent
    <3>1. /\ queue \in Seq(Names) /\ queue # <<>> /\ queue' = Tail(queue) /\ handling' = Head(queue)
          /\ Len(queue) <= MaxQueue /\ MaxQueue \in Nat
      BY <2>1, BoundsAssumption DEF TakeEvent, Inv, QueueOK
    <3>2. queue' \in Seq(Names) /\ Len(queue') = Len(queue) - 1 /\ Head(queue) \in Names
          /\ Len(queue) \in Nat
      BY <3>1
    <3>3. QED
      BY <3>1, <3>2 DEF QueueOK
  <2>2. CASE HandledOffline
    BY <2>2 DEF HandledOffline, Inv, QueueOK
  <2>3. QED
    BY <2>1, <2>2 DEF Detect
<1>3. Grown /\ PassOK'
  BY <1>1, SameNodes, PassUntouched
<1>4. QED
  BY <1>1, <1>2, <1>3 DEF Inv, Grown, ChangesOK

LEMMA ChangeKeepsInv == ASSUME Inv, NEW p \in Setters, CallStep(p) PROVE Inv'
<1>1. UNCHANGED <<beating, pass, handling, left, calls>>
  BY DEF CallStep, WriteStatus, EmitStatus
<1>2. change[p] \in Change /\ change[p].pc # "idle"
  BY DEF CallStep, WriteStatus, EmitStatus, Inv, ChangesOK
<1>3. change[p].node \in Nodes /\ change[p].new \in NodeStatus
  BY <1>2 DEF Inv, ChangesOK, Change
<1>4. CASE WriteStatus(p)
  <2>1. /\ node' = [node EXCEPT ![change[p].node].status = change[p].new]
        /\ change' = [change EXCEPT ![p] = [change[p] EXCEPT !.pc = "emit"]] /\ queue' = queue
    BY <1>4 DEF WriteStatus
  <2>2. Grown
    BY <1>3, <2>1, SetFacts
  <2>3. /\ [change[p] EXCEPT !.pc = "emit"] \in Change
        /\ [change[p] EXCEPT !.pc = "emit"].node = change[p].node
        /\ [change[p] EXCEPT !.pc = "emit"].old = change[p].old
        /\ [change[p] EXCEPT !.pc = "emit"].new = change[p].new
    BY <1>2 DEF Change
  <2>4. ChangesOK'
    BY <1>2, <2>1, <2>3 DEF Inv, ChangesOK
  <2>5. QED
    BY <1>1, <2>1, <2>2, <2>4, PassUntouched DEF Inv, Grown, QueueOK
<1>5. CASE EmitStatus(p)
  <2>1. /\ NotifyOffline(change[p].node) \/ UNCHANGED queue
        /\ change' = [change EXCEPT ![p] = NoChange] /\ node' = node
    BY <1>5 DEF EmitStatus
  <2>2. QueueOK'
    BY <1>3, <2>1, NotifyFacts DEF Names
  <2>3. ChangesOK'
    BY <2>1, NoPassOK DEF Inv, ChangesOK
  <2>4. Grown
    BY <2>1, SameNodes
  <2>5. QED
    BY <1>1, <2>2, <2>3, <2>4, PassUntouched DEF Inv, Grown
<1>6. QED
  BY <1>4, <1>5 DEF CallStep

LEMMA CallsKeepInv ==
    ASSUME Inv, NEW p \in Callers, NEW n \in Nodes, NEW s \in NodeStatus,
           CallSetStatus(p, n, s) \/ Leave(p, n)
    PROVE  Inv'
<1>1. p \in Setters /\ calls' = calls + 1 /\ calls < MaxCalls /\ UNCHANGED <<beating, pass, queue, handling>>
  BY DEF Setters, CallSetStatus, Leave
<1>2. calls' \in 0..MaxCalls
  BY <1>1, BoundsAssumption DEF Inv
<1>3. CASE CallSetStatus(p, n, s)
  <2>1. SetStatus(p, n, s) /\ UNCHANGED <<node, left>>
    BY <1>3 DEF CallSetStatus
  <2>2. ChangesOK'
    BY <1>1, <2>1, SetStatusFacts
  <2>3. QED
    BY <1>1, <1>2, <2>1, <2>2, SameNodes, PassUntouched DEF Inv, Grown, QueueOK
<1>4. CASE Leave(p, n)
  <2>1. node' = [node EXCEPT ![n].status = "offline"] /\ left' = left \cup {n} /\ change' = change
    BY <1>4 DEF Leave
  <2>2. Grown
    BY <2>1, SetFacts DEF NodeStatus
  <2>3. QED
    BY <1>1, <1>2, <2>1, <2>2, PassUntouched DEF Inv, Grown, QueueOK, ChangesOK
<1>5. QED
  BY <1>3, <1>4

LEMMA LeaseKeepsInv == ASSUME Inv, NEW n \in Names, LeaseExpired(n) PROVE Inv'
<1>1. /\ NotifyOffline(n) /\ calls' = calls + 1 /\ calls < MaxCalls
      /\ UNCHANGED <<node, beating, pass, change, handling, left>>
  BY DEF LeaseExpired
<1>2. QueueOK' /\ calls' \in 0..MaxCalls
  BY <1>1, NotifyFacts, BoundsAssumption DEF Inv
<1>3. QED
  BY <1>1, <1>2, SameNodes, PassUntouched DEF Inv, Grown, ChangesOK

\* Joins, heartbeats and time.
LEMMA NodeKeepsInv ==
    ASSUME Inv, NEW n \in Nodes, Join(n) \/ SendHeartbeat(n) \/ GetOlder(n)
    PROVE  Inv'
<1>1. CASE Join(n) \/ GetOlder(n)
  <2>1. /\ UNCHANGED <<beating, pass, change, queue, handling, left, calls>>
        /\ \/ node' = [node EXCEPT ![n] = [status |-> "online", beat |-> "fresh"]]
           \/ \E age \in Ages : node' = [node EXCEPT ![n].beat = age]
    BY <1>1 DEF Join, GetOlder, Ages
  <2>2. Grown
    BY <2>1, SetFacts
  <2>3. QED
    BY <2>1, <2>2, PassUntouched DEF Inv, Grown, ChangesOK, QueueOK
<1>2. CASE SendHeartbeat(n)
  <2>1. /\ node' = [node EXCEPT ![n].beat = "fresh"] /\ pass' = [pass EXCEPT !.now[n] = "fresh"]
        /\ beating' = n /\ n \in KnownNodes
        /\ UNCHANGED <<change, queue, handling, left, calls>>
    BY <1>2 DEF SendHeartbeat, KnownNodes
  <2>2. Grown
    BY <2>1, SetFacts DEF Ages
  <2>3. /\ pass' \in Pass /\ pass'.left = pass.left /\ pass'.pc = pass.pc /\ pass'.at = pass.at
        /\ pass'.seen = pass.seen
    <3>1. pass \in Pass
      BY DEF Inv, PassOK
    <3>2. pass.now \in [Nodes -> Ages]
      BY <3>1 DEF Pass
    <3>3. [pass.now EXCEPT ![n] = "fresh"] \in [Nodes -> Ages]
      BY <3>2 DEF Ages
    <3>4. pass' = [pass EXCEPT !.now = [pass.now EXCEPT ![n] = "fresh"]]
      BY <2>1
    <3>5. QED
      BY <3>1, <3>3, <3>4 DEF Pass
  <2>4. PassOK'
    BY <2>2, <2>3 DEF Inv, PassOK, Grown
  <2>5. QED
    BY <2>1, <2>2, <2>4 DEF Inv, Grown, ChangesOK, QueueOK
<1>3. QED
  BY <1>1, <1>2

LEMMA HeartbeatKeepsInv == ASSUME Inv, HeartbeatOnline PROVE Inv'
<1>1. /\ beating \in Nodes /\ node' = [node EXCEPT ![beating].status = "online"] /\ beating' = None
      /\ UNCHANGED <<pass, change, queue, handling, left, calls>>
  BY DEF HeartbeatOnline, Unlocked, Inv, KnownNodes
<1>2. Grown
  BY <1>1, SetFacts DEF NodeStatus
<1>3. QED
  BY <1>1, <1>2, PassUntouched DEF Inv, Grown, ChangesOK, QueueOK
\* The pass of the watchdog.
LEMMA PassKeepsInv ==
    ASSUME Inv, PassOK', ChangesOK', UNCHANGED <<node, beating, queue, handling, left, calls>>
    PROVE  Inv'
BY SameNodes DEF Inv, Grown, QueueOK

LEMMA ReadClockKeepsInv == ASSUME Inv, ReadClock PROVE Inv'
<1> DEFINE now == [n \in Nodes |-> node[n].beat]
<1>1. /\ pass' = [NoPass EXCEPT !.pc = "beat", !.left = KnownNodes, !.now = now]
      /\ UNCHANGED <<node, beating, change, queue, handling, left, calls>>
  BY DEF ReadClock, KnownNodes
<1>2. now \in [Nodes -> Ages] /\ KnownNodes \in SUBSET Nodes
  BY DEF Inv, Row, KnownNodes
<1> HIDE DEF now
<1>3. /\ pass' \in Pass /\ pass'.left = KnownNodes /\ pass'.pc = "beat"
      /\ pass'.seen = [n \in Nodes |-> NoRow]
  BY <1>1, <1>2, NoPassOK DEF Pass
<1>4. PassOK'
  BY <1>1, <1>3, NoPassOK DEF PassOK, KnownNodes, Known
<1>5. ChangesOK'
  BY <1>1 DEF Inv, ChangesOK
<1>6. QED
  BY <1>1, <1>4, <1>5, PassKeepsInv

LEMMA ReadBeatKeepsInv == ASSUME Inv, NEW n \in Nodes, ReadBeat(n) PROVE Inv'
<1>1. /\ pass' = [pass EXCEPT !.pc = "status", !.at = n,
                              !.now[n] = "fresh", !.seen[n].beat = pass.now[n]]
      /\ n \in pass.left
      /\ UNCHANGED <<node, beating, change, queue, handling, left, calls>>
  BY DEF ReadBeat
<1>2. pass \in Pass
  BY DEF Inv, PassOK
<1>3. pass.now \in [Nodes -> Ages] /\ pass.seen \in [Nodes -> Row]
  BY <1>2 DEF Pass
<1> DEFINE now == [pass.now EXCEPT ![n] = "fresh"]
           row == [pass.seen[n] EXCEPT !.beat = pass.now[n]]
           seen == [pass.seen EXCEPT ![n] = row]
<1>4. now \in [Nodes -> Ages]
  BY <1>3 DEF Ages
<1>5. row \in Row /\ row.status = pass.seen[n].status
  <2>1. pass.seen[n] \in Row /\ pass.now[n] \in Ages
    BY <1>3
  <2>2. QED
    BY <2>1 DEF Row
<1>6. pass' = [pass EXCEPT !.pc = "status", !.at = n, !.now = now, !.seen = seen]
  BY <1>1, <1>2 DEF Pass
<1> HIDE DEF row, now
<1>7. seen \in [Nodes -> Row] /\ \A m \in Nodes : seen[m].status = pass.seen[m].status
  BY <1>3, <1>5
<1> HIDE DEF seen
<1>8. /\ pass' \in Pass /\ pass'.left = pass.left /\ pass'.at = n /\ pass'.seen = seen
  BY <1>2, <1>4, <1>6, <1>7 DEF Pass
<1>9. KnownNodes' = KnownNodes
  BY <1>1 DEF KnownNodes, Known
<1>10. PassOK'
  BY <1>1, <1>7, <1>8, <1>9 DEF Inv, PassOK
<1>11. ChangesOK'
  BY <1>1 DEF Inv, ChangesOK
<1>12. QED
  BY <1>1, <1>10, <1>11, PassKeepsInv

LEMMA ReadStatusKeepsInv == ASSUME Inv, ReadStatus PROVE Inv'
<1>1. PICK n \in KnownNodes : n = pass.at
  BY DEF ReadStatus, Inv, PassOK
<1> DEFINE all == {m \in Nodes : pass.seen[m].status # "absent"} \cup {n}
           row == [pass.seen[n] EXCEPT !.status = node[n].status]
           seen == [pass.seen EXCEPT ![n] = row]
           pc == IF pass.left = {n} THEN "judge" ELSE "beat"
           rest == IF pass.left = {n} THEN all ELSE pass.left \ {n}
<1>2. /\ pass' = [pass EXCEPT !.seen[n].status = node[n].status, !.at = None, !.pc = pc, !.left = rest]
      /\ UNCHANGED <<node, beating, change, queue, handling, left, calls>>
  BY <1>1 DEF ReadStatus
<1>3. pass \in Pass /\ n \in Nodes /\ node[n] \in Row /\ KnownNodes \subseteq Nodes
  BY DEF Inv, PassOK, KnownNodes
<1>4. pass.seen \in [Nodes -> Row]
  BY <1>3 DEF Pass
<1>5. row \in Row /\ row.status = node[n].status
  <2>1. pass.seen[n] \in Row /\ node[n].status \in NodeStatus \cup {"absent"}
    BY <1>3, <1>4 DEF Row
  <2>2. QED
    BY <2>1 DEF Row
<1>6. pass' = [pass EXCEPT !.seen = seen, !.at = None, !.pc = pc, !.left = rest]
  BY <1>2, <1>3 DEF Pass
<1> HIDE DEF row
<1>7. seen \in [Nodes -> Row] /\ \A m \in Nodes : m # n => seen[m] = pass.seen[m]
  BY <1>3, <1>4, <1>5
<1>8. all \subseteq KnownNodes
  BY DEF Inv, PassOK
<1>9. rest \subseteq KnownNodes /\ pc \in {"judge", "beat"}
  BY <1>8 DEF Inv, PassOK
<1> HIDE DEF seen, rest, pc, all
<1>10. pass' \in Pass /\ pass'.left = rest /\ pass'.pc = pc /\ pass'.seen = seen
  BY <1>3, <1>6, <1>7, <1>9 DEF Pass
<1>11. KnownNodes' = KnownNodes
  BY <1>2 DEF KnownNodes, Known
<1>12. \A m \in Nodes : seen[m].status # "absent" => m \in KnownNodes
  BY <1>7 DEF Inv, PassOK
<1>13. PassOK'
  BY <1>9, <1>10, <1>11, <1>12 DEF PassOK
<1>14. ChangesOK'
  BY <1>2 DEF Inv, ChangesOK
<1>15. QED
  BY <1>2, <1>13, <1>14, PassKeepsInv

\* A node is judged that is known, so the change is of a known node.
LEMMA JudgeKeepsInv == ASSUME Inv, NEW n \in Nodes, Judge(n) PROVE Inv'
<1>1. /\ pass' = [pass EXCEPT !.left = @ \ {n}, !.seen[n] = NoRow]
      /\ UNCHANGED change \/ SetStatus(Watchdog, n, Verdict(pass.seen[n].beat))
      /\ UNCHANGED <<node, beating, queue, handling, left, calls>>
      /\ pass.pc = "judge"
  BY DEF Judge
<1>2. pass \in Pass
  BY DEF Inv, PassOK
<1>3. pass.seen \in [Nodes -> Row] /\ pass.left \subseteq Nodes
  BY <1>2 DEF Pass
<1> DEFINE seen == [pass.seen EXCEPT ![n] = NoRow]
<1>4. seen \in [Nodes -> Row] /\ seen[n] = NoRow /\ \A m \in Nodes : m # n => seen[m] = pass.seen[m]
  BY <1>3, NoPassOK
<1>5. pass' = [pass EXCEPT !.left = pass.left \ {n}, !.seen = seen]
  BY <1>1, <1>2 DEF Pass
<1> HIDE DEF seen
<1>6. /\ pass' \in Pass /\ pass'.left = pass.left \ {n} /\ pass'.pc = pass.pc /\ pass'.seen = seen
  BY <1>2, <1>3, <1>4, <1>5 DEF Pass
<1>7. KnownNodes' = KnownNodes
  BY <1>1 DEF KnownNodes, Known
<1>8. PassOK'
  BY <1>1, <1>4, <1>6, <1>7, NoPassOK DEF Inv, PassOK
<1>9. Verdict(pass.seen[n].beat) \in NodeStatus
  <2>1. pass.seen[n].beat \in Ages
    BY <1>3 DEF Row
  <2>2. QED
    BY <2>1 DEF Verdict, Ages, NodeStatus
<1>10. ChangesOK'
  <2>1. Watchdog \in Setters
    BY DEF Setters
  <2>2. CASE UNCHANGED change
    BY <2>2 DEF Inv, ChangesOK
  <2>3. CASE SetStatus(Watchdog, n, Verdict(pass.seen[n].beat))
    BY <1>9, <2>1, <2>3, SetStatusFacts
  <2>4. QED
    BY <1>1, <2>2, <2>3
<1>11. QED
  BY <1>1, <1>8, <1>10, PassKeepsInv

LEMMA EndPassKeepsInv == ASSUME Inv, EndPass PROVE Inv'
<1>1. pass' = NoPass /\ UNCHANGED <<node, beating, change, queue, handling, left, calls>>
  BY DEF EndPass
<1>2. PassOK'
  BY <1>1, NoPassOK DEF PassOK
<1>3. ChangesOK'
  BY <1>1 DEF Inv, ChangesOK
<1>4. QED
  BY <1>1, <1>2, <1>3, PassKeepsInv

LEMMA NextKeepsInv == Inv /\ [Next]_vars => Inv'
<1> SUFFICES ASSUME Inv, [Next]_vars PROVE Inv'
  OBVIOUS
<1>1. CASE UNCHANGED vars
  BY <1>1, SameNodes, PassUntouched DEF vars, Inv, Grown, ChangesOK, QueueOK
<1>2. CASE WatchStep
  <2>1. Watchdog \in Setters
    BY DEF Setters
  <2>2. QED
    BY <1>2, <2>1, ReadClockKeepsInv, ReadBeatKeepsInv, ReadStatusKeepsInv, JudgeKeepsInv,
       EndPassKeepsInv, ChangeKeepsInv DEF WatchStep, CallStep
<1>3. CASE Detect
  BY <1>3, DetectKeepsInv
<1>4. CASE HeartbeatOnline
  BY <1>4, HeartbeatKeepsInv
<1>5. /\ \A n \in Nodes : Join(n) \/ SendHeartbeat(n) \/ GetOlder(n) => Inv'
      /\ \A n \in Names : LeaseExpired(n) => Inv'
  BY NodeKeepsInv, LeaseKeepsInv
<1>6. ASSUME NEW p \in Callers, CallStep(p) PROVE Inv'
  BY <1>6, ChangeKeepsInv DEF Setters
<1>7. ASSUME NEW p \in Callers, NEW n \in Nodes, NEW s \in NodeStatus, CallSetStatus(p, n, s)
      PROVE  Inv'
  BY <1>7, CallsKeepInv
<1>8. ASSUME NEW p \in Callers, NEW n \in Nodes, Leave(p, n) PROVE Inv'
  <2>1. "online" \in NodeStatus
    BY DEF NodeStatus
  <2>2. QED
    BY <1>8, <2>1, CallsKeepInv
<1>9. QED
  BY <1>1, <1>2, <1>3, <1>4, <1>5, <1>6, <1>7, <1>8 DEF Next

-----------------------------------------------------------------------------
(* The theorem.                                                            *)

\* Whatever the watchdog has read and whoever changes a status meanwhile: only
\* known nodes are judged, changed and queued, a change under way is a real one
\* (watchdog.py:_check, node_manager.py:set_status), and the queue of the
\* detector keeps its bound (detector.py:notify_offline).
THEOREM WatchTypes == Spec => []TypeOK
<1>1. Spec => []Inv
  BY InitInv, NextKeepsInv, PTL DEF Spec
<1>2. QED
  BY <1>1, InvImpliesTypes, PTL

-----------------------------------------------------------------------------
(* Who has the news that a node is offline.                                *)

\* It passes from the thread that has written the status to the queue and from
\* there to the detector.
RelayStep ==
    \A n \in Nodes :
        /\ node[n].status # "offline" /\ node'[n].status = "offline" =>
              Reporting(n)' \/ n \in left'
        /\ Reporting(n) /\ ~Reporting(n)' => Queued(n)' \/ Len(queue) = MaxQueue
        /\ Queued(n) /\ ~Queued(n)' => handling' = n

\* A notification leaves what is queued, and is dropped only by a full queue.
LEMMA NotifyRelays ==
    ASSUME Inv, NEW m \in Names, NotifyOffline(m) \/ UNCHANGED queue
    PROVE  /\ \A n \in Nodes : Queued(n) => Queued(n)'
           /\ NotifyOffline(m) => Queued(m)' \/ Len(queue) = MaxQueue
<1>1. queue \in Seq(Names) /\ Len(queue) <= MaxQueue /\ Len(queue) \in Nat /\ MaxQueue \in Nat
  BY BoundsAssumption DEF Inv, QueueOK
<1>2. CASE queue' = Append(queue, m)
  <2>1. /\ \A i \in DOMAIN queue : i \in DOMAIN queue' /\ queue'[i] = queue[i]
        /\ Len(queue) + 1 \in DOMAIN queue' /\ queue'[Len(queue) + 1] = m
    BY <1>1, <1>2
  <2>2. QED
    BY <2>1 DEF Queued
<1>3. CASE queue' = queue
  <2>1. NotifyOffline(m) => Len(queue) = MaxQueue
    <3>1. SUFFICES ASSUME NotifyOffline(m), Len(queue) < MaxQueue PROVE FALSE
      BY <1>1
    <3>2. queue' = Append(queue, m)
      BY <3>1 DEF NotifyOffline
    <3>3. Len(queue') = Len(queue) + 1
      BY <1>1, <3>2
    <3>4. QED
      BY <1>1, <1>3, <3>3
  <2>2. QED
    BY <1>3, <2>1 DEF Queued
<1>4. QED
  BY <1>2, <1>3 DEF NotifyOffline

\* A step that begins a change, or none, and touches neither status nor queue.
LEMMA BeginRelays ==
    ASSUME Inv, NEW p \in Setters, NEW n \in Nodes, NEW s \in NodeStatus,
           change[p].pc = "idle", UNCHANGED change \/ SetStatus(p, n, s),
           UNCHANGED <<node, queue>>
    PROVE  RelayStep
<1>1. change \in [Setters -> Change]
  BY DEF Inv, ChangesOK
<1>2. \A q \in Setters : q # p => change'[q] = change[q]
  BY <1>1 DEF SetStatus
<1>3. \A m \in Nodes : Reporting(m) => Reporting(m)'
  BY <1>2 DEF Reporting
<1>4. QED
  BY <1>3 DEF RelayStep, Queued

LEMMA ChangeRelays ==
    ASSUME Inv, NEW p \in Setters, CallStep(p)
    PROVE  RelayStep
<1>1. /\ change \in [Setters -> Change] /\ change[p] \in Change /\ node \in [Nodes -> Row]
      /\ change[p].pc # "idle" => change[p].node \in Nodes
  BY DEF Inv, ChangesOK, Change
<1>2. CASE WriteStatus(p)
  <2> PICK m \in Nodes : m = change[p].node
    BY <1>1, <1>2 DEF WriteStatus
  <2>1. /\ change[p].pc = "write" /\ queue' = queue
        /\ node' = [node EXCEPT ![m].status = change[p].new]
        /\ change' = [change EXCEPT ![p].pc = "emit"]
    BY <1>1, <1>2 DEF WriteStatus
  <2>2. /\ change'[p].pc = "emit" /\ change'[p].node = m /\ change'[p].new = change[p].new
        /\ \A q \in Setters : q # p => change'[q] = change[q]
    BY <1>1, <2>1 DEF Change
  <2>3. /\ \A n \in Nodes : n # m => node'[n] = node[n]
        /\ node'[m].status = change[p].new
    BY <1>1, <2>1 DEF Row
  <2>4. \A n \in Nodes : Reporting(n) => Reporting(n)'
    BY <2>1, <2>2 DEF Reporting
  <2>5. change[p].new = "offline" => Reporting(m)'
    BY <2>2 DEF Reporting
  <2>6. ASSUME NEW n \in Nodes, node[n].status # "offline", node'[n].status = "offline"
        PROVE  Reporting(n)'
    BY <2>3, <2>5, <2>6
  <2>7. QED
    BY <2>1, <2>4, <2>6 DEF RelayStep, Queued
<1>3. CASE EmitStatus(p)
  <2> PICK m \in Nodes : m = change[p].node
    BY <1>1, <1>3 DEF EmitStatus
  <2>1. /\ change[p].pc = "emit" /\ node' = node
        /\ change[p].new = "offline" => NotifyOffline(m)
        /\ NotifyOffline(m) \/ UNCHANGED queue
        /\ change' = [change EXCEPT ![p] = NoChange]
    BY <1>1, <1>3 DEF EmitStatus
  <2>2. \A q \in Setters : q # p => change'[q] = change[q]
    BY <1>1, <2>1
  <2>3. ASSUME NEW n \in Nodes, Reporting(n), ~Reporting(n)'
        PROVE  Queued(n)' \/ Len(queue) = MaxQueue
    <3>1. change[p].node = n /\ change[p].new = "offline"
      BY <2>2, <2>3 DEF Reporting
    <3>2. QED
      BY <2>1, <3>1, NotifyRelays DEF Names
  <2>4. \A n \in Nodes : Queued(n) => Queued(n)'
    BY <2>1, NotifyRelays DEF Names
  <2>5. QED
    BY <2>1, <2>3, <2>4 DEF RelayStep
<1>4. QED
  BY <1>2, <1>3 DEF CallStep

LEMMA DetectRelays ==
    ASSUME Inv, Detect
    PROVE  RelayStep
<1>1. node' = node /\ change' = change
  BY DEF Detect, TakeEvent, HandledOffline
<1>2. ASSUME NEW n \in Nodes, Queued(n), ~Queued(n)'
      PROVE  handling' = n
  <2>1. queue \in Seq(Names) /\ queue # <<>> /\ queue' = Tail(queue) /\ handling' = Head(queue)
    BY <1>2 DEF Detect, TakeEvent, HandledOffline, Inv, QueueOK, Queued
  <2>2. PICK i \in DOMAIN queue : queue[i] = n
    BY <1>2 DEF Queued
  <2>3. CASE i = 1
    BY <2>1, <2>2, <2>3
  <2>4. CASE i # 1
    <3>1. i - 1 \in DOMAIN queue' /\ queue'[i - 1] = queue[i]
      BY <2>1, <2>2, <2>4
    <3>2. QED
      BY <1>2, <2>2, <3>1 DEF Queued
  <2>5. QED
    BY <2>3, <2>4
<1>3. QED
  BY <1>1, <1>2 DEF RelayStep, Reporting

LEMMA NodeRelays ==
    ASSUME Inv,
           \/ \E n \in Nodes : Join(n) \/ SendHeartbeat(n) \/ GetOlder(n)
           \/ \E n \in Names : LeaseExpired(n)
    PROVE  RelayStep
<1>1. CASE \E n \in Names : LeaseExpired(n)
  <2>1. PICK n \in Names : UNCHANGED <<node, change>> /\ NotifyOffline(n)
    BY <1>1 DEF LeaseExpired
  <2>2. QED
    BY <2>1, NotifyRelays DEF RelayStep, Reporting
<1>2. ASSUME NEW n \in Nodes, Join(n) \/ SendHeartbeat(n) \/ GetOlder(n)
      PROVE  RelayStep
  <2>1. node \in [Nodes -> Row] /\ node[n] \in Row
    BY DEF Inv
  <2>2. UNCHANGED <<change, queue>>
    BY <1>2 DEF Join, SendHeartbeat, GetOlder
  <2>3. \A m \in Nodes : node'[m].status = "offline" => node[m].status = "offline"
    BY <1>2, <2>1 DEF Join, SendHeartbeat, GetOlder, Row
  <2>4. QED
    BY <2>2, <2>3 DEF RelayStep, Reporting, Queued
<1>3. QED
  BY <1>1, <1>2

\* The news that a node is offline is never lost between the threads: whoever
\* makes it so reports it, what is reported gets into the queue unless it is
\* full, and leaves the queue only for the detector (the watchdog, set_status,
\* create_app's listener, Detector).  leave alone tells nobody.
THEOREM OfflineRelayed == Spec => [][RelayStep]_vars
<1>1. ASSUME Inv, Next PROVE RelayStep
  <2>1. Watchdog \in Setters /\ Callers \subseteq Setters
    BY DEF Setters
  <2>2. CASE ReadClock \/ ReadStatus \/ EndPass \/ \E n \in Nodes : ReadBeat(n)
    <3>1. UNCHANGED <<node, change, queue>>
      BY <2>2 DEF ReadClock, ReadStatus, EndPass, ReadBeat
    <3>2. QED
      BY <3>1 DEF RelayStep, Reporting, Queued
  <2>3. ASSUME NEW n \in Nodes, Judge(n) PROVE RelayStep
    <3>1. Verdict(pass.seen[n].beat) \in NodeStatus
      <4>1. pass.seen[n].beat \in Ages
        BY <1>1 DEF Inv, PassOK, Pass, Row
      <4>2. QED
        BY <4>1 DEF Verdict, Ages, NodeStatus
    <3>2. QED
      BY <1>1, <2>1, <2>3, <3>1, BeginRelays DEF Judge
  <2>4. CASE HeartbeatOnline
    <3>1. /\ UNCHANGED <<change, queue>>
          /\ \A m \in Nodes : node'[m].status = "offline" => node[m].status = "offline"
      BY <1>1, <2>4 DEF HeartbeatOnline, Inv, Row
    <3>2. QED
      BY <3>1 DEF RelayStep, Reporting, Queued
  <2>5. ASSUME NEW p \in Callers, NEW n \in Nodes, NEW s \in NodeStatus, CallSetStatus(p, n, s)
        PROVE  RelayStep
    BY <1>1, <2>1, <2>5, BeginRelays DEF CallSetStatus
  <2>6. ASSUME NEW p \in Callers, NEW n \in Nodes, Leave(p, n) PROVE RelayStep
    <3>1. /\ UNCHANGED <<change, queue>> /\ n \in left'
          /\ \A m \in Nodes : m # n => node'[m] = node[m]
      BY <1>1, <2>6 DEF Leave, Inv
    <3>2. QED
      BY <3>1 DEF RelayStep, Reporting, Queued
  <2>7. CASE WriteStatus(Watchdog) \/ EmitStatus(Watchdog)
    BY <1>1, <2>1, <2>7, ChangeRelays DEF CallStep
  <2>8. ASSUME NEW p \in Callers, CallStep(p) PROVE RelayStep
    BY <1>1, <2>1, <2>8, ChangeRelays
  <2>9. QED
    BY <1>1, <2>2, <2>3, <2>4, <2>5, <2>6, <2>7, <2>8, DetectRelays, NodeRelays DEF Next, WatchStep
<1>2. Inv /\ [Next]_vars => [RelayStep]_vars
  BY <1>1
<1>3. QED
  BY <1>2, InitInv, NextKeepsInv, PTL DEF Spec
=============================================================================
