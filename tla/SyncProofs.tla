----------------------------- MODULE SyncProofs -----------------------------
(***************************************************************************)
(* Proofs about Sync for any clusters, peers, tasks and bounds: the order  *)
(* of LWWResolver, type correctness, the two safety properties that make   *)
(* retries and mutual full states harmless, and what may be overwritten.   *)
(***************************************************************************)
EXTENDS Sync, SequenceTheorems, TLAPS

-----------------------------------------------------------------------------
(* LWWResolver.  Of a write it compares version, timestamp and sender.     *)

Write == [version: Int, timestamp: Int, sender: Int]

\* should_apply is a strict order: no two writes win over each other, and
\* winning carries over.  Of two different writes one wins.
THEOREM LastWriterOrdered ==
    /\ \A x \in Write : ~ShouldApply(x, x)
    /\ \A x, y \in Write : ShouldApply(x, y) => ~ShouldApply(y, x)
    /\ \A x, y, z \in Write : ShouldApply(x, y) /\ ShouldApply(y, z) => ShouldApply(x, z)
    /\ \A x, y \in Write : x # y => ShouldApply(x, y) \/ ShouldApply(y, x)
<1>1. ASSUME NEW x \in Write, NEW y \in Write, x # y
      PROVE  ShouldApply(x, y) \/ ShouldApply(y, x)
  <2>1. x.version # y.version \/ x.timestamp # y.timestamp \/ x.sender # y.sender
    BY <1>1 DEF Write
  <2>2. QED
    BY <2>1 DEF Write, ShouldApply
<1>2. QED
  BY <1>1 DEF Write, ShouldApply

\* Therefore writes may reach a replica in any order and any number of times.
THEOREM MergeConverges ==
    /\ \A x \in Write : Merge(x, x) = x
    /\ \A x, y \in Write : Merge(x, y) = Merge(y, x)
    /\ \A x, y, z \in Write : Merge(Merge(x, y), z) = Merge(x, Merge(y, z))
<1> USE DEF Merge
<1>1. ASSUME NEW x \in Write, NEW y \in Write
      PROVE  Merge(x, y) = Merge(y, x)
  BY LastWriterOrdered
<1>2. ASSUME NEW x \in Write, NEW y \in Write, NEW z \in Write
      PROVE  Merge(Merge(x, y), z) = Merge(x, Merge(y, z))
  BY LastWriterOrdered
<1>3. QED
  BY <1>1, <1>2, LastWriterOrdered

-----------------------------------------------------------------------------
(* The invariant.                                                          *)

\* A copy was made when its task had been changed often enough for it.
Earned(copy, t, wr) ==
    /\ copy.version <= wr[t] + 1
    /\ copy.version > 0 => wr[t] > 0

\* What is known of a pass: the messages before the current one, and all of
\* them once an attempt has arrived, are in the log of the peer.
PassOK(local, lg, wr) ==
    /\ local \in Send
    /\ local.doing # "rest" => local.peers # <<>>
    /\ local.doing # "delta" => local.at = 0 /\ ~local.seen
    /\ \A i \in DOMAIN local.batch :
          /\ Earned(local.batch[i].copy, local.batch[i].task, wr)
          /\ local.doing = "delta" /\ (local.seen \/ i < local.at)
             => local.batch[i].version <= lg[Head(local.peers)]
    /\ \A t \in Tasks : Earned(local.snap[t], t, wr)

Inv ==
    /\ tasks \in [Clusters -> [Tasks -> Copy]]
    /\ log \in [Clusters -> Nat]
    /\ pending \in [Clusters -> Seq(Message)]
    /\ send \in [Clusters -> Send]
    /\ writes \in [Tasks -> Nat]
    /\ \A c \in Clusters, t \in Tasks : Earned(tasks[c][t], t, writes)
    /\ \A c \in Clusters : \A i \in DOMAIN pending[c] :
          Earned(pending[c][i].copy, pending[c][i].task, writes)
    /\ \A c \in Clusters : PassOK(send[c], log, writes)

LEMMA InvImplies == Inv => TypeOK /\ NoRunaway
BY DEF Inv, TypeOK, NoRunaway, Earned, Copy

\* A pass is no worse off when logs and changes go up.
LEMMA PassMonotone ==
    ASSUME NEW lg \in [Clusters -> Nat], NEW lh \in [Clusters -> Nat],
           NEW wr \in [Tasks -> Nat], NEW ws \in [Tasks -> Nat],
           \A c \in Clusters : lg[c] <= lh[c],
           \A t \in Tasks : wr[t] <= ws[t],
           NEW local, PassOK(local, lg, wr)
    PROVE  PassOK(local, lh, ws)
<1>1. ASSUME NEW copy \in Copy, NEW t \in Tasks, Earned(copy, t, wr)
      PROVE  Earned(copy, t, ws)
  BY <1>1 DEF Earned, Copy
<1>2. \A t \in Tasks : Earned(local.snap[t], t, ws)
  BY <1>1 DEF PassOK, Send
<1>3. ASSUME NEW i \in DOMAIN local.batch
      PROVE  /\ Earned(local.batch[i].copy, local.batch[i].task, ws)
             /\ local.doing = "delta" /\ (local.seen \/ i < local.at)
                => local.batch[i].version <= lh[Head(local.peers)]
  <2>1. local.batch[i] \in Message
    BY DEF PassOK, Send
  <2>2. Earned(local.batch[i].copy, local.batch[i].task, ws)
    BY <1>1, <2>1 DEF PassOK, Message
  <2>3. ASSUME local.doing = "delta", local.seen \/ i < local.at
        PROVE  local.batch[i].version <= lh[Head(local.peers)]
    <3>1. local.peers \in Seq(Clusters) /\ local.peers # <<>>
      BY <2>3 DEF PassOK, Send
    <3>2. Head(local.peers) \in Clusters
      BY <3>1
    <3>3. local.batch[i].version <= lg[Head(local.peers)]
      BY <2>3 DEF PassOK
    <3>4. QED
      BY <2>1, <3>2, <3>3 DEF Message
  <2>4. QED
    BY <2>2, <2>3
<1>4. QED
  BY <1>2, <1>3 DEF PassOK

\* Going on with other peers, nothing has arrived there yet.
LEMMA PassPeers ==
    ASSUME NEW lg, NEW wr, NEW local \in Send, NEW peers \in Seq(Clusters),
           wr \in [Tasks -> Nat], local.doing # "rest",
           \A i \in DOMAIN local.batch : Earned(local.batch[i].copy, local.batch[i].task, wr),
           \A t \in Tasks : Earned(local.snap[t], t, wr)
    PROVE  PassOK(Pass(local, peers), lg, wr)
<1>1. CASE peers = <<>>
  <2>1. Pass(local, peers) = Rest
    BY <1>1 DEF Pass
  <2>2. Rest \in Send
    BY StatusAssumption, BoundsAssumption DEF Rest, Send, NoCopy, Copy
  <2>3. \A t \in Tasks : Earned(Rest.snap[t], t, wr)
    BY DEF Rest, NoCopy, Earned
  <2>4. QED
    BY <2>1, <2>2, <2>3 DEF PassOK, Rest
<1>2. CASE peers # <<>>
  <2> DEFINE next == [local EXCEPT !.peers = peers, !.try = 1, !.at = 0, !.seen = FALSE]
  <2>1. Pass(local, peers) = next
    BY <1>2 DEF Pass
  <2>2. next \in Send
    <3>1. 1 \in 1..MaxRetries
      BY BoundsAssumption
    <3>2. QED
      BY <3>1 DEF Send
  <2>3. /\ next.doing = local.doing /\ next.batch = local.batch /\ next.snap = local.snap
        /\ next.peers = peers /\ next.at = 0 /\ next.seen = FALSE
    BY DEF Send
  <2>4. \A i \in DOMAIN next.batch : i \in Nat \ {0}
    BY DEF Send
  <2> HIDE DEF next
  <2>5. QED
    BY <1>2, <2>1, <2>2, <2>3, <2>4 DEF PassOK
<1>3. QED
  BY <1>1, <1>2

\* A coordinator at rest has nothing under way.
LEMMA RestOK ==
    ASSUME NEW lg, NEW wr \in [Tasks -> Nat]
    PROVE  PassOK(Rest, lg, wr)
<1>1. Rest \in Send
  BY StatusAssumption, BoundsAssumption DEF Rest, Send, NoCopy, Copy
<1>2. \A t \in Tasks : Earned(Rest.snap[t], t, wr)
  BY DEF Rest, NoCopy, Earned
<1>3. QED
  BY <1>1, <1>2 DEF PassOK, Rest

\* Nothing goes down and whatever is new is earned: the invariant holds on.
LEMMA StepKeepsInv ==
    ASSUME Inv,
           tasks' \in [Clusters -> [Tasks -> Copy]],
           log' \in [Clusters -> Nat],
           pending' \in [Clusters -> Seq(Message)],
           send' \in [Clusters -> Send],
           writes' \in [Tasks -> Nat],
           \A c \in Clusters : log[c] <= log'[c],
           \A t \in Tasks : writes[t] <= writes'[t],
           \A c \in Clusters, t \in Tasks :
               tasks'[c][t] = tasks[c][t] \/ Earned(tasks'[c][t], t, writes'),
           \A c \in Clusters : \A i \in DOMAIN pending'[c] :
               \/ i \in DOMAIN pending[c] /\ pending'[c][i] = pending[c][i]
               \/ Earned(pending'[c][i].copy, pending'[c][i].task, writes'),
           \A c \in Clusters : send'[c] = send[c] \/ PassOK(send'[c], log', writes')
    PROVE  Inv'
<1>1. ASSUME NEW copy \in Copy, NEW t \in Tasks, Earned(copy, t, writes)
      PROVE  Earned(copy, t, writes')
  BY <1>1 DEF Earned, Copy, Inv
<1>2. \A c \in Clusters, t \in Tasks : Earned(tasks'[c][t], t, writes')
  BY <1>1 DEF Inv
<1>3. ASSUME NEW c \in Clusters, NEW i \in DOMAIN pending'[c]
      PROVE  Earned(pending'[c][i].copy, pending'[c][i].task, writes')
  <2>1. CASE i \in DOMAIN pending[c] /\ pending'[c][i] = pending[c][i]
    <3>1. pending[c][i] \in Message
      BY <2>1 DEF Inv
    <3>2. Earned(pending[c][i].copy, pending[c][i].task, writes)
      BY <2>1 DEF Inv
    <3>3. QED
      BY <1>1, <2>1, <3>1, <3>2 DEF Message
  <2>2. QED
    BY <2>1
<1>4. ASSUME NEW c \in Clusters
      PROVE  PassOK(send'[c], log', writes')
  <2>1. CASE send'[c] = send[c]
    BY <2>1, PassMonotone DEF Inv
  <2>2. QED
    BY <2>1
<1>5. QED
  BY <1>2, <1>3, <1>4 DEF Inv

\* A coordinator goes on, and the rest of the state stays as it is.
LEMMA GotoKeepsInv ==
    ASSUME Inv, NEW c \in Clusters, NEW local, PassOK(local, log, writes),
           Goto(c, local), UNCHANGED <<tasks, log, pending>>
    PROVE  Inv'
<1>1. local \in Send
  BY DEF PassOK
<1>2. send' = [send EXCEPT ![c] = local] /\ writes' = writes
  BY DEF Goto
<1>3. send' \in [Clusters -> Send]
  BY <1>1, <1>2 DEF Inv
<1>4. \A d \in Clusters : send'[d] = send[d] \/ PassOK(send'[d], log', writes')
  BY <1>2 DEF Inv
<1>5. \A d \in Clusters : log[d] <= log'[d]
  BY DEF Inv
<1>6. \A t \in Tasks : writes[t] <= writes'[t]
  BY <1>2 DEF Inv
<1>7. QED
  BY <1>2, <1>3, <1>4, <1>5, <1>6, StepKeepsInv DEF Inv

-----------------------------------------------------------------------------
(* The coordinator.                                                        *)

LEMMA InitInv == Init => Inv
<1> SUFFICES ASSUME Init PROVE Inv
  OBVIOUS
<1>1. NoCopy \in Copy
  BY StatusAssumption DEF NoCopy, Copy
<1>2. writes \in [Tasks -> Nat]
  BY DEF Init
<1>3. \A c \in Clusters : PassOK(send[c], log, writes)
  BY <1>2, RestOK DEF Init
<1>4. send \in [Clusters -> Send]
  <2>1. Rest \in Send
    BY <1>2, RestOK DEF PassOK
  <2>2. QED
    BY <2>1 DEF Init
<1>5. \A c \in Clusters, t \in Tasks : Earned(tasks[c][t], t, writes)
  BY DEF Init, Earned, NoCopy
<1>6. \A c \in Clusters : pending[c] \in Seq(Message) /\ DOMAIN pending[c] = {}
  <2>1. <<>> \in Seq(Message) /\ DOMAIN <<>> = {}
    OBVIOUS
  <2>2. QED
    BY <2>1 DEF Init
<1>7. QED
  BY <1>1, <1>2, <1>3, <1>4, <1>5, <1>6 DEF Init, Inv

LEMMA NextPeerOK ==
    ASSUME Inv, NEW c \in Clusters, send[c].doing # "rest"
    PROVE  PassOK(NextPeer(c), log, writes)
<1>1. send[c] \in Send /\ PassOK(send[c], log, writes) /\ writes \in [Tasks -> Nat]
  BY DEF Inv
<1>2. send[c].peers \in Seq(Clusters) /\ send[c].peers # <<>>
  BY <1>1 DEF PassOK, Send
<1>3. Tail(send[c].peers) \in Seq(Clusters)
  BY <1>2
<1>4. /\ \A i \in DOMAIN send[c].batch :
            Earned(send[c].batch[i].copy, send[c].batch[i].task, writes)
      /\ \A t \in Tasks : Earned(send[c].snap[t], t, writes)
  BY <1>1 DEF PassOK
<1>5. QED
  BY <1>1, <1>3, <1>4, PassPeers DEF NextPeer

LEMMA NextTryOK ==
    ASSUME Inv, NEW c \in Clusters, send[c].doing # "rest", NEW arrived \in BOOLEAN,
           arrived => /\ send[c].doing = "delta"
                      /\ \A i \in DOMAIN send[c].batch : send[c].batch[i].version <= log[To(c)]
    PROVE  PassOK(NextTry(c, arrived), log, writes)
<1> DEFINE local == send[c]
<1> DEFINE next == [local EXCEPT !.try = @ + 1, !.at = 0, !.seen = @ \/ arrived]
<1>1. CASE local.try < MaxRetries
  <2>1. local \in Send /\ PassOK(local, log, writes)
    BY DEF Inv
  <2>2. local.try + 1 \in 1..MaxRetries
    BY <1>1, <2>1, BoundsAssumption DEF Send
  <2>3. (local.seen \/ arrived) \in BOOLEAN
    OBVIOUS
  <2>4. next \in Send
    BY <2>1, <2>2, <2>3 DEF Send
  <2>5. /\ next.doing = local.doing /\ next.batch = local.batch /\ next.snap = local.snap
        /\ next.peers = local.peers /\ next.at = 0 /\ next.seen = (local.seen \/ arrived)
    BY <2>1 DEF Send
  <2>6. \A i \in DOMAIN next.batch : i \in Nat \ {0}
    BY <2>1, <2>5 DEF Send
  <2>7. NextTry(c, arrived) = next
    BY <1>1 DEF NextTry
  <2> HIDE DEF next
  <2>8. QED
    BY <2>1, <2>4, <2>5, <2>6, <2>7 DEF PassOK, To
<1>2. CASE ~(local.try < MaxRetries)
  <2>1. NextTry(c, arrived) = NextPeer(c)
    BY <1>2 DEF NextTry
  <2>2. QED
    BY <2>1, NextPeerOK
<1>3. QED
  BY <1>1, <1>2

LEMMA StartKeepsInv ==
    ASSUME Inv, NEW c \in Clusters, StartDelta(c) \/ StartFull(c)
    PROVE  Inv'
<1>1. Peers[c] \in Seq(Clusters)
  BY PeersAssumption
<1>2. Rest \in Send /\ writes \in [Tasks -> Nat]
  BY RestOK DEF Inv, PassOK
<1>3. CASE StartDelta(c)
  <2> DEFINE local == [Rest EXCEPT !.doing = "delta", !.batch = pending[c]]
  <2>1. pending[c] \in Seq(Message)
    BY DEF Inv
  <2>2. local \in Send /\ local.doing = "delta"
    BY <1>2, <2>1 DEF Send
  <2>3. local.batch = pending[c] /\ local.snap = Rest.snap
    BY <1>2 DEF Send
  <2>4. \A t \in Tasks : Earned(local.snap[t], t, writes)
    BY <1>2, <2>3, RestOK DEF PassOK
  <2>5. \A i \in DOMAIN local.batch : Earned(local.batch[i].copy, local.batch[i].task, writes)
    BY <2>3 DEF Inv
  <2>6. Goto(c, Pass(local, Peers[c])) /\ pending' = [pending EXCEPT ![c] = <<>>]
        /\ UNCHANGED <<tasks, log>>
    BY <1>3 DEF StartDelta
  <2> HIDE DEF local
  <2>7. PassOK(Pass(local, Peers[c]), log, writes)
    BY <1>1, <1>2, <2>2, <2>4, <2>5, PassPeers
  <2>8. send' = [send EXCEPT ![c] = Pass(local, Peers[c])] /\ writes' = writes
    BY <2>6 DEF Goto
  <2>9. /\ send' \in [Clusters -> Send]
        /\ \A d \in Clusters : send'[d] = send[d] \/ PassOK(send'[d], log', writes')
    BY <2>6, <2>7, <2>8 DEF Inv, PassOK
  <2>10. /\ pending' \in [Clusters -> Seq(Message)]
         /\ \A d \in Clusters : pending'[d] = <<>> \/ pending'[d] = pending[d]
    BY <2>6 DEF Inv
  <2>11. (\A d \in Clusters : log[d] <= log'[d]) /\ (\A t \in Tasks : writes[t] <= writes'[t])
    BY <2>6, <2>8 DEF Inv
  <2>12. \A d \in Clusters : \A i \in DOMAIN pending'[d] :
            i \in DOMAIN pending[d] /\ pending'[d][i] = pending[d][i]
    BY <2>10
  <2>13. QED
    BY <2>6, <2>8, <2>9, <2>10, <2>11, <2>12, StepKeepsInv DEF Inv
<1>4. CASE StartFull(c)
  <2> DEFINE local == [Rest EXCEPT !.doing = "full", !.snap = tasks[c]]
  <2>1. local \in Send /\ local.doing = "full"
    BY <1>2 DEF Send, Inv
  <2>2. local.batch = <<>> /\ local.snap = tasks[c]
    BY DEF Rest
  <2>3. /\ \A t \in Tasks : Earned(local.snap[t], t, writes)
        /\ \A i \in DOMAIN local.batch : Earned(local.batch[i].copy, local.batch[i].task, writes)
    BY <2>2 DEF Inv
  <2>4. Goto(c, Pass(local, Peers[c])) /\ UNCHANGED <<tasks, log, pending>>
    BY <1>4 DEF StartFull
  <2> HIDE DEF local
  <2>5. PassOK(Pass(local, Peers[c]), log, writes)
    BY <1>1, <1>2, <2>1, <2>3, PassPeers
  <2>6. QED
    BY <2>4, <2>5, GotoKeepsInv
<1>5. QED
  BY <1>3, <1>4

LEMMA RequestLostKeepsInv ==
    ASSUME Inv, NEW c \in Clusters, RequestLost(c)
    PROVE  Inv'
<1>1. PassOK(NextTry(c, FALSE), log, writes)
  BY NextTryOK DEF RequestLost
<1>2. QED
  BY <1>1, GotoKeepsInv DEF RequestLost

LEMMA RestartKeepsInv ==
    ASSUME Inv, NEW c \in Clusters, Restart(c)
    PROVE  Inv'
<1>1. PassOK(Rest, log, writes)
  BY RestOK DEF Inv
<1>2. /\ send' \in [Clusters -> Send]
      /\ \A d \in Clusters : send'[d] = send[d] \/ PassOK(send'[d], log', writes')
  BY <1>1 DEF Inv, Restart, PassOK
<1>3. /\ pending' \in [Clusters -> Seq(Message)]
      /\ \A d \in Clusters : pending'[d] = <<>> \/ pending'[d] = pending[d]
  BY DEF Inv, Restart
<1>4. \A d \in Clusters : \A i \in DOMAIN pending'[d] :
          i \in DOMAIN pending[d] /\ pending'[d][i] = pending[d][i]
  BY <1>3
<1>5. (\A d \in Clusters : log[d] <= log'[d]) /\ (\A t \in Tasks : writes[t] <= writes'[t])
  BY DEF Inv, Restart
<1>6. QED
  BY <1>2, <1>3, <1>4, <1>5, StepKeepsInv DEF Inv, Restart
-----------------------------------------------------------------------------
(* Local changes.                                                          *)

LEMMA SetStatusType ==
    ASSUME NEW copy \in Copy, NEW s \in Status
    PROVE  SetStatus(copy, s) \in Copy /\ SetStatus(copy, s).version = copy.version + 1
BY DEF SetStatus, Copy

LEMMA LocalKeepsInv ==
    ASSUME Inv, NEW c \in Clusters, Local(c)
    PROVE  Inv'
<1>1. ASSUME NEW t \in Tasks, NEW copy \in Copy,
             tasks' = [tasks EXCEPT ![c][t] = copy],
             writes' = [writes EXCEPT ![t] = @ + 1],
             copy.version <= writes[t] + 2,
             UNCHANGED <<log, pending, send>>
      PROVE  Inv'
  <2>1. tasks' \in [Clusters -> [Tasks -> Copy]] /\ writes' \in [Tasks -> Nat]
    BY <1>1 DEF Inv
  <2>2. \A u \in Tasks : writes[u] <= writes'[u]
    BY <1>1 DEF Inv
  <2>3. Earned(copy, t, writes')
    BY <1>1 DEF Inv, Earned, Copy
  <2>4. \A d \in Clusters, u \in Tasks :
            tasks'[d][u] = tasks[d][u] \/ Earned(tasks'[d][u], u, writes')
    BY <1>1, <2>3 DEF Inv
  <2>5. \A d \in Clusters : log[d] <= log'[d]
    BY <1>1 DEF Inv
  <2>6. QED
    BY <1>1, <2>1, <2>2, <2>4, <2>5, StepKeepsInv DEF Inv
<1>2. ASSUME NEW t \in Tasks, CreateTask(c, t)
      PROVE  Inv'
  <2>1. [status |-> "ready", version |-> 1] \in Copy
    BY StatusAssumption DEF Copy
  <2>2. writes' = [writes EXCEPT ![t] = @ + 1] /\ 1 <= writes[t] + 2
    BY <1>2 DEF CreateTask, Inv
  <2>3. [status |-> "ready", version |-> 1].version = 1
    OBVIOUS
  <2>4. /\ tasks' = [tasks EXCEPT ![c][t] = [status |-> "ready", version |-> 1]]
        /\ UNCHANGED <<log, pending, send>>
    BY <1>2 DEF CreateTask
  <2>5. QED
    BY <1>1, <2>1, <2>2, <2>3, <2>4
<1>3. ASSUME NEW t \in Tasks, NEW s \in Status, ChangeTask(c, t, s)
      PROVE  Inv'
  <2>1. tasks[c][t] \in Copy /\ Earned(tasks[c][t], t, writes) /\ writes[t] \in Nat
    BY DEF Inv
  <2>2. /\ SetStatus(tasks[c][t], s) \in Copy
        /\ SetStatus(tasks[c][t], s).version <= writes[t] + 2
    BY <2>1, SetStatusType DEF Earned, Copy
  <2>3. tasks' = [tasks EXCEPT ![c][t] = SetStatus(tasks[c][t], s)]
    BY <1>3 DEF ChangeTask, Inv
  <2>4. QED
    BY <1>1, <1>3, <2>2, <2>3 DEF ChangeTask
<1>4. ASSUME NEW t \in Tasks, QueueTaskEvent(c, t)
      PROVE  Inv'
  <2> DEFINE m == [version |-> log[c] + 1, task |-> t, copy |-> tasks[c][t]]
  <2>1. m \in Message /\ Earned(m.copy, m.task, writes)
    BY DEF Inv, Message
  <2>2. /\ pending' = [pending EXCEPT ![c] = Append(pending[c], m)]
        /\ UNCHANGED <<tasks, log, send, writes>>
    BY <1>4 DEF QueueTaskEvent, Inv
  <2>3. pending \in [Clusters -> Seq(Message)]
    BY DEF Inv
  <2> HIDE DEF m
  <2>4. pending' \in [Clusters -> Seq(Message)]
    BY <2>1, <2>2, <2>3
  <2>5. ASSUME NEW d \in Clusters, NEW i \in DOMAIN pending'[d]
        PROVE  \/ i \in DOMAIN pending[d] /\ pending'[d][i] = pending[d][i]
               \/ Earned(pending'[d][i].copy, pending'[d][i].task, writes')
    <3>1. CASE d = c
      <4>1. pending'[d] = Append(pending[d], m) /\ pending[d] \in Seq(Message)
        BY <2>2, <2>3, <3>1
      <4>2. CASE i = Len(pending[d]) + 1
        BY <2>1, <2>2, <4>1, <4>2
      <4>3. CASE i # Len(pending[d]) + 1
        BY <2>1, <4>1, <4>3
      <4>4. QED
        BY <4>2, <4>3
    <3>2. CASE d # c
      BY <2>2, <2>3, <3>2
    <3>3. QED
      BY <3>1, <3>2
  <2>6. (\A d \in Clusters : log[d] <= log'[d]) /\ (\A u \in Tasks : writes[u] <= writes'[u])
    BY <2>2 DEF Inv
  <2>7. QED
    BY <2>2, <2>4, <2>5, <2>6, StepKeepsInv DEF Inv
<1>5. QED
  BY <1>2, <1>3, <1>4 DEF Local

-----------------------------------------------------------------------------
(* The receiver.                                                           *)

\* An applied copy is earned as the two it was made from are: counting anew
\* adds one version at most, and only to a copy that was behind.
LEMMA ReceiveTaskEarned ==
    ASSUME NEW t \in Tasks, NEW local \in Copy, NEW remote \in Copy,
           NEW wr \in [Tasks -> Nat], Earned(local, t, wr), Earned(remote, t, wr)
    PROVE  ReceiveTask(local, remote) \in Copy /\ Earned(ReceiveTask(local, remote), t, wr)
<1>1. CASE remote.version = 0
  BY <1>1 DEF ReceiveTask
<1>2. CASE remote.version > 0 /\ local.version = 0
  <2> DEFINE new == [status |-> IF remote.status = "pending" THEN "ready" ELSE remote.status,
                     version |-> IF remote.status = "pending" THEN 1 ELSE 2]
  <2>1. ReceiveTask(local, remote) = new
    BY <1>2 DEF ReceiveTask, Copy
  <2>2. new \in Copy
    BY StatusAssumption DEF Copy
  <2>3. new.version <= 2 /\ wr[t] \in Nat \ {0}
    BY <1>2 DEF Earned, Copy
  <2>4. QED
    BY <2>1, <2>2, <2>3 DEF Earned, Copy
<1>3. CASE remote.version > 0 /\ local.version > 0
  <2>1. CASE remote.version > local.version
    <3>1. ReceiveTask(local, remote) = SetStatus(local, remote.status)
      BY <1>3, <2>1 DEF ReceiveTask, Copy
    <3>2. QED
      BY <1>3, <2>1, <3>1, SetStatusType DEF Earned, Copy
  <2>2. CASE ~(remote.version > local.version)
    <3>1. ReceiveTask(local, remote) = local
      BY <1>3, <2>2 DEF ReceiveTask, Copy
    <3>2. QED
      BY <3>1
  <2>3. QED
    BY <2>1, <2>2
<1>4. QED
  BY <1>1, <1>2, <1>3 DEF Copy

LEMMA ReachPeerKeepsInv ==
    ASSUME Inv, NEW c \in Clusters, ReachPeer(c)
    PROVE  Inv'
<1> DEFINE next == [send[c] EXCEPT !.at = 1]
<1>1. send[c] \in Send /\ PassOK(send[c], log, writes)
  BY DEF Inv
<1>2. /\ next \in Send /\ next.doing = "delta" /\ next.at = 1
      /\ next.batch = send[c].batch /\ next.snap = send[c].snap
      /\ next.peers = send[c].peers /\ next.seen = send[c].seen
  BY <1>1 DEF Send, ReachPeer
<1>3. \A i \in DOMAIN next.batch : ~(i < 1)
  BY <1>1, <1>2 DEF Send
<1>4. Goto(c, next) /\ UNCHANGED <<tasks, log, pending>>
  BY DEF ReachPeer
<1> HIDE DEF next
<1>5. PassOK(next, log, writes)
  BY <1>1, <1>2, <1>3 DEF PassOK, ReachPeer
<1>6. QED
  BY <1>4, <1>5, GotoKeepsInv

LEMMA ReceiveSingleKeepsInv ==
    ASSUME Inv, NEW c \in Clusters, ReceiveSingle(c)
    PROVE  Inv'
<1> DEFINE k == send[c].at
           m == send[c].batch[k]
           d == To(c)
           next == [send[c] EXCEPT !.at = @ + 1]
<1>1. send[c] \in Send /\ PassOK(send[c], log, writes)
  BY DEF Inv
<1>2. /\ k \in DOMAIN send[c].batch /\ k \in Nat /\ m \in Message
      /\ Earned(m.copy, m.task, writes)
  BY <1>1 DEF ReceiveSingle, Send, PassOK
<1>3. d \in Clusters
  <2>1. send[c].peers \in Seq(Clusters) /\ send[c].peers # <<>>
    BY <1>1 DEF PassOK, Send, ReceiveSingle
  <2>2. QED
    BY <2>1 DEF To
<1>4. /\ next \in Send /\ next.doing = "delta" /\ next.at = k + 1
      /\ next.batch = send[c].batch /\ next.snap = send[c].snap
      /\ next.peers = send[c].peers /\ next.seen = send[c].seen
  BY <1>1 DEF Send, ReceiveSingle
<1>5. /\ IF Fresh(m, d)
         THEN log' = [log EXCEPT ![d] = m.version] /\ tasks' = [tasks EXCEPT ![d][m.task] = m.copy]
         ELSE UNCHANGED <<log, tasks>>
      /\ send' = [send EXCEPT ![c] = next]
      /\ UNCHANGED <<pending, writes>>
  BY DEF ReceiveSingle, Goto
<1> HIDE DEF m, d, next
<1>6. /\ log' \in [Clusters -> Nat]
      /\ \A e \in Clusters : log[e] <= log'[e]
      /\ m.version <= log'[d]
  <2>1. m.version \in Nat /\ log \in [Clusters -> Nat]
    BY <1>2 DEF Message, Inv
  <2>2. CASE Fresh(m, d)
    <3>1. log' = [log EXCEPT ![d] = m.version]
      BY <1>5, <2>2
    <3>2. QED
      BY <1>3, <2>1, <2>2, <3>1 DEF Fresh
  <2>3. CASE ~Fresh(m, d)
    BY <1>3, <1>5, <2>1, <2>3 DEF Fresh
  <2>4. QED
    BY <2>2, <2>3
<1>7. /\ tasks' \in [Clusters -> [Tasks -> Copy]]
      /\ \A e \in Clusters, t \in Tasks :
            tasks'[e][t] = tasks[e][t] \/ Earned(tasks'[e][t], t, writes')
  <2>1. m.copy \in Copy /\ m.task \in Tasks /\ tasks \in [Clusters -> [Tasks -> Copy]]
    BY <1>2 DEF Message, Inv
  <2>2. Earned(m.copy, m.task, writes')
    BY <1>2, <1>5
  <2>3. CASE Fresh(m, d)
    <3>1. tasks' = [tasks EXCEPT ![d][m.task] = m.copy]
      BY <1>5, <2>3
    <3>2. QED
      BY <1>3, <2>1, <2>2, <3>1
  <2>4. CASE ~Fresh(m, d)
    BY <1>5, <2>1, <2>4
  <2>5. QED
    BY <2>3, <2>4
<1>8. PassOK(next, log', writes')
  <2>1. PassOK(send[c], log', writes')
    <3>1. log \in [Clusters -> Nat] /\ writes \in [Tasks -> Nat]
      BY DEF Inv
    <3>2. writes' \in [Tasks -> Nat] /\ \A t \in Tasks : writes[t] <= writes'[t]
      BY <1>5, <3>1
    <3>3. QED
      BY <1>1, <1>6, <3>1, <3>2, PassMonotone
  <2>2. ASSUME NEW i \in DOMAIN next.batch
        PROVE  /\ Earned(next.batch[i].copy, next.batch[i].task, writes')
               /\ next.doing = "delta" /\ (next.seen \/ i < next.at)
                  => next.batch[i].version <= log'[Head(next.peers)]
    <3>1. i < k + 1 => i < k \/ i = k
      BY <1>1, <1>2, <1>4 DEF Send
    <3>2. next.batch[i] = send[c].batch[i] /\ Head(next.peers) = d
      BY <1>4 DEF To, d
    <3>3. CASE i = k
      BY <1>6, <2>1, <1>4, <3>2, <3>3 DEF PassOK, m
    <3>4. CASE i # k
      BY <2>1, <1>4, <3>1, <3>2, <3>4 DEF PassOK, ReceiveSingle
    <3>5. QED
      BY <3>3, <3>4
  <2>3. QED
    BY <1>4, <2>1, <2>2 DEF PassOK, ReceiveSingle
<1>9. /\ send' \in [Clusters -> Send]
      /\ \A e \in Clusters : send'[e] = send[e] \/ PassOK(send'[e], log', writes')
  BY <1>4, <1>5, <1>8 DEF Inv
<1>10. \A t \in Tasks : writes[t] <= writes'[t]
  BY <1>5 DEF Inv
<1>11. QED
  BY <1>5, <1>6, <1>7, <1>9, <1>10, StepKeepsInv DEF Inv

LEMMA AnswerKeepsInv ==
    ASSUME Inv, NEW c \in Clusters, Answer(c)
    PROVE  Inv'
<1>1. PICK arrives \in BOOLEAN : Goto(c, IF arrives THEN NextPeer(c) ELSE NextTry(c, TRUE))
  BY DEF Answer
<1>2. send[c] \in Send /\ PassOK(send[c], log, writes)
  BY DEF Inv
<1>3. \A i \in DOMAIN send[c].batch : i < send[c].at
  BY <1>2 DEF Answer, Send
<1>4. \A i \in DOMAIN send[c].batch : send[c].batch[i].version <= log[To(c)]
  BY <1>2, <1>3 DEF PassOK, To, Answer
<1>5. PassOK(NextPeer(c), log, writes) /\ PassOK(NextTry(c, TRUE), log, writes)
  BY <1>4, NextPeerOK, NextTryOK DEF Answer
<1>6. UNCHANGED <<tasks, log, pending>>
  BY DEF Answer
<1>7. CASE arrives
  BY <1>1, <1>5, <1>6, <1>7, GotoKeepsInv
<1>8. CASE ~arrives
  BY <1>1, <1>5, <1>6, <1>8, GotoKeepsInv
<1>9. QED
  BY <1>7, <1>8

LEMMA FullKeepsInv ==
    ASSUME Inv, NEW c \in Clusters, NEW d, FullAnswered(c, d) \/ FullUnanswered(c, d)
    PROVE  Inv'
<1>1. ReceiveFull(c, d)
  BY DEF FullAnswered, FullUnanswered
<1>2. PICK local : PassOK(local, log, writes) /\ Goto(c, local)
  <2>1. PassOK(NextPeer(c), log, writes) /\ PassOK(NextTry(c, FALSE), log, writes)
    BY <1>1, NextPeerOK, NextTryOK DEF ReceiveFull
  <2>2. QED
    BY <2>1 DEF FullAnswered, FullUnanswered
<1>3. send[c] \in Send /\ PassOK(send[c], log, writes)
  BY DEF Inv
<1>4. d \in Clusters
  <2>1. send[c].peers \in Seq(Clusters) /\ send[c].peers # <<>>
    BY <1>1, <1>3 DEF PassOK, Send, ReceiveFull
  <2>2. QED
    BY <1>1, <2>1 DEF To, ReceiveFull
<1>5. \A t \in Tasks : /\ ReceiveTask(tasks[d][t], send[c].snap[t]) \in Copy
                       /\ Earned(ReceiveTask(tasks[d][t], send[c].snap[t]), t, writes)
  <2> TAKE t \in Tasks
  <2>1. /\ tasks[d][t] \in Copy /\ Earned(tasks[d][t], t, writes)
        /\ send[c].snap[t] \in Copy /\ Earned(send[c].snap[t], t, writes)
    BY <1>3, <1>4 DEF Inv, PassOK, Send
  <2>2. QED
    BY <2>1, ReceiveTaskEarned DEF Inv
<1>6. /\ tasks' = [tasks EXCEPT ![d] =
             [t \in Tasks |-> ReceiveTask(tasks[d][t], send[c].snap[t])]]
      /\ UNCHANGED <<log, pending>> /\ UNCHANGED writes /\ send' = [send EXCEPT ![c] = local]
  BY <1>1, <1>2 DEF ReceiveFull, Goto
<1>7. /\ tasks' \in [Clusters -> [Tasks -> Copy]]
      /\ \A e \in Clusters, t \in Tasks :
            tasks'[e][t] = tasks[e][t] \/ Earned(tasks'[e][t], t, writes')
  BY <1>4, <1>5, <1>6 DEF Inv
<1>8. /\ send' \in [Clusters -> Send]
      /\ \A e \in Clusters : send'[e] = send[e] \/ PassOK(send'[e], log', writes')
  BY <1>2, <1>6 DEF Inv, PassOK
<1>9. (\A e \in Clusters : log[e] <= log'[e]) /\ (\A t \in Tasks : writes[t] <= writes'[t])
  BY <1>6 DEF Inv
<1>10. QED
  BY <1>6, <1>7, <1>8, <1>9, StepKeepsInv DEF Inv

-----------------------------------------------------------------------------
(* The theorems.                                                           *)

LEMMA NextKeepsInv == Inv /\ [Next]_vars => Inv'
<1> SUFFICES ASSUME Inv, [Next]_vars PROVE Inv'
  OBVIOUS
<1>1. CASE UNCHANGED vars
  <2>1. UNCHANGED <<tasks, log, pending, send, writes>>
    BY <1>1 DEF vars
  <2>2. QED
    BY <2>1 DEF Inv
<1>2. ASSUME NEW c \in Clusters, Local(c) \/ Loop(c) \/ Receive(c) \/ Restart(c)
      PROVE  Inv'
  <2>1. CASE Local(c)
    BY <2>1, LocalKeepsInv
  <2>2. CASE Loop(c)
    BY <2>2, StartKeepsInv, RequestLostKeepsInv DEF Loop
  <2>3. CASE Receive(c)
    BY <2>3, ReachPeerKeepsInv, ReceiveSingleKeepsInv, AnswerKeepsInv, FullKeepsInv DEF Receive
  <2>4. CASE Restart(c)
    BY <2>4, RestartKeepsInv
  <2>5. QED
    BY <1>2, <2>1, <2>2, <2>3, <2>4
<1>3. QED
  BY <1>1, <1>2 DEF Next

\* The stores and coordinators keep their types, however many clusters push
\* whatever they hold at each other.
THEOREM SyncTypes == Spec => []TypeOK
<1>1. Inv => TypeOK
  BY InvImplies
<1>2. QED
  BY <1>1, InitInv, NextKeepsInv, PTL DEF Spec

\* Full states that go around in circles stop raising versions: a version
\* stays within one of the number of real changes.
THEOREM VersionsBounded == Spec => []NoRunaway
<1>1. Inv => NoRunaway
  BY InvImplies
<1>2. QED
  BY <1>1, InitInv, NextKeepsInv, PTL DEF Spec

\* Only handling a message moves a receiver on within a batch.
LEMMA OnlyReceiveMoves ==
    ASSUME Inv, [Next]_vars, NEW c \in Clusters,
           send[c].at # 0, send'[c].at = send[c].at + 1
    PROVE  ReceiveSingle(c)
<1>1. send[c] \in Send /\ PassOK(send[c], log, writes) /\ send[c].at \in Nat
  BY DEF Inv, Send
<1>2. send'[c] # send[c]
  BY <1>1
<1>3. ASSUME NEW e \in Clusters, NEW local, Goto(e, local)
      PROVE  e = c /\ local.at = send[c].at + 1
  BY <1>1, <1>2, <1>3 DEF Goto, Inv
<1>4. \A e \in Clusters, arrived \in BOOLEAN :
          NextPeer(e).at # send[c].at + 1 /\ NextTry(e, arrived).at # send[c].at + 1
  <2> TAKE e \in Clusters, arrived \in BOOLEAN
  <2>1. send[e] \in Send
    BY DEF Inv
  <2>2. \A q : Pass(send[e], q).at = 0
    BY <2>1 DEF Pass, Rest, Send
  <2>3. [send[e] EXCEPT !.try = @ + 1, !.at = 0, !.seen = @ \/ arrived].at = 0
    BY <2>1 DEF Send
  <2>4. NextPeer(e).at = 0 /\ NextTry(e, arrived).at = 0
    BY <2>2, <2>3 DEF NextTry, NextPeer
  <2>5. QED
    BY <1>1, <2>4
<1>5. PICK e \in Clusters : Local(e) \/ Loop(e) \/ Receive(e) \/ Restart(e)
  BY <1>2 DEF Next, vars
<1>6. ~Local(e)
  BY <1>2 DEF Local, CreateTask, ChangeTask, QueueTaskEvent
<1>7. ~Restart(e)
  <2>1. Rest.at = 0
    BY DEF Rest
  <2>2. QED
    BY <1>1, <1>2, <2>1 DEF Restart, Inv
<1>8. ~Loop(e)
  <2>1. Rest \in Send
    BY RestOK DEF PassOK, Inv
  <2>2. \A local \in Send : \A q : Pass(local, q).at = 0
    BY DEF Pass, Rest, Send
  <2>3. [Rest EXCEPT !.doing = "delta", !.batch = pending[e]] \in Send
    BY <2>1 DEF Inv, Send
  <2>4. [Rest EXCEPT !.doing = "full", !.snap = tasks[e]] \in Send
    BY <2>1 DEF Inv, Send
  <2>5. ~StartDelta(e)
    BY <1>1, <1>3, <2>2, <2>3 DEF StartDelta
  <2>6. ~StartFull(e)
    BY <1>1, <1>3, <2>2, <2>4 DEF StartFull
  <2>7. ~RequestLost(e)
    BY <1>1, <1>3, <1>4 DEF RequestLost
  <2>8. QED
    BY <2>5, <2>6, <2>7 DEF Loop
<1>9. ~Answer(e)
  <2>1. ~Goto(e, NextPeer(e)) /\ ~Goto(e, NextTry(e, TRUE))
    BY <1>3, <1>4
  <2>2. QED
    BY <2>1 DEF Answer
<1>10. ASSUME NEW d, FullAnswered(e, d) \/ FullUnanswered(e, d)
       PROVE  FALSE
  <2>1. Goto(e, NextPeer(e)) \/ Goto(e, NextTry(e, FALSE))
    BY <1>10 DEF FullAnswered, FullUnanswered
  <2>2. QED
    BY <1>3, <1>4, <2>1
<1>11. ~ReachPeer(e)
  BY <1>1, <1>3 DEF ReachPeer
<1>12. ReceiveSingle(e)
  BY <1>5, <1>6, <1>7, <1>8, <1>9, <1>10, <1>11 DEF Receive
<1>13. e = c
  BY <1>3, <1>12 DEF ReceiveSingle
<1>14. QED
  BY <1>12, <1>13

\* Retrying a batch whose answer was lost is harmless: the receiver's log has
\* got past all its messages, whatever else has arrived meanwhile.
THEOREM RetriesHarmless == Spec => RedeliveryIgnored
<1>1. ASSUME Inv, [Next]_vars, NEW c \in Clusters,
             send[c].seen, send[c].at # 0, send'[c].at = send[c].at + 1
      PROVE  UNCHANGED <<tasks, log>>
  <2>1. ReceiveSingle(c)
    BY <1>1, OnlyReceiveMoves
  <2>2. send[c] \in Send /\ PassOK(send[c], log, writes)
    BY <1>1 DEF Inv
  <2>3. send[c].at \in DOMAIN send[c].batch /\ send[c].doing = "delta"
    BY <2>1, <2>2 DEF ReceiveSingle, Send
  <2>4. send[c].batch[send[c].at] \in Message
    BY <2>2, <2>3 DEF Send
  <2>5. To(c) \in Clusters
    <3>1. send[c].peers \in Seq(Clusters) /\ send[c].peers # <<>>
      BY <2>2, <2>3 DEF PassOK, Send
    <3>2. QED
      BY <3>1 DEF To
  <2>6. send[c].batch[send[c].at].version <= log[To(c)]
    BY <1>1, <2>2, <2>3 DEF PassOK, To
  <2>7. ~Fresh(send[c].batch[send[c].at], To(c))
    BY <1>1, <2>4, <2>5, <2>6 DEF Fresh, Message, Inv
  <2>8. QED
    BY <2>1, <2>7 DEF ReceiveSingle
<1>2. Inv /\ [Next]_vars => RedeliveryStep
  BY <1>1 DEF RedeliveryStep
<1>3. QED
  BY <1>2, InitInv, NextKeepsInv, PTL DEF Spec, RedeliveryIgnored

-----------------------------------------------------------------------------
(* What a receiver may lose.                                               *)

\* A copy changes with a higher version than before, or by a message numbered
\* higher than any received.
NewsStep ==
    \A c \in Clusters :
        /\ log'[c] >= log[c]
        /\ \A t \in Tasks : \/ tasks'[c][t] = tasks[c][t]
                            \/ tasks'[c][t].version > tasks[c][t].version
                            \/ log'[c] > log[c]

LEMMA LocalIsNews ==
    ASSUME Inv, NEW c \in Clusters, Local(c)
    PROVE  NewsStep
<1>1. /\ tasks \in [Clusters -> [Tasks -> Copy]] /\ log \in [Clusters -> Nat]
      /\ \A t \in Tasks : tasks[c][t] \in Copy /\ Earned(tasks[c][t], t, writes)
  BY DEF Inv
<1>2. log' = log
  BY DEF Local, CreateTask, ChangeTask, QueueTaskEvent
<1>3. CASE tasks' = tasks
  BY <1>1, <1>2, <1>3 DEF NewsStep
<1>4. ASSUME NEW t \in Tasks, CreateTask(c, t) PROVE NewsStep
  <2>1. tasks[c][t].version = 0
    BY <1>1, <1>4 DEF CreateTask, Earned, Copy
  <2>2. tasks' = [tasks EXCEPT ![c][t] = [status |-> "ready", version |-> 1]]
    BY <1>4 DEF CreateTask
  <2>3. QED
    BY <1>1, <1>2, <2>1, <2>2 DEF NewsStep
<1>5. ASSUME NEW t \in Tasks, NEW s \in Status, ChangeTask(c, t, s) PROVE NewsStep
  <2>1. tasks' = [tasks EXCEPT ![c][t] = SetStatus(tasks[c][t], s)]
    BY <1>5 DEF ChangeTask
  <2>2. SetStatus(tasks[c][t], s).version > tasks[c][t].version
    BY <1>1 DEF SetStatus, Copy
  <2>3. QED
    BY <1>1, <1>2, <2>1, <2>2 DEF NewsStep
<1>6. QED
  BY <1>3, <1>4, <1>5 DEF Local, QueueTaskEvent

LEMMA MessageIsNews ==
    ASSUME Inv, NEW c \in Clusters, ReceiveSingle(c)
    PROVE  NewsStep
<1>1. /\ tasks \in [Clusters -> [Tasks -> Copy]] /\ log \in [Clusters -> Nat]
      /\ send[c] \in Send /\ PassOK(send[c], log, writes)
  BY DEF Inv
<1> PICK m, d : m = send[c].batch[send[c].at] /\ d = To(c)
  OBVIOUS
<1>2. CASE ~Fresh(m, d)
  <2>1. UNCHANGED <<log, tasks>>
    BY <1>2 DEF ReceiveSingle
  <2>2. QED
    BY <1>1, <2>1 DEF NewsStep
<1>3. CASE Fresh(m, d)
  <2>1. /\ log' = [log EXCEPT ![d] = m.version]
        /\ tasks' = [tasks EXCEPT ![d][m.task] = m.copy]
    BY <1>3 DEF ReceiveSingle
  <2>2. m \in Message
    BY <1>1 DEF ReceiveSingle, Send
  <2>3. \A e \in Clusters : e # d => tasks'[e] = tasks[e] /\ log'[e] = log[e]
    BY <1>1, <2>1
  <2>4. d \in Clusters => log'[d] > log[d]
    BY <1>1, <1>3, <2>1, <2>2 DEF Fresh, Message
  <2>5. \A e \in Clusters : log[e] \in Nat /\ log'[e] \in Nat
    BY <1>1, <2>1, <2>2 DEF Message
  <2>6. \A e \in Clusters : log'[e] > log[e] \/ (log'[e] = log[e] /\ tasks'[e] = tasks[e])
    BY <2>3, <2>4
  <2>7. QED
    BY <2>5, <2>6 DEF NewsStep
<1>4. QED
  BY <1>2, <1>3

LEMMA ReceiveTaskRaises ==
    ASSUME NEW local \in Copy, NEW remote \in Copy
    PROVE  ReceiveTask(local, remote) = local \/ ReceiveTask(local, remote).version > local.version
<1>1. CASE remote.version > local.version /\ local.version > 0
  <2>1. ReceiveTask(local, remote) = SetStatus(local, remote.status)
    BY <1>1 DEF ReceiveTask, Copy
  <2>2. QED
    BY <2>1 DEF SetStatus, Copy
<1>2. CASE ~(remote.version > local.version /\ local.version > 0)
  <2>1. local.version \in Nat /\ remote.version \in Nat
    BY DEF Copy
  <2>2. CASE remote.version = 0
    BY <2>2 DEF ReceiveTask
  <2>3. CASE remote.version # 0 /\ local.version = 0
    BY <2>3 DEF ReceiveTask
  <2>4. CASE remote.version # 0 /\ local.version # 0
    BY <1>2, <2>1, <2>4 DEF ReceiveTask
  <2>5. QED
    BY <2>2, <2>3, <2>4
<1>3. QED
  BY <1>1, <1>2

LEMMA FullIsNews ==
    ASSUME Inv, NEW c \in Clusters, NEW d, ReceiveFull(c, d)
    PROVE  NewsStep
<1>1. /\ tasks \in [Clusters -> [Tasks -> Copy]] /\ log \in [Clusters -> Nat] /\ log' = log
      /\ send[c] \in Send
  BY DEF Inv, ReceiveFull
<1>2. tasks' = [tasks EXCEPT ![d] =
                   [t \in Tasks |-> ReceiveTask(tasks[d][t], send[c].snap[t])]]
  BY DEF ReceiveFull
<1>3. \A t \in Tasks : send[c].snap[t] \in Copy
  BY <1>1 DEF Send
<1>4. ASSUME NEW e \in Clusters, NEW t \in Tasks
      PROVE  tasks'[e][t] = tasks[e][t] \/ tasks'[e][t].version > tasks[e][t].version
  <2>1. tasks[e][t] \in Copy
    BY <1>1
  <2>2. CASE e = d
    <3>1. tasks'[e][t] = ReceiveTask(tasks[e][t], send[c].snap[t])
      BY <1>1, <1>2, <2>2
    <3>2. QED
      BY <1>3, <2>1, <3>1, ReceiveTaskRaises
  <2>3. CASE e # d
    BY <1>1, <1>2, <2>3
  <2>4. QED
    BY <2>2, <2>3
<1>5. QED
  BY <1>1, <1>4 DEF NewsStep

\* What a cluster has stored changes by a full state or a change of its own
\* with a higher version only: the same version never stands for two contents,
\* and no version is taken back, but by a message numbered higher than all
\* received before, which overwrites whatever is there (handle_sync_message).
THEOREM OverwrittenByNewsOnly == Spec => [][NewsStep]_vars
<1>1. ASSUME Inv, Next PROVE NewsStep
  <2>1. PICK c \in Clusters : Local(c) \/ Loop(c) \/ Receive(c) \/ Restart(c)
    BY <1>1 DEF Next
  <2>2. CASE UNCHANGED <<tasks, log>>
    BY <1>1, <2>2 DEF NewsStep, Inv
  <2>3. Loop(c) \/ Restart(c) \/ ReachPeer(c) \/ Answer(c) => UNCHANGED <<tasks, log>>
    BY DEF Loop, StartDelta, StartFull, RequestLost, Restart, ReachPeer, Answer
  <2>4. QED
    BY <1>1, <2>1, <2>2, <2>3, LocalIsNews, MessageIsNews, FullIsNews
    DEF Receive, FullAnswered, FullUnanswered
<1>2. Inv /\ [Next]_vars => [NewsStep]_vars
  BY <1>1
<1>3. QED
  BY <1>2, InitInv, NextKeepsInv, PTL DEF Spec
=============================================================================
