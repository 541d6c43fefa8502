-------------------------------- MODULE Sync --------------------------------
(***************************************************************************)
(* State synchronisation between clusters (sync/__init__.py): every        *)
(* cluster has an SQLite store, a coordinator thread that pushes queued    *)
(* messages and full snapshots to its peers over HTTP, and a receiver.     *)
(* A request may be lost, its answer may be lost, and the client then      *)
(* tries again.  A restart loses what the coordinator holds; the store is  *)
(* a file.                                                                 *)
(*                                                                         *)
(* Of a task a status and a version are kept; assignees and the node table *)
(* of a snapshot are left out, and so are timestamps and event types, by   *)
(* which no receiver decides anything.                                     *)
(***************************************************************************)
EXTENDS Naturals, Sequences

CONSTANTS
    Clusters,
    Peers,       \* for each cluster the sequence of its peers
    Writers,     \* bound: the clusters at which tasks are changed
    Tasks,
    Status,      \* the statuses in use
    MaxRetries,  \* SyncClient's max_retries: attempts to send
    MaxWrites,   \* bound: local changes of a task
    MaxSync,     \* bound: the largest version of a message
    MaxPending   \* bound: messages queued at a cluster

ASSUME PeersAssumption == Peers \in [Clusters -> Seq(Clusters)]
ASSUME StatusAssumption == {"pending", "ready"} \subseteq Status
ASSUME BoundsAssumption ==
    /\ MaxRetries \in Nat \ {0}
    /\ MaxWrites \in Nat /\ MaxSync \in Nat /\ MaxPending \in Nat

VARIABLES
    tasks,    \* for each cluster its copy of each task; version 0: none
    log,      \* for each cluster the largest version in its sync_log
    pending,  \* _pending_messages of each coordinator
    send,     \* what each coordinator is in the middle of
    writes    \* history: how often a task has been changed locally, anywhere

vars == <<tasks, log, pending, send, writes>>

Copy == [status: Status, version: Nat]
Message == [version: Nat, task: Tasks, copy: Copy]
NoCopy == [status |-> "pending", version |-> 0]

\* doing: a pass of the loop, with the peers still to serve, the current one
\* first; try: the attempt; at: the message its receiver is handling, 0 while
\* the request has not arrived; seen: an earlier attempt had arrived.
Rest == [doing |-> "rest", batch |-> <<>>, snap |-> [t \in Tasks |-> NoCopy],
         peers |-> <<>>, try |-> 1, at |-> 0, seen |-> FALSE]

Send == [doing: {"rest", "delta", "full"}, batch: Seq(Message), snap: [Tasks -> Copy],
         peers: Seq(Clusters), try: 1..MaxRetries, at: Nat, seen: BOOLEAN]

Known(c, t) == tasks[c][t].version > 0
To(c) == Head(send[c].peers)
PushesTo(c) == {Peers[c][i] : i \in 1..Len(Peers[c])}

-----------------------------------------------------------------------------
(* LWWResolver.should_apply.  Senders are compared as strings; all that    *)
(* matters is that they are ordered.                                       *)

ShouldApply(remote, local) ==
    \/ remote.version > local.version
    \/ remote.version = local.version /\ remote.timestamp > local.timestamp
    \/ /\ remote.version = local.version /\ remote.timestamp = local.timestamp
       /\ remote.sender > local.sender

Merge(local, remote) == IF ShouldApply(remote, local) THEN remote ELSE local

-----------------------------------------------------------------------------
(* Changes at a cluster itself, by whatever uses its store.                *)

\* create_task promotes at once; task ids are random and never meet.
CreateTask(c, t) ==
    /\ writes[t] = 0 /\ MaxWrites > 0
    /\ tasks' = [tasks EXCEPT ![c][t] = [status |-> "ready", version |-> 1]]
    /\ writes' = [writes EXCEPT ![t] = 1]
    /\ UNCHANGED <<log, pending, send>>

SetStatus(copy, s) == [status |-> s, version |-> copy.version + 1]

ChangeTask(c, t, s) ==
    /\ Known(c, t)
    /\ writes[t] < MaxWrites
    /\ tasks' = [tasks EXCEPT ![c][t] = SetStatus(@, s)]
    /\ writes' = [writes EXCEPT ![t] = @ + 1]
    /\ UNCHANGED <<log, pending, send>>

\* Numbered by what the cluster has received, which sending never advances.
QueueTaskEvent(c, t) ==
    /\ Known(c, t)
    /\ log[c] < MaxSync /\ Len(pending[c]) < MaxPending
    /\ pending' = [pending EXCEPT ![c] =
           Append(@, [version |-> log[c] + 1, task |-> t, copy |-> tasks[c][t]])]
    /\ UNCHANGED <<tasks, log, send, writes>>

-----------------------------------------------------------------------------
(* The coordinator's loop: _do_delta_sync and, now and then, _do_full_sync.*)

Goto(c, local) ==
    /\ send' = [send EXCEPT ![c] = local]
    /\ UNCHANGED writes

\* The pass goes on with the next peer, and ends when none is left.
Pass(local, peers) ==
    IF peers = <<>> THEN Rest
    ELSE [local EXCEPT !.peers = peers, !.try = 1, !.at = 0, !.seen = FALSE]

\* The queue is emptied before anything is sent.
StartDelta(c) ==
    /\ send[c].doing = "rest" /\ pending[c] # <<>>
    /\ pending' = [pending EXCEPT ![c] = <<>>]
    /\ Goto(c, Pass([Rest EXCEPT !.doing = "delta", !.batch = pending[c]], Peers[c]))
    /\ UNCHANGED <<tasks, log>>

StartFull(c) ==
    /\ send[c].doing = "rest"
    /\ Goto(c, Pass([Rest EXCEPT !.doing = "full", !.snap = tasks[c]], Peers[c]))
    /\ UNCHANGED <<tasks, log, pending>>

NextPeer(c) == Pass(send[c], Tail(send[c].peers))

\* Fault: one attempt too many.
NextTryOver(c, arrived) ==
    IF send[c].try <= MaxRetries
    THEN [send[c] EXCEPT !.try = @ + 1, !.at = 0, !.seen = @ \/ arrived]
    ELSE NextPeer(c)

\* The client takes the attempt for a failed one.
NextTry(c, arrived) ==
    IF send[c].try < MaxRetries
    THEN [send[c] EXCEPT !.try = @ + 1, !.at = 0, !.seen = @ \/ arrived]
    ELSE NextPeer(c)

RequestLost(c) ==
    /\ send[c].doing # "rest" /\ send[c].at = 0
    /\ Goto(c, NextTry(c, FALSE))
    /\ UNCHANGED <<tasks, log, pending>>

-----------------------------------------------------------------------------
(* The receiver.  Its handlers are coroutines without an await: one batch  *)
(* at a time.                                                              *)

ReachPeer(c) ==
    /\ send[c].doing = "delta" /\ send[c].at = 0
    /\ \A d \in Clusters : send[d].at # 0 => To(d) # To(c)
    /\ Goto(c, [send[c] EXCEPT !.at = 1])
    /\ UNCHANGED <<tasks, log, pending>>

\* Fault: a message with the version last seen is let in again.
FreshOrEqual(m, d) == m.version >= log[d]

Fresh(m, d) == m.version > log[d]

\* receive_single and handle_sync_message: the version of the message decides,
\* that of the task is overwritten whatever it was.
ReceiveSingle(c) ==
    /\ send[c].doing = "delta" /\ send[c].at \in 1..Len(send[c].batch)
    /\ LET m == send[c].batch[send[c].at]  d == To(c)
       IN IF Fresh(m, d)
          THEN /\ log' = [log EXCEPT ![d] = m.version]
               /\ tasks' = [tasks EXCEPT ![d][m.task] = m.copy]
          ELSE UNCHANGED <<log, tasks>>
    /\ Goto(c, [send[c] EXCEPT !.at = @ + 1])
    /\ UNCHANGED pending

Answer(c) ==
    /\ send[c].doing = "delta" /\ send[c].at = Len(send[c].batch) + 1
    /\ \E arrives \in BOOLEAN :
          Goto(c, IF arrives THEN NextPeer(c) ELSE NextTry(c, TRUE))
    /\ UNCHANGED <<tasks, log, pending>>

\* Fault: a copy of the same version is applied, too.
ReceiveTaskAgain(local, remote) ==
    IF remote.version = 0 THEN local
    ELSE IF local.version = 0
         THEN [status |-> IF remote.status = "pending" THEN "ready" ELSE remote.status,
               version |-> IF remote.status = "pending" THEN 1 ELSE 2]
    ELSE IF remote.version >= local.version THEN SetStatus(local, remote.status) ELSE local

\* Fault: the status is taken over without a new version.
ReceiveTaskUncounted(local, remote) ==
    IF remote.version = 0 THEN local
    ELSE IF local.version = 0
         THEN [status |-> IF remote.status = "pending" THEN "ready" ELSE remote.status,
               version |-> 1]
    ELSE IF remote.version > local.version
         THEN [local EXCEPT !.status = remote.status] ELSE local

\* receive_full_state for one task.  A new copy is created ready and then set
\* to the status received unless that is pending; an older one takes over the
\* status but counts its own version.
ReceiveTask(local, remote) ==
    IF remote.version = 0 THEN local
    ELSE IF local.version = 0
         THEN [status |-> IF remote.status = "pending" THEN "ready" ELSE remote.status,
               version |-> IF remote.status = "pending" THEN 1 ELSE 2]
    ELSE IF remote.version > local.version THEN SetStatus(local, remote.status) ELSE local

ReceiveFull(c, d) ==
    /\ send[c].doing = "full" /\ To(c) = d
    /\ \A e \in Clusters : send[e].at # 0 => To(e) # d
    /\ tasks' = [tasks EXCEPT ![d] =
           [t \in Tasks |-> ReceiveTask(tasks[d][t], send[c].snap[t])]]
    /\ UNCHANGED <<log, pending>>

FullAnswered(c, d) == ReceiveFull(c, d) /\ Goto(c, NextPeer(c))
FullUnanswered(c, d) == ReceiveFull(c, d) /\ Goto(c, NextTry(c, FALSE))

\* The process ends and starts anew: what was queued or under way is lost.
Restart(c) ==
    /\ \A d \in Clusters : send[d].at # 0 => To(d) # c
    /\ pending' = [pending EXCEPT ![c] = <<>>]
    /\ send' = [send EXCEPT ![c] = Rest]
    /\ UNCHANGED <<tasks, log, writes>>

-----------------------------------------------------------------------------
Init ==
    /\ tasks = [c \in Clusters |-> [t \in Tasks |-> NoCopy]]
    /\ log = [c \in Clusters |-> 0]
    /\ pending = [c \in Clusters |-> <<>>]
    /\ send = [c \in Clusters |-> Rest]
    /\ writes = [t \in Tasks |-> 0]

Local(c) ==
    \/ c \in Writers /\ \E t \in Tasks : CreateTask(c, t)
    \/ c \in Writers /\ \E t \in Tasks, s \in Status : ChangeTask(c, t, s)
    \/ \E t \in Tasks : QueueTaskEvent(c, t)

Loop(c) == StartDelta(c) \/ StartFull(c) \/ RequestLost(c)

Receive(c) ==
    \/ ReachPeer(c) \/ ReceiveSingle(c) \/ Answer(c)
    \/ \E d \in PushesTo(c) : FullAnswered(c, d) \/ FullUnanswered(c, d)

Next == \E c \in Clusters : Local(c) \/ Loop(c) \/ Receive(c) \/ Restart(c)

Spec == Init /\ [][Next]_vars

\* The loop goes on, its timer for full states runs out again and again, and
\* no peer is out of reach for ever.
FairSpec ==
    /\ Spec
    /\ \A c \in Clusters :
          /\ WF_vars(ReachPeer(c) \/ ReceiveSingle(c) \/ Answer(c))
          /\ SF_vars(StartFull(c))
          /\ \A d \in PushesTo(c) : SF_vars(FullAnswered(c, d))

-----------------------------------------------------------------------------
(* Properties.                                                             *)

\* The tables keep their types; a coordinator counts its attempts.
TypeOK ==
    /\ tasks \in [Clusters -> [Tasks -> Copy]]
    /\ log \in [Clusters -> Nat]
    /\ pending \in [Clusters -> Seq(Message)]
    /\ send \in [Clusters -> Send]
    /\ writes \in [Tasks -> Nat]

\* Clusters that push full states at each other do not drive the versions up:
\* wherever a copy has been, its version is at most one above the number of
\* times the task has really been changed (receive_full_state counts anew on
\* every application).
NoRunaway ==
    \A c \in Clusters, t \in Tasks : tasks[c][t].version <= writes[t] + 1

\* A batch that is sent again because its answer was lost changes nothing at
\* the peer, whatever has happened there since.
RedeliveryStep ==
    \A c \in Clusters :
        (send[c].seen /\ send[c].at # 0 /\ send'[c].at = send[c].at + 1)
        => UNCHANGED <<tasks, log>>
RedeliveryIgnored == [][RedeliveryStep]_vars

\* A copy that is behind the version of a cluster that pushes to it does not
\* stay behind: full states make up for messages that were rejected, lost on
\* the way, or lost with a restart.
Behind(c, d, t) == tasks[d][t].version < tasks[c][t].version
CatchesUp ==
    \A c \in Clusters : \A d \in PushesTo(c), t \in Tasks :
        Behind(c, d, t) ~> ~Behind(c, d, t)

-----------------------------------------------------------------------------
(* What the comments say and the code does not do.                         *)

\* sync/__init__.py: a full state "Merges all nodes and tasks, applying LWW
\* per-entity", so that a peer ends up with what the last writer wrote.
Agrees ==
    <>[](\A c \in Clusters : \A d \in PushesTo(c), t \in Tasks :
           tasks[d][t].status = tasks[c][t].status)
=============================================================================
