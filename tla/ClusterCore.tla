---------------------------- MODULE ClusterCore -----------------------------
(***************************************************************************)
(* The second server: ClusterCore (core/cluster_core.py) with the older    *)
(* recovery (core/recovery.py), the TaskManager (task_manager.py) and the  *)
(* persistent store.  The thread that serves calls and that of the recovery *)
(* detector take turns at the store's lock, a transaction or a reading a   *)
(* step; the watchdog and the other nodes are here what they do to the     *)
(* node table.  A scan for overdue leases is one step, although it calls   *)
(* back between its two transactions: LeaseManager has it in detail.       *)
(*                                                                         *)
(* The database is a file: a restart loses what is not committed, the      *)
(* queue of the detector, and what the threads were in the middle of.      *)
(***************************************************************************)
EXTENDS SqliteStore, FiniteSets

CONSTANTS
    Self,       \* the node the server registers for itself
    SelfCaps,   \* the capabilities it is started with
    Joining,    \* bound: the nodes that join; others are only named
    CapSets,    \* the lists of capabilities that calls carry
    DepSets,    \* for each task the lists of dependencies that calls give it
    Marks,      \* bound: the statuses the watchdog sets
    Awaited,    \* bound: the tasks whose completion is waited for in `done`
    Leased,     \* bound: the pairs of a task and a node that leases are taken for
    MaxLeases,  \* bound: leases ever created
    MaxQueue    \* bound: events waiting when a node fails or a lease falls due

ASSUME SelfAssumption == Self \in Nodes /\ SelfCaps \subseteq Caps /\ Joining \subseteq Nodes
ASSUME InputsAssumption == 
    /\ CapSets \subseteq SUBSET Caps
    /\ DepSets \in [Tasks -> SUBSET SUBSET Tasks]
    /\ Marks \subseteq {"online", "degraded", "offline"}
ASSUME BoundsAssumption == MaxLeases \in Nat /\ MaxQueue \in Nat

VARIABLES
    tasks, before, leases,
    nodes,     \* the node table as every thread reads it
    saved,     \* the node table as it was last committed
    queue,     \* _event_queue of the RecoveryDetector
    api,       \* the call that is served
    recovery,  \* what the detector's thread is doing
    done,      \* history: the tasks ever set to completed, and all not Awaited
    fresh      \* history: nothing has happened since the server started

vars == <<tasks, before, leases, nodes, saved, queue, api, recovery, done, fresh>>

\* plan: the steps the call has still to take; todo: the dependents to look at;
\* agenda: the tasks whose dependents come next; target, verdict: a dependent
\* that is judged; deps: the dependencies a task is to get, or those of the
\* target that are still to be read; found: the leases a scan has returned.
Steps == {"trigger", "schedule", "depend", "place", "assign", "propagate", "read", "settle",
          "list", "block", "revoke", "unready", "cancel", "delete", "start"}
Verdicts == {"none", "ready", "blocked", "running", "failed"}
Call == [plan: Seq(Steps), task: Tasks \cup {None}, node: Nodes \cup {None},
         deps: SUBSET Tasks, todo: SUBSET Tasks, agenda: SUBSET Tasks,
         target: Tasks \cup {None}, verdict: Verdicts, found: SUBSET Nat]
NoCall == [plan |-> <<>>, task |-> None, node |-> None, deps |-> {}, todo |-> {},
           agenda |-> {}, target |-> None, verdict |-> "none", found |-> {}]

Recovery == [next: {"wait", "scan", "revoke", "look", "put"},
             node: Nodes \cup {None}, found: SUBSET Nat,
             orphans: Seq(Tasks), verdict: Verdicts]
Waiting == [next |-> "wait", node |-> None, found |-> {},
            orphans |-> <<>>, verdict |-> "none"]

Init ==
    /\ tasks = [t \in Tasks |-> NoTask]
    /\ before = {} /\ leases = <<>> /\ queue = <<>>
    /\ nodes = RegisterNode([n \in Nodes |-> NoNode], Self, SelfCaps)
    /\ saved = nodes
    /\ api = NoCall /\ recovery = Waiting
    /\ done = Tasks \ Awaited /\ fresh = TRUE

\* Every transaction commits what has been written on the connection so far.
Commit == saved' = nodes
Table == <<before, nodes>>

\* The transactions of a call touch one table.
OnTasks(ts) == tasks' = ts /\ Commit /\ UNCHANGED <<Table, leases, queue, recovery>>
OnLeases(ls) == leases' = ls /\ Commit /\ UNCHANGED <<tasks, Table, queue, recovery, done>>
JustRead == UNCHANGED <<tasks, Table, saved, leases, queue, recovery, done>>

Idle == api.plan = <<>>
At(step) == ~Idle /\ Head(api.plan) = step
Begin(plan, t) == [NoCall EXCEPT !.plan = plan, !.task = t]
Skip == [api EXCEPT !.plan = Tail(@)]
Finished == api' = NoCall
Continue == IF Len(api.plan) = 1 THEN Finished ELSE api' = Skip

-----------------------------------------------------------------------------
(* Calls that begin with a write.                                          *)

SubmitTask(t, req) ==
    /\ Idle /\ tasks[t].status = "absent"
    /\ OnTasks(CreateTask(tasks, t, req))
    /\ api' = Begin(<<"trigger">>, t)
    /\ UNCHANGED done

\* TaskManager.create_task; duplicate_task passes what the original has.
NewTaskPlan(D, n) ==
    (IF D = {} THEN <<>> ELSE <<"depend">>)
    \o (IF n = None THEN <<>> ELSE <<"place", "assign">>)

NewTask(t, req, D, n) ==
    /\ Idle /\ tasks[t].status = "absent"
    /\ OnTasks(CreateTask(tasks, t, req))
    /\ api' = IF NewTaskPlan(D, n) = <<>> THEN NoCall
              ELSE [Begin(NewTaskPlan(D, n), t) EXCEPT !.deps = D, !.node = n]
    /\ UNCHANGED done

CompleteTask(t) ==
    /\ Idle /\ Exists(tasks, t)
    /\ OnTasks(SetTaskStatus(tasks, t, "completed"))
    /\ api' = [Begin(<<"propagate", "schedule">>, t) EXCEPT !.agenda = {t}]
    /\ done' = done \cup {t}

FailTask(t) ==
    /\ Idle /\ Exists(tasks, t)
    /\ OnTasks(SetTaskStatus(tasks, t, "failed"))
    /\ api' = Begin(<<"list", "block">>, t)
    /\ UNCHANGED done

AutoSchedule ==
    /\ Idle
    /\ OnTasks(TriggerPendingTasks(tasks))
    /\ api' = Begin(<<"schedule">>, None)
    /\ UNCHANGED done

\* update_task with and without depends_on.
UpdateTask(t, D, req) ==
    /\ Idle /\ Exists(tasks, t)
    /\ OnTasks(SetRequires(SetDependencies(tasks, t, D), t, req))
    /\ UNCHANGED <<api, done>>

UpdateRequires(t, req) ==
    /\ Idle /\ Exists(tasks, t)
    /\ OnTasks(SetRequires(tasks, t, req))
    /\ UNCHANGED <<api, done>>

\* update_task refuses a title or a priority within its transaction: what the
\* watchdog has written on the same connection is rolled back with it.
RefuseUpdate(t) ==
    /\ Idle /\ Exists(tasks, t)
    /\ nodes' = saved
    /\ UNCHANGED <<tasks, before, saved, leases, queue, api, recovery, done>>

\* T: those that are old enough.
PurgeCompleted(T) ==
    /\ Idle /\ T # {} /\ \A t \in T : tasks[t].status \in {"completed", "failed"}
    /\ tasks' = DeleteTasks(tasks, T) /\ leases' = DeleteLeases(leases, T)
    /\ Commit
    /\ UNCHANGED <<Table, queue, api, recovery, done>>

\* A node joins or changes its capabilities; the store calls back, the callback
\* promotes, and fails on the length of a number before it schedules.
RegisterNodeCall(n, caps) ==
    /\ Idle
    /\ nodes' = RegisterNode(nodes, n, caps) /\ before' = RegisterRow(nodes, before, n)
    /\ saved' = nodes'
    /\ api' = Begin(<<"trigger">>, None)
    /\ UNCHANGED <<tasks, leases, queue, recovery, done>>

ChangeCapabilities(n, caps) ==
    /\ Idle /\ nodes[n].status # "absent"
    /\ nodes' = [nodes EXCEPT ![n].caps = caps]
    /\ saved' = nodes'
    /\ api' = Begin(<<"trigger">>, None)
    /\ UNCHANGED <<tasks, before, leases, queue, recovery, done>>

UpdateHeartbeat(n) ==
    /\ Idle /\ nodes[n].status # "absent"
    /\ nodes' = [nodes EXCEPT ![n].status = "online"]
    /\ saved' = nodes'
    /\ UNCHANGED <<tasks, before, leases, queue, api, recovery, done>>

\* By a client of the store (nothing here does it), and for whatever it likes:
\* the store asks neither whether the task is there nor whose it is.
TakeLease(t, n) ==
    /\ Idle /\ tasks[t].status # "absent"
    /\ Len(leases) < MaxLeases
    /\ OnLeases(CreateLease(leases, t, n))
    /\ UNCHANGED api

-----------------------------------------------------------------------------
(* Calls that begin with a read.                                           *)

\* get_active_leases: every overdue lease is announced, which queues its node,
\* and marked; the others are returned.
Notices(R) == [i \in 1..Cardinality(R) |->
    leases[CHOOSE l \in R : Cardinality({m \in R : m < l}) = i - 1].node]

Scan ==
    /\ queue' = queue \o Notices(Overdue(leases))
    /\ leases' = ExpireLeases(leases, Overdue(leases))
    /\ Commit

\* Only a task that has a node can have a lease to revoke.
RescheduleTask(t) ==
    /\ Idle /\ Exists(tasks, t)
    /\ IF tasks[t].node = None
       THEN /\ JustRead
            /\ api' = Begin(<<"unready", "schedule">>, t)
       ELSE /\ Scan
            /\ api' = [Begin(<<"revoke", "unready", "schedule">>, t)
                       EXCEPT !.found = InTime(leases)]
            /\ UNCHANGED <<tasks, Table, recovery, done>>

CancelTask(t) ==
    /\ Idle /\ Exists(tasks, t) /\ tasks[t].status \notin {"completed", "failed"}
    /\ JustRead
    /\ api' = Begin(<<"cancel">>, t)

RetryTask(t) ==
    /\ Idle /\ tasks[t].status = "failed"
    /\ JustRead
    /\ api' = Begin(<<"unready", "trigger">>, t)

DeleteTask(t) ==
    /\ Idle /\ Exists(tasks, t) /\ tasks[t].status \notin {"assigned", "running"}
    /\ JustRead
    /\ api' = Begin(<<"delete">>, t)

\* A pending task may be started, too, whatever it waits for.
ScheduleTaskToNode(t, n) ==
    /\ Idle /\ tasks[t].status \in {"ready", "pending"}
    /\ nodes[n].status = "online" /\ Capable(nodes, n, tasks[t])
    /\ JustRead
    /\ api' = [Begin(<<"start">>, t) EXCEPT !.node = n]

-----------------------------------------------------------------------------
(* The further steps of a call.                                            *)

Trigger ==
    /\ At("trigger") /\ OnTasks(TriggerPendingTasks(tasks)) /\ Continue /\ UNCHANGED done

Schedule ==
    /\ At("schedule") /\ OnTasks(SchedulePending(tasks, nodes, before))
    /\ Continue /\ UNCHANGED done

Depend ==
    /\ At("depend") /\ OnTasks(SetDependencies(tasks, api.task, api.deps))
    /\ Continue /\ UNCHANGED done

\* Fault: the status is set before the node is looked up.
PlaceEarly ==
    /\ At("place")
    /\ OnTasks(SetTaskStatus(tasks, api.task, "running"))
    /\ IF nodes[api.node].status = "absent" THEN Finished ELSE Continue
    /\ UNCHANGED done

\* An unknown node ends the call with the task as it is by then.
Place ==
    /\ At("place")
    /\ IF nodes[api.node].status = "absent"
       THEN JustRead /\ Finished
       ELSE OnTasks(SetTaskStatus(tasks, api.task, "running")) /\ Continue /\ UNCHANGED done

Assign ==
    /\ At("assign") /\ OnTasks(SetAssignee(tasks, api.task, api.node))
    /\ Continue /\ UNCHANGED done

Unready ==
    /\ At("unready") /\ OnTasks(SetTaskStatus(tasks, api.task, "pending"))
    /\ Continue /\ UNCHANGED done

Cancel ==
    /\ At("cancel") /\ OnTasks(SetTaskStatus(tasks, api.task, "failed"))
    /\ Continue /\ UNCHANGED done

Start ==
    /\ At("start")
    /\ OnTasks(SetAssignee(SetTaskStatus(tasks, api.task, "running"), api.task, api.node))
    /\ Continue /\ UNCHANGED done

Delete ==
    /\ At("delete")
    /\ tasks' = DeleteTasks(tasks, {api.task}) /\ leases' = DeleteLeases(leases, {api.task})
    /\ Commit /\ Continue
    /\ UNCHANGED <<Table, queue, recovery, done>>

\* The first lease of the task among those returned.
Revoke ==
    /\ At("revoke")
    /\ LET of == {l \in api.found : leases[l].task = api.task}
       IN OnLeases(SetLeases(leases, {l \in of : \A m \in of : l <= m}, "revoked"))
    /\ Continue

-----------------------------------------------------------------------------
(* WorkflowResolver.  The order in which dependents are visited is left    *)
(* open.  A task that has been promoted is not completed, so the visit to  *)
(* its own dependents promotes nothing: the depth limit is never met.      *)

\* Fault: looks for dependents among the ready tasks.
PropagateReady ==
    /\ At("propagate") /\ api.todo = {}
    /\ \E u \in api.agenda :
          api' = [api EXCEPT !.agenda = @ \ {u},
                             !.todo = {v \in Dependents(tasks, u) :
                                          tasks[v].status \in {"ready", "blocked"}}]
    /\ JustRead

\* _propagate for the next task: its dependents, pending or blocked, as they
\* are in one reading of the table.
Propagate ==
    /\ At("propagate") /\ api.todo = {}
    /\ \E u \in api.agenda :
          api' = [api EXCEPT !.agenda = @ \ {u},
                             !.todo = {v \in Dependents(tasks, u) :
                                          tasks[v].status \in {"pending", "blocked"}}]
    /\ JustRead

\* resolve_dependencies reads the dependent again, goes on with a pending one ...
Resolve ==
    /\ At("propagate")
    /\ \E v \in api.todo :
          api' = IF tasks[v].status # "pending" THEN [api EXCEPT !.todo = @ \ {v}]
                 ELSE [api EXCEPT !.todo = @ \ {v}, !.plan = <<"read">> \o @,
                                  !.target = v, !.deps = tasks[v].deps, !.verdict = "ready"]
    /\ JustRead

\* ... and reads what it depends on one by one, until one has failed.
ReadDependency ==
    /\ At("read")
    /\ \E d \in api.deps :
          api' = IF tasks[d].status = "failed"
                 THEN [api EXCEPT !.plan = <<"settle">> \o Tail(@), !.verdict = "blocked", !.deps = {}]
                 ELSE [api EXCEPT !.deps = @ \ {d},
                                  !.verdict = IF tasks[d].status = "completed" THEN @ ELSE "none"]
    /\ JustRead

Judge ==
    /\ At("read") /\ api.deps = {}
    /\ api' = IF api.verdict = "ready" THEN [api EXCEPT !.plan = <<"settle">> \o Tail(@)]
              ELSE [Skip EXCEPT !.target = None]
    /\ JustRead

Settle ==
    /\ At("settle")
    /\ OnTasks(SetTaskStatus(tasks, api.target, api.verdict))
    /\ api' = [Skip EXCEPT !.target = None, !.verdict = "none",
                           !.agenda = IF api.verdict = "ready" THEN @ \cup {api.target} ELSE @]
    /\ UNCHANGED done

Propagated ==
    /\ At("propagate") /\ api.todo = {} /\ api.agenda = {}
    /\ api' = Skip
    /\ JustRead

\* on_dependency_failed blocks the pending dependents of one reading.
List ==
    /\ At("list")
    /\ api' = [Skip EXCEPT !.todo = {v \in Dependents(tasks, api.task) :
                                        tasks[v].status = "pending"}]
    /\ JustRead

Block ==
    /\ At("block")
    /\ IF api.todo = {} THEN Continue /\ JustRead
       ELSE \E v \in api.todo :
               /\ OnTasks(SetTaskStatus(tasks, v, "blocked"))
               /\ api' = [api EXCEPT !.todo = @ \ {v}]
               /\ UNCHANGED done

-----------------------------------------------------------------------------
(* The recovery detector: _loop, revoke_all_for_node, reschedule_orphaned. *)

\* Fault: the wait has run out and nothing has come.
TakeEventBlind ==
    /\ recovery.next = "wait"
    /\ recovery' = [Waiting EXCEPT !.next = "scan",
                                   !.node = IF queue = <<>> THEN None ELSE Head(queue)]
    /\ queue' = IF queue = <<>> THEN queue ELSE Tail(queue)
    /\ UNCHANGED <<tasks, Table, saved, leases, api, done>>

TakeEvent ==
    /\ recovery.next = "wait" /\ queue # <<>>
    /\ recovery' = [Waiting EXCEPT !.next = "scan", !.node = Head(queue)]
    /\ queue' = Tail(queue)
    /\ UNCHANGED <<tasks, Table, saved, leases, api, done>>

\* Fault: only leases of tasks that run are revoked.
RecoveryScanRunning ==
    /\ recovery.next = "scan"
    /\ recovery' = [recovery EXCEPT !.next = "revoke",
           !.found = {l \in InTime(leases) : /\ leases[l].node = recovery.node
                                             /\ tasks[leases[l].task].status = "running"}]
    /\ Scan
    /\ UNCHANGED <<tasks, Table, api, done>>

RecoveryScan ==
    /\ recovery.next = "scan"
    /\ recovery' = [recovery EXCEPT !.next = "revoke",
           !.found = {l \in InTime(leases) : leases[l].node = recovery.node}]
    /\ Scan
    /\ UNCHANGED <<tasks, Table, api, done>>

\* A lease is revoked whatever has become of it since the scan.
RevokeNext ==
    /\ recovery.next = "revoke"
    /\ \E l \in recovery.found :
          /\ \A m \in recovery.found : l <= m
          /\ leases' = RevokeLease(leases, l)
          /\ recovery' = [recovery EXCEPT !.found = @ \ {l},
                                          !.orphans = Append(@, leases[l].task)]
    /\ Commit
    /\ UNCHANGED <<tasks, Table, queue, api, done>>

JustReadToo == UNCHANGED <<tasks, Table, saved, leases, queue, done>>

Revoked ==
    /\ recovery.next = "revoke" /\ recovery.found = {}
    /\ recovery' = IF recovery.orphans = <<>> THEN Waiting
                   ELSE [recovery EXCEPT !.next = "look"]
    /\ UNCHANGED api /\ JustReadToo

Orphan == Head(recovery.orphans)
NextOrphan ==
    IF Len(recovery.orphans) = 1 THEN Waiting
    ELSE [recovery EXCEPT !.next = "look", !.orphans = Tail(@), !.verdict = "none"]

\* The task, whatever its status, and the nodes are read ...
LookAtOrphan ==
    /\ recovery.next = "look"
    /\ recovery' = IF ~Exists(tasks, Orphan) THEN NextOrphan
                   ELSE [recovery EXCEPT !.next = "put",
                           !.verdict = IF Eligible(nodes, tasks[Orphan]) = {}
                                       THEN "failed" ELSE "running"]
    /\ UNCHANGED api /\ JustReadToo

\* ... and its status is set; the new node goes to a copy and is forgotten.
PutOrphan ==
    /\ recovery.next = "put"
    /\ tasks' = SetTaskStatus(tasks, Orphan, recovery.verdict)
    /\ recovery' = NextOrphan
    /\ Commit
    /\ UNCHANGED <<Table, leases, queue, api, done>>

-----------------------------------------------------------------------------
(* The scanner, the watchdog, the clock and restarts.                      *)

ScanOnce ==
    /\ Scan
    /\ UNCHANGED <<tasks, Table, api, recovery, done>>

\* The adapter's UPDATE is not committed by itself; going offline is an event.
WatchdogMark(n, s) ==
    /\ nodes[n].status \notin {"absent", s}
    /\ s = "offline" => Len(queue) < MaxQueue
    /\ nodes' = [nodes EXCEPT ![n].status = s]
    /\ queue' = IF s = "offline" THEN Append(queue, n) ELSE queue
    /\ UNCHANGED <<tasks, before, saved, leases, api, recovery, done>>

LeaseFallsDue(l) ==
    /\ l \in Active(leases) /\ ~leases[l].due /\ Len(queue) < MaxQueue
    /\ leases' = [leases EXCEPT ![l].due = TRUE]
    /\ UNCHANGED <<tasks, Table, saved, queue, api, recovery, done>>

\* Whatever the threads were doing is gone, and the server registers itself.
Restart ==
    /\ fresh' = TRUE
    /\ nodes' = RegisterNode(saved, Self, SelfCaps)
    /\ before' = RegisterRow(saved, before, Self)
    /\ saved' = nodes'
    /\ queue' = <<>> /\ recovery' = Waiting
    /\ api' = Begin(<<"trigger">>, None)
    /\ UNCHANGED <<tasks, leases, done>>

-----------------------------------------------------------------------------
TaskCall(t) ==
    \/ \E req \in CapSets : SubmitTask(t, req)
    \/ \E req \in CapSets, D \in DepSets[t], n \in Nodes \cup {None} : NewTask(t, req, D, n)
    \/ \E req \in CapSets : UpdateRequires(t, req) \/ \E D \in DepSets[t] : UpdateTask(t, D, req)
    \/ \E n \in Nodes : ScheduleTaskToNode(t, n) \/ (<<t, n>> \in Leased /\ TakeLease(t, n))
    \/ CompleteTask(t) \/ FailTask(t) \/ RefuseUpdate(t) \/ RescheduleTask(t)
    \/ CancelTask(t) \/ RetryTask(t) \/ DeleteTask(t)

NodeCall(n) ==
    \/ \E caps \in CapSets : RegisterNodeCall(n, caps) \/ ChangeCapabilities(n, caps)
    \/ UpdateHeartbeat(n)

Step ==
    \/ Trigger \/ Schedule \/ Depend \/ Place \/ Assign \/ Unready \/ Cancel \/ Start
    \/ Delete \/ Revoke
    \/ Propagate \/ Resolve \/ ReadDependency \/ Judge \/ Settle \/ Propagated
    \/ List \/ Block

Recover ==
    \/ TakeEvent \/ RecoveryScan \/ RevokeNext \/ Revoked
    \/ LookAtOrphan \/ PutOrphan

Operate ==
    \/ \E t \in Tasks : TaskCall(t)
    \/ \E T \in SUBSET Tasks : PurgeCompleted(T)
    \/ \E n \in Joining : NodeCall(n)
    \/ AutoSchedule \/ Step \/ Recover \/ ScanOnce
    \/ \E n \in Nodes, s \in Marks : WatchdogMark(n, s)
    \/ \E l \in DOMAIN leases : LeaseFallsDue(l)

Next ==
    \/ Operate /\ fresh' = FALSE
    \/ Restart

Spec == Init /\ [][Next]_vars

\* The detector's thread goes on; nothing obliges anybody to call.
FairSpec == Spec /\ WF_vars(Recover /\ fresh' = FALSE)

-----------------------------------------------------------------------------
(* Properties.                                                             *)

\* The tables keep their types; the detector recovers only nodes it was told of.
TypeOK ==
    /\ tasks \in [Tasks -> Task] /\ leases \in Seq(Lease)
    /\ nodes \in [Nodes -> Node] /\ saved \in [Nodes -> Node]
    /\ before \subseteq Nodes \X Nodes
    /\ queue \in Seq(Nodes)
    /\ api \in Call /\ recovery \in Recovery
    /\ recovery.next # "wait" => recovery.node \in Nodes
    /\ done \subseteq Tasks /\ fresh \in BOOLEAN

\* A task is not ready before each of its dependencies has been completed once,
\* however its promotion is cut up and whatever the dependencies were meanwhile.
\* (With Awaited = Tasks; a task that is nobody's dependency need not be in it.)
ReadyInOrder ==
    \A t \in Tasks : tasks[t].status = "ready" => tasks[t].deps \subseteq done

\* A task comes to run without a node only in the call that is just placing it,
\* which ends with the node unless the server goes down, or by recovery if a lease
\* was taken for it while it had none: no task loses its node.
Unplaced(t) == tasks[t].status = "running" /\ tasks[t].node = None
BeingPlaced(t) == At("assign") /\ api.task = t
RunningHasNodeStep ==
    \A t \in Tasks :
        Unplaced(t)' => \/ Unplaced(t) /\ (fresh' \/ ~BeingPlaced(t))
                        \/ BeingPlaced(t)'
                        \/ \E l \in DOMAIN leases : leases[l].task = t
RunningHasNode == [][RunningHasNodeStep]_vars

\* No stale read brings a deleted task back.
StaysDeletedStep ==
    \A t \in Tasks : tasks[t].status = "deleted" => tasks'[t].status = "deleted"
StaysDeleted == [][StaysDeletedStep]_vars

\* When the propagation of a completion has ended, none of the dependents still
\* waits although everything it waits for is completed.
NoneLeftBehindStep ==
    Propagated =>
        \A u \in Dependents(tasks, api.task) :
            ~(tasks[u].status = "pending" /\ DependenciesMet(tasks, u))
NoneLeftBehind == [][NoneLeftBehindStep]_vars

\* Once the detector has been told of a node, every lease the node holds comes
\* to its end, unless a restart forgets the event.
RecoveryRevokes ==
    \A l \in 1..MaxLeases :
        (l \in Active(leases) /\ \E i \in DOMAIN queue : queue[i] = leases[l].node)
        ~> (l \notin Active(leases) \/ fresh)

-----------------------------------------------------------------------------
(* What the comments say and the code does not do.                         *)

\* task_manager.py: a task is cancelled by setting it to failed; yet recovery
\* makes a task run again that was completed, cancelled or failed meanwhile.
TerminalStays ==
    [][PutOrphan => \A t \in Tasks :
          tasks[t].status \in {"completed", "failed"} => tasks'[t].status = tasks[t].status]_vars
=============================================================================
