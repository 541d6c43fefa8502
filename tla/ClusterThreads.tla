--------------------------- MODULE ClusterThreads ---------------------------
(***************************************************************************)
(* The deployed app at the granularity of its locks.  Request handlers run *)
(* one at a time on the thread of the event loop; the auto-recovery thread *)
(* runs RecoveryManager.detect_expired_leases; the lease scanner and the   *)
(* watchdog run beside them.  A step of this module is one critical        *)
(* section of ClusterState, or one read of a task that a handler makes     *)
(* without a lock: get_task hands out the stored object itself.            *)
(*                                                                         *)
(* Handlers of a single critical section are the actions of ClusterApi.    *)
(***************************************************************************)
EXTENDS ClusterState

CONSTANT AutoRecovery   \* whether the auto-recovery thread has been started

ASSUME AutoRecoveryAssumption == AutoRecovery \in BOOLEAN

VARIABLE thread   \* what each thread is in the middle of

vars == <<storeVars, thread>>

Api == INSTANCE ClusterApi

Threads == {"loop", "auto"}

\* pc is the next step, then the one to return to from a shared sequence; task
\* and node are the arguments of the handler, dep the dependent in hand, unread
\* what it depends on and has not been read yet, waiting those still to visit and
\* mark the status they get; lease is the one
\* found by get_by_task; online the nodes schedule_pending saw online; left the
\* leases revoke_all_for_node has still to revoke, freed the revoked ones whose
\* tasks are still to be rescheduled, targets the nodes still to be recovered.
Idle == [pc |-> "idle", then |-> "idle", task |-> None, node |-> None, dep |-> None,
         unread |-> {}, waiting |-> {}, mark |-> "ready", lease |-> 0, online |-> {},
         left |-> {}, freed |-> {}, targets |-> {}]

At(p, step) == thread[p].pc = step
Free(p) == At(p, "idle")
T(p) == thread[p].task

Goto(p, step) == thread' = [thread EXCEPT ![p].pc = step]
Finish(p) == thread' = [thread EXCEPT ![p] = Idle]
Begin(p, local) == Free(p) /\ thread' = [thread EXCEPT ![p] = local]

OnlyTasks == UNCHANGED <<nodes, leases, index, syncVersion>>
OnlyLeases == UNCHANGED <<tasks, nodes, syncVersion>>

Oldest(S) == CHOOSE l \in S : \A m \in S : l <= m

-----------------------------------------------------------------------------
(* schedule_pending: the online nodes are read under the lock of the       *)
(* nodes, the tasks assigned under the lock of the tasks.                  *)

\* Fault: a task that found no node is tried again at once.
ReturnAgain(p, scheduled) ==
    IF thread[p].then # "verify" THEN Finish(p)
    ELSE Goto(p, IF scheduled THEN "verify" ELSE "unassign")

Return(p, scheduled) ==
    IF thread[p].then # "verify" THEN Finish(p)
    ELSE Goto(p, IF scheduled THEN "verify" ELSE "markFailed")

ReadOnline(p) ==
    /\ At(p, "online")
    /\ LET seen == {n \in Nodes : nodes[n].status = "online"}
       IN IF seen = {} THEN Return(p, FALSE)
          ELSE thread' = [thread EXCEPT ![p].pc = "assign", ![p].online = seen]
    /\ UNCHANGED storeVars

\* The nodes as the snapshot left them; their capabilities are read afresh.
Seen(p) ==
    [n \in Nodes |-> [nodes[n] EXCEPT !.status =
                         IF n \in thread[p].online THEN "online" ELSE "offline"]]

AssignReady(p) ==
    /\ At(p, "assign")
    /\ tasks' = SchedulePending(tasks, Seen(p))
    /\ Return(p, \E t \in Tasks : Schedulable(tasks, Seen(p), t))
    /\ OnlyTasks

\* trigger_pending_tasks.
PromoteAll(p) ==
    /\ At(p, "promoteAll")
    /\ tasks' = TriggerPendingTasks(tasks)
    /\ IF thread[p].then = "online" THEN Goto(p, "online") ELSE Finish(p)
    /\ OnlyTasks

-----------------------------------------------------------------------------
(* Handlers, all of them on the loop.                                      *)

SubmitTask(t, req) ==
    /\ ~Known(tasks, t)
    /\ Begin("loop", [Idle EXCEPT !.pc = "promoteAll"])
    /\ tasks' = CreateTask(tasks, t, req)
    /\ OnlyTasks

ScheduleTrigger ==
    /\ Begin("loop", [Idle EXCEPT !.pc = "promoteAll", !.then = "online"])
    /\ UNCHANGED storeVars

PatchCapabilities(n, caps) ==
    /\ Registered(nodes, n)
    /\ Begin("loop", [Idle EXCEPT !.pc = "promoteAll", !.then = "online"])
    /\ nodes' = UpdateCapabilities(nodes, n, caps)
    /\ UNCHANGED <<tasks, leases, index, syncVersion>>

ManualAdvance(t) ==
    /\ Known(tasks, t)
    /\ DependenciesMet(tasks, t)
    /\ Begin("loop", [Idle EXCEPT !.pc = "advance", !.task = t])
    /\ UNCHANGED storeVars

AdvanceReady(p) ==
    /\ At(p, "advance")
    /\ tasks' = SetTaskStatus(tasks, T(p), "ready")
    /\ Goto(p, "online")
    /\ OnlyTasks

\* A claim with an empty id, for which create raises at the end, is left out.
ClaimTask(t, n) ==
    /\ tasks[t].status = "ready"
    /\ Len(leases) < MaxLeases
    /\ Begin("loop", [Idle EXCEPT !.pc = "claimHolder", !.task = t, !.node = n])
    /\ UNCHANGED storeVars

\* Fault: the assignee is not looked at.
ClaimHolderUnread(p) ==
    /\ At(p, "claimHolder")
    /\ Goto(p, "claimRun")
    /\ UNCHANGED storeVars

ClaimHolder(p) ==
    /\ At(p, "claimHolder")
    /\ IF tasks[T(p)].node = None THEN Goto(p, "claimRun") ELSE Finish(p)
    /\ UNCHANGED storeVars

\* Fault: the assignment is skipped.
ClaimRunOnly(p) ==
    /\ At(p, "claimRun")
    /\ tasks' = SetTaskStatus(tasks, T(p), "running")
    /\ Goto(p, "claimLease")
    /\ OnlyTasks

ClaimRun(p) ==
    /\ At(p, "claimRun")
    /\ tasks' = SetTaskStatus(tasks, T(p), "running")
    /\ Goto(p, "claimAssign")
    /\ OnlyTasks

ClaimAssign(p) ==
    /\ At(p, "claimAssign")
    /\ tasks' = SetAssignee(tasks, T(p), thread[p].node)
    /\ Goto(p, "claimLease")
    /\ OnlyTasks

ClaimLease(p) ==
    /\ At(p, "claimLease")
    /\ leases' = CreateLease(leases, T(p), thread[p].node)
    /\ index' = [index EXCEPT ![T(p)] = Len(leases) + 1]
    /\ Finish(p)
    /\ OnlyLeases

\* Fault: the lease outlives the release.
ReleaseTaskKeepingLease(t, n) ==
    /\ Known(tasks, t)
    /\ tasks[t].node = n
    /\ Begin("loop", [Idle EXCEPT !.pc = "release", !.task = t])
    /\ UNCHANGED storeVars

ReleaseTask(t, n) ==
    /\ Known(tasks, t)
    /\ tasks[t].node = n
    /\ Begin("loop", [Idle EXCEPT !.pc = "findLease", !.then = "release", !.task = t])
    /\ UNCHANGED storeVars

CompleteTask(t) ==
    /\ Known(tasks, t)
    /\ Begin("loop", [Idle EXCEPT !.pc = "findLease", !.then = "complete", !.task = t])
    /\ UNCHANGED storeVars

\* Fault: a lease that is missing in the index is not found.
FindLeaseIndexed(p) ==
    /\ At(p, "findLease")
    /\ LET l == LeaseByTaskIndexed(leases, index, T(p))
       IN thread' = [thread EXCEPT
              ![p].pc = IF l = 0 THEN thread[p].then ELSE "revokeFound", ![p].lease = l]
    /\ UNCHANGED storeVars

\* get_by_task, then revoke.
FindLease(p) ==
    /\ At(p, "findLease")
    /\ LET l == LeaseByTask(leases, index, T(p))
       IN thread' = [thread EXCEPT
              ![p].pc = IF l = 0 THEN thread[p].then ELSE "revokeFound", ![p].lease = l]
    /\ UNCHANGED storeVars

RevokeFound(p) ==
    /\ At(p, "revokeFound")
    /\ Api!Revoke({thread[p].lease})
    /\ Goto(p, thread[p].then)
    /\ OnlyLeases

ReleaseReady(p) ==
    /\ At(p, "release")
    /\ tasks' = SetTaskStatus(tasks, T(p), "ready")
    /\ Goto(p, "releaseHolder")
    /\ OnlyTasks

ReleaseHolder(p) ==
    /\ At(p, "releaseHolder")
    /\ tasks' = SetAssignee(tasks, T(p), None)
    /\ Finish(p)
    /\ OnlyTasks

CompleteMark(p) ==
    /\ At(p, "complete")
    /\ tasks' = SetTaskStatus(tasks, T(p), "completed")
    /\ thread' = [thread EXCEPT ![p].pc = "dependents", ![p].then = "online"]
    /\ OnlyTasks

FailTask(t) ==
    /\ Known(tasks, t)
    /\ Begin("loop", [Idle EXCEPT !.pc = "dependents", !.mark = "blocked", !.task = t])
    /\ tasks' = SetTaskStatus(tasks, t, "failed")
    /\ OnlyTasks

ListDependents(p) ==
    /\ At(p, "dependents")
    /\ thread' = [thread EXCEPT ![p].pc = "visit", ![p].waiting = Dependents(tasks, T(p))]
    /\ UNCHANGED storeVars

\* Fault: every pending dependent is marked.
VisitUnchecked(p) ==
    /\ At(p, "visit")
    /\ \E d \in thread[p].waiting :
          thread' = [thread EXCEPT
              ![p].waiting = @ \ {d}, ![p].dep = d,
              ![p].pc = IF tasks[d].status = "pending" THEN "mark" ELSE "visit"]
    /\ UNCHANGED storeVars

\* One dependent: a pending one is blocked, or promoted when all that it depends
\* on is completed ...
Visit(p) ==
    /\ At(p, "visit")
    /\ \E d \in thread[p].waiting :
          thread' = [thread EXCEPT
              ![p].waiting = @ \ {d}, ![p].dep = d,
              ![p].unread = IF thread[p].mark = "ready" THEN tasks[d].deps ELSE {},
              ![p].pc = IF tasks[d].status = "pending" THEN "read" ELSE "visit"]
    /\ UNCHANGED storeVars

\* ... which is read task by task, up to the first that is not.
ReadDependency(p) ==
    /\ At(p, "read")
    /\ \E d \in thread[p].unread :
          thread' = [thread EXCEPT
              ![p].unread = @ \ {d},
              ![p].pc = IF tasks[d].status = "completed" THEN "read" ELSE "visit"]
    /\ UNCHANGED storeVars

AllRead(p) ==
    /\ At(p, "read")
    /\ thread[p].unread = {}
    /\ Goto(p, "mark")
    /\ UNCHANGED storeVars

\* Fault: the wrong field is written to the task.
MarkDependentWrongly(p) ==
    /\ At(p, "mark")
    /\ tasks' = SetTaskStatus(tasks, thread[p].dep, thread[p].then)
    /\ Goto(p, "visit")
    /\ OnlyTasks

MarkDependent(p) ==
    /\ At(p, "mark")
    /\ tasks' = SetTaskStatus(tasks, thread[p].dep, thread[p].mark)
    /\ Goto(p, "visit")
    /\ OnlyTasks

Visited(p) ==
    /\ At(p, "visit")
    /\ thread[p].waiting = {}
    /\ IF thread[p].then = "online" THEN Goto(p, "online") ELSE Finish(p)
    /\ UNCHANGED storeVars

-----------------------------------------------------------------------------
(* Recovery, on either thread: POST /recovery/trigger and                  *)
(* /recovery/detect-expired on the loop, the periodic scan on the other.   *)

TriggerRecovery(n) ==
    /\ Begin("loop", [Idle EXCEPT !.pc = "snapshot", !.targets = {n}])
    /\ UNCHANGED storeVars

DetectExpired(p) ==
    /\ p = "auto" => AutoRecovery
    /\ Begin(p, [Idle EXCEPT !.pc = "listExpired"])
    /\ leases' = ExpireDue(leases)
    /\ UNCHANGED <<tasks, nodes, index, syncVersion>>

\* What remains of the run once the freed leases are F and the nodes N.
Continue(p, F, N) ==
    thread' = [thread EXCEPT ![p] =
        IF F = {} /\ N = {} THEN Idle
        ELSE [Idle EXCEPT !.pc = IF F = {} THEN "snapshot" ELSE "unassign",
                          !.freed = F, !.targets = N]]

ListExpired(p) ==
    /\ At(p, "listExpired")
    /\ Continue(p, {}, ExpiredNodes(leases))
    /\ UNCHANGED storeVars

\* Fault: whatever is overdue becomes expired, revoked leases included.
SnapshotAllDue(p) ==
    /\ At(p, "snapshot")
    /\ leases' = ExpireAllDue(leases)
    /\ Continue(p, {}, {})
    /\ UNCHANGED <<tasks, nodes, index, syncVersion>>

\* revoke_all_for_node lists the active leases once.
SnapshotLeases(p) ==
    /\ At(p, "snapshot")
    /\ leases' = ExpireDue(leases)
    /\ \E n \in thread[p].targets :
          LET N == thread[p].targets \ {n}
              held == {l \in ActiveLeases(leases') : leases[l].node = n}
          IN IF held = {} THEN Continue(p, {}, N)
             ELSE thread' = [thread EXCEPT ![p].pc = "revoke",
                                           ![p].left = held, ![p].targets = N]
    /\ UNCHANGED <<tasks, nodes, index, syncVersion>>

RevokeNext(p) ==
    /\ At(p, "revoke")
    /\ LET l == Oldest(thread[p].left)
       IN /\ Api!Revoke({l})
          /\ thread' = [thread EXCEPT
                 ![p].left = @ \ {l}, ![p].freed = @ \cup {l},
                 ![p].pc = IF thread[p].left = {l} THEN "unassign" ELSE "revoke"]
    /\ OnlyLeases

\* The task the Rescheduler is at.
Orphan(p) == leases[Oldest(thread[p].freed)].task

NextOrphan(p) ==
    Continue(p, thread[p].freed \ {Oldest(thread[p].freed)}, thread[p].targets)

Unassign(p) ==
    /\ At(p, "unassign")
    /\ tasks' = UnassignTask(tasks, Orphan(p))
    /\ thread' = [thread EXCEPT ![p].pc = "online", ![p].then = "verify"]
    /\ OnlyTasks

Verify(p) ==
    /\ At(p, "verify")
    /\ IF tasks[Orphan(p)].node # None THEN NextOrphan(p) ELSE Goto(p, "markFailed")
    /\ UNCHANGED storeVars

MarkFailed(p) ==
    /\ At(p, "markFailed")
    /\ tasks' = SetTaskStatus(tasks, Orphan(p), "failed")
    /\ NextOrphan(p)
    /\ OnlyTasks

-----------------------------------------------------------------------------
Init ==
    /\ StoreInit
    /\ thread = [p \in Threads |-> Idle]

\* A request arrives while the loop is free.
Request ==
    \/ \E t \in Tasks, req \in CapSets : SubmitTask(t, req)
    \/ ScheduleTrigger
    \/ \E n \in Nodes, caps \in CapSets : PatchCapabilities(n, caps)
    \/ \E t \in Tasks : ManualAdvance(t)
    \/ \E t \in Tasks, n \in Nodes : ClaimTask(t, n)
    \/ \E t \in Tasks, n \in Nodes : ReleaseTask(t, n)
    \/ \E t \in Tasks : CompleteTask(t)
    \/ \E t \in Tasks : FailTask(t)
    \/ \E n \in Nodes : TriggerRecovery(n)
    \/ DetectExpired("loop")

\* Requests of a single critical section.
ShortRequest ==
    /\ Free("loop")
    /\ \/ \E t \in Tasks, D \in DepSets : Api!SetTaskDependencies(t, D)
       \/ \E t \in Tasks : Api!UnblockTask(t)
       \/ \E n \in Nodes, caps \in CapSets : Api!JoinNode(n, caps)
       \/ \E n \in Nodes : Api!Heartbeat(n)
       \/ \E l \in LeaseIds : Api!DeleteLease(l)
       \/ Api!SyncNext
    /\ UNCHANGED thread

\* The scanner, the watchdog and the clock.
Background ==
    /\ \/ Api!ScanLeases
       \/ \E n \in Nodes, s \in NodeStatus : Api!WatchdogCheck(n, s)
       \/ \E l \in LeaseIds : Api!LeaseFallsDue(l)
    /\ UNCHANGED thread

Handle(p) ==
    \/ PromoteAll(p) \/ AdvanceReady(p)
    \/ ClaimHolder(p) \/ ClaimRun(p) \/ ClaimAssign(p) \/ ClaimLease(p)
    \/ FindLease(p) \/ RevokeFound(p) \/ ReleaseReady(p) \/ ReleaseHolder(p)
    \/ CompleteMark(p) \/ ListDependents(p)
    \/ Visit(p) \/ ReadDependency(p) \/ AllRead(p) \/ MarkDependent(p) \/ Visited(p)

RecoveryStep(p) ==
    \/ ReadOnline(p) \/ AssignReady(p)
    \/ ListExpired(p) \/ SnapshotLeases(p) \/ RevokeNext(p)
    \/ Unassign(p) \/ Verify(p) \/ MarkFailed(p)

Step(p) == Handle(p) \/ RecoveryStep(p)

Next ==
    \/ Request \/ ShortRequest \/ Background
    \/ Step("loop")
    \/ DetectExpired("auto") \/ RecoveryStep("auto")

Spec == Init /\ [][Next]_vars

\* A thread in the middle of something goes on.
FairSpec == Spec /\ WF_vars(Step("loop")) /\ WF_vars(RecoveryStep("auto"))

-----------------------------------------------------------------------------
(* Properties.                                                             *)

\* The store keeps its types, and a thread in the middle of a recovery only
\* ever points at leases that exist.
TypeOK ==
    /\ StoreTypeOK
    /\ \A p \in Threads :
          /\ thread[p].task \in Tasks \cup {None} /\ thread[p].node \in Nodes \cup {None}
          /\ thread[p].left \cup thread[p].freed \subseteq LeaseIds
          /\ thread[p].online \cup thread[p].targets \subseteq Nodes

\* Without the recovery thread the handlers keep what ClusterApi says of them
\* at every critical section, whatever the scanner and the watchdog do in
\* between: one active lease to a task, none on a task without assignee.
AtMostOneLease == Api!AtMostOneLease
UnassignedHoldsNoLease == Api!UnassignedHoldsNoLease

\* Without the recovery thread a pending task that nobody holds is promoted only
\* with all its dependencies completed, though they are read without a lock and
\* the promotion is a critical section of its own.
PromotedInOrder == [][Api!PromotionStep]_vars

\* Between two requests and recoveries every running task has an assignee.
Quiet == \A p \in Threads : Free(p)
RunningHasHolder == Quiet => Api!RunningHasHolder

\* A completed task has no active lease once its handler is through, also
\* when the scanner expired the lease between its lookup and its revocation.
CompletedHoldsNoLease == Quiet => Api!CompletedHoldsNoLease

\* Every critical section is a step of the ownership specification.
ImplementsOwnership == Api!ImplementsOwnership

\* With recovery on two threads at once: no interleaving brings a lease back or
\* hands it to another task or node.
LeaseLifecycle == [][Api!LeaseStep]_vars

\* However handlers interfere, a recovery run works off the leases it revoked.
RecoveryEnds == \A p \in Threads : thread[p].freed # {} ~> Free(p)

-----------------------------------------------------------------------------
(* What the documents say and the code does not do.                        *)

\* rescheduler.py: concurrent reschedule calls do not interfere, so a task is
\* given up as failed only while it has no node.
OnlyUnplacedFail ==
    [][\A p \in Threads :
         At(p, "markFailed") /\ thread'[p] # thread[p]
         => tasks[Orphan(p)].node = None]_vars
=============================================================================
