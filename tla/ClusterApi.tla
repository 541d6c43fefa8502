----------------------------- MODULE ClusterApi -----------------------------
(***************************************************************************)
(* The deployed app (app.py, create_app) at the granularity of requests:   *)
(* every endpoint that changes tasks, nodes or leases, the watchdog, the   *)
(* lease scanner and the auto-recovery loop, each as one step.             *)
(*                                                                         *)
(* The endpoints are coroutines without an await, so the event loop never  *)
(* interleaves two of them; that the background threads do interleave with *)
(* them is the subject of ClusterThreads.                                  *)
(***************************************************************************)
EXTENDS ClusterState

-----------------------------------------------------------------------------
(* Tasks: routers/tasks.py.                                                *)

SubmitTask(t, req) ==
    /\ ~Known(tasks, t)
    /\ tasks' = TriggerPendingTasks(CreateTask(tasks, t, req))
    /\ UNCHANGED <<nodes, leases, index, syncVersion>>

SetTaskDependencies(t, D) ==
    /\ Known(tasks, t)
    /\ tasks' = SetDependencies(tasks, t, D)
    /\ UNCHANGED <<nodes, leases, index, syncVersion>>

\* The lease the handlers revoke: at most one, found through the index.
FoundLease(t) ==
    LET l == LeaseByTask(leases, index, t) IN IF l = 0 THEN {} ELSE {l}

Revoke(R) ==
    /\ leases' = RevokeLeases(leases, R)
    /\ index' = DropIndex(index, leases, R)

TriggerDownstream(ts, t) == SchedulePending(Promote(ts, Dependents(ts, t)), nodes)

\* Any known task can be completed, by anyone, in any status.
CompleteTask(t) ==
    /\ Known(tasks, t)
    /\ Revoke(FoundLease(t))
    /\ tasks' = TriggerDownstream(SetTaskStatus(tasks, t, "completed"), t)
    /\ UNCHANGED <<nodes, syncVersion>>

\* A failed task keeps its assignee and its lease; only the tasks that
\* depend on it directly and are still pending become blocked.
FailTask(t) ==
    /\ Known(tasks, t)
    /\ LET failed == SetTaskStatus(tasks, t, "failed")
           block == {d \in Dependents(failed, t) : failed[d].status = "pending"}
       IN tasks' = [d \in Tasks |-> IF d \in block
                                    THEN [failed[d] EXCEPT !.status = "blocked"]
                                    ELSE failed[d]]
    /\ UNCHANGED <<nodes, leases, index, syncVersion>>

UnblockTask(t) ==
    /\ tasks[t].status = "blocked"
    /\ tasks' = SetTaskStatus(tasks, t, "pending")
    /\ UNCHANGED <<nodes, leases, index, syncVersion>>

\* From any status, and without clearing the assignee.
ManualAdvance(t) ==
    /\ Known(tasks, t)
    /\ DependenciesMet(tasks, t)
    /\ tasks' = SchedulePending(SetTaskStatus(tasks, t, "ready"), nodes)
    /\ UNCHANGED <<nodes, leases, index, syncVersion>>

\* Fault: only the status is checked.
ClaimTaskHeld(t, n) ==
    /\ tasks[t].status = "ready"
    /\ Len(leases) < MaxLeases
    /\ tasks' = SetAssignee(SetTaskStatus(tasks, t, "running"), t, n)
    /\ leases' = CreateLease(leases, t, n)
    /\ index' = [index EXCEPT ![t] = Len(leases) + 1]
    /\ UNCHANGED <<nodes, syncVersion>>

\* Fault: a claim takes a held task over, the old lease revoked on the way.
ClaimTaskOver(t, n) ==
    /\ tasks[t].status = "ready"
    /\ Len(leases) < MaxLeases
    /\ tasks' = SetAssignee(SetTaskStatus(tasks, t, "running"), t, n)
    /\ leases' = CreateLease(RevokeLeases(leases, FoundLease(t)), t, n)
    /\ index' = [index EXCEPT ![t] = Len(leases) + 1]
    /\ UNCHANGED <<nodes, syncVersion>>

\* Fault: the index gets the position before the new lease.
ClaimTaskMisindexed(t, n) ==
    /\ tasks[t].status = "ready"
    /\ tasks[t].node = None
    /\ Len(leases) < MaxLeases
    /\ tasks' = SetAssignee(SetTaskStatus(tasks, t, "running"), t, n)
    /\ leases' = CreateLease(leases, t, n)
    /\ index' = [index EXCEPT ![t] = Len(leases)]
    /\ UNCHANGED <<nodes, syncVersion>>

\* The claiming node need not be registered.  Its id is not empty: with an empty
\* one create would raise after the task has been set to run.
ClaimTask(t, n) ==
    /\ tasks[t].status = "ready"
    /\ tasks[t].node = None
    /\ Len(leases) < MaxLeases
    /\ tasks' = SetAssignee(SetTaskStatus(tasks, t, "running"), t, n)
    /\ leases' = CreateLease(leases, t, n)
    /\ index' = [index EXCEPT ![t] = Len(leases) + 1]
    /\ UNCHANGED <<nodes, syncVersion>>

\* Fault: the lease outlives the release.
ReleaseTaskKeepingLease(t, n) ==
    /\ Known(tasks, t)
    /\ tasks[t].node = n
    /\ tasks' = UnassignTask(tasks, t)
    /\ UNCHANGED <<nodes, leases, index, syncVersion>>

\* Only the assignee is checked, never the status.
ReleaseTask(t, n) ==
    /\ Known(tasks, t)
    /\ tasks[t].node = n
    /\ Revoke(FoundLease(t))
    /\ tasks' = SetAssignee(SetTaskStatus(tasks, t, "ready"), t, None)
    /\ UNCHANGED <<nodes, syncVersion>>

ScheduleTrigger ==
    /\ tasks' = SchedulePending(TriggerPendingTasks(tasks), nodes)
    /\ UNCHANGED <<nodes, leases, index, syncVersion>>

-----------------------------------------------------------------------------
(* Nodes: routers/nodes.py, NodeManager and its watchdog.  The staleness   *)
(* of a heartbeat is left to chance here.                                  *)

JoinNode(n, caps) ==
    /\ nodes' = IF ~Registered(nodes, n) THEN RegisterNode(nodes, n, caps)
                ELSE IF caps = {} THEN UpdateHeartbeat(nodes, n)
                ELSE UpdateCapabilities(UpdateHeartbeat(nodes, n), n, caps)
    /\ UNCHANGED <<tasks, leases, index, syncVersion>>

Heartbeat(n) ==
    /\ Registered(nodes, n)
    /\ nodes' = UpdateHeartbeat(nodes, n)
    /\ UNCHANGED <<tasks, leases, index, syncVersion>>

PatchCapabilities(n, caps) ==
    /\ Registered(nodes, n)
    /\ nodes' = UpdateCapabilities(nodes, n, caps)
    /\ tasks' = SchedulePending(TriggerPendingTasks(tasks), nodes')
    /\ UNCHANGED <<leases, index, syncVersion>>

WatchdogCheck(n, s) ==
    /\ Registered(nodes, n)
    /\ nodes' = SetNodeStatus(nodes, n, s)
    /\ UNCHANGED <<tasks, leases, index, syncVersion>>

-----------------------------------------------------------------------------
(* Leases: routers/leases.py and LeaseManager.                             *)

\* The clock passes expires_at.
LeaseFallsDue(l) ==
    /\ l \in ActiveLeases(leases)
    /\ leases' = [leases EXCEPT ![l].ttl = "over"]
    /\ UNCHANGED <<tasks, nodes, index, syncVersion>>

\* The scanner, and every listing of the active leases.
ScanLeases ==
    /\ leases' = ExpireDue(leases)
    /\ UNCHANGED <<tasks, nodes, index, syncVersion>>

\* POST /leases never looks for a lease of the task, or for the task.
PostLease(t, n) ==
    /\ Len(leases) < MaxLeases
    /\ leases' = CreateLease(leases, t, n)
    /\ index' = [index EXCEPT ![t] = Len(leases) + 1]
    /\ UNCHANGED <<tasks, nodes, syncVersion>>

DeleteLease(l) ==
    /\ l \in LeaseIds
    /\ Revoke({l})
    /\ UNCHANGED <<tasks, nodes, syncVersion>>

-----------------------------------------------------------------------------
(* Recovery: RecoveryManager, Revoker and Rescheduler.                     *)

\* The tasks in S, all of which exist, are unassigned and rescheduled one by
\* one.  The scheduler treats every task alone and the nodes do not change,
\* so the outcome is that of unassigning them all, scheduling once, and
\* failing those left without a node.
RescheduleOrphaned(ts, S) ==
    LET freed == [t \in Tasks |-> IF t \in S
                     THEN [ts[t] EXCEPT !.status = "ready", !.node = None] ELSE ts[t]]
        placed == SchedulePending(freed, nodes)
    IN [t \in Tasks |-> IF t \in S /\ placed[t].status = "ready"
                        THEN [placed[t] EXCEPT !.status = "failed"] ELSE placed[t]]

\* The pipeline for the nodes in N.  Leases found overdue on the way only
\* expire; the active leases of N are revoked and their tasks rescheduled.
Recover(N) ==
    LET scanned == ExpireDue(leases)
        revoked == {l \in ActiveLeases(scanned) : scanned[l].node \in N}
        orphans == {t \in Tasks : Known(tasks, t)
                                  /\ \E l \in revoked : scanned[l].task = t}
    IN /\ leases' = RevokeLeases(scanned, revoked)
       /\ index' = DropIndex(index, scanned, revoked)
       /\ tasks' = IF orphans = {} THEN tasks ELSE RescheduleOrphaned(tasks, orphans)
       /\ UNCHANGED <<nodes, syncVersion>>

TriggerRecovery(n) == Recover({n})

\* Nodes with any expired lease on record, however old: expired leases are
\* never removed.
DetectExpired == Recover(ExpiredNodes(ExpireDue(leases)))

-----------------------------------------------------------------------------
(* Sync: routers/sync.py.  A batch is a run of single messages.            *)

SyncStatus == TaskStatus \cup {"unknown"}

\* Fault: a received None clears the local assignee.
ApplyTaskStateClearing(ts, t, s, n) ==
    [ts EXCEPT ![t].status = IF s \in TaskStatus THEN s ELSE "pending", ![t].node = n]

\* Fault: the received status is stored as it came.
ApplyTaskStateUnchecked(ts, t, s, n) ==
    [ts EXCEPT ![t].status = s, ![t].node = IF n = None THEN @ ELSE n]

\* A received assignee of None never clears the local one.
ApplyTaskState(ts, t, s, n) ==
    IF Known(ts, t)
    THEN [ts EXCEPT ![t].status = IF s \in TaskStatus THEN s ELSE @,
                    ![t].node = IF n = None THEN @ ELSE n]
    ELSE [ts EXCEPT ![t] = [status |-> IF s \in TaskStatus THEN s ELSE "pending",
                            node |-> n, deps |-> {}, requires |-> {}]]

\* Any version above the local one is accepted and the rest are ignored.
SyncReceive(v, t, s, n) ==
    /\ v > syncVersion
    /\ syncVersion' = v
    /\ tasks' = ApplyTaskState(tasks, t, s, n)
    /\ UNCHANGED <<nodes, leases, index>>

\* A message without a task state only advances the version.
SyncVersionOnly(v) ==
    /\ v > syncVersion
    /\ syncVersion' = v
    /\ UNCHANGED <<tasks, nodes, leases, index>>

-----------------------------------------------------------------------------
Init == StoreInit

TaskNext ==
    \/ \E t \in Tasks, req \in CapSets : SubmitTask(t, req)
    \/ \E t \in Tasks, D \in DepSets : SetTaskDependencies(t, D)
    \/ \E t \in Tasks : CompleteTask(t)
    \/ \E t \in Tasks : FailTask(t)
    \/ \E t \in Tasks : UnblockTask(t)
    \/ \E t \in Tasks : ManualAdvance(t)
    \/ \E t \in Tasks, n \in Nodes : ClaimTask(t, n)
    \/ \E t \in Tasks, n \in Nodes : ReleaseTask(t, n)
    \/ ScheduleTrigger

NodeNext ==
    \/ \E n \in Nodes, caps \in CapSets : JoinNode(n, caps)
    \/ \E n \in Nodes : Heartbeat(n)
    \/ \E n \in Nodes, caps \in CapSets : PatchCapabilities(n, caps)
    \/ \E n \in Nodes, s \in NodeStatus : WatchdogCheck(n, s)

LeaseNext ==
    \/ \E l \in LeaseIds : LeaseFallsDue(l)
    \/ ScanLeases
    \/ \E l \in LeaseIds : DeleteLease(l)

RecoveryNext ==
    \/ \E n \in Nodes : TriggerRecovery(n)
    \/ DetectExpired

SyncNext ==
    \/ \E v \in 1..MaxSync, t \in Tasks, s \in SyncStatus, n \in Nodes \cup {None} :
          SyncReceive(v, t, s, n)
    \/ \E v \in 1..MaxSync : SyncVersionOnly(v)

LeaseApiNext == \E t \in Tasks, n \in Nodes : PostLease(t, n)

\* A cluster of its own: no peer sends task states, no operator posts leases.
LocalNext == TaskNext \/ NodeNext \/ LeaseNext \/ RecoveryNext
\* The same cluster with peers.
PeerNext == LocalNext \/ SyncNext
\* All of the API.
Next == PeerNext \/ LeaseApiNext

LocalSpec == Init /\ [][LocalNext]_storeVars
PeerSpec == Init /\ [][PeerNext]_storeVars
Spec == Init /\ [][Next]_storeVars

\* The two background loops run for ever.
FairLocalSpec ==
    LocalSpec /\ WF_storeVars(ScanLeases) /\ WF_storeVars(DetectExpired)

-----------------------------------------------------------------------------
(* Properties.                                                             *)

\* The tables hold what the models of models/__init__.py allow.
TypeOK == StoreTypeOK

\* The index never leads to the lease of another task, whichever of several
\* leases of the task were revoked, expired or deleted in between.
IndexNamesTask ==
    \A t \in Tasks : index[t] # 0
        => index[t] \in LeaseIds /\ leases[index[t]].task = t

\* At most one active lease names a task (SPEC.md 8.1).  Nothing in the store
\* enforces it: create_lease adds a lease without a look at the others, so it
\* rests on every handler that frees a task having revoked its lease first.
AtMostOneLease ==
    \A l, m \in ActiveLeases(leases) : leases[l].task = leases[m].task => l = m

\* A task that can be claimed again (no assignee) has no active lease left,
\* whatever the order of releases, recoveries, scans and messages of peers.
UnassignedHoldsNoLease ==
    \A l \in ActiveLeases(leases) : tasks[leases[l].task].node # None

\* Completing a task frees its node: no completed task keeps an active lease,
\* also when the index has lost the entry and the table must be scanned.
CompletedHoldsNoLease ==
    \A l \in ActiveLeases(leases) : tasks[leases[l].task].status # "completed"

\* A running task always names the node it runs on, through claims,
\* releases, reschedules and recoveries.
RunningHasHolder ==
    \A t \in Tasks : tasks[t].status = "running" => tasks[t].node \in Nodes

\* A lease never comes back: once expired or revoked it is not active again,
\* a revoked one stays revoked, and it names the same task and node for ever.
LeaseStep ==
    \A l \in DOMAIN leases :
        /\ l \in DOMAIN leases'
        /\ leases'[l].task = leases[l].task
        /\ leases'[l].node = leases[l].node
        /\ leases'[l].status = "active" => leases[l].status = "active"
        /\ leases[l].status = "revoked" => leases'[l].status = "revoked"
LeaseLifecycle == [][LeaseStep]_storeVars

\* Outside of sync a pending task that nobody holds leaves for ready or running
\* only when all its dependencies are completed, also when several tasks are
\* promoted at once.  (One that a peer's message sent back to pending with its
\* assignee can still be released or recovered to ready.)
PromotionStep ==
    \A t \in Tasks :
        (/\ syncVersion' = syncVersion
         /\ tasks[t].status = "pending" /\ tasks[t].node = None
         /\ tasks'[t].status \in {"ready", "running"})
        => \A d \in tasks[t].deps : tasks'[d].status = "completed"

\* The holder of a task is the node of its active lease; with that reading
\* the app implements TaskOwnership.
HolderIn(ls, t) ==
    IF LeasesOf(ls, t) = {} THEN None
    ELSE ls[CHOOSE l \in LeasesOf(ls, t) : TRUE].node

heldBy == [t \in Tasks |-> HolderIn(leases, t)]

Ownership == INSTANCE TaskOwnership WITH holder <- heldBy

ImplementsOwnership == Ownership!Spec

\* The part of the state that AtMostOneLease and UnassignedHoldsNoLease need
\* to be inductive: the handlers look a lease up through the index, and a
\* task created later must not find a lease waiting for it.
AbsentUnassigned == \A t \in Tasks : ~Known(tasks, t) => tasks[t].node = None
LeaseInv ==
    TypeOK /\ IndexNamesTask /\ AbsentUnassigned
    /\ AtMostOneLease /\ UnassignedHoldsNoLease

-----------------------------------------------------------------------------
(* What the documents say and the code does not do.                        *)

\* SPEC.md 12.1: a task whose lease has expired returns to READY, so it does
\* not run on under the node that lost it.
AbandonedBy(l) ==
    /\ l \in LeaseIds
    /\ leases[l].status = "expired"
    /\ tasks[leases[l].task].status = "running"
    /\ tasks[leases[l].task].node = leases[l].node
ExpiredTaskRecovered == \A l \in 1..MaxLeases : AbandonedBy(l) ~> ~AbandonedBy(l)
=============================================================================
