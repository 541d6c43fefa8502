---------------------------- MODULE ClusterState ----------------------------
(***************************************************************************)
(* The in-memory store of the deployed app (state/__init__.py, class       *)
(* ClusterState): tasks, nodes, leases and the sync version, with one      *)
(* operator per store method.  A method that changes the store is an       *)
(* operator from the old value of a table to the new one, so that a        *)
(* handler calling several methods is their composition.                   *)
(*                                                                         *)
(* Titles, priorities, timestamps, task versions and fail reasons are left *)
(* out: no method decides anything by them except the order of decisions   *)
(* in the scheduling log (a node takes any number of tasks).               *)
(***************************************************************************)
EXTENDS Naturals, Sequences, FiniteSets

CONSTANTS
    Tasks,       \* the task ids that may be generated or received
    Nodes,       \* the node ids that may join, claim or be named in a lease
    Caps,        \* capability names
    CapSets,     \* the lists of capabilities that requests carry
    DepSets,     \* the lists of dependencies that requests carry
    None,        \* Python's None in assigned_to
    MaxLeases,   \* bound: leases ever created
    MaxSync      \* bound: the largest version of a sync message

ASSUME NoneAssumption == None \notin Nodes
ASSUME FiniteAssumption == IsFiniteSet(Nodes)
ASSUME InputsAssumption == CapSets \subseteq SUBSET Caps /\ DepSets \subseteq SUBSET Tasks
ASSUME BoundsAssumption == MaxLeases \in Nat /\ MaxSync \in Nat

VARIABLES
    tasks,       \* _tasks
    nodes,       \* _nodes
    leases,      \* _leases, in creation order; a lease id is its position
    index,       \* _task_lease_index; 0 when the task has no entry
    syncVersion  \* _sync_version

storeVars == <<tasks, nodes, leases, index, syncVersion>>

TaskStatus == {"pending", "ready", "assigned", "running",
               "completed", "failed", "blocked"}
NodeStatus == {"online", "degraded", "offline"}
LeaseStatus == {"active", "expired", "revoked"}

Task == [status: TaskStatus \cup {"absent"}, node: Nodes \cup {None},
         deps: SUBSET Tasks, requires: SUBSET Caps]
Node == [status: NodeStatus \cup {"absent"}, caps: SUBSET Caps, seat: Nat]
\* ttl is over once the clock has passed expires_at.
Lease == [task: Tasks, node: Nodes, status: LeaseStatus, ttl: {"left", "over"}]

NoTask == [status |-> "absent", node |-> None, deps |-> {}, requires |-> {}]
NoNode == [status |-> "absent", caps |-> {}, seat |-> 0]

StoreInit ==
    /\ tasks = [t \in Tasks |-> NoTask]
    /\ nodes = [n \in Nodes |-> NoNode]
    /\ leases = <<>>
    /\ index = [t \in Tasks |-> 0]
    /\ syncVersion = 0

Known(ts, t) == ts[t].status # "absent"
Registered(ns, n) == ns[n].status # "absent"

-----------------------------------------------------------------------------
(* The task table.                                                         *)

CreateTask(ts, t, req) ==
    [ts EXCEPT ![t] = [status |-> "pending", node |-> None,
                       deps |-> {}, requires |-> req]]

SetTaskStatus(ts, t, s) == [ts EXCEPT ![t].status = s]

SetAssignee(ts, t, n) == [ts EXCEPT ![t].node = n]

\* unassign_task looks at nothing but the existence of the task.
UnassignTask(ts, t) == [ts EXCEPT ![t].status = "ready", ![t].node = None]

\* set_dependencies does not send a ready task back to pending.
SetDependencies(ts, t, D) == [ts EXCEPT ![t].deps = D]

Dependents(ts, t) == {d \in Tasks : Known(ts, d) /\ t \in ts[d].deps}

DependenciesMet(ts, t) == \A d \in ts[t].deps : ts[d].status = "completed"

Promotable(ts, t) == ts[t].status = "pending" /\ DependenciesMet(ts, t)

\* Promotion looks only at completed tasks and changes only pending ones, so
\* the order of the loop over the table does not matter.
Promote(ts, S) ==
    [t \in Tasks |-> IF t \in S /\ Promotable(ts, t)
                     THEN [ts[t] EXCEPT !.status = "ready"] ELSE ts[t]]

TriggerPendingTasks(ts) == Promote(ts, Tasks)

-----------------------------------------------------------------------------
(* The scheduler.                                                          *)

Eligible(ns, task) ==
    {n \in Nodes : ns[n].status = "online" /\ task.requires \subseteq ns[n].caps}

\* The first eligible node of the dictionary, which keeps the join order.
FirstEligible(ns, task) ==
    {n \in Eligible(ns, task) :
        \A m \in Eligible(ns, task) : ns[n].seat <= ns[m].seat}

Schedulable(ts, ns, t) == ts[t].status = "ready" /\ FirstEligible(ns, ts[t]) # {}

\* Every ready task goes to its first eligible node, whatever that node
\* already runs and whoever the task was assigned to; no lease is created.
SchedulePending(ts, ns) ==
    [t \in Tasks |->
        IF Schedulable(ts, ns, t)
        THEN [ts[t] EXCEPT !.status = "running",
                           !.node = CHOOSE n \in FirstEligible(ns, ts[t]) : TRUE]
        ELSE ts[t]]

-----------------------------------------------------------------------------
(* The node table.                                                         *)

RegisterNode(ns, n, caps) ==
    [ns EXCEPT ![n] = [status |-> "online", caps |-> caps,
                       seat |-> Cardinality({m \in Nodes : Registered(ns, m)})]]

UpdateHeartbeat(ns, n) == [ns EXCEPT ![n].status = "online"]

UpdateCapabilities(ns, n, caps) == [ns EXCEPT ![n].caps = caps]

SetNodeStatus(ns, n, s) == [ns EXCEPT ![n].status = s]

-----------------------------------------------------------------------------
(* The lease table and its index.                                          *)

LeaseIds == DOMAIN leases

ActiveLeases(ls) == {l \in DOMAIN ls : ls[l].status = "active"}

LeasesOf(ls, t) == {l \in ActiveLeases(ls) : ls[l].task = t}

CreateLease(ls, t, n) ==
    Append(ls, [task |-> t, node |-> n, status |-> "active", ttl |-> "left"])

\* revoke_lease overwrites any status.
RevokeLeases(ls, R) ==
    [l \in DOMAIN ls |-> IF l \in R THEN [ls[l] EXCEPT !.status = "revoked"]
                                    ELSE ls[l]]

\* It also drops the task's index entry, even one that names another lease.
DropIndex(ix, ls, R) ==
    [t \in Tasks |-> IF \E l \in R : ls[l].task = t THEN 0 ELSE ix[t]]

\* Fault: whatever is overdue becomes expired, revoked leases included.
ExpireAllDue(ls) ==
    [l \in DOMAIN ls |-> IF ls[l].ttl = "over"
                         THEN [ls[l] EXCEPT !.status = "expired"] ELSE ls[l]]

\* The side effect of get_active_leases.
ExpireDue(ls) ==
    [l \in DOMAIN ls |-> IF ls[l].status = "active" /\ ls[l].ttl = "over"
                         THEN [ls[l] EXCEPT !.status = "expired"] ELSE ls[l]]

\* Fault: no scan of the table when the index has no active lease.
LeaseByTaskIndexed(ls, ix, t) == IF ix[t] \in ActiveLeases(ls) THEN ix[t] ELSE 0

\* get_lease_by_task: the indexed lease if it is active, else the oldest
\* active lease of the task; 0 when there is none.
LeaseByTask(ls, ix, t) ==
    IF ix[t] \in ActiveLeases(ls) THEN ix[t]
    ELSE IF \E l \in LeasesOf(ls, t) : \A m \in LeasesOf(ls, t) : l <= m
         THEN CHOOSE l \in LeasesOf(ls, t) : \A m \in LeasesOf(ls, t) : l <= m
         ELSE 0

ExpiredNodes(ls) ==
    {n \in Nodes : \E l \in DOMAIN ls : ls[l].status = "expired" /\ ls[l].node = n}

-----------------------------------------------------------------------------
StoreTypeOK ==
    /\ tasks \in [Tasks -> Task]
    /\ nodes \in [Nodes -> Node]
    /\ leases \in Seq(Lease)
    /\ index \in [Tasks -> Nat]
    /\ syncVersion \in Nat
=============================================================================
