---------------------------- MODULE SqliteStore -----------------------------
(***************************************************************************)
(* The tables of the persistent store (state/cluster_store.py) and its     *)
(* statements, as operators from the old value of a table to the new one.  *)
(* Reads return copies.  A write runs in a transaction under the store's   *)
(* lock; which writes share a transaction is up to the modules that use    *)
(* these operators.                                                        *)
(*                                                                         *)
(* UPDATE of a row that is not there changes nothing, and a row once       *)
(* deleted is not there.  Titles, priorities, versions, fail reasons and   *)
(* the logs are left out.                                                  *)
(***************************************************************************)
EXTENDS Naturals, Sequences

CONSTANTS Tasks, Nodes, Caps, None

ASSUME NoneAssumption == None \notin Nodes

TaskStatus == {"pending", "ready", "assigned", "running",
               "completed", "failed", "blocked"}
Gone == {"absent", "deleted"}   \* an id not generated yet; a row deleted

Task == [status: TaskStatus \cup Gone, node: Nodes \cup {None},
         deps: SUBSET Tasks, requires: SUBSET Caps]
Node == [status: {"absent", "online", "degraded", "offline"}, caps: SUBSET Caps]
\* due: expires_at has passed; of interest while the lease is active.
Lease == [task: Tasks, node: Nodes, due: BOOLEAN,
          status: {"active", "revoked", "expired", "deleted"}]

NoTask == [status |-> "absent", node |-> None, deps |-> {}, requires |-> {}]
NoNode == [status |-> "absent", caps |-> {}]

Exists(ts, t) == ts[t].status \notin Gone

-----------------------------------------------------------------------------
(* Tasks.                                                                  *)

\* The row is inserted pending and made ready in a second transaction; nothing
\* that happens in between can tell.
CreateTask(ts, t, req) ==
    [ts EXCEPT ![t] = [NoTask EXCEPT !.status = "ready", !.requires = req]]

\* Fault: a row that is not there is put there.
SetTaskStatusUpserting(ts, t, s) == [ts EXCEPT ![t].status = s]

SetTaskStatus(ts, t, s) ==
    IF Exists(ts, t) THEN [ts EXCEPT ![t].status = s] ELSE ts

SetAssignee(ts, t, n) ==
    IF Exists(ts, t) THEN [ts EXCEPT ![t].node = n] ELSE ts

SetRequires(ts, t, req) ==
    IF Exists(ts, t) THEN [ts EXCEPT ![t].requires = req] ELSE ts

\* A ready task with dependencies waits for them again.
SetDependencies(ts, t, D) ==
    IF ~Exists(ts, t) THEN ts
    ELSE [ts EXCEPT ![t].deps = D,
                    ![t].status = IF D # {} /\ @ = "ready" THEN "pending" ELSE @]

Dependents(ts, t) == {d \in Tasks : Exists(ts, d) /\ t \in ts[d].deps}

\* Fault: a dependency that is not in the table is taken for completed.
DependenciesMetIfKnown(ts, t) ==
    \A d \in ts[t].deps : Exists(ts, d) => ts[d].status = "completed"

DependenciesMet(ts, t) == \A d \in ts[t].deps : ts[d].status = "completed"

\* Only completed tasks decide and only pending ones change: the order of the
\* rows does not matter.
TriggerPendingTasks(ts) ==
    [t \in Tasks |-> IF ts[t].status = "pending" /\ DependenciesMet(ts, t)
                     THEN [ts[t] EXCEPT !.status = "ready"] ELSE ts[t]]

DeleteTasks(ts, T) ==
    [t \in Tasks |-> IF t \in T THEN [NoTask EXCEPT !.status = "deleted"] ELSE ts[t]]

-----------------------------------------------------------------------------
(* Nodes.  before holds the pairs <<m, n>> where the row of m is found      *)
(* before that of n.                                                       *)

Capable(ns, n, task) == task.requires \subseteq ns[n].caps

Eligible(ns, task) == {n \in Nodes : ns[n].status = "online" /\ Capable(ns, n, task)}

FirstEligible(ns, before, task) ==
    {n \in Eligible(ns, task) :
        \A m \in Eligible(ns, task) \ {n} : <<n, m>> \in before}

\* Every ready task starts on its first eligible node, whatever runs there.
SchedulePending(ts, ns, before) ==
    [t \in Tasks |->
        IF ts[t].status = "ready" /\ FirstEligible(ns, before, ts[t]) # {}
        THEN [ts[t] EXCEPT !.status = "running",
                           !.node = CHOOSE n \in FirstEligible(ns, before, ts[t]) : TRUE]
        ELSE ts[t]]

RegisterNode(ns, n, caps) == [ns EXCEPT ![n] = [status |-> "online", caps |-> caps]]

\* INSERT OR REPLACE: the row of a node that joins again moves to the end.
RegisterRow(ns, before, n) ==
    {p \in before : p[1] # n}
    \cup {<<m, n>> : m \in {k \in Nodes \ {n} : ns[k].status # "absent"}}

-----------------------------------------------------------------------------
(* Leases, in the order of their creation.                                 *)

CreateLease(ls, t, n) ==
    Append(ls, [task |-> t, node |-> n, due |-> FALSE, status |-> "active"])

SetLeases(ls, R, s) ==
    [l \in DOMAIN ls |-> IF l \in R /\ ls[l].status # "deleted"
                         THEN [ls[l] EXCEPT !.status = s, !.due = FALSE] ELSE ls[l]]

RevokeLease(ls, l) == SetLeases(ls, {l}, "revoked")
ExpireLeases(ls, R) == SetLeases(ls, R, "expired")
DeleteLeases(ls, T) == SetLeases(ls, {l \in DOMAIN ls : ls[l].task \in T}, "deleted")

Active(ls) == {l \in DOMAIN ls : ls[l].status = "active"}
Overdue(ls) == {l \in Active(ls) : ls[l].due}
InTime(ls) == Active(ls) \ Overdue(ls)
=============================================================================
