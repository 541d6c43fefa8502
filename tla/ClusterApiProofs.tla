-------------------------- MODULE ClusterApiProofs --------------------------
(***************************************************************************)
(* Proofs about ClusterApi for every set of tasks, nodes and capabilities  *)
(* and every bound.  Of the whole API: types, the life of a lease, what a  *)
(* scheduling pass leaves behind, and that lookups find what they should.  *)
(* As long as no lease is posted by hand: leases are exclusive, the app    *)
(* implements TaskOwnership, and tasks are promoted in order.  Without     *)
(* peers, too: running tasks have a holder, completed ones no lease.       *)
(***************************************************************************)
EXTENDS ClusterApi, FiniteSetTheorems, TLAPS

-----------------------------------------------------------------------------
(* What the methods of the task table preserve.                            *)

Blank(ts) == \A t \in Tasks : ts[t].status = "absent" => ts[t].node = None

\* A table us got from ts by methods that keep the types, forget no assignee
\* and leave absent tasks unassigned.
Steady(ts, us) ==
    /\ us \in [Tasks -> Task]
    /\ Blank(ts) => Blank(us)
    /\ \A t \in Tasks : ts[t].node # None => us[t].node # None

LEMMA SteadyTrans ==
    ASSUME NEW ts, NEW us, NEW vs, Steady(ts, us), Steady(us, vs)
    PROVE  Steady(ts, vs)
BY DEF Steady

\* Steady, task by task.
LEMMA SteadyPointwise ==
    ASSUME NEW ts, NEW us, us = [t \in Tasks |-> us[t]],
           \A t \in Tasks :
              /\ us[t] \in Task
              /\ us[t].status = "absent" => us[t] = ts[t]
              /\ ts[t].node # None => us[t].node # None
    PROVE  Steady(ts, us)
BY DEF Steady, Blank

\* Creating a task that does not exist: the new record is unassigned, and an
\* absent one was.
LEMMA CreateTaskType ==
    ASSUME NEW ts \in [Tasks -> Task], NEW t \in Tasks, NEW req \in SUBSET Caps
    PROVE  /\ CreateTask(ts, t, req) \in [Tasks -> Task]
           /\ Blank(ts) => Blank(CreateTask(ts, t, req))
           /\ Blank(ts) /\ ~Known(ts, t) => Steady(ts, CreateTask(ts, t, req))
BY DEF CreateTask, Task, TaskStatus, Blank, Steady, Known

LEMMA SetTaskStatusSteady ==
    ASSUME NEW ts \in [Tasks -> Task], NEW t \in Tasks, NEW s \in TaskStatus
    PROVE  Steady(ts, SetTaskStatus(ts, t, s))
BY DEF SetTaskStatus, Task, TaskStatus, Blank, Steady

LEMMA SetDependenciesSteady ==
    ASSUME NEW ts \in [Tasks -> Task], NEW t \in Tasks, NEW D \in SUBSET Tasks
    PROVE  Steady(ts, SetDependencies(ts, t, D))
BY DEF SetDependencies, Task, Blank, Steady

\* Only the assignee of the one task changes.
LEMMA SetAssigneeType ==
    ASSUME NEW ts \in [Tasks -> Task], NEW t \in Tasks, NEW n \in Nodes \cup {None}
    PROVE  /\ SetAssignee(ts, t, n) \in [Tasks -> Task]
           /\ SetAssignee(ts, t, n)[t].node = n
           /\ SetAssignee(ts, t, n)[t].status = ts[t].status
           /\ \A u \in Tasks \ {t} : SetAssignee(ts, t, n)[u] = ts[u]
BY DEF SetAssignee, Task

LEMMA PromoteSteady ==
    ASSUME NEW ts \in [Tasks -> Task], NEW S
    PROVE  Steady(ts, Promote(ts, S))
BY DEF Promote, Promotable, Task, TaskStatus, Blank, Steady

LEMMA SchedulePendingSteady ==
    ASSUME NEW ts \in [Tasks -> Task], NEW ns \in [Nodes -> Node]
    PROVE  Steady(ts, SchedulePending(ts, ns))
<1> DEFINE us == SchedulePending(ts, ns)
           pick(t) == CHOOSE n \in FirstEligible(ns, ts[t]) : TRUE
<1>1. ASSUME NEW t \in Tasks
      PROVE  us[t] = IF Schedulable(ts, ns, t)
                     THEN [ts[t] EXCEPT !.status = "running", !.node = pick(t)]
                     ELSE ts[t]
  BY DEF SchedulePending
<1>2. DOMAIN us = Tasks /\ us = [t \in Tasks |-> us[t]]
  BY DEF SchedulePending
<1>3. ASSUME NEW t \in Tasks, Schedulable(ts, ns, t)
      PROVE  pick(t) \in Nodes
  BY <1>3 DEF Schedulable, FirstEligible, Eligible
<1> HIDE DEF us, pick
<1>4. ASSUME NEW t \in Tasks
      PROVE  /\ us[t] \in Task
             /\ us[t].status = "absent" => us[t] = ts[t]
             /\ ts[t].node # None => us[t].node # None
  <2>1. CASE Schedulable(ts, ns, t)
    BY <2>1, <1>1, <1>3, NoneAssumption DEF Task, TaskStatus
  <2>2. CASE ~Schedulable(ts, ns, t)
    BY <2>2, <1>1
  <2>3. QED
    BY <2>1, <2>2
<1>5. us \in [Tasks -> Task]
  BY <1>2, <1>4
<1>6. QED
  BY <1>4, <1>5 DEF us, Steady, Blank

\* Blocking the pending dependents of a failed task.
FailedTable(t) ==
    LET failed == SetTaskStatus(tasks, t, "failed")
        block == {d \in Dependents(failed, t) : failed[d].status = "pending"}
    IN [d \in Tasks |-> IF d \in block THEN [failed[d] EXCEPT !.status = "blocked"]
                                       ELSE failed[d]]

LEMMA FailedTableSteady ==
    ASSUME tasks \in [Tasks -> Task], NEW t \in Tasks
    PROVE  Steady(tasks, FailedTable(t))
<1> DEFINE failed == SetTaskStatus(tasks, t, "failed")
<1>1. Steady(tasks, failed)
  BY SetTaskStatusSteady DEF TaskStatus
<1>2. ASSUME NEW us \in [Tasks -> Task], NEW S
      PROVE  Steady(us, [d \in Tasks |-> IF d \in S THEN [us[d] EXCEPT !.status = "blocked"]
                                                    ELSE us[d]])
  BY DEF Steady, Blank, Task, TaskStatus
<1>3. failed \in [Tasks -> Task]
  BY <1>1 DEF Steady
<1> HIDE DEF failed
<1>4. Steady(failed, [d \in Tasks |->
          IF d \in {e \in Dependents(failed, t) : failed[e].status = "pending"}
          THEN [failed[d] EXCEPT !.status = "blocked"] ELSE failed[d]])
  BY <1>2, <1>3
<1>5. QED
  BY <1>1, <1>4, SteadyTrans DEF FailedTable, failed

LEMMA ApplyTaskStateType ==
    ASSUME NEW ts \in [Tasks -> Task], NEW t \in Tasks,
           NEW s \in SyncStatus, NEW n \in Nodes \cup {None}
    PROVE  /\ ApplyTaskState(ts, t, s, n) \in [Tasks -> Task]
           /\ Blank(ts) => Steady(ts, ApplyTaskState(ts, t, s, n))
<1> DEFINE us == ApplyTaskState(ts, t, s, n)
           st == IF Known(ts, t) THEN IF s \in TaskStatus THEN s ELSE ts[t].status
                                 ELSE IF s \in TaskStatus THEN s ELSE "pending"
           nd == IF Known(ts, t) /\ n = None THEN ts[t].node ELSE n
<1>1. ts[t] \in Task /\ ts[t] = [status |-> ts[t].status, node |-> ts[t].node,
                                 deps |-> ts[t].deps, requires |-> ts[t].requires]
  BY DEF Task
<1>2. st \in TaskStatus /\ nd \in Nodes \cup {None}
  BY <1>1 DEF SyncStatus, TaskStatus, Task, Known
<1>3. us = [us EXCEPT ![t] = us[t]] /\ us = [x \in Tasks |-> us[x]]
      /\ \A x \in Tasks \ {t} : us[x] = ts[x]
  BY DEF ApplyTaskState
<1>4. us[t].status = st /\ us[t].node = nd /\ us[t] \in Task
  <2>1. CASE Known(ts, t)
    <3>1. us[t] = [ts[t] EXCEPT !.status = st, !.node = nd]
      BY <2>1 DEF ApplyTaskState
    <3> HIDE DEF us, st, nd
    <3>2. QED
      BY <3>1, <1>1, <1>2 DEF Task
  <2>2. CASE ~Known(ts, t)
    <3>1. us[t] = [status |-> st, node |-> nd, deps |-> {}, requires |-> {}]
      BY <2>2 DEF ApplyTaskState
    <3> HIDE DEF us, st, nd
    <3>2. QED
      BY <3>1, <1>2 DEF Task
  <2>3. QED
    BY <2>1, <2>2
<1>5. Blank(ts) /\ ts[t].node # None => nd # None
  BY DEF Blank, Known
<1> HIDE DEF us, st, nd
<1>6. st # "absent"
  BY <1>2 DEF TaskStatus
<1>7. us \in [Tasks -> Task]
  BY <1>3, <1>4
<1>8. ASSUME Blank(ts)
      PROVE  \A x \in Tasks : /\ us[x] \in Task
                              /\ us[x].status = "absent" => us[x] = ts[x]
                              /\ ts[x].node # None => us[x].node # None
  BY <1>3, <1>4, <1>5, <1>6, <1>8
<1>9. QED
  BY <1>3, <1>7, <1>8, SteadyPointwise DEF us

\* A rescheduled task may end without an assignee; every other one keeps it.
LEMMA RescheduleKeeps ==
    ASSUME NEW ts \in [Tasks -> Task], nodes \in [Nodes -> Node], NEW S
    PROVE  /\ RescheduleOrphaned(ts, S) \in [Tasks -> Task]
           /\ Blank(ts) => Blank(RescheduleOrphaned(ts, S))
           /\ \A t \in Tasks \ S :
                 ts[t].node # None => RescheduleOrphaned(ts, S)[t].node # None
<1> DEFINE freed == [t \in Tasks |-> IF t \in S
                        THEN [ts[t] EXCEPT !.status = "ready", !.node = None] ELSE ts[t]]
           placed == SchedulePending(freed, nodes)
<1>0. ASSUME NEW t \in Tasks
      PROVE  /\ freed[t] \in Task
             /\ t \in S => freed[t].status = "ready"
             /\ t \notin S => freed[t] = ts[t]
  <2>1. CASE t \in S
    <3>1. freed[t] = [ts[t] EXCEPT !.status = "ready", !.node = None]
      BY <2>1
    <3>2. ts[t] \in Task
      OBVIOUS
    <3> HIDE DEF freed, placed
    <3>3. freed[t] \in Task /\ freed[t].status = "ready"
      BY <3>1, <3>2 DEF Task, TaskStatus
    <3>4. QED
      BY <2>1, <3>3
  <2>2. CASE t \notin S
    BY <2>2
  <2>3. QED
    BY <2>1, <2>2
<1>1. /\ freed \in [Tasks -> Task]
      /\ Blank(ts) => Blank(freed)
      /\ \A t \in Tasks \ S : ts[t].node # None => freed[t].node # None
  <2>1. freed \in [Tasks -> Task]
    BY <1>0
  <2> HIDE DEF freed
  <2>2. QED
    BY <1>0, <2>1 DEF Blank
<1>2. Steady(freed, placed)
  BY <1>1, SchedulePendingSteady
<1> DEFINE final == RescheduleOrphaned(ts, S)
<1>3. ASSUME NEW t \in Tasks
      PROVE  final[t] = IF t \in S /\ placed[t].status = "ready"
                        THEN [placed[t] EXCEPT !.status = "failed"] ELSE placed[t]
  BY DEF RescheduleOrphaned
<1>4. final = [t \in Tasks |-> final[t]]
  BY DEF RescheduleOrphaned
<1> HIDE DEF freed, placed, final
<1>5. placed \in [Tasks -> Task]
  BY <1>2 DEF Steady
<1>6. ASSUME NEW t \in Tasks
      PROVE  /\ final[t] \in Task
             /\ final[t].status = "absent" => final[t] = placed[t]
             /\ final[t].node = placed[t].node
  <2>1. CASE t \in S /\ placed[t].status = "ready"
    BY <2>1, <1>3, <1>5 DEF Task, TaskStatus
  <2>2. CASE ~(t \in S /\ placed[t].status = "ready")
    BY <2>2, <1>3, <1>5
  <2>3. QED
    BY <2>1, <2>2
<1>7. Steady(placed, final)
  BY <1>4, <1>6, SteadyPointwise
<1>8. QED
  BY <1>1, <1>2, <1>7 DEF Steady, final

-----------------------------------------------------------------------------
(* What the methods of the lease table preserve.                           *)

LEMMA RetireType ==
    ASSUME NEW ls \in Seq(Lease), NEW R, NEW s \in {"expired", "revoked"},
           NEW ms, ms = [l \in DOMAIN ls |-> IF l \in R
                                             THEN [ls[l] EXCEPT !.status = s] ELSE ls[l]]
    PROVE  /\ ms \in Seq(Lease)
           /\ DOMAIN ms = DOMAIN ls
           /\ \A l \in DOMAIN ls :
                 /\ ms[l].task = ls[l].task
                 /\ ms[l].node = ls[l].node
                 /\ ms[l].status = IF l \in R THEN s ELSE ls[l].status
           /\ ActiveLeases(ms) = ActiveLeases(ls) \ R
<1>1. ASSUME NEW l \in DOMAIN ls
      PROVE  /\ ms[l] \in Lease
             /\ ms[l].task = ls[l].task
             /\ ms[l].node = ls[l].node
             /\ ms[l].status = IF l \in R THEN s ELSE ls[l].status
  <2>1. ls[l] \in Lease
    OBVIOUS
  <2>2. CASE l \in R
    BY <2>1, <2>2 DEF Lease, LeaseStatus
  <2>3. CASE l \notin R
    BY <2>1, <2>3
  <2>4. QED
    BY <2>2, <2>3
<1>2. DOMAIN ls = 1..Len(ls) /\ Len(ls) \in Nat /\ DOMAIN ms = DOMAIN ls
  OBVIOUS
<1>3. ms \in [1..Len(ls) -> Lease]
  BY <1>1, <1>2
<1>4. ms \in Seq(Lease)
  BY <1>2, <1>3
<1>5. QED
  BY <1>1, <1>2, <1>4 DEF ActiveLeases

LEMMA RevokeLeasesType ==
    ASSUME NEW ls \in Seq(Lease), NEW R
    PROVE  /\ RevokeLeases(ls, R) \in Seq(Lease)
           /\ DOMAIN RevokeLeases(ls, R) = DOMAIN ls
           /\ \A l \in DOMAIN ls :
                 /\ RevokeLeases(ls, R)[l].task = ls[l].task
                 /\ RevokeLeases(ls, R)[l].node = ls[l].node
                 /\ RevokeLeases(ls, R)[l].status
                       = IF l \in R THEN "revoked" ELSE ls[l].status
           /\ ActiveLeases(RevokeLeases(ls, R)) = ActiveLeases(ls) \ R
<1>1. RevokeLeases(ls, R) = [l \in DOMAIN ls |-> IF l \in R
                                THEN [ls[l] EXCEPT !.status = "revoked"] ELSE ls[l]]
  BY DEF RevokeLeases
<1>2. QED
  BY <1>1, RetireType, "revoked" \in {"expired", "revoked"}

LEMMA ExpireDueType ==
    ASSUME NEW ls \in Seq(Lease)
    PROVE  /\ ExpireDue(ls) \in Seq(Lease)
           /\ DOMAIN ExpireDue(ls) = DOMAIN ls
           /\ \A l \in DOMAIN ls :
                 /\ ExpireDue(ls)[l].task = ls[l].task
                 /\ ExpireDue(ls)[l].node = ls[l].node
                 /\ ls[l].status # "active" => ExpireDue(ls)[l].status = ls[l].status
           /\ ActiveLeases(ExpireDue(ls)) \subseteq ActiveLeases(ls)
<1> DEFINE R == {l \in DOMAIN ls : ls[l].status = "active" /\ ls[l].ttl = "over"}
<1>1. ExpireDue(ls) = [l \in DOMAIN ls |-> IF l \in R
                           THEN [ls[l] EXCEPT !.status = "expired"] ELSE ls[l]]
  BY DEF ExpireDue
<1> HIDE DEF R
<1>2. /\ ExpireDue(ls) \in Seq(Lease)
      /\ DOMAIN ExpireDue(ls) = DOMAIN ls
      /\ \A l \in DOMAIN ls :
            /\ ExpireDue(ls)[l].task = ls[l].task
            /\ ExpireDue(ls)[l].node = ls[l].node
            /\ ExpireDue(ls)[l].status = IF l \in R THEN "expired" ELSE ls[l].status
      /\ ActiveLeases(ExpireDue(ls)) = ActiveLeases(ls) \ R
  BY <1>1, RetireType, "expired" \in {"expired", "revoked"}
<1>3. QED
  BY <1>2 DEF R

LEMMA CreateLeaseType ==
    ASSUME NEW ls \in Seq(Lease), NEW t \in Tasks, NEW n \in Nodes
    PROVE  CreateLease(ls, t, n) \in Seq(Lease)
<1>1. [task |-> t, node |-> n, status |-> "active", ttl |-> "left"] \in Lease
  BY DEF Lease, LeaseStatus
<1>2. QED
  BY <1>1 DEF CreateLease

\* The lease a handler finds is the task's only active one: revoking it
\* leaves the task without any.
LEMMA FoundLeaseIsAll ==
    ASSUME LeaseInv, NEW t \in Tasks
    PROVE  \A l \in ActiveLeases(leases) \ FoundLease(t) : leases[l].task # t
<1> SUFFICES ASSUME NEW l \in ActiveLeases(leases), leases[l].task = t
             PROVE  l \in FoundLease(t)
  OBVIOUS
<1>1. LeasesOf(leases, t) = {l} /\ l \in DOMAIN leases /\ l # 0
  BY DEF LeaseInv, AtMostOneLease, LeasesOf, ActiveLeases, TypeOK, StoreTypeOK
<1>2. LeaseByTask(leases, index, t) = l
  <2>1. CASE index[t] \in ActiveLeases(leases)
    <3>1. index[t] # 0 /\ leases[index[t]].task = t
      BY <2>1 DEF LeaseInv, IndexNamesTask, TypeOK, StoreTypeOK, ActiveLeases
    <3>2. QED
      BY <2>1, <3>1, <1>1 DEF LeaseByTask, LeasesOf
  <2>2. CASE index[t] \notin ActiveLeases(leases)
    BY <2>2, <1>1 DEF LeaseByTask, TypeOK, StoreTypeOK, LeaseInv
  <2>3. QED
    BY <2>1, <2>2
<1>3. QED
  BY <1>1, <1>2 DEF FoundLease

-----------------------------------------------------------------------------
(* Type correctness.                                                       *)

LEMMA RevokeType ==
    ASSUME TypeOK, NEW R, Revoke(R)
    PROVE  leases' \in Seq(Lease) /\ index' \in [Tasks -> Nat]
BY RevokeLeasesType DEF Revoke, TypeOK, StoreTypeOK, DropIndex

LEMMA RecoverType ==
    ASSUME TypeOK, NEW N, Recover(N)
    PROVE  TypeOK'
<1> DEFINE scanned == ExpireDue(leases)
           revoked == {l \in ActiveLeases(scanned) : scanned[l].node \in N}
<1>1. leases' \in Seq(Lease)
  BY ExpireDueType, RevokeLeasesType DEF Recover, TypeOK, StoreTypeOK
<1>2. index' \in [Tasks -> Nat]
  BY DEF Recover, TypeOK, StoreTypeOK, DropIndex
<1>3. tasks' \in [Tasks -> Task]
  BY RescheduleKeeps DEF Recover, TypeOK, StoreTypeOK
<1>4. QED
  BY <1>1, <1>2, <1>3 DEF Recover, TypeOK, StoreTypeOK

LEMMA NodeOpsType ==
    ASSUME NEW ns \in [Nodes -> Node], NEW n \in Nodes, NEW caps \in SUBSET Caps,
           NEW s \in NodeStatus
    PROVE  /\ RegisterNode(ns, n, caps) \in [Nodes -> Node]
           /\ UpdateHeartbeat(ns, n) \in [Nodes -> Node]
           /\ UpdateCapabilities(ns, n, caps) \in [Nodes -> Node]
           /\ SetNodeStatus(ns, n, s) \in [Nodes -> Node]
<1>1. Cardinality({m \in Nodes : Registered(ns, m)}) \in Nat
  BY FiniteAssumption, FS_Subset, FS_CardinalityType
<1>2. RegisterNode(ns, n, caps) \in [Nodes -> Node]
  BY <1>1 DEF RegisterNode, Node, NodeStatus
<1>3. UpdateHeartbeat(ns, n) \in [Nodes -> Node]
  BY DEF UpdateHeartbeat, Node, NodeStatus
<1>4. UpdateCapabilities(ns, n, caps) \in [Nodes -> Node]
  BY DEF UpdateCapabilities, Node, NodeStatus
<1>5. SetNodeStatus(ns, n, s) \in [Nodes -> Node]
  BY DEF SetNodeStatus, Node, NodeStatus
<1>6. QED
  BY <1>2, <1>3, <1>4, <1>5

LEMMA TaskStepType ==
    ASSUME TypeOK, TaskNext
    PROVE  TypeOK'
<1> USE DEF TypeOK, StoreTypeOK
<1>1. ASSUME NEW t \in Tasks, NEW req \in CapSets, SubmitTask(t, req)
      PROVE  TypeOK'
  BY <1>1, InputsAssumption, CreateTaskType, PromoteSteady
  DEF SubmitTask, TriggerPendingTasks, Steady
<1>2. ASSUME NEW t \in Tasks, NEW D \in DepSets, SetTaskDependencies(t, D)
      PROVE  TypeOK'
  BY <1>2, InputsAssumption, SetDependenciesSteady DEF SetTaskDependencies, Steady
<1>3. ASSUME NEW t \in Tasks, CompleteTask(t)
      PROVE  TypeOK'
  <2>1. tasks' \in [Tasks -> Task]
    BY <1>3, SetTaskStatusSteady, PromoteSteady, SchedulePendingSteady
    DEF CompleteTask, TriggerDownstream, Steady, TaskStatus
  <2>2. QED
    BY <1>3, <2>1, RevokeType DEF CompleteTask
<1>4. ASSUME NEW t \in Tasks, FailTask(t)
      PROVE  TypeOK'
  BY <1>4, FailedTableSteady DEF FailTask, FailedTable, Steady
<1>5. ASSUME NEW t \in Tasks, UnblockTask(t)
      PROVE  TypeOK'
  BY <1>5, SetTaskStatusSteady DEF UnblockTask, Steady, TaskStatus
<1>6. ASSUME NEW t \in Tasks, ManualAdvance(t)
      PROVE  TypeOK'
  BY <1>6, SetTaskStatusSteady, SchedulePendingSteady DEF ManualAdvance, Steady, TaskStatus
<1>7. ASSUME NEW t \in Tasks, NEW n \in Nodes, ClaimTask(t, n)
      PROVE  TypeOK'
  <2>1. tasks' \in [Tasks -> Task]
    BY <1>7, SetTaskStatusSteady, SetAssigneeType DEF ClaimTask, Steady, TaskStatus
  <2>2. leases' \in Seq(Lease)
    BY <1>7, CreateLeaseType DEF ClaimTask
  <2>3. Len(leases) + 1 \in Nat
    OBVIOUS
  <2>4. QED
    BY <1>7, <2>1, <2>2, <2>3 DEF ClaimTask
<1>8. ASSUME NEW t \in Tasks, NEW n \in Nodes, ReleaseTask(t, n)
      PROVE  TypeOK'
  <2>1. tasks' \in [Tasks -> Task]
    BY <1>8, SetTaskStatusSteady, SetAssigneeType DEF ReleaseTask, Steady, TaskStatus
  <2>2. QED
    BY <1>8, <2>1, RevokeType DEF ReleaseTask
<1>9. ASSUME ScheduleTrigger
      PROVE  TypeOK'
  BY <1>9, PromoteSteady, SchedulePendingSteady
  DEF ScheduleTrigger, TriggerPendingTasks, Steady
<1>10. QED
  BY <1>1, <1>2, <1>3, <1>4, <1>5, <1>6, <1>7, <1>8, <1>9 DEF TaskNext

LEMMA NodeStepType ==
    ASSUME TypeOK, NodeNext
    PROVE  TypeOK'
<1> USE DEF TypeOK, StoreTypeOK
<1>1. ASSUME NEW n \in Nodes, NEW caps \in CapSets, JoinNode(n, caps)
      PROVE  TypeOK'
  BY <1>1, InputsAssumption, NodeOpsType, "online" \in NodeStatus DEF JoinNode, NodeStatus
<1>2. ASSUME NEW n \in Nodes, Heartbeat(n)
      PROVE  TypeOK'
  BY <1>2, NodeOpsType, {} \in SUBSET Caps, "online" \in NodeStatus DEF Heartbeat, NodeStatus
<1>3. ASSUME NEW n \in Nodes, NEW caps \in CapSets, PatchCapabilities(n, caps)
      PROVE  TypeOK'
  <2>1. nodes' \in [Nodes -> Node]
    BY <1>3, InputsAssumption, NodeOpsType, "online" \in NodeStatus
    DEF PatchCapabilities, NodeStatus
  <2>2. tasks' \in [Tasks -> Task]
    BY <1>3, <2>1, PromoteSteady, SchedulePendingSteady
    DEF PatchCapabilities, TriggerPendingTasks, Steady
  <2>3. QED
    BY <1>3, <2>1, <2>2 DEF PatchCapabilities
<1>4. ASSUME NEW n \in Nodes, NEW s \in NodeStatus, WatchdogCheck(n, s)
      PROVE  TypeOK'
  BY <1>4, NodeOpsType, {} \in SUBSET Caps DEF WatchdogCheck
<1>5. QED
  BY <1>1, <1>2, <1>3, <1>4 DEF NodeNext

\* Time passing touches neither the status nor the names of a lease.
LEMMA FallsDueKeeps ==
    ASSUME TypeOK, NEW l \in LeaseIds, LeaseFallsDue(l)
    PROVE  /\ leases' \in Seq(Lease)
           /\ DOMAIN leases' = DOMAIN leases
           /\ \A m \in DOMAIN leases :
                 /\ leases'[m].task = leases[m].task
                 /\ leases'[m].node = leases[m].node
                 /\ leases'[m].status = leases[m].status
<1>1. leases \in Seq(Lease) /\ l \in DOMAIN leases
  BY DEF TypeOK, StoreTypeOK, LeaseIds
<1>2. leases' = [leases EXCEPT ![l].ttl = "over"]
  BY DEF LeaseFallsDue
<1>3. ASSUME NEW m \in DOMAIN leases
      PROVE  /\ leases'[m] \in Lease
             /\ leases'[m].task = leases[m].task
             /\ leases'[m].node = leases[m].node
             /\ leases'[m].status = leases[m].status
  <2>1. leases[m] \in Lease
    BY <1>1
  <2>2. CASE m = l
    <3>1. leases'[m] = [leases[m] EXCEPT !.ttl = "over"]
      BY <1>1, <1>2, <2>2
    <3>2. QED
      BY <2>1, <3>1 DEF Lease
  <2>3. CASE m # l
    BY <1>2, <2>1, <2>3
  <2>4. QED
    BY <2>2, <2>3
<1>4. DOMAIN leases = 1..Len(leases) /\ Len(leases) \in Nat
  BY <1>1
<1>5. DOMAIN leases' = DOMAIN leases
  BY <1>2
<1>6. leases' = [m \in DOMAIN leases |-> leases'[m]]
  BY <1>2
<1>7. leases' \in [1..Len(leases) -> Lease]
  BY <1>3, <1>4, <1>5, <1>6
<1>8. QED
  BY <1>3, <1>4, <1>5, <1>7

LEMMA LeaseStepType ==
    ASSUME TypeOK, LeaseNext \/ LeaseApiNext
    PROVE  TypeOK'
<1> USE DEF TypeOK, StoreTypeOK
<1>1. ASSUME NEW l \in LeaseIds, LeaseFallsDue(l)
      PROVE  TypeOK'
  <2>1. leases' \in Seq(Lease)
    BY <1>1, FallsDueKeeps
  <2>2. QED
    BY <1>1, <2>1 DEF LeaseFallsDue
<1>2. ASSUME ScanLeases
      PROVE  TypeOK'
  BY <1>2, ExpireDueType DEF ScanLeases
<1>3. ASSUME NEW l \in LeaseIds, DeleteLease(l)
      PROVE  TypeOK'
  BY <1>3, RevokeType DEF DeleteLease
<1>4. ASSUME NEW t \in Tasks, NEW n \in Nodes, PostLease(t, n)
      PROVE  TypeOK'
  <2>1. leases' \in Seq(Lease)
    BY <1>4, CreateLeaseType DEF PostLease
  <2>2. Len(leases) + 1 \in Nat
    OBVIOUS
  <2>3. QED
    BY <1>4, <2>1, <2>2 DEF PostLease
<1>5. QED
  BY <1>1, <1>2, <1>3, <1>4 DEF LeaseNext, LeaseApiNext

LEMMA SyncStepType ==
    ASSUME TypeOK, SyncNext
    PROVE  TypeOK'
<1> USE DEF TypeOK, StoreTypeOK
<1>1. ASSUME NEW v \in 1..MaxSync, NEW t \in Tasks, NEW s \in SyncStatus,
             NEW n \in Nodes \cup {None}, SyncReceive(v, t, s, n)
      PROVE  TypeOK'
  <2>1. tasks' \in [Tasks -> Task]
    BY <1>1, ApplyTaskStateType DEF SyncReceive
  <2>2. QED
    BY <1>1, <2>1 DEF SyncReceive
<1>2. ASSUME NEW v \in 1..MaxSync, SyncVersionOnly(v)
      PROVE  TypeOK'
  BY <1>2 DEF SyncVersionOnly
<1>3. QED
  BY <1>1, <1>2 DEF SyncNext

LEMMA StepType ==
    ASSUME TypeOK, [Next]_storeVars
    PROVE  TypeOK'
<1>1. CASE RecoveryNext
  BY <1>1, RecoverType DEF RecoveryNext, TriggerRecovery, DetectExpired
<1>2. CASE UNCHANGED storeVars
  BY <1>2 DEF storeVars, TypeOK, StoreTypeOK
<1>3. QED
  BY <1>1, <1>2, TaskStepType, NodeStepType, LeaseStepType, SyncStepType
  DEF Next, PeerNext, LocalNext

LEMMA InitType == Init => TypeOK
BY DEF Init, StoreInit, TypeOK, StoreTypeOK, Task, NoTask, Node, NoNode, Lease

-----------------------------------------------------------------------------
(* The life of a lease and of its index entry.                             *)

LEMMA RevokeKeeps ==
    ASSUME TypeOK, NEW R, Revoke(R)
    PROVE  /\ LeaseStep
           /\ DOMAIN leases' = DOMAIN leases
           /\ ActiveLeases(leases') = ActiveLeases(leases) \ R
           /\ \A t \in Tasks : index'[t] \in {0, index[t]}
<1>1. leases' = RevokeLeases(leases, R) /\ leases \in Seq(Lease)
  BY DEF Revoke, TypeOK, StoreTypeOK
<1>2. \A t \in Tasks : index'[t] \in {0, index[t]}
  BY DEF Revoke, DropIndex
<1>3. QED
  BY <1>1, <1>2, RevokeLeasesType DEF LeaseStep

LEMMA ScanKeeps ==
    ASSUME TypeOK, leases' = ExpireDue(leases)
    PROVE  /\ LeaseStep
           /\ DOMAIN leases' = DOMAIN leases
           /\ ActiveLeases(leases') \subseteq ActiveLeases(leases)
<1>1. leases \in Seq(Lease)
  BY DEF TypeOK, StoreTypeOK
<1>2. \A l \in DOMAIN leases : leases'[l].status = "active" => leases[l].status = "active"
  BY <1>1, ExpireDueType DEF ActiveLeases
<1>3. QED
  BY <1>1, <1>2, ExpireDueType DEF LeaseStep

LEMMA RecoverKeeps ==
    ASSUME TypeOK, NEW N, Recover(N)
    PROVE  /\ LeaseStep
           /\ DOMAIN leases' = DOMAIN leases
           /\ ActiveLeases(leases') \subseteq ActiveLeases(leases)
           /\ \A l \in ActiveLeases(leases') : leases[l].node \notin N
           /\ \A t \in Tasks : index'[t] \in {0, index[t]}
<1> DEFINE scanned == ExpireDue(leases)
           revoked == {l \in ActiveLeases(scanned) : scanned[l].node \in N}
<1>1. leases' = RevokeLeases(scanned, revoked) /\ leases \in Seq(Lease)
  BY DEF Recover, TypeOK, StoreTypeOK
<1>2. /\ scanned \in Seq(Lease)
      /\ DOMAIN scanned = DOMAIN leases
      /\ \A l \in DOMAIN leases :
            /\ scanned[l].task = leases[l].task
            /\ scanned[l].node = leases[l].node
            /\ leases[l].status # "active" => scanned[l].status = leases[l].status
      /\ ActiveLeases(scanned) \subseteq ActiveLeases(leases)
  BY <1>1, ExpireDueType
<1>3. \A t \in Tasks : index'[t] \in {0, index[t]}
  BY DEF Recover, DropIndex
<1> HIDE DEF scanned
<1>4. /\ DOMAIN leases' = DOMAIN scanned
      /\ \A l \in DOMAIN scanned :
            /\ leases'[l].task = scanned[l].task
            /\ leases'[l].node = scanned[l].node
            /\ leases'[l].status = IF l \in revoked THEN "revoked" ELSE scanned[l].status
      /\ ActiveLeases(leases') = ActiveLeases(scanned) \ revoked
  BY <1>1, <1>2, RevokeLeasesType
<1>5. LeaseStep
  BY <1>2, <1>4 DEF LeaseStep, ActiveLeases
<1>6. \A l \in ActiveLeases(leases') : leases[l].node \notin N
  BY <1>2, <1>4 DEF ActiveLeases
<1>7. QED
  BY <1>2, <1>3, <1>4, <1>5, <1>6

LEMMA CreateKeeps ==
    ASSUME TypeOK, NEW t \in Tasks, NEW n \in Nodes, leases' = CreateLease(leases, t, n)
    PROVE  /\ LeaseStep
           /\ DOMAIN leases' = DOMAIN leases \cup {Len(leases) + 1}
           /\ \A l \in DOMAIN leases : leases'[l] = leases[l]
           /\ leases'[Len(leases) + 1].task = t
           /\ leases'[Len(leases) + 1].node = n
           /\ Len(leases) + 1 \notin DOMAIN leases
           /\ ActiveLeases(leases') = ActiveLeases(leases) \cup {Len(leases) + 1}
<1>1. leases \in Seq(Lease)
  BY DEF TypeOK, StoreTypeOK
<1> DEFINE rec == [task |-> t, node |-> n, status |-> "active", ttl |-> "left"]
<1>2. leases' = Append(leases, rec) /\ rec \in Lease
  BY DEF CreateLease, Lease, LeaseStatus
<1>3. rec.task = t /\ rec.node = n /\ rec.status = "active"
  OBVIOUS
<1> HIDE DEF rec
<1>4. /\ DOMAIN leases' = DOMAIN leases \cup {Len(leases) + 1}
      /\ \A l \in DOMAIN leases : leases'[l] = leases[l]
      /\ leases'[Len(leases) + 1] = rec
      /\ Len(leases) + 1 \notin DOMAIN leases
  BY <1>1, <1>2
<1>5. QED
  BY <1>3, <1>4 DEF LeaseStep, ActiveLeases

\* Every handler that touches leases, classified by what it does to the table.
LEMMA LeaseTableStep ==
    ASSUME TypeOK, [Next]_storeVars
    PROVE  /\ LeaseStep
           /\ \/ /\ DOMAIN leases' = DOMAIN leases
                 /\ \A t \in Tasks : index'[t] \in {0, index[t]}
              \/ \E t \in Tasks, n \in Nodes :
                    /\ leases' = CreateLease(leases, t, n)
                    /\ index' = [index EXCEPT ![t] = Len(leases) + 1]
<1> DEFINE Shrinks == /\ DOMAIN leases' = DOMAIN leases
                      /\ \A t \in Tasks : index'[t] \in {0, index[t]}
           Grows == \E t \in Tasks, n \in Nodes :
                        /\ leases' = CreateLease(leases, t, n)
                        /\ index' = [index EXCEPT ![t] = Len(leases) + 1]
<1>1. ASSUME UNCHANGED <<leases, index>>
      PROVE  LeaseStep /\ Shrinks
  BY <1>1 DEF LeaseStep
<1>2. ASSUME Grows
      PROVE  LeaseStep
  BY <1>2, CreateKeeps
<1>3. ASSUME NEW R, Revoke(R)
      PROVE  LeaseStep /\ Shrinks
  BY <1>3, RevokeKeeps
<1>4. ASSUME TaskNext
      PROVE  LeaseStep /\ (Shrinks \/ Grows)
  BY <1>1, <1>2, <1>3, <1>4 DEF TaskNext, SubmitTask, SetTaskDependencies, CompleteTask,
     FailTask, UnblockTask, ManualAdvance, ClaimTask, ReleaseTask, ScheduleTrigger
<1>5. ASSUME NodeNext
      PROVE  LeaseStep /\ Shrinks
  BY <1>1, <1>5 DEF NodeNext, JoinNode, Heartbeat, PatchCapabilities, WatchdogCheck
<1>6. ASSUME LeaseNext
      PROVE  LeaseStep /\ Shrinks
  <2>1. ASSUME NEW l \in LeaseIds, LeaseFallsDue(l)
        PROVE  LeaseStep /\ Shrinks
    <3>1. UNCHANGED index
      BY <2>1 DEF LeaseFallsDue
    <3>2. LeaseStep /\ DOMAIN leases' = DOMAIN leases
      BY <2>1, FallsDueKeeps DEF LeaseStep
    <3>3. QED
      BY <3>1, <3>2
  <2>2. ASSUME ScanLeases
        PROVE  LeaseStep /\ Shrinks
    BY <2>2, ScanKeeps DEF ScanLeases
  <2>3. ASSUME NEW l \in LeaseIds, DeleteLease(l)
        PROVE  LeaseStep /\ Shrinks
    BY <2>3, <1>3 DEF DeleteLease
  <2>4. QED
    BY <1>6, <2>1, <2>2, <2>3 DEF LeaseNext
<1>7. ASSUME RecoveryNext
      PROVE  LeaseStep /\ Shrinks
  BY <1>7, RecoverKeeps DEF RecoveryNext, TriggerRecovery, DetectExpired
<1>8. ASSUME SyncNext
      PROVE  LeaseStep /\ Shrinks
  BY <1>1, <1>8 DEF SyncNext, SyncReceive, SyncVersionOnly
<1>9. ASSUME LeaseApiNext
      PROVE  LeaseStep /\ Grows
  <2>1. Grows
    BY <1>9 DEF LeaseApiNext, PostLease
  <2>2. QED
    BY <2>1, <1>2
<1>10. CASE UNCHANGED storeVars
  BY <1>1, <1>10 DEF storeVars
<1>11. QED
  BY <1>4, <1>5, <1>6, <1>7, <1>8, <1>9, <1>10 DEF Next, PeerNext, LocalNext

LEMMA IndexStep ==
    ASSUME TypeOK, IndexNamesTask, [Next]_storeVars
    PROVE  IndexNamesTask'
<1>1. CASE /\ DOMAIN leases' = DOMAIN leases
           /\ \A t \in Tasks : index'[t] \in {0, index[t]}
  BY <1>1, LeaseTableStep DEF IndexNamesTask, LeaseIds, LeaseStep
<1>2. ASSUME NEW t \in Tasks, NEW n \in Nodes, leases' = CreateLease(leases, t, n),
             index' = [index EXCEPT ![t] = Len(leases) + 1]
      PROVE  IndexNamesTask'
  <2>1. leases \in Seq(Lease) /\ index \in [Tasks -> Nat]
    BY DEF TypeOK, StoreTypeOK
  <2>2. /\ DOMAIN leases' = DOMAIN leases \cup {Len(leases) + 1}
        /\ \A l \in DOMAIN leases : leases'[l] = leases[l]
        /\ leases'[Len(leases) + 1].task = t
    BY <1>2, CreateKeeps
  <2>3. \A u \in Tasks : index'[u] = IF u = t THEN Len(leases) + 1 ELSE index[u]
    BY <1>2, <2>1
  <2>4. QED
    BY <2>2, <2>3 DEF IndexNamesTask, LeaseIds
<1>3. QED
  BY <1>1, <1>2, LeaseTableStep

-----------------------------------------------------------------------------
(* Exclusiveness of leases, as long as none is posted by hand.             *)

LEMMA ActiveLeaseTask ==
    ASSUME TypeOK, NEW l \in ActiveLeases(leases)
    PROVE  l \in DOMAIN leases /\ leases[l].task \in Tasks
<1>1. l \in DOMAIN leases /\ leases \in Seq(Lease)
  BY DEF ActiveLeases, TypeOK, StoreTypeOK
<1>2. leases[l] \in Lease
  BY <1>1
<1>3. QED
  BY <1>1, <1>2 DEF Lease

\* A step that creates no lease, keeps the assignee of every task that still
\* has one and leaves absent tasks unassigned, keeps the invariant.
LEMMA ShrinkKeepsInv ==
    ASSUME LeaseInv, TypeOK', IndexNamesTask', LeaseStep,
           ActiveLeases(leases') \subseteq ActiveLeases(leases),
           Blank(tasks'),
           \A l \in ActiveLeases(leases') :
              tasks[leases[l].task].node # None => tasks'[leases[l].task].node # None
    PROVE  LeaseInv'
<1>1. \A l \in ActiveLeases(leases') :
         l \in ActiveLeases(leases) /\ leases'[l].task = leases[l].task
  BY DEF LeaseStep, ActiveLeases
<1>2. AtMostOneLease'
  BY <1>1 DEF LeaseInv, AtMostOneLease
<1>3. UnassignedHoldsNoLease'
  BY <1>1 DEF LeaseInv, UnassignedHoldsNoLease
<1>4. AbsentUnassigned'
  BY DEF AbsentUnassigned, Blank, Known
<1>5. QED
  BY <1>2, <1>3, <1>4 DEF LeaseInv

\* Steps that leave the leases alone.
LEMMA SteadyKeepsInv ==
    ASSUME LeaseInv, TypeOK', UNCHANGED <<leases, index>>, Steady(tasks, tasks')
    PROVE  LeaseInv'
<1>1. Blank(tasks) /\ \A l \in ActiveLeases(leases) : leases[l].task \in Tasks
  BY ActiveLeaseTask DEF LeaseInv, AbsentUnassigned, Blank, Known
<1>2. IndexNamesTask' /\ LeaseStep
  BY DEF LeaseInv, IndexNamesTask, LeaseIds, LeaseStep
<1>3. QED
  BY <1>1, <1>2, ShrinkKeepsInv DEF Steady

LEMMA ClaimKeepsInv ==
    ASSUME LeaseInv, TypeOK', IndexNamesTask', NEW t \in Tasks, NEW n \in Nodes,
           ClaimTask(t, n)
    PROVE  LeaseInv'
<1> DEFINE k == Len(leases) + 1
<1>1. /\ leases' = CreateLease(leases, t, n)
      /\ tasks[t].status = "ready" /\ tasks[t].node = None
      /\ tasks' = SetAssignee(SetTaskStatus(tasks, t, "running"), t, n)
  BY DEF ClaimTask
<1>2. /\ \A l \in DOMAIN leases : leases'[l] = leases[l]
      /\ leases'[k].task = t
      /\ ActiveLeases(leases') = ActiveLeases(leases) \cup {k}
  BY <1>1, CreateKeeps DEF LeaseInv
<1>3. \A l \in ActiveLeases(leases) : l \in DOMAIN leases /\ leases[l].task \in Tasks \ {t}
  BY <1>1, ActiveLeaseTask DEF LeaseInv, UnassignedHoldsNoLease
<1>4. /\ tasks'[t].node = n /\ tasks'[t].status = "running"
      /\ \A u \in Tasks \ {t} : tasks'[u] = tasks[u]
  BY <1>1 DEF LeaseInv, TypeOK, StoreTypeOK, Task, SetAssignee, SetTaskStatus
<1> HIDE DEF k
<1>5. AtMostOneLease'
  BY <1>2, <1>3 DEF LeaseInv, AtMostOneLease
<1>6. UnassignedHoldsNoLease'
  BY <1>2, <1>3, <1>4, NoneAssumption DEF LeaseInv, UnassignedHoldsNoLease
<1>7. AbsentUnassigned'
  BY <1>4 DEF LeaseInv, AbsentUnassigned, Known
<1>8. QED
  BY <1>5, <1>6, <1>7 DEF LeaseInv

LEMMA ReleaseKeepsInv ==
    ASSUME LeaseInv, TypeOK', IndexNamesTask', NEW t \in Tasks, NEW n \in Nodes,
           ReleaseTask(t, n)
    PROVE  LeaseInv'
<1>1. /\ Revoke(FoundLease(t)) /\ Known(tasks, t)
      /\ tasks' = SetAssignee(SetTaskStatus(tasks, t, "ready"), t, None)
  BY DEF ReleaseTask
<1>2. LeaseStep /\ ActiveLeases(leases') = ActiveLeases(leases) \ FoundLease(t)
  BY <1>1, RevokeKeeps DEF LeaseInv
<1>3. \A l \in ActiveLeases(leases') : leases[l].task \in Tasks \ {t}
  BY <1>2, FoundLeaseIsAll, ActiveLeaseTask DEF LeaseInv
<1>4. tasks'[t].node = None /\ \A u \in Tasks \ {t} : tasks'[u] = tasks[u]
  BY <1>1 DEF LeaseInv, TypeOK, StoreTypeOK, Task, SetAssignee, SetTaskStatus
<1>5. Blank(tasks')
  BY <1>4 DEF LeaseInv, AbsentUnassigned, Blank, Known
<1>6. QED
  BY <1>2, <1>3, <1>4, <1>5, ShrinkKeepsInv

\* A task that loses its assignee had an active lease on a recovered node,
\* its only one, and that one is revoked.
LEMMA RecoverKeepsInv ==
    ASSUME LeaseInv, TypeOK', IndexNamesTask', NEW N, Recover(N)
    PROVE  LeaseInv'
<1> DEFINE scanned == ExpireDue(leases)
           revoked == {l \in ActiveLeases(scanned) : scanned[l].node \in N}
           orphans == {t \in Tasks : Known(tasks, t)
                                     /\ \E l \in revoked : scanned[l].task = t}
<1>1. tasks' = IF orphans = {} THEN tasks ELSE RescheduleOrphaned(tasks, orphans)
  BY DEF Recover
<1>2. /\ scanned \in Seq(Lease) /\ DOMAIN scanned = DOMAIN leases
      /\ \A l \in DOMAIN leases : scanned[l].task = leases[l].task
                                 /\ scanned[l].node = leases[l].node
      /\ ActiveLeases(scanned) \subseteq ActiveLeases(leases)
  BY ExpireDueType DEF LeaseInv, TypeOK, StoreTypeOK
<1>3. /\ LeaseStep
      /\ ActiveLeases(leases') \subseteq ActiveLeases(leases)
      /\ \A l \in ActiveLeases(leases') : leases[l].node \notin N
  BY RecoverKeeps DEF LeaseInv
<1> HIDE DEF scanned
<1>4. \A l \in ActiveLeases(leases') : leases[l].task \in Tasks \ orphans
  <2> SUFFICES ASSUME NEW l \in ActiveLeases(leases')
               PROVE  leases[l].task \in Tasks \ orphans
    OBVIOUS
  <2>1. l \in ActiveLeases(leases) /\ leases[l].task \in Tasks
    BY <1>3, ActiveLeaseTask DEF LeaseInv
  <2>2. ASSUME leases[l].task \in orphans
        PROVE  FALSE
    <3>1. PICK m \in revoked : scanned[m].task = leases[l].task
      BY <2>2
    <3>2. m \in ActiveLeases(leases) /\ leases[m].task = leases[l].task
          /\ leases[m].node \in N
      BY <1>2, <3>1 DEF ActiveLeases
    <3>3. m = l
      BY <2>1, <3>2 DEF LeaseInv, AtMostOneLease
    <3>4. QED
      BY <1>3, <3>2, <3>3
  <2>3. QED
    BY <2>1, <2>2
<1> HIDE DEF orphans
<1>5. /\ Blank(tasks')
      /\ \A t \in Tasks \ orphans : tasks[t].node # None => tasks'[t].node # None
  <2>1. tasks \in [Tasks -> Task] /\ nodes \in [Nodes -> Node] /\ Blank(tasks)
    BY DEF LeaseInv, TypeOK, StoreTypeOK, AbsentUnassigned, Blank, Known
  <2>2. CASE orphans = {}
    BY <1>1, <2>1, <2>2
  <2>3. CASE orphans # {}
    BY <1>1, <2>1, <2>3, RescheduleKeeps
  <2>4. QED
    BY <2>2, <2>3
<1>6. QED
  BY <1>3, <1>4, <1>5, ShrinkKeepsInv

LEMMA TaskStepKeepsInv ==
    ASSUME LeaseInv, TypeOK', IndexNamesTask', TaskNext
    PROVE  LeaseInv'
<1>0. tasks \in [Tasks -> Task] /\ nodes \in [Nodes -> Node] /\ Blank(tasks)
  BY DEF LeaseInv, TypeOK, StoreTypeOK, AbsentUnassigned, Blank, Known
<1>1. ASSUME NEW t \in Tasks, NEW req \in CapSets, SubmitTask(t, req)
      PROVE  LeaseInv'
  <2>1. Steady(tasks, CreateTask(tasks, t, req))
    BY <1>0, <1>1, InputsAssumption, CreateTaskType DEF SubmitTask
  <2>2. Steady(CreateTask(tasks, t, req), tasks')
    BY <1>1, <2>1, PromoteSteady DEF SubmitTask, TriggerPendingTasks, Steady
  <2>3. QED
    BY <1>1, <2>1, <2>2, SteadyTrans, SteadyKeepsInv DEF SubmitTask
<1>2. ASSUME NEW t \in Tasks, NEW D \in DepSets, SetTaskDependencies(t, D)
      PROVE  LeaseInv'
  BY <1>0, <1>2, InputsAssumption, SetDependenciesSteady, SteadyKeepsInv
  DEF SetTaskDependencies
<1>3. ASSUME NEW t \in Tasks, CompleteTask(t)
      PROVE  LeaseInv'
  <2> DEFINE done == SetTaskStatus(tasks, t, "completed")
             free == Promote(done, Dependents(done, t))
  <2>1. Steady(tasks, done)
    BY <1>0, SetTaskStatusSteady DEF TaskStatus
  <2>2. Steady(done, free)
    BY <2>1, PromoteSteady DEF Steady
  <2>3. Steady(free, SchedulePending(free, nodes))
    BY <1>0, <2>2, SchedulePendingSteady DEF Steady
  <2>4. tasks' = SchedulePending(free, nodes)
    BY <1>3 DEF CompleteTask, TriggerDownstream
  <2> HIDE DEF done, free
  <2>5. Steady(tasks, tasks')
    BY <2>1, <2>2, <2>3, <2>4, SteadyTrans
  <2>6. LeaseStep /\ ActiveLeases(leases') \subseteq ActiveLeases(leases)
    BY <1>3, RevokeKeeps DEF CompleteTask, LeaseInv
  <2>7. \A l \in ActiveLeases(leases') : leases[l].task \in Tasks
    BY <2>6, ActiveLeaseTask DEF LeaseInv
  <2>8. QED
    BY <1>0, <2>5, <2>6, <2>7, ShrinkKeepsInv DEF Steady
<1>4. ASSUME NEW t \in Tasks, FailTask(t)
      PROVE  LeaseInv'
  BY <1>0, <1>4, FailedTableSteady, SteadyKeepsInv DEF FailTask, FailedTable
<1>5. ASSUME NEW t \in Tasks, UnblockTask(t)
      PROVE  LeaseInv'
  BY <1>0, <1>5, SetTaskStatusSteady, SteadyKeepsInv, "pending" \in TaskStatus
  DEF UnblockTask, TaskStatus
<1>6. ASSUME NEW t \in Tasks, ManualAdvance(t)
      PROVE  LeaseInv'
  <2>1. Steady(tasks, SetTaskStatus(tasks, t, "ready"))
    BY <1>0, SetTaskStatusSteady DEF TaskStatus
  <2>2. Steady(SetTaskStatus(tasks, t, "ready"), tasks')
    BY <1>0, <1>6, <2>1, SchedulePendingSteady DEF ManualAdvance, Steady
  <2>3. QED
    BY <1>6, <2>1, <2>2, SteadyTrans, SteadyKeepsInv DEF ManualAdvance
<1>7. ASSUME ScheduleTrigger
      PROVE  LeaseInv'
  <2>1. Steady(tasks, TriggerPendingTasks(tasks))
    BY <1>0, PromoteSteady DEF TriggerPendingTasks
  <2>2. Steady(TriggerPendingTasks(tasks), tasks')
    BY <1>0, <1>7, <2>1, SchedulePendingSteady DEF ScheduleTrigger, Steady
  <2>3. QED
    BY <1>7, <2>1, <2>2, SteadyTrans, SteadyKeepsInv DEF ScheduleTrigger
<1>8. QED
  BY <1>1, <1>2, <1>3, <1>4, <1>5, <1>6, <1>7, ClaimKeepsInv, ReleaseKeepsInv DEF TaskNext

LEMMA NodeStepKeepsInv ==
    ASSUME LeaseInv, TypeOK', NodeNext
    PROVE  LeaseInv'
<1>0. tasks \in [Tasks -> Task] /\ nodes' \in [Nodes -> Node]
  BY DEF LeaseInv, TypeOK, StoreTypeOK
<1>1. ASSUME NEW n \in Nodes, NEW caps \in CapSets, PatchCapabilities(n, caps)
      PROVE  LeaseInv'
  <2>1. Steady(tasks, TriggerPendingTasks(tasks))
    BY <1>0, PromoteSteady DEF TriggerPendingTasks
  <2>2. Steady(TriggerPendingTasks(tasks), tasks')
    BY <1>0, <1>1, <2>1, SchedulePendingSteady DEF PatchCapabilities, Steady
  <2>3. QED
    BY <1>1, <2>1, <2>2, SteadyTrans, SteadyKeepsInv DEF PatchCapabilities
<1>2. ASSUME UNCHANGED <<tasks, leases, index>>
      PROVE  LeaseInv'
  BY <1>0, <1>2, SteadyKeepsInv DEF Steady
<1>3. QED
  BY <1>1, <1>2 DEF NodeNext, JoinNode, Heartbeat, WatchdogCheck

LEMMA LeaseStepKeepsInv ==
    ASSUME LeaseInv, TypeOK', IndexNamesTask', LeaseNext
    PROVE  LeaseInv'
<1>0. Blank(tasks)
  BY DEF LeaseInv, AbsentUnassigned, Blank, Known
<1>1. UNCHANGED tasks
  BY DEF LeaseNext, LeaseFallsDue, ScanLeases, DeleteLease
<1>2. LeaseStep /\ ActiveLeases(leases') \subseteq ActiveLeases(leases)
  <2>1. ASSUME NEW l \in LeaseIds, LeaseFallsDue(l)
        PROVE  LeaseStep /\ ActiveLeases(leases') \subseteq ActiveLeases(leases)
    BY <2>1, FallsDueKeeps DEF LeaseInv, LeaseStep, ActiveLeases
  <2>2. QED
    BY <2>1, ScanKeeps, RevokeKeeps DEF LeaseInv, LeaseNext, ScanLeases, DeleteLease
<1>3. QED
  BY <1>0, <1>1, <1>2, ShrinkKeepsInv

LEMMA SyncStepKeepsInv ==
    ASSUME LeaseInv, TypeOK', SyncNext
    PROVE  LeaseInv'
<1>0. tasks \in [Tasks -> Task] /\ Blank(tasks)
  BY DEF LeaseInv, TypeOK, StoreTypeOK, AbsentUnassigned, Blank, Known
<1>1. ASSUME NEW t \in Tasks, NEW s \in SyncStatus, NEW n \in Nodes \cup {None},
             tasks' = ApplyTaskState(tasks, t, s, n), UNCHANGED <<leases, index>>
      PROVE  LeaseInv'
  BY <1>0, <1>1, ApplyTaskStateType, SteadyKeepsInv
<1>2. ASSUME UNCHANGED <<tasks, leases, index>>
      PROVE  LeaseInv'
  BY <1>0, <1>2, SteadyKeepsInv DEF Steady
<1>3. QED
  BY <1>1, <1>2 DEF SyncNext, SyncReceive, SyncVersionOnly

LEMMA LeaseInvStep ==
    ASSUME LeaseInv, [PeerNext]_storeVars
    PROVE  LeaseInv'
<1>1. TypeOK' /\ IndexNamesTask'
  BY StepType, IndexStep DEF LeaseInv, Next
<1>2. CASE TaskNext
  BY <1>1, <1>2, TaskStepKeepsInv
<1>3. CASE NodeNext
  BY <1>1, <1>3, NodeStepKeepsInv
<1>4. CASE LeaseNext
  BY <1>1, <1>4, LeaseStepKeepsInv
<1>5. CASE RecoveryNext
  BY <1>1, <1>5, RecoverKeepsInv DEF RecoveryNext, TriggerRecovery, DetectExpired
<1>6. CASE SyncNext
  BY <1>1, <1>6, SyncStepKeepsInv
<1>7. CASE UNCHANGED storeVars
  BY <1>1, <1>7 DEF storeVars, LeaseInv, AbsentUnassigned, AtMostOneLease,
     UnassignedHoldsNoLease, Known, ActiveLeases
<1>8. QED
  BY <1>2, <1>3, <1>4, <1>5, <1>6, <1>7 DEF PeerNext, LocalNext

LEMMA LeaseInvInit == Init => LeaseInv
BY InitType DEF Init, StoreInit, LeaseInv, IndexNamesTask, AbsentUnassigned, NoTask,
   AtMostOneLease, UnassignedHoldsNoLease, ActiveLeases, Known

\* Every table keeps its type under the whole API, with leases posted by hand
\* and messages from peers included.
THEOREM TypeCorrect == Spec => []TypeOK
<1>1. QED
  BY InitType, StepType, PTL DEF Spec

\* get_lease_by_task trusts _task_lease_index: under the whole API an entry,
\* while there is one, leads to a lease of the task it is kept for.
THEOREM IndexCorrect == Spec => []IndexNamesTask
<1>1. Init => IndexNamesTask
  BY DEF Init, StoreInit, IndexNamesTask
<1>2. TypeOK /\ IndexNamesTask /\ [Next]_storeVars => IndexNamesTask'
  BY IndexStep
<1>3. QED
  BY <1>1, <1>2, TypeCorrect, PTL DEF Spec

\* As long as nobody posts leases by hand, no order of claims, releases,
\* completions, deletions, scans, recoveries and messages of peers gives a task
\* two active leases.
THEOREM LeaseExclusive == PeerSpec => []AtMostOneLease
<1>1. LeaseInv => AtMostOneLease
  BY DEF LeaseInv
<1>2. QED
  BY <1>1, LeaseInvInit, LeaseInvStep, PTL DEF PeerSpec

\* Nor does it leave an active lease on a task that can be claimed again, be it
\* released, recovered or named by a peer before it exists here.
THEOREM ClaimableUnleased == PeerSpec => []UnassignedHoldsNoLease
<1>1. LeaseInv => UnassignedHoldsNoLease
  BY DEF LeaseInv
<1>2. QED
  BY <1>1, LeaseInvInit, LeaseInvStep, PTL DEF PeerSpec

\* No handler, scan or recovery brings a lease back, or gives it to another
\* task or node.
THEOREM LifecycleCorrect == Spec => LeaseLifecycle
<1>1. TypeOK /\ [Next]_storeVars => [LeaseStep]_storeVars
  BY LeaseTableStep
<1>2. QED
  BY <1>1, TypeCorrect, PTL DEF Spec, LeaseLifecycle

-----------------------------------------------------------------------------
(* The app implements TaskOwnership.                                       *)

LEMMA HolderOfOnlyLease ==
    ASSUME NEW ls, NEW t, NEW l, LeasesOf(ls, t) = {l}
    PROVE  HolderIn(ls, t) = ls[l].node
BY DEF HolderIn

LEMMA LeasesOfOne ==
    ASSUME AtMostOneLease, NEW t \in Tasks, NEW l \in LeasesOf(leases, t)
    PROVE  LeasesOf(leases, t) = {l}
BY DEF AtMostOneLease, LeasesOf

\* A step that creates no lease: a holder can only be lost.
LEMMA ShrinkGivesUp ==
    ASSUME AtMostOneLease, AtMostOneLease', LeaseStep, DOMAIN leases' = DOMAIN leases
    PROVE  Ownership!Next
<1> DEFINE S == {t \in Tasks : HolderIn(leases', t) = None}
<1>1. ASSUME NEW t \in Tasks, HolderIn(leases', t) # None
      PROVE  HolderIn(leases', t) = HolderIn(leases, t)
  <2>1. PICK l : l \in LeasesOf(leases', t)
    BY <1>1 DEF HolderIn
  <2>2. l \in LeasesOf(leases, t) /\ leases'[l].node = leases[l].node
    BY <2>1 DEF LeaseStep, LeasesOf, ActiveLeases
  <2>3. LeasesOf(leases', t) = {l}
    BY <2>1 DEF AtMostOneLease, LeasesOf
  <2>4. LeasesOf(leases, t) = {l}
    BY <2>2, LeasesOfOne
  <2>5. QED
    BY <2>2, <2>3, <2>4, HolderOfOnlyLease
<1>2. heldBy' = [t \in Tasks |-> IF t \in S THEN None ELSE heldBy[t]]
  BY <1>1 DEF heldBy
<1>3. S \in SUBSET Tasks
  OBVIOUS
<1>4. Ownership!GiveUp(S)
  BY <1>2 DEF Ownership!GiveUp
<1>5. QED
  BY <1>3, <1>4 DEF Ownership!Next

\* A step that creates a lease: the task had no holder, or it would have two
\* active leases now.
LEMMA GrowAcquires ==
    ASSUME LeaseInv, AtMostOneLease', NEW t \in Tasks, NEW n \in Nodes,
           leases' = CreateLease(leases, t, n)
    PROVE  Ownership!Next
<1> DEFINE k == Len(leases) + 1
<1>1. /\ \A l \in DOMAIN leases : leases'[l] = leases[l]
      /\ leases'[k].task = t /\ leases'[k].node = n
      /\ k \notin DOMAIN leases
      /\ ActiveLeases(leases') = ActiveLeases(leases) \cup {k}
  BY CreateKeeps DEF LeaseInv
<1> HIDE DEF k
<1>2. \A u \in Tasks : LeasesOf(leases', u) = LeasesOf(leases, u) \cup IF u = t THEN {k} ELSE {}
  BY <1>1 DEF LeasesOf, ActiveLeases
<1>3. LeasesOf(leases, t) = {}
  <2> SUFFICES ASSUME NEW l \in LeasesOf(leases, t)
               PROVE  FALSE
    OBVIOUS
  <2>1. l \in DOMAIN leases /\ l \in LeasesOf(leases', t) /\ k \in LeasesOf(leases', t)
    BY <1>2 DEF LeasesOf, ActiveLeases
  <2>2. l = k
    BY <2>1 DEF AtMostOneLease, LeasesOf
  <2>3. QED
    BY <1>1, <2>1, <2>2
<1>4. HolderIn(leases, t) = None
  BY <1>3 DEF HolderIn
<1>5. HolderIn(leases', t) = n
  BY <1>1, <1>2, <1>3, HolderOfOnlyLease
<1>6. ASSUME NEW u \in Tasks \ {t}
      PROVE  HolderIn(leases', u) = HolderIn(leases, u)
  <2>1. LeasesOf(leases', u) = LeasesOf(leases, u)
    BY <1>2
  <2>2. CASE LeasesOf(leases, u) = {}
    BY <2>1, <2>2 DEF HolderIn
  <2>3. CASE LeasesOf(leases, u) # {}
    <3>1. PICK l : l \in LeasesOf(leases, u)
      BY <2>3
    <3>2. LeasesOf(leases, u) = {l} /\ leases'[l] = leases[l]
      BY <1>1, <3>1, LeasesOfOne DEF LeaseInv, LeasesOf, ActiveLeases
    <3>3. QED
      BY <2>1, <3>2, HolderOfOnlyLease
  <2>4. QED
    BY <2>2, <2>3
<1>7. heldBy[t] = None /\ heldBy' = [heldBy EXCEPT ![t] = n]
  BY <1>4, <1>5, <1>6 DEF heldBy
<1>8. Ownership!Acquire(t, n)
  BY <1>7 DEF Ownership!Acquire
<1>9. QED
  BY <1>8 DEF Ownership!Next

\* With the node of its active lease as the holder of a task, the app (leases
\* posted by hand excepted) implements TaskOwnership: a task passes from one
\* node to another only by being given up in between.
THEOREM OwnershipImplemented == PeerSpec => ImplementsOwnership
<1>1. Init => Ownership!Init
  <2>1. ASSUME leases = <<>>
        PROVE  heldBy = [t \in Tasks |-> None]
    BY <2>1 DEF heldBy, HolderIn, LeasesOf, ActiveLeases
  <2>2. QED
    BY <2>1 DEF Init, StoreInit, Ownership!Init
<1>2. LeaseInv /\ LeaseInv' /\ [PeerNext]_storeVars => [Ownership!Next]_heldBy
  <2> SUFFICES ASSUME LeaseInv, LeaseInv', [PeerNext]_storeVars
               PROVE  Ownership!Next
    OBVIOUS
  <2>1. [Next]_storeVars /\ TypeOK /\ AtMostOneLease /\ AtMostOneLease'
    BY DEF Next, LeaseInv
  <2>2. CASE DOMAIN leases' = DOMAIN leases
    BY <2>1, <2>2, LeaseTableStep, ShrinkGivesUp
  <2>3. CASE DOMAIN leases' # DOMAIN leases
    <3>1. PICK t \in Tasks, n \in Nodes : leases' = CreateLease(leases, t, n)
      BY <2>1, <2>3, LeaseTableStep
    <3>2. QED
      BY <2>1, <3>1, GrowAcquires
  <2>4. QED
    BY <2>2, <2>3
<1>3. QED
  BY <1>1, <1>2, LeaseInvInit, LeaseInvStep, PTL
  DEF PeerSpec, ImplementsOwnership, Ownership!Spec
-----------------------------------------------------------------------------
(* Promotion in order, and what holds in a cluster without peers.          *)

\* What promoting and scheduling, in any order, make of a table.
Moves(ts, us) ==
    \A t \in Tasks :
        /\ us[t].deps = ts[t].deps
        /\ \/ us[t].status = ts[t].status /\ us[t].node = ts[t].node
           \/ /\ ts[t].status = "pending" /\ DependenciesMet(ts, t)
              /\ us[t].status = "ready" /\ us[t].node = ts[t].node
           \/ /\ ts[t].status = "ready" \/ (ts[t].status = "pending" /\ DependenciesMet(ts, t))
              /\ us[t].status = "running" /\ us[t].node \in Nodes

LEMMA MovesTrans ==
    ASSUME NEW ts \in [Tasks -> Task], NEW us, NEW vs, Moves(ts, us), Moves(us, vs)
    PROVE  Moves(ts, vs)
<1>1. ASSUME NEW t \in Tasks, DependenciesMet(us, t)
      PROVE  DependenciesMet(ts, t)
  <2>1. ts[t] \in Task
    OBVIOUS
  <2>2. ts[t].deps \subseteq Tasks /\ us[t].deps = ts[t].deps
    BY <2>1 DEF Task, Moves
  <2>3. \A d \in Tasks : us[d].status = "completed" => ts[d].status = "completed"
    BY DEF Moves
  <2>4. QED
    BY <1>1, <2>2, <2>3 DEF DependenciesMet
<1>2. QED
  BY <1>1 DEF Moves

LEMMA MovesNot == \A ts : Moves(ts, ts)
BY DEF Moves

LEMMA PromoteMoves ==
    ASSUME NEW ts \in [Tasks -> Task], NEW S
    PROVE  Moves(ts, Promote(ts, S)) /\ Promote(ts, S) \in [Tasks -> Task]
<1> DEFINE us == Promote(ts, S)
<1>1. ASSUME NEW t \in Tasks
      PROVE  /\ us[t].deps = ts[t].deps /\ us[t].node = ts[t].node
             /\ \/ us[t].status = ts[t].status
                \/ /\ ts[t].status = "pending" /\ DependenciesMet(ts, t)
                   /\ us[t].status = "ready"
  <2>1. ts[t] \in Task /\ us[t] = IF t \in S /\ Promotable(ts, t)
                                  THEN [ts[t] EXCEPT !.status = "ready"] ELSE ts[t]
    BY DEF Promote
  <2> HIDE DEF us
  <2>2. QED
    BY <2>1 DEF Task, Promotable
<1>2. us \in [Tasks -> Task]
  BY PromoteSteady DEF Steady
<1> HIDE DEF us
<1>3. Moves(ts, us)
  BY <1>1 DEF Moves
<1>4. QED
  BY <1>2, <1>3 DEF us

\* A ready task that finds a node runs there; the others stay as they are.
LEMMA ScheduledRecord ==
    ASSUME NEW ts \in [Tasks -> Task], NEW ns, NEW t \in Tasks
    PROVE  \/ SchedulePending(ts, ns)[t] = ts[t]
           \/ /\ ts[t].status = "ready" /\ SchedulePending(ts, ns)[t].status = "running"
              /\ SchedulePending(ts, ns)[t].node \in Nodes
              /\ SchedulePending(ts, ns)[t].deps = ts[t].deps
<1> DEFINE us == SchedulePending(ts, ns)
           pick == CHOOSE n \in FirstEligible(ns, ts[t]) : TRUE
<1>1. us[t] = IF Schedulable(ts, ns, t)
              THEN [ts[t] EXCEPT !.status = "running", !.node = pick] ELSE ts[t]
  BY DEF SchedulePending
<1>2. Schedulable(ts, ns, t) => pick \in Nodes
  BY DEF Schedulable, FirstEligible, Eligible
<1>3. ts[t] \in Task
  OBVIOUS
<1> HIDE DEF us, pick
<1>4. QED
  BY <1>1, <1>2, <1>3 DEF Task, Schedulable, us

LEMMA ScheduleMoves ==
    ASSUME NEW ts \in [Tasks -> Task], NEW ns
    PROVE  Moves(ts, SchedulePending(ts, ns))
<1>1. QED
  BY ScheduledRecord DEF Moves

\* What is proved of a step: promotion in order, and that running tasks keep
\* having a node and completed ones no lease.
Orderly ==
    /\ PromotionStep
    /\ RunningHasHolder => RunningHasHolder'
    /\ CompletedHoldsNoLease => CompletedHoldsNoLease'

\* A handler that writes the table mid, and then promotes and schedules.
LEMMA WritesOrderly ==
    ASSUME LeaseInv, TypeOK', LeaseStep, ActiveLeases(leases') \subseteq ActiveLeases(leases),
           NEW mid, Moves(mid, tasks'),
           \A t \in Tasks :
              /\ mid[t].status = "running" => tasks[t].status = "running"
                                              /\ mid[t].node = tasks[t].node
              /\ mid[t].status = "completed"
                    => \/ tasks[t].status = "completed"
                       \/ \A l \in ActiveLeases(leases') : leases[l].task # t
              /\ tasks[t].status = "pending" /\ tasks[t].node = None
                    => \/ tasks'[t].status \notin {"ready", "running"}
                       \/ mid[t].status = "pending" /\ mid[t].deps = tasks[t].deps
                       \/ \A d \in tasks[t].deps : mid[d].status = "completed"
    PROVE  Orderly
<1>1. \A t \in Tasks : tasks[t].deps \subseteq Tasks
  <2>1. \A t \in Tasks : tasks[t] \in Task
    BY DEF LeaseInv, TypeOK, StoreTypeOK
  <2>2. QED
    BY <2>1 DEF Task
<1>2. \A d \in Tasks : mid[d].status = "completed" <=> tasks'[d].status = "completed"
  BY DEF Moves
<1>3. PromotionStep
  <2> SUFFICES ASSUME NEW t \in Tasks, tasks[t].status = "pending", tasks[t].node = None,
                      tasks'[t].status \in {"ready", "running"}, NEW d \in tasks[t].deps
               PROVE  tasks'[d].status = "completed"
    BY DEF PromotionStep
  <2>1. d \in Tasks
    BY <1>1
  <2>2. CASE mid[t].status = "pending" /\ mid[t].deps = tasks[t].deps
    BY <1>2, <2>1, <2>2 DEF Moves, DependenciesMet
  <2>3. CASE \A e \in tasks[t].deps : mid[e].status = "completed"
    BY <1>2, <2>1, <2>3
  <2>4. QED
    BY <2>2, <2>3
<1>4. ASSUME RunningHasHolder
      PROVE  RunningHasHolder'
  BY <1>4 DEF RunningHasHolder, Moves
<1>5. ASSUME CompletedHoldsNoLease
      PROVE  CompletedHoldsNoLease'
  <2> SUFFICES ASSUME NEW l \in ActiveLeases(leases'),
                      tasks'[leases'[l].task].status = "completed"
               PROVE  FALSE
    BY DEF CompletedHoldsNoLease
  <2>1. l \in ActiveLeases(leases) /\ leases'[l].task = leases[l].task /\ leases[l].task \in Tasks
    BY ActiveLeaseTask DEF LeaseInv, LeaseStep, ActiveLeases
  <2>2. mid[leases[l].task].status = "completed"
    BY <1>2, <2>1
  <2>3. QED
    BY <1>5, <2>1, <2>2 DEF CompletedHoldsNoLease
<1>6. QED
  BY <1>3, <1>4, <1>5 DEF Orderly

LEMMA UnwrittenOrderly ==
    ASSUME LeaseInv, TypeOK', LeaseStep, ActiveLeases(leases') \subseteq ActiveLeases(leases),
           Moves(tasks, tasks')
    PROVE  Orderly
BY WritesOrderly

LEMMA ClaimOrderly ==
    ASSUME LeaseInv, TypeOK', NEW t \in Tasks, NEW n \in Nodes, ClaimTask(t, n)
    PROVE  Orderly
<1> DEFINE k == Len(leases) + 1
<1>1. /\ leases' = CreateLease(leases, t, n) /\ tasks[t].status = "ready"
      /\ tasks' = SetAssignee(SetTaskStatus(tasks, t, "running"), t, n)
  BY DEF ClaimTask
<1>2. /\ \A l \in DOMAIN leases : leases'[l] = leases[l]
      /\ leases'[k].task = t
      /\ ActiveLeases(leases') = ActiveLeases(leases) \cup {k}
  BY <1>1, CreateKeeps DEF LeaseInv
<1>3. \A l \in ActiveLeases(leases) : l \in DOMAIN leases /\ leases[l].task \in Tasks
  BY ActiveLeaseTask DEF LeaseInv
<1>4. /\ tasks'[t].node = n /\ tasks'[t].status = "running"
      /\ \A u \in Tasks \ {t} : tasks'[u] = tasks[u]
  BY <1>1 DEF LeaseInv, TypeOK, StoreTypeOK, Task, SetAssignee, SetTaskStatus
<1> HIDE DEF k
<1>5. PromotionStep
  BY <1>1, <1>4 DEF PromotionStep
<1>6. RunningHasHolder => RunningHasHolder'
  BY <1>4 DEF RunningHasHolder
<1>7. CompletedHoldsNoLease => CompletedHoldsNoLease'
  BY <1>2, <1>3, <1>4 DEF CompletedHoldsNoLease
<1>8. QED
  BY <1>5, <1>6, <1>7 DEF Orderly

\* An orphan has an assignee, so it is not a pending task that nobody holds;
\* it ends on a node or failed.
LEMMA RecoverOrderly ==
    ASSUME LeaseInv, TypeOK', NEW N, Recover(N)
    PROVE  Orderly
<1> DEFINE scanned == ExpireDue(leases)
           revoked == {l \in ActiveLeases(scanned) : scanned[l].node \in N}
           S == {t \in Tasks : Known(tasks, t) /\ \E l \in revoked : scanned[l].task = t}
           freed == [t \in Tasks |-> IF t \in S
                       THEN [tasks[t] EXCEPT !.status = "ready", !.node = None] ELSE tasks[t]]
           placed == SchedulePending(freed, nodes)
           mid == [t \in Tasks |-> IF t \in S /\ placed[t].status = "ready"
                       THEN [freed[t] EXCEPT !.status = "failed"] ELSE freed[t]]
<1>1. tasks' = IF S = {} THEN tasks ELSE RescheduleOrphaned(tasks, S)
  BY DEF Recover
<1>2. LeaseStep /\ ActiveLeases(leases') \subseteq ActiveLeases(leases)
  BY RecoverKeeps DEF LeaseInv
<1>3. \A t \in S : tasks[t].node # None
  <2>1. /\ ActiveLeases(scanned) \subseteq ActiveLeases(leases)
        /\ \A l \in DOMAIN leases : scanned[l].task = leases[l].task
    BY ExpireDueType DEF LeaseInv, TypeOK, StoreTypeOK
  <2>2. QED
    BY <2>1 DEF LeaseInv, UnassignedHoldsNoLease, ActiveLeases
<1>4. \A t \in Tasks : tasks[t] \in Task
  BY DEF LeaseInv, TypeOK, StoreTypeOK
<1>5. S = {} => Orderly
  BY <1>1, <1>2, MovesNot, UnwrittenOrderly
<1> HIDE DEF scanned, S
<1>6. ASSUME NEW t \in Tasks
      PROVE  /\ freed[t] \in Task /\ freed[t].deps = tasks[t].deps
             /\ t \in S => freed[t].status = "ready" /\ freed[t].node = None
             /\ t \notin S => freed[t] = tasks[t]
  <2>1. freed[t] = IF t \in S THEN [tasks[t] EXCEPT !.status = "ready", !.node = None]
                              ELSE tasks[t]
    OBVIOUS
  <2> HIDE DEF freed
  <2>2. QED
    BY <1>4, <2>1 DEF Task, TaskStatus
<1>7. S # {} => \A t \in Tasks : tasks'[t] = IF t \in S /\ placed[t].status = "ready"
                                   THEN [placed[t] EXCEPT !.status = "failed"] ELSE placed[t]
  BY <1>1 DEF RescheduleOrphaned
<1>8. \A t \in Tasks : mid[t] = IF t \in S /\ placed[t].status = "ready"
                                THEN [freed[t] EXCEPT !.status = "failed"] ELSE freed[t]
  OBVIOUS
<1>9. freed \in [Tasks -> Task]
  <2>1. freed = [t \in Tasks |-> freed[t]]
    OBVIOUS
  <2> HIDE DEF freed
  <2>2. QED
    BY <1>6, <2>1
<1> HIDE DEF freed, mid
<1>10. \A t \in Tasks : \/ placed[t] = freed[t]
                        \/ /\ freed[t].status = "ready" /\ placed[t].status = "running"
                           /\ placed[t].node \in Nodes /\ placed[t].deps = freed[t].deps
  BY <1>9, ScheduledRecord
<1> HIDE DEF placed
<1>11. ASSUME S # {}, NEW t \in Tasks
       PROVE  /\ tasks'[t].deps = mid[t].deps
              /\ \/ tasks'[t] = mid[t]
                 \/ mid[t].status = "ready" /\ tasks'[t].status = "running" /\ tasks'[t].node \in Nodes
              /\ t \in S => mid[t].status \in {"ready", "failed"}
              /\ t \notin S => mid[t] = tasks[t]
  <2>1. CASE t \in S /\ placed[t].status = "ready"
    <3>1. placed[t] = freed[t]
      BY <2>1, <1>10
    <3>2. tasks'[t] = [freed[t] EXCEPT !.status = "failed"] /\ mid[t] = tasks'[t]
      BY <2>1, <3>1, <1>7, <1>8, <1>11
    <3>3. mid[t].status = "failed" /\ t \in S
      BY <2>1, <3>2, <1>6 DEF Task
    <3>4. QED
      BY <3>2, <3>3
  <2>2. CASE ~(t \in S /\ placed[t].status = "ready")
    BY <2>2, <1>6, <1>7, <1>8, <1>10, <1>11
  <2>3. QED
    BY <2>1, <2>2
<1>12. ASSUME S # {}
       PROVE  Moves(mid, tasks')
  BY <1>11, <1>12 DEF Moves
<1>13. ASSUME S # {}, NEW t \in Tasks
       PROVE  /\ mid[t].status = "running" => tasks[t].status = "running"
                                              /\ mid[t].node = tasks[t].node
              /\ mid[t].status = "completed" => tasks[t].status = "completed"
              /\ tasks[t].status = "pending" /\ tasks[t].node = None
                    => mid[t].status = "pending" /\ mid[t].deps = tasks[t].deps
  BY <1>3, <1>11, <1>13
<1>14. QED
  BY <1>2, <1>5, <1>12, <1>13, WritesOrderly

LEMMA TaskStepOrderly ==
    ASSUME LeaseInv, TypeOK', TaskNext
    PROVE  Orderly
<1>0. tasks \in [Tasks -> Task] /\ \A t \in Tasks : tasks[t] \in Task
  BY DEF LeaseInv, TypeOK, StoreTypeOK
<1>1. ASSUME UNCHANGED <<leases, index>>
      PROVE  LeaseStep /\ ActiveLeases(leases') \subseteq ActiveLeases(leases)
  BY <1>1 DEF LeaseStep
<1>2. ASSUME NEW t \in Tasks, NEW req \in CapSets, SubmitTask(t, req)
      PROVE  Orderly
  <2> DEFINE mid == CreateTask(tasks, t, req)
  <2>1. mid \in [Tasks -> Task] /\ tasks[t].status = "absent"
    BY <1>0, <1>2, InputsAssumption, CreateTaskType DEF SubmitTask, Known
  <2>2. mid[t].status = "pending" /\ \A u \in Tasks \ {t} : mid[u] = tasks[u]
    BY <1>0 DEF CreateTask
  <2>3. tasks' = Promote(mid, Tasks) /\ UNCHANGED <<leases, index>>
    BY <1>2 DEF SubmitTask, TriggerPendingTasks
  <2> HIDE DEF mid
  <2>4. Moves(mid, tasks')
    BY <2>1, <2>3, PromoteMoves
  <2>5. QED
    BY <1>1, <2>1, <2>2, <2>3, <2>4, WritesOrderly
<1>3. ASSUME NEW t \in Tasks, NEW D \in DepSets, SetTaskDependencies(t, D)
      PROVE  Orderly
  <2>1. /\ UNCHANGED <<leases, index>> /\ \A u \in Tasks \ {t} : tasks'[u] = tasks[u]
        /\ tasks'[t].status = tasks[t].status /\ tasks'[t].node = tasks[t].node
    BY <1>0, <1>3 DEF SetTaskDependencies, SetDependencies, Task
  <2>2. QED
    BY <1>1, <2>1, MovesNot, WritesOrderly
<1>4. ASSUME NEW t \in Tasks, CompleteTask(t)
      PROVE  Orderly
  <2> DEFINE mid == SetTaskStatus(tasks, t, "completed")
             free == Promote(mid, Dependents(mid, t))
  <2>1. mid \in [Tasks -> Task]
    BY <1>0, SetTaskStatusSteady DEF Steady, TaskStatus
  <2>2. /\ mid[t].status = "completed" /\ \A u \in Tasks \ {t} : mid[u] = tasks[u]
    BY <1>0 DEF SetTaskStatus, Task
  <2>3. tasks' = SchedulePending(free, nodes) /\ Revoke(FoundLease(t))
    BY <1>4 DEF CompleteTask, TriggerDownstream
  <2> HIDE DEF mid
  <2>4. Moves(mid, tasks')
    BY <2>1, <2>3, PromoteMoves, ScheduleMoves, MovesTrans
  <2>5. tasks'[t].status = "completed"
    BY <2>2, <2>4 DEF Moves
  <2>6. LeaseStep /\ ActiveLeases(leases') = ActiveLeases(leases) \ FoundLease(t)
    BY <2>3, RevokeKeeps DEF LeaseInv
  <2>7. \A l \in ActiveLeases(leases') : leases[l].task # t
    BY <2>6, FoundLeaseIsAll
  <2> HIDE DEF free
  <2>8. QED
    BY <2>2, <2>4, <2>5, <2>6, <2>7, WritesOrderly
<1>5. ASSUME NEW t \in Tasks, FailTask(t)
      PROVE  Orderly
  <2>1. tasks' = FailedTable(t) /\ UNCHANGED <<leases, index>>
    BY <1>5 DEF FailTask, FailedTable
  <2>2. \A u \in Tasks :
           \/ tasks'[u] = tasks[u]
           \/ tasks'[u].status \in {"failed", "blocked"}
    <3> DEFINE failed == SetTaskStatus(tasks, t, "failed")
               block == {d \in Dependents(failed, t) : failed[d].status = "pending"}
    <3>1. /\ \A u \in Tasks \ {t} : failed[u] = tasks[u]
          /\ failed[t].status = "failed" /\ failed \in [Tasks -> Task]
      BY <1>0 DEF SetTaskStatus, Task, TaskStatus
    <3>2. \A u \in Tasks : tasks'[u] = IF u \in block THEN [failed[u] EXCEPT !.status = "blocked"]
                                                      ELSE failed[u]
      BY <2>1 DEF FailedTable
    <3> HIDE DEF failed, block
    <3>3. ASSUME NEW u \in Tasks
          PROVE  tasks'[u] = failed[u] \/ tasks'[u].status = "blocked"
      <4>1. failed[u] \in Task
        BY <3>1
      <4>2. QED
        BY <3>2, <4>1 DEF Task
    <3>4. QED
      BY <3>1, <3>3
  <2>3. QED
    BY <1>1, <2>1, <2>2, MovesNot, WritesOrderly
<1>6. ASSUME NEW t \in Tasks, UnblockTask(t)
      PROVE  Orderly
  <2>1. /\ UNCHANGED <<leases, index>> /\ tasks'[t].status = "pending"
        /\ \A u \in Tasks \ {t} : tasks'[u] = tasks[u]
    BY <1>0, <1>6 DEF UnblockTask, SetTaskStatus, Task
  <2>2. QED
    BY <1>1, <2>1, MovesNot, WritesOrderly
<1>7. ASSUME NEW t \in Tasks, ManualAdvance(t)
      PROVE  Orderly
  <2> DEFINE mid == SetTaskStatus(tasks, t, "ready")
  <2>1. mid \in [Tasks -> Task]
    BY <1>0, SetTaskStatusSteady DEF Steady, TaskStatus
  <2>2. /\ mid[t].status = "ready" /\ \A u \in Tasks \ {t} : mid[u] = tasks[u]
    BY <1>0 DEF SetTaskStatus, Task
  <2>3. /\ tasks' = SchedulePending(mid, nodes) /\ UNCHANGED <<leases, index>>
        /\ DependenciesMet(tasks, t) /\ tasks[t].deps \subseteq Tasks
    BY <1>0, <1>7 DEF ManualAdvance, Task
  <2> HIDE DEF mid
  <2>4. Moves(mid, tasks')
    BY <2>1, <2>3, ScheduleMoves
  <2>5. tasks[t].status = "pending" => \A d \in tasks[t].deps : mid[d].status = "completed"
    BY <2>2, <2>3 DEF DependenciesMet
  <2>6. QED
    BY <1>1, <2>2, <2>3, <2>4, <2>5, WritesOrderly
<1>8. ASSUME NEW t \in Tasks, NEW n \in Nodes, ReleaseTask(t, n)
      PROVE  Orderly
  <2>1. /\ Revoke(FoundLease(t)) /\ tasks[t].node # None /\ tasks'[t].status = "ready"
        /\ \A u \in Tasks \ {t} : tasks'[u] = tasks[u]
    BY <1>0, <1>8, NoneAssumption DEF ReleaseTask, SetAssignee, SetTaskStatus, Task
  <2>2. LeaseStep /\ ActiveLeases(leases') \subseteq ActiveLeases(leases)
    BY <2>1, RevokeKeeps DEF LeaseInv
  <2>3. QED
    BY <2>1, <2>2, MovesNot, WritesOrderly
<1>9. ASSUME ScheduleTrigger
      PROVE  Orderly
  <2>1. Moves(tasks, tasks') /\ UNCHANGED <<leases, index>>
    BY <1>0, <1>9, PromoteMoves, ScheduleMoves, MovesTrans DEF ScheduleTrigger, TriggerPendingTasks
  <2>2. QED
    BY <1>1, <2>1, UnwrittenOrderly
<1>10. QED
  BY <1>2, <1>3, <1>4, <1>5, <1>6, <1>7, <1>8, <1>9, ClaimOrderly DEF TaskNext

LEMMA NodeStepOrderly ==
    ASSUME LeaseInv, TypeOK', NodeNext
    PROVE  Orderly
<1>1. UNCHANGED <<leases, index>> /\ Moves(tasks, tasks')
  <2>1. tasks \in [Tasks -> Task]
    BY DEF LeaseInv, TypeOK, StoreTypeOK
  <2>2. QED
    BY <2>1, PromoteMoves, ScheduleMoves, MovesTrans, MovesNot
    DEF NodeNext, JoinNode, Heartbeat, PatchCapabilities, WatchdogCheck, TriggerPendingTasks
<1>2. LeaseStep /\ ActiveLeases(leases') \subseteq ActiveLeases(leases)
  BY <1>1 DEF LeaseStep
<1>3. QED
  BY <1>1, <1>2, UnwrittenOrderly

LEMMA LeaseStepOrderly ==
    ASSUME LeaseInv, TypeOK', LeaseNext
    PROVE  Orderly
<1>1. LeaseStep /\ ActiveLeases(leases') \subseteq ActiveLeases(leases)
  <2>1. ASSUME NEW l \in LeaseIds, LeaseFallsDue(l)
        PROVE  LeaseStep /\ ActiveLeases(leases') \subseteq ActiveLeases(leases)
    BY <2>1, FallsDueKeeps DEF LeaseInv, LeaseStep, ActiveLeases
  <2>2. QED
    BY <2>1, ScanKeeps, RevokeKeeps DEF LeaseInv, LeaseNext, ScanLeases, DeleteLease
<1>2. Moves(tasks, tasks')
  BY MovesNot DEF LeaseNext, LeaseFallsDue, ScanLeases, DeleteLease
<1>3. QED
  BY <1>1, <1>2, UnwrittenOrderly

LEMMA LocalStepOrderly ==
    ASSUME LeaseInv, LeaseInv', [LocalNext]_storeVars
    PROVE  Orderly
<1>1. TypeOK'
  BY DEF LeaseInv
<1>2. CASE RecoveryNext
  BY <1>1, <1>2, RecoverOrderly DEF RecoveryNext, TriggerRecovery, DetectExpired
<1>3. CASE UNCHANGED storeVars
  BY <1>1, <1>3, MovesNot, UnwrittenOrderly DEF storeVars, LeaseStep
<1>4. QED
  BY <1>1, <1>2, <1>3, TaskStepOrderly, NodeStepOrderly, LeaseStepOrderly DEF LocalNext

\* With peers, as long as nobody posts leases by hand: no handler, batch of
\* promotions or recovery takes a pending task that nobody holds to ready or
\* running before all its dependencies are completed.
THEOREM PromotedInOrder == PeerSpec => [][PromotionStep]_storeVars
<1>1. LeaseInv /\ LeaseInv' /\ [PeerNext]_storeVars => [PromotionStep]_storeVars
  <2>1. ASSUME syncVersion \in Nat, SyncNext
        PROVE  PromotionStep
    BY <2>1 DEF SyncNext, SyncReceive, SyncVersionOnly, PromotionStep
  <2>2. LeaseInv => syncVersion \in Nat
    BY DEF LeaseInv, TypeOK, StoreTypeOK
  <2>3. QED
    BY <2>1, <2>2, LocalStepOrderly DEF PeerNext, Orderly
<1>2. QED
  BY <1>1, LeaseInvInit, LeaseInvStep, PTL DEF PeerSpec

\* In a cluster without peers every running task names a node: whatever claims
\* a task, releases it or moves it to another node does so in one request.
THEOREM LocalRunningHeld == LocalSpec => []RunningHasHolder
<1>1. Init => RunningHasHolder
  BY DEF Init, StoreInit, NoTask, RunningHasHolder
<1>2. LeaseInv /\ [LocalNext]_storeVars => LeaseInv'
  BY LeaseInvStep DEF PeerNext
<1>3. LeaseInv /\ LeaseInv' /\ RunningHasHolder /\ [LocalNext]_storeVars => RunningHasHolder'
  BY LocalStepOrderly DEF Orderly
<1>4. QED
  BY <1>1, <1>2, <1>3, LeaseInvInit, PTL DEF LocalSpec

\* Nor does a completed task keep a lease there: the lease that completion
\* finds and revokes is the only one, also when the index had lost it.
THEOREM LocalCompletedUnleased == LocalSpec => []CompletedHoldsNoLease
<1>1. Init => CompletedHoldsNoLease
  BY DEF Init, StoreInit, ActiveLeases, CompletedHoldsNoLease
<1>2. LeaseInv /\ [LocalNext]_storeVars => LeaseInv'
  BY LeaseInvStep DEF PeerNext
<1>3. LeaseInv /\ LeaseInv' /\ CompletedHoldsNoLease /\ [LocalNext]_storeVars
         => CompletedHoldsNoLease'
  BY LocalStepOrderly DEF Orderly
<1>4. QED
  BY <1>1, <1>2, <1>3, LeaseInvInit, PTL DEF LocalSpec


-----------------------------------------------------------------------------
(* The first of several: what CHOOSE stands for in the store's methods.    *)

\* Of finitely many one has the smallest number: nobody has fewer below.
LEMMA FirstOfFinite ==
    ASSUME NEW S, IsFiniteSet(S), S # {}, NEW f \in [S -> Nat]
    PROVE  \E x \in S : \A y \in S : f[x] <= f[y]
<1> DEFINE below(x) == {y \in S : f[y] < f[x]}
           T == {below(x) : x \in S}
<1>1. IsWellFoundedOn(StrictSubsetOrdering(S), SUBSET S)
  BY FS_StrictSubsetOrderingWellFounded, FS_FiniteSubsetsOfFinite
<1>2. T \subseteq SUBSET S /\ T # {}
  <2>1. \A x \in S : below(x) \subseteq S
    OBVIOUS
  <2> HIDE DEF below
  <2>2. QED
    BY <2>1
<1> HIDE DEF T
<1>3. PICK b \in T : \A c \in T : <<c, b>> \notin StrictSubsetOrdering(S)
  BY <1>1, <1>2, WFMin
<1>4. PICK x \in S : b = below(x)
  BY DEF T
<1>5. ASSUME NEW y \in S, f[y] < f[x]
      PROVE  FALSE
  <2>1. f[x] \in Nat /\ f[y] \in Nat
    OBVIOUS
  <2>2. below(y) \subseteq below(x)
    <3>1. ASSUME NEW z \in below(y) PROVE z \in below(x)
      <4>1. z \in S /\ f[z] \in Nat /\ f[z] < f[y]
        BY <3>1
      <4>2. f[z] < f[x]
        BY <1>5, <2>1, <4>1
      <4>3. QED
        BY <4>1, <4>2
    <3>2. QED
      BY <3>1
  <2>3. y \in below(x) /\ y \notin below(y)
    BY <1>5, <2>1
  <2>4. below(y) \in T /\ below(y) \in SUBSET S /\ below(x) \in SUBSET S
    BY DEF T
  <2> HIDE DEF below
  <2>5. <<below(y), below(x)>> \in StrictSubsetOrdering(S)
    BY <2>2, <2>3, <2>4 DEF StrictSubsetOrdering
  <2>6. QED
    BY <1>3, <1>4, <2>4, <2>5
<1>6. \A y \in S : f[x] \in Nat /\ f[y] \in Nat
  OBVIOUS
<1>7. QED
  BY <1>5, <1>6

\* The scheduler finds a node whenever there is one.
LEMMA FirstEligibleExists ==
    ASSUME NEW ns \in [Nodes -> Node], NEW task, Eligible(ns, task) # {}
    PROVE  FirstEligible(ns, task) # {}
<1> DEFINE f == [n \in Eligible(ns, task) |-> ns[n].seat]
<1>1. IsFiniteSet(Eligible(ns, task)) /\ Eligible(ns, task) \subseteq Nodes
  BY FiniteAssumption, FS_Subset DEF Eligible
<1>2. f \in [Eligible(ns, task) -> Nat]
  BY <1>1 DEF Node
<1>3. PICK n \in Eligible(ns, task) : \A m \in Eligible(ns, task) : f[n] <= f[m]
  BY <1>1, <1>2, FirstOfFinite
<1>4. \A m \in Eligible(ns, task) : ns[n].seat <= ns[m].seat
  BY <1>3
<1>5. n \in FirstEligible(ns, task)
  BY <1>4 DEF FirstEligible
<1>6. QED
  BY <1>5

\* Seats count the nodes that have joined, so that they tell who was first.
Seated == {n \in Nodes : Registered(nodes, n)}
SeatsOK ==
    /\ \A n \in Seated : nodes[n].seat < Cardinality(Seated)
    /\ \A n, m \in Seated : nodes[n].seat = nodes[m].seat => n = m

\* Nobody leaves the table and nobody changes seats.
LEMMA SameSeats ==
    ASSUME SeatsOK,
           \A n \in Nodes : /\ nodes'[n].seat = nodes[n].seat
                            /\ Registered(nodes', n) <=> Registered(nodes, n)
    PROVE  SeatsOK'
<1>1. Seated' = Seated
  BY DEF Seated
<1>2. QED
  BY <1>1 DEF SeatsOK, Seated

LEMMA NodeOpsSeats ==
    ASSUME NEW ns \in [Nodes -> Node], NEW n \in Nodes, NEW caps, NEW s \in NodeStatus,
           Registered(ns, n)
    PROVE  \A m \in Nodes :
              /\ UpdateHeartbeat(ns, n)[m].seat = ns[m].seat
              /\ Registered(UpdateHeartbeat(ns, n), m) <=> Registered(ns, m)
              /\ UpdateCapabilities(ns, n, caps)[m].seat = ns[m].seat
              /\ Registered(UpdateCapabilities(ns, n, caps), m) <=> Registered(ns, m)
              /\ SetNodeStatus(ns, n, s)[m].seat = ns[m].seat
              /\ Registered(SetNodeStatus(ns, n, s), m) <=> Registered(ns, m)
BY DEF UpdateHeartbeat, UpdateCapabilities, SetNodeStatus, Registered, Node, NodeStatus

LEMMA NewSeat ==
    ASSUME TypeOK, SeatsOK, NEW n \in Nodes, NEW caps, ~Registered(nodes, n),
           nodes' = RegisterNode(nodes, n, caps)
    PROVE  SeatsOK'
<1> DEFINE new == [status |-> "online", caps |-> caps, seat |-> Cardinality(Seated)]
<1>1. nodes \in [Nodes -> Node] /\ nodes' = [nodes EXCEPT ![n] = new]
  BY DEF TypeOK, StoreTypeOK, RegisterNode, Seated
<1>2. new.status = "online" /\ new.seat = Cardinality(Seated)
  OBVIOUS
<1> HIDE DEF new
<1>3. nodes'[n] = new /\ \A m \in Nodes \ {n} : nodes'[m] = nodes[m]
  BY <1>1
<1>4. Seated' = Seated \cup {n} /\ n \notin Seated
  BY <1>2, <1>3 DEF Seated, Registered
<1>5. IsFiniteSet(Seated) /\ Cardinality(Seated) \in Nat
  BY FiniteAssumption, FS_Subset, FS_CardinalityType DEF Seated
<1>6. Cardinality(Seated') = Cardinality(Seated) + 1
  BY <1>4, <1>5, FS_AddElement
<1>7. \A m \in Seated : m \in Nodes /\ m # n /\ nodes'[m] = nodes[m] /\ nodes[m].seat \in Nat
  BY <1>1, <1>3, <1>4 DEF Seated, Node
<1>8. QED
  BY <1>2, <1>3, <1>4, <1>5, <1>6, <1>7 DEF SeatsOK

LEMMA SeatsStep == TypeOK /\ SeatsOK /\ [Next]_storeVars => SeatsOK'
<1> SUFFICES ASSUME TypeOK, SeatsOK, [Next]_storeVars PROVE SeatsOK'
  OBVIOUS
<1>1. nodes \in [Nodes -> Node] /\ "online" \in NodeStatus
  BY DEF TypeOK, StoreTypeOK, NodeStatus
<1>2. ASSUME UNCHANGED nodes PROVE SeatsOK'
  BY <1>2, SameSeats
<1>3. ASSUME NEW n \in Nodes, NEW caps \in CapSets, JoinNode(n, caps) PROVE SeatsOK'
  <2>1. CASE ~Registered(nodes, n)
    BY <1>3, <2>1, NewSeat DEF JoinNode
  <2>2. CASE Registered(nodes, n) /\ caps = {}
    BY <1>1, <1>3, <2>2, NodeOpsSeats, SameSeats DEF JoinNode
  <2>3. CASE Registered(nodes, n) /\ caps # {}
    <3> DEFINE beaten == UpdateHeartbeat(nodes, n)
    <3>1. nodes' = UpdateCapabilities(beaten, n, caps)
      BY <1>3, <2>3 DEF JoinNode
    <3>2. beaten \in [Nodes -> Node]
      BY <1>1, NodeOpsType, {} \in SUBSET Caps
    <3>3. \A m \in Nodes : /\ beaten[m].seat = nodes[m].seat
                           /\ Registered(beaten, m) <=> Registered(nodes, m)
      BY <1>1, <2>3, NodeOpsSeats
    <3> HIDE DEF beaten
    <3>4. Registered(beaten, n)
      BY <2>3, <3>3
    <3>5. QED
      BY <1>1, <3>1, <3>2, <3>3, <3>4, NodeOpsSeats, SameSeats
  <2>4. QED
    BY <2>1, <2>2, <2>3
<1>4. ASSUME NEW n \in Nodes, Heartbeat(n) PROVE SeatsOK'
  BY <1>1, <1>4, NodeOpsSeats, SameSeats DEF Heartbeat
<1>5. ASSUME NEW n \in Nodes, NEW caps \in CapSets, PatchCapabilities(n, caps) PROVE SeatsOK'
  BY <1>1, <1>5, NodeOpsSeats, SameSeats DEF PatchCapabilities
<1>6. ASSUME NEW n \in Nodes, NEW s \in NodeStatus, WatchdogCheck(n, s) PROVE SeatsOK'
  BY <1>1, <1>6, NodeOpsSeats, SameSeats DEF WatchdogCheck
<1>7. CASE TaskNext
  BY <1>2, <1>7 DEF TaskNext, SubmitTask, SetTaskDependencies, CompleteTask, FailTask, UnblockTask,
                    ManualAdvance, ClaimTask, ReleaseTask, ScheduleTrigger
<1>8. CASE LeaseNext \/ RecoveryNext \/ SyncNext \/ LeaseApiNext
  BY <1>2, <1>8 DEF LeaseNext, LeaseFallsDue, ScanLeases, DeleteLease, RecoveryNext,
                    TriggerRecovery, DetectExpired, Recover, SyncNext, SyncReceive,
                    SyncVersionOnly, LeaseApiNext, PostLease
<1>9. CASE UNCHANGED storeVars
  BY <1>2, <1>9 DEF storeVars
<1>10. QED
  BY <1>3, <1>4, <1>5, <1>6, <1>7, <1>8, <1>9 DEF Next, PeerNext, LocalNext, NodeNext

\* However nodes join, join again and change, exactly one of those that could
\* take a task comes first: the scheduler's choice is never ambiguous, and it
\* finds no node only if there is none (Scheduler.schedule_pending's loop).
THEOREM FirstNodeUnique ==
    Spec => [](\A task \in Task :
                  Eligible(nodes, task) # {} => \E n \in Nodes : FirstEligible(nodes, task) = {n})
<1>1. Init => SeatsOK
  <2>1. Init => Seated = {}
    BY DEF Init, StoreInit, NoNode, Seated, Registered
  <2>2. QED
    BY <2>1 DEF SeatsOK
<1>2. ASSUME TypeOK, SeatsOK, NEW task \in Task, Eligible(nodes, task) # {}
      PROVE  \E n \in Nodes : FirstEligible(nodes, task) = {n}
  <2>1. nodes \in [Nodes -> Node]
    BY <1>2 DEF TypeOK, StoreTypeOK
  <2>2. PICK n : n \in FirstEligible(nodes, task)
    BY <1>2, <2>1, FirstEligibleExists
  <2>3. Eligible(nodes, task) \subseteq Seated
    BY DEF Eligible, Seated, Registered
  <2>4. ASSUME NEW m \in FirstEligible(nodes, task) PROVE m = n
    <3>1. /\ n \in Seated /\ m \in Seated /\ nodes[n].seat \in Nat /\ nodes[m].seat \in Nat
          /\ nodes[n].seat <= nodes[m].seat /\ nodes[m].seat <= nodes[n].seat
      BY <2>1, <2>2, <2>3, <2>4 DEF FirstEligible, Seated, Node
    <3>2. nodes[n].seat = nodes[m].seat
      BY <3>1
    <3>3. QED
      BY <1>2, <3>1, <3>2 DEF SeatsOK
  <2>5. n \in Nodes
    BY <2>2 DEF FirstEligible, Eligible
  <2>6. QED
    BY <2>2, <2>4, <2>5
<1>3. TypeOK /\ SeatsOK =>
          \A task \in Task :
              Eligible(nodes, task) # {} => \E n \in Nodes : FirstEligible(nodes, task) = {n}
  BY <1>2
<1>4. QED
  BY <1>1, <1>3, InitType, StepType, SeatsStep, PTL DEF Spec

\* A task is left ready only if nobody can take it, and whoever is given one
\* can, and is the first.
LEMMA SchedulePlaces ==
    ASSUME NEW ts \in [Tasks -> Task], NEW ns \in [Nodes -> Node], NEW t \in Tasks
    PROVE  LET vs == SchedulePending(ts, ns)
           IN /\ vs[t].status = "ready" => Eligible(ns, vs[t]) = {}
              /\ ts[t].status # "running" /\ vs[t].status = "running" =>
                    vs[t].node \in FirstEligible(ns, vs[t])
<1> DEFINE us == SchedulePending(ts, ns)
           pick == CHOOSE n \in FirstEligible(ns, ts[t]) : TRUE
<1>1. us[t] = IF Schedulable(ts, ns, t)
              THEN [ts[t] EXCEPT !.status = "running", !.node = pick] ELSE ts[t]
  BY DEF SchedulePending
<1>2. CASE Schedulable(ts, ns, t)
  <2>1. pick \in FirstEligible(ns, ts[t])
    BY <1>2 DEF Schedulable
  <2>2. ts[t] \in Task
    OBVIOUS
  <2> HIDE DEF us, pick
  <2>3. us[t].status = "running" /\ us[t].node = pick /\ us[t].requires = ts[t].requires
    BY <1>1, <1>2, <2>2 DEF Task
  <2>4. FirstEligible(ns, us[t]) = FirstEligible(ns, ts[t])
    BY <2>3 DEF FirstEligible, Eligible
  <2>5. QED
    BY <2>1, <2>3, <2>4 DEF us
<1>3. CASE ~Schedulable(ts, ns, t)
  <2>1. us[t] = ts[t]
    BY <1>1, <1>3
  <2>2. ts[t].status = "ready" => Eligible(ns, ts[t]) = {}
    BY <1>3, FirstEligibleExists DEF Schedulable
  <2>3. QED
    BY <2>1, <2>2
<1>4. QED
  BY <1>2, <1>3

\* The requests that end with a pass of the scheduler over the whole table.
Schedules ==
    \/ ScheduleTrigger
    \/ \E t \in Tasks : CompleteTask(t) \/ ManualAdvance(t)
    \/ \E n \in Nodes, caps \in CapSets : PatchCapabilities(n, caps)

PassStep ==
    Schedules => \A t \in Tasks :
        /\ tasks'[t].status = "ready" => Eligible(nodes', tasks'[t]) = {}
        /\ tasks[t].status # "running" /\ tasks'[t].status = "running" =>
              tasks'[t].node \in FirstEligible(nodes', tasks'[t])

LEMMA SchedulesFrom ==
    ASSUME TypeOK, Schedules
    PROVE  \E us \in [Tasks -> Task] :
              /\ tasks' = SchedulePending(us, nodes')
              /\ \A t \in Tasks : us[t].status = "running" => tasks[t].status = "running"
<1>1. tasks \in [Tasks -> Task]
  BY DEF TypeOK, StoreTypeOK
<1>2. ASSUME NEW ts \in [Tasks -> Task], NEW S, tasks' = SchedulePending(Promote(ts, S), nodes'),
             \A t \in Tasks : ts[t].status = "running" => tasks[t].status = "running"
      PROVE  \E us \in [Tasks -> Task] :
                /\ tasks' = SchedulePending(us, nodes')
                /\ \A t \in Tasks : us[t].status = "running" => tasks[t].status = "running"
  <2>1. Promote(ts, S) \in [Tasks -> Task]
    BY PromoteMoves
  <2>2. \A t \in Tasks : Promote(ts, S)[t].status = "running" => ts[t].status = "running"
    BY DEF Promote, Promotable, Task
  <2>3. QED
    BY <1>2, <2>1, <2>2
<1>3. ASSUME NEW t \in Tasks, NEW s \in {"completed", "ready"}
      PROVE  /\ SetTaskStatus(tasks, t, s) \in [Tasks -> Task]
             /\ \A u \in Tasks : SetTaskStatus(tasks, t, s)[u].status = "running"
                                 => tasks[u].status = "running"
  BY <1>1 DEF SetTaskStatus, Task, TaskStatus
<1>4. CASE ScheduleTrigger
  BY <1>1, <1>2, <1>4 DEF ScheduleTrigger, TriggerPendingTasks
<1>5. ASSUME NEW t \in Tasks, CompleteTask(t)
      PROVE  \E us \in [Tasks -> Task] :
                /\ tasks' = SchedulePending(us, nodes')
                /\ \A u \in Tasks : us[u].status = "running" => tasks[u].status = "running"
  <2> DEFINE ts == SetTaskStatus(tasks, t, "completed")
  <2>1. tasks' = SchedulePending(Promote(ts, Dependents(ts, t)), nodes')
    BY <1>5 DEF CompleteTask, TriggerDownstream
  <2>2. /\ ts \in [Tasks -> Task]
        /\ \A u \in Tasks : ts[u].status = "running" => tasks[u].status = "running"
    BY <1>3
  <2> HIDE DEF ts
  <2>3. QED
    BY <1>2, <2>1, <2>2
<1>6. ASSUME NEW t \in Tasks, ManualAdvance(t)
      PROVE  \E us \in [Tasks -> Task] :
                /\ tasks' = SchedulePending(us, nodes')
                /\ \A u \in Tasks : us[u].status = "running" => tasks[u].status = "running"
  BY <1>3, <1>6 DEF ManualAdvance
<1>7. ASSUME NEW n \in Nodes, NEW caps \in CapSets, PatchCapabilities(n, caps)
      PROVE  \E us \in [Tasks -> Task] :
                /\ tasks' = SchedulePending(us, nodes')
                /\ \A u \in Tasks : us[u].status = "running" => tasks[u].status = "running"
  BY <1>1, <1>2, <1>7 DEF PatchCapabilities, TriggerPendingTasks
<1>8. QED
  BY <1>4, <1>5, <1>6, <1>7 DEF Schedules

\* After every scheduling pass of the API a task is still ready only if no
\* online node has what it requires, and what the pass has started runs on the
\* first node that has: tasks are neither overlooked nor misplaced.
THEOREM PassLeavesNone == Spec => [][PassStep]_storeVars
<1>1. ASSUME TypeOK, TypeOK', Schedules
      PROVE  PassStep
  <2>1. PICK us \in [Tasks -> Task] :
            /\ tasks' = SchedulePending(us, nodes')
            /\ \A t \in Tasks : us[t].status = "running" => tasks[t].status = "running"
    BY <1>1, SchedulesFrom
  <2>2. nodes' \in [Nodes -> Node]
    BY <1>1 DEF TypeOK, StoreTypeOK
  <2>3. QED
    BY <2>1, <2>2, SchedulePlaces DEF PassStep
<1>2. TypeOK /\ TypeOK' /\ [Next]_storeVars => [PassStep]_storeVars
  BY <1>1 DEF PassStep
<1>3. QED
  BY <1>2, InitType, StepType, PTL DEF Spec

\* Whatever has become of the index, the handlers find an active lease of the
\* task whenever there is one, and never that of another (get_lease_by_task).
THEOREM LookupFinds ==
    Spec => [](\A t \in Tasks :
                  IF LeasesOf(leases, t) = {} THEN LeaseByTask(leases, index, t) = 0
                  ELSE LeaseByTask(leases, index, t) \in LeasesOf(leases, t))
<1>1. ASSUME TypeOK, IndexNamesTask, NEW t \in Tasks
      PROVE  IF LeasesOf(leases, t) = {} THEN LeaseByTask(leases, index, t) = 0
             ELSE LeaseByTask(leases, index, t) \in LeasesOf(leases, t)
  <2> DEFINE found == LeasesOf(leases, t)
  <2>1. leases \in Seq(Lease) /\ DOMAIN leases = 1..Len(leases) /\ Len(leases) \in Nat
    BY <1>1 DEF TypeOK, StoreTypeOK
  <2>2. found \subseteq 1..Len(leases)
    BY <2>1 DEF LeasesOf, ActiveLeases
  <2>3. CASE index[t] \in ActiveLeases(leases)
    <3>1. index[t] # 0
      BY <2>1, <2>3 DEF ActiveLeases
    <3>2. leases[index[t]].task = t
      BY <1>1, <3>1 DEF IndexNamesTask
    <3>3. index[t] \in found /\ LeaseByTask(leases, index, t) = index[t]
      BY <2>3, <3>2 DEF LeasesOf, LeaseByTask
    <3>4. QED
      BY <3>3
  <2>4. CASE index[t] \notin ActiveLeases(leases) /\ found = {}
    BY <2>4 DEF LeaseByTask
  <2>5. CASE index[t] \notin ActiveLeases(leases) /\ found # {}
    <3> DEFINE f == [l \in found |-> l]
    <3>1. IsFiniteSet(1..Len(leases))
      BY <2>1, FS_Interval
    <3>2. IsFiniteSet(found)
      BY <2>2, <3>1, FS_Subset
    <3>3. f \in [found -> Nat]
      BY <2>1, <2>2
    <3> HIDE DEF found
    <3>4. PICK l \in found : \A m \in found : f[l] <= f[m]
      BY <2>5, <3>2, <3>3, FirstOfFinite
    <3>5. \A m \in found : l <= m
      BY <3>4
    <3>6. LeaseByTask(leases, index, t) = CHOOSE k \in found : \A m \in found : k <= m
      BY <2>5, <3>5 DEF LeaseByTask, found
    <3>7. LeaseByTask(leases, index, t) \in found
      BY <3>5, <3>6
    <3>8. QED
      BY <2>5, <3>7 DEF found
  <2>6. QED
    BY <2>3, <2>4, <2>5
<1>2. Init => IndexNamesTask
  BY DEF Init, StoreInit, IndexNamesTask
<1>3. TypeOK /\ IndexNamesTask /\ [Next]_storeVars => IndexNamesTask'
  BY IndexStep
<1>4. TypeOK /\ IndexNamesTask =>
          \A t \in Tasks : IF LeasesOf(leases, t) = {} THEN LeaseByTask(leases, index, t) = 0
                          ELSE LeaseByTask(leases, index, t) \in LeasesOf(leases, t)
  BY <1>1
<1>5. QED
  BY <1>2, <1>3, <1>4, InitType, StepType, PTL DEF Spec
=============================================================================
