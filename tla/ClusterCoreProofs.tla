------------------------- MODULE ClusterCoreProofs --------------------------
(***************************************************************************)
(* Proofs about ClusterCore for any tasks, nodes, dependencies and bounds: *)
(* type correctness, the order in which tasks become ready, running tasks  *)
(* have a node, deleted tasks stay deleted, and the propagation of a       *)
(* completion leaves no dependent behind.                                  *)
(***************************************************************************)
EXTENDS ClusterCore, SequenceTheorems, FiniteSetTheorems, WellFoundedInduction, TLAPS

-----------------------------------------------------------------------------
(* The invariant.                                                          *)

\* What a call may still have to do.
Plans ==
    {<<>>, <<"trigger">>, <<"schedule">>,
     <<"depend">>, <<"depend", "place", "assign">>, <<"place", "assign">>, <<"assign">>,
     <<"propagate", "schedule">>, <<"read", "propagate", "schedule">>,
     <<"settle", "propagate", "schedule">>, <<"list", "block">>, <<"block">>,
     <<"revoke", "unready", "schedule">>, <<"unready", "schedule">>, <<"unready", "trigger">>,
     <<"cancel">>, <<"delete">>, <<"start">>}

Placing == {<<"depend", "place", "assign">>, <<"place", "assign">>, <<"assign">>, <<"start">>}

\* In the middle of judging a dependent.
Judging == {<<"read", "propagate", "schedule">>, <<"settle", "propagate", "schedule">>}

\* A call that places a task knows the task and a node; a dependent that is still
\* to be made ready has nothing to wait for but what is still to be read.
ApiOK ==
    /\ api.plan \in Plans
    /\ api.plan \in Placing => api.task \in Tasks /\ api.node \in Nodes
    /\ At("read") => /\ api.verdict \in {"ready", "none"} /\ api.target \in Tasks
                     /\ api.deps \subseteq tasks[api.target].deps
                     /\ api.verdict = "ready" => tasks[api.target].deps \ api.deps \subseteq done
    /\ At("settle") => /\ api.verdict \in {"ready", "blocked"} /\ api.target \in Tasks
                       /\ api.verdict = "ready" => tasks[api.target].deps \subseteq done

\* A lease has been taken for the task; its row may be marked deleted by now.
HasLease(t) == \E l \in DOMAIN leases : leases[l].task = t

RecoveryOK ==
    /\ recovery.found \subseteq DOMAIN leases
    /\ \A i \in DOMAIN recovery.orphans : HasLease(recovery.orphans[i])
    /\ recovery.next \in {"look", "put"} => recovery.orphans # <<>>
    /\ recovery.next = "put" => recovery.verdict \in {"running", "failed"}

CompletedOnce == \A t \in Tasks : tasks[t].status = "completed" => t \in done

Inv == TypeOK /\ ApiOK /\ RecoveryOK /\ CompletedOnce /\ ReadyInOrder

LEMMA PlansAreSeqs == Plans \subseteq Seq(Steps)
BY DEF Plans, Steps

LEMMA PlanAt ==
    ASSUME api.plan \in Plans
    PROVE  /\ At("settle") => api.plan = <<"settle", "propagate", "schedule">>
           /\ At("read") => api.plan = <<"read", "propagate", "schedule">>
           /\ At("propagate") => api.plan = <<"propagate", "schedule">>
           /\ At("place") => api.plan = <<"place", "assign">>
           /\ At("assign") => api.plan = <<"assign">>
           /\ At("start") => api.plan = <<"start">>
           /\ At("depend") => api.plan \in {<<"depend">>, <<"depend", "place", "assign">>}
           /\ At("trigger") => api.plan = <<"trigger">>
           /\ At("schedule") => api.plan = <<"schedule">>
           /\ At("unready") => api.plan \in {<<"unready", "schedule">>, <<"unready", "trigger">>}
           /\ At("cancel") => api.plan = <<"cancel">>
           /\ At("delete") => api.plan = <<"delete">>
           /\ At("revoke") => api.plan = <<"revoke", "unready", "schedule">>
           /\ At("list") => api.plan = <<"list", "block">>
           /\ At("block") => api.plan = <<"block">>
BY DEF Plans, At, Idle

LEMMA NewTaskPlans ==
    ASSUME NEW D, NEW n
    PROVE  /\ NewTaskPlan(D, n) \in Plans
           /\ NewTaskPlan(D, n) \in {<<>>, <<"depend">>, <<"place", "assign">>,
                                     <<"depend", "place", "assign">>}
<1> USE DEF NewTaskPlan, Plans
<1>1. CASE D = {} /\ n = None
  BY <1>1
<1>2. CASE D # {} /\ n = None
  BY <1>2
<1>3. CASE D = {} /\ n # None
  BY <1>3
<1>4. CASE D # {} /\ n # None
  <2>1. <<"depend">> \in Seq(Steps) /\ <<"place", "assign">> \in Seq(Steps)
    BY PlansAreSeqs
  <2>2. <<"depend">> \o <<"place", "assign">> = <<"depend", "place", "assign">>
    <3> DEFINE both == <<"depend">> \o <<"place", "assign">>
    <3>1. both \in Seq(Steps) /\ Len(both) = 3
      BY <2>1, ConcatProperties
    <3>2. both[1] = "depend" /\ both[2] = "place" /\ both[3] = "assign"
      BY <2>1
    <3>3. <<"depend", "place", "assign">> \in Seq(Steps)
      BY PlansAreSeqs
    <3> HIDE DEF both
    <3>4. \A i \in 1..Len(both) : both[i] = <<"depend", "place", "assign">>[i]
      BY <3>1, <3>2
    <3>5. both = <<"depend", "place", "assign">>
      BY <3>1, <3>3, <3>4, SeqEqual
    <3>6. QED
      BY <3>5 DEF both
  <2>3. QED
    BY <1>4, <2>2
<1>5. QED
  BY <1>1, <1>2, <1>3, <1>4

-----------------------------------------------------------------------------
(* The notices of a scan: its leases are finitely many numbers, so there   *)
(* is a first one, a second one and so on.                                 *)

LEMMA NthExists ==
    ASSUME NEW n \in Nat, NEW R \in SUBSET (1..n), NEW i \in 1..Cardinality(R)
    PROVE  \E l \in R : Cardinality({m \in R : m < l}) = i - 1
<1> DEFINE Below(l) == {m \in R : m < l}
           T == {l \in Nat : Cardinality(Below(l)) >= i}
<1>0. \A m \in R : m \in Nat /\ 1 <= m /\ m <= n
  OBVIOUS
<1>1. IsFiniteSet(R) /\ Cardinality(R) \in Nat
  <2>1. IsFiniteSet(1..n)
    BY FS_Interval
  <2>2. QED
    BY <2>1, FS_Subset, FS_CardinalityType
<1>2. \A l \in Nat : IsFiniteSet(Below(l)) /\ Cardinality(Below(l)) \in Nat
  BY <1>1, FS_Subset, FS_CardinalityType
<1>3. Below(n + 1) = R /\ n + 1 \in Nat
  <2>1. \A m \in R : m < n + 1
    BY <1>0
  <2>2. Below(n + 1) = R
    BY <2>1, Zenon
  <2>3. QED
    BY <2>2
<1>4. T # {}
  <2>1. Cardinality(Below(n + 1)) >= i
    BY <1>1, <1>3
  <2>2. QED
    BY <1>3, <2>1
<1>5. PICK l \in T : \A k \in T : ~(<<k, l>> \in OpToRel(<, Nat))
  BY <1>4, NatLessThanWellFounded, WFMin
<1>6. l \in Nat /\ \A k \in T : ~(k < l)
  BY <1>5 DEF OpToRel
<1>7. l # 0
  <2>1. Below(0) = {}
    <3>1. \A m \in R : ~(m < 0)
      BY <1>0
    <3>2. QED
      BY <3>1
  <2>2. Cardinality(Below(0)) = 0
    BY <2>1, FS_EmptySet
  <2>3. 0 \notin T
    BY <2>2
  <2>4. QED
    BY <2>3
<1>8. l - 1 \in Nat /\ ~(Cardinality(Below(l - 1)) >= i)
  BY <1>6, <1>7
<1>9. Below(l) = IF l - 1 \in R THEN Below(l - 1) \cup {l - 1} ELSE Below(l - 1)
  <2>1. \A m \in R : m < l <=> m < l - 1 \/ m = l - 1
    BY <1>0, <1>6, <1>8
  <2>2. QED
    BY <2>1
<1>10. l - 1 \in R
  BY <1>5, <1>8, <1>9
<1>11. Cardinality(Below(l)) = Cardinality(Below(l - 1)) + 1
  <2>1. l - 1 \notin Below(l - 1)
    BY <1>6
  <2>2. QED
    BY <1>2, <1>8, <1>9, <1>10, <2>1, FS_AddElement
<1>12. Cardinality(Below(l - 1)) = i - 1
  <2>1. Cardinality(Below(l)) >= i
    OBVIOUS
  <2>2. Cardinality(Below(l - 1)) \in Nat /\ Cardinality(Below(l)) \in Nat
    BY <1>2, <1>6, <1>8
  <2> HIDE DEF Below
  <2>3. QED
    BY <1>8, <1>11, <2>1, <2>2
<1>13. QED
  BY <1>10, <1>12

LEMMA NoticesType ==
    ASSUME leases \in Seq(Lease), NEW R \in SUBSET (DOMAIN leases)
    PROVE  Notices(R) \in Seq(Nodes)
<1>1. DOMAIN leases = 1..Len(leases) /\ Len(leases) \in Nat
  OBVIOUS
<1>2. Cardinality(R) \in Nat
  <2>1. IsFiniteSet(1..Len(leases))
    BY <1>1, FS_Interval
  <2>2. QED
    BY <1>1, <2>1, FS_Subset, FS_CardinalityType
<1>3. ASSUME NEW i \in 1..Cardinality(R)
      PROVE  leases[CHOOSE l \in R : Cardinality({m \in R : m < l}) = i - 1].node \in Nodes
  <2> DEFINE nth == CHOOSE l \in R : Cardinality({m \in R : m < l}) = i - 1
  <2>1. \E l \in R : Cardinality({m \in R : m < l}) = i - 1
    BY <1>1, NthExists
  <2>2. nth \in R
    BY <2>1
  <2> HIDE DEF nth
  <2>3. leases[nth] \in Lease
    BY <1>1, <2>2
  <2>4. leases[nth].node \in Nodes
    BY <2>3 DEF Lease
  <2>5. QED
    BY <2>4 DEF nth
<1> DEFINE e(i) == leases[CHOOSE l \in R : Cardinality({m \in R : m < l}) = i - 1].node
<1>4. \A i \in 1..Cardinality(R) : e(i) \in Nodes
  BY <1>3
<1> HIDE DEF e
<1>5. [i \in 1..Cardinality(R) |-> e(i)] \in Seq(Nodes)
  BY <1>2, <1>4
<1>6. QED
  BY <1>5 DEF Notices, e
-----------------------------------------------------------------------------
(* What a step may do to a task.                                           *)

\* Completed tasks are remembered, ready ones have nothing to wait for, deletion is
\* for good, and nothing runs anew without a node but what has a lease.
Sound(t) ==
    /\ tasks'[t].status = "completed" => t \in done'
    /\ tasks'[t].status = "ready" => tasks'[t].deps \subseteq done'
    /\ tasks[t].status = "deleted" => tasks'[t].status = "deleted"
    /\ Unplaced(t)' => Unplaced(t) \/ HasLease(t)

AllSound == tasks' \in [Tasks -> Task] /\ \A t \in Tasks : Sound(t)

LEMMA TaskFields ==
    ASSUME NEW task \in Task
    PROVE  /\ task.status \in TaskStatus \cup Gone /\ task.node \in Nodes \cup {None}
           /\ task.deps \subseteq Tasks /\ task.requires \subseteq Caps
           /\ \A s \in TaskStatus \cup Gone :
                 /\ [task EXCEPT !.status = s] \in Task
                 /\ [task EXCEPT !.status = s].status = s
                 /\ [task EXCEPT !.status = s].node = task.node
                 /\ [task EXCEPT !.status = s].deps = task.deps
           /\ \A n \in Nodes :
                 /\ [task EXCEPT !.node = n] \in Task
                 /\ [task EXCEPT !.node = n].node = n
                 /\ [task EXCEPT !.node = n].status = task.status
                 /\ [task EXCEPT !.node = n].deps = task.deps
           /\ \A req \in SUBSET Caps :
                 /\ [task EXCEPT !.requires = req] \in Task
                 /\ [task EXCEPT !.requires = req].status = task.status
                 /\ [task EXCEPT !.requires = req].node = task.node
                 /\ [task EXCEPT !.requires = req].deps = task.deps
BY DEF Task

LEMMA UnchangedSound ==
    ASSUME Inv, UNCHANGED tasks, done \subseteq done'
    PROVE  AllSound
BY DEF Inv, TypeOK, CompletedOnce, ReadyInOrder, AllSound, Sound, Unplaced

\* A status other than completed, ready and running may be set at any time,
\* completed when it is noted, ready when there is nothing to wait for, and
\* running when there is a lease.
LEMMA SetStatusSound ==
    ASSUME Inv, NEW t, NEW s \in TaskStatus, tasks' = SetTaskStatus(tasks, t, s),
           done \subseteq done',
           s = "completed" => t \in done',
           s = "ready" => t \in Tasks /\ tasks[t].deps \subseteq done',
           s = "running" => t \in Tasks /\ HasLease(t)
    PROVE  AllSound
<1>1. tasks \in [Tasks -> Task]
  BY DEF Inv, TypeOK
<1>2. CASE t \in Tasks /\ Exists(tasks, t)
  <2>1. tasks' = [tasks EXCEPT ![t] = [tasks[t] EXCEPT !.status = s]]
    BY <1>1, <1>2 DEF SetTaskStatus
  <2>2. tasks[t] \in Task
    BY <1>1, <1>2
  <2>3. /\ tasks' \in [Tasks -> Task]
        /\ tasks'[t].status = s /\ tasks'[t].node = tasks[t].node /\ tasks'[t].deps = tasks[t].deps
        /\ \A u \in Tasks : u # t => tasks'[u] = tasks[u]
    BY <1>1, <1>2, <2>1, <2>2, TaskFields
  <2>4. Sound(t)
    BY <1>2, <2>3, NoneAssumption DEF Sound, Unplaced, Exists, Gone, TaskStatus
  <2>5. \A u \in Tasks : u # t => Sound(u)
    BY <2>3 DEF Inv, CompletedOnce, ReadyInOrder, Sound, Unplaced
  <2>6. QED
    BY <2>3, <2>4, <2>5 DEF AllSound
<1>3. CASE ~(t \in Tasks /\ Exists(tasks, t))
  <2>1. tasks' = tasks
    BY <1>1, <1>3 DEF SetTaskStatus
  <2>2. QED
    BY <2>1, UnchangedSound
<1>4. QED
  BY <1>2, <1>3

LEMMA SetAssigneeSound ==
    ASSUME Inv, NEW t \in Tasks, NEW n \in Nodes, tasks' = SetAssignee(tasks, t, n),
           done \subseteq done'
    PROVE  AllSound /\ (tasks'[t].status = "running" => tasks'[t].node = n)
<1>1. tasks \in [Tasks -> Task] /\ tasks[t] \in Task
  BY DEF Inv, TypeOK
<1>2. CASE Exists(tasks, t)
  <2>1. tasks' = [tasks EXCEPT ![t] = [tasks[t] EXCEPT !.node = n]]
    BY <1>1, <1>2 DEF SetAssignee
  <2>2. /\ tasks' \in [Tasks -> Task]
        /\ tasks'[t].status = tasks[t].status /\ tasks'[t].node = n
        /\ tasks'[t].deps = tasks[t].deps
        /\ \A u \in Tasks : u # t => tasks'[u] = tasks[u]
    BY <1>1, <2>1, TaskFields
  <2>3. Sound(t)
    BY <2>2, NoneAssumption DEF Inv, CompletedOnce, ReadyInOrder, Sound, Unplaced
  <2>4. \A u \in Tasks : u # t => Sound(u)
    BY <2>2 DEF Inv, CompletedOnce, ReadyInOrder, Sound, Unplaced
  <2>5. QED
    BY <2>2, <2>3, <2>4 DEF AllSound
<1>3. CASE ~Exists(tasks, t)
  <2>1. tasks' = tasks /\ tasks[t].status # "running"
    BY <1>3 DEF SetAssignee, Exists, Gone
  <2>2. QED
    BY <2>1, UnchangedSound
<1>4. QED
  BY <1>2, <1>3

\* update_task: new requirements, perhaps new dependencies, for which a ready
\* task waits again.
LEMMA UpdateSound ==
    ASSUME Inv, NEW t \in Tasks, NEW D \in SUBSET Tasks, NEW req \in SUBSET Caps, UNCHANGED done,
           \/ tasks' = SetRequires(SetDependencies(tasks, t, D), t, req)
           \/ tasks' = SetRequires(tasks, t, req)
           \/ tasks' = SetDependencies(tasks, t, D)
    PROVE  AllSound
<1>1. tasks \in [Tasks -> Task] /\ tasks[t] \in Task
  BY DEF Inv, TypeOK
<1> DEFINE s == IF D # {} /\ tasks[t].status = "ready" THEN "pending" ELSE tasks[t].status
           waits == [tasks[t] EXCEPT !.deps = D, !.status = s]
<1>2. /\ waits \in Task /\ waits.status = s /\ waits.deps = D /\ waits.node = tasks[t].node
  BY <1>1 DEF Task, TaskStatus, Gone
<1>3. ASSUME NEW new \in Task,
             tasks' = [tasks EXCEPT ![t] = new],
             new.node = tasks[t].node,
             \/ new.status = tasks[t].status /\ new.deps = tasks[t].deps
             \/ new.status = s /\ new.deps = D
      PROVE  AllSound
  <2>1. /\ tasks' \in [Tasks -> Task] /\ tasks'[t] = new
        /\ \A u \in Tasks : u # t => tasks'[u] = tasks[u]
    BY <1>1, <1>3
  <2>2. Sound(t)
    BY <1>3, <2>1 DEF Inv, CompletedOnce, ReadyInOrder, Sound, Unplaced
  <2>3. \A u \in Tasks : u # t => Sound(u)
    BY <2>1 DEF Inv, CompletedOnce, ReadyInOrder, Sound, Unplaced
  <2>4. QED
    BY <2>1, <2>2, <2>3 DEF AllSound
<1> HIDE DEF s
<1>4. CASE ~Exists(tasks, t)
  <2>1. tasks' = tasks
    BY <1>4 DEF SetRequires, SetDependencies
  <2>2. QED
    BY <2>1, UnchangedSound
<1>5. CASE Exists(tasks, t)
  <2>1. SetDependencies(tasks, t, D) = [tasks EXCEPT ![t] = waits]
    BY <1>1, <1>5 DEF SetDependencies, s, Task
  <2>2. s \notin Gone
    BY <1>5 DEF Exists, Gone, s
  <2> HIDE DEF waits
  <2>3. SetRequires(tasks, t, req) = [tasks EXCEPT ![t] = [tasks[t] EXCEPT !.requires = req]]
    BY <1>1, <1>5 DEF SetRequires
  <2>4. SetRequires(SetDependencies(tasks, t, D), t, req)
        = [tasks EXCEPT ![t] = [waits EXCEPT !.requires = req]]
    <3>1. SetDependencies(tasks, t, D)[t] = waits
      BY <1>1, <2>1
    <3>2. Exists(SetDependencies(tasks, t, D), t)
      BY <1>2, <2>2, <3>1 DEF Exists
    <3>3. QED
      BY <1>1, <2>1, <3>1, <3>2 DEF SetRequires
  <2>5. CASE tasks' = SetRequires(SetDependencies(tasks, t, D), t, req)
    BY <1>2, <1>3, <2>4, <2>5, TaskFields
  <2>6. CASE tasks' = SetRequires(tasks, t, req)
    BY <1>1, <1>3, <2>3, <2>6, TaskFields
  <2>7. CASE tasks' = SetDependencies(tasks, t, D)
    BY <1>2, <1>3, <2>1, <2>7
  <2>8. QED
    BY <2>5, <2>6, <2>7
<1>6. QED
  BY <1>4, <1>5

LEMMA CreateSound ==
    ASSUME Inv, NEW t \in Tasks, NEW req \in SUBSET Caps, tasks[t].status = "absent",
           tasks' = CreateTask(tasks, t, req), UNCHANGED done
    PROVE  AllSound
<1> DEFINE new == [NoTask EXCEPT !.status = "ready", !.requires = req]
<1>1. /\ new \in Task /\ new.status = "ready" /\ new.deps = {}
      /\ tasks \in [Tasks -> Task]
  BY DEF NoTask, Task, TaskStatus, Inv, TypeOK
<1>2. tasks' = [tasks EXCEPT ![t] = new]
  BY DEF CreateTask
<1> HIDE DEF new
<1>3. /\ tasks' \in [Tasks -> Task] /\ tasks'[t] = new
      /\ \A u \in Tasks : u # t => tasks'[u] = tasks[u]
  BY <1>1, <1>2
<1>4. Sound(t)
  BY <1>1, <1>3 DEF Sound, Unplaced
<1>5. \A u \in Tasks : u # t => Sound(u)
  BY <1>3 DEF Inv, CompletedOnce, ReadyInOrder, Sound, Unplaced
<1>6. QED
  BY <1>3, <1>4, <1>5 DEF AllSound

LEMMA DeleteSound ==
    ASSUME Inv, NEW T, tasks' = DeleteTasks(tasks, T), UNCHANGED done
    PROVE  AllSound
<1> DEFINE gone == [NoTask EXCEPT !.status = "deleted"]
<1>1. /\ gone \in Task /\ gone.status = "deleted" /\ tasks \in [Tasks -> Task]
  BY DEF NoTask, Task, Gone, Inv, TypeOK
<1>2. tasks' = [t \in Tasks |-> IF t \in T THEN gone ELSE tasks[t]]
  BY DEF DeleteTasks
<1> HIDE DEF gone
<1>3. tasks' \in [Tasks -> Task]
  BY <1>1, <1>2
<1>4. \A t \in Tasks : Sound(t)
  BY <1>1, <1>2 DEF Inv, CompletedOnce, ReadyInOrder, Sound, Unplaced
<1>5. QED
  BY <1>3, <1>4 DEF AllSound

\* The dependencies of a task that is promoted are completed, now or earlier.
LEMMA TriggerSound ==
    ASSUME Inv, tasks' = TriggerPendingTasks(tasks), UNCHANGED done
    PROVE  AllSound
<1>1. tasks \in [Tasks -> Task]
  BY DEF Inv, TypeOK
<1>2. \A t \in Tasks : tasks'[t] = IF tasks[t].status = "pending" /\ DependenciesMet(tasks, t)
                                   THEN [tasks[t] EXCEPT !.status = "ready"] ELSE tasks[t]
  BY DEF TriggerPendingTasks
<1>3. ASSUME NEW t \in Tasks
      PROVE  Sound(t) /\ tasks'[t] \in Task
  <2>1. tasks[t] \in Task
    BY <1>1
  <2>2. CASE tasks[t].status = "pending" /\ DependenciesMet(tasks, t)
    <3>1. tasks'[t] = [tasks[t] EXCEPT !.status = "ready"]
      BY <1>2, <2>2
    <3>2. /\ tasks'[t] \in Task /\ tasks'[t].status = "ready"
          /\ tasks'[t].node = tasks[t].node /\ tasks'[t].deps = tasks[t].deps
      BY <2>1, <3>1, TaskFields DEF TaskStatus
    <3>3. tasks[t].deps \subseteq done
      BY <2>1, <2>2, TaskFields DEF DependenciesMet, Inv, CompletedOnce
    <3>4. QED
      BY <2>2, <3>2, <3>3 DEF Sound, Unplaced
  <2>3. CASE ~(tasks[t].status = "pending" /\ DependenciesMet(tasks, t))
    <3>1. tasks'[t] = tasks[t]
      BY <1>2, <2>3
    <3>2. QED
      BY <2>1, <3>1 DEF Inv, CompletedOnce, ReadyInOrder, Sound, Unplaced
  <2>4. QED
    BY <2>2, <2>3
<1>4. tasks' \in [Tasks -> Task]
  BY <1>3 DEF TriggerPendingTasks
<1>5. QED
  BY <1>3, <1>4 DEF AllSound

LEMMA ScheduleSound ==
    ASSUME Inv, tasks' = SchedulePending(tasks, nodes, before), UNCHANGED done
    PROVE  AllSound
<1> DEFINE F(t) == FirstEligible(nodes, before, tasks[t])
           n(t) == CHOOSE m \in F(t) : TRUE
<1>1. tasks \in [Tasks -> Task]
  BY DEF Inv, TypeOK
<1>2. \A t \in Tasks : F(t) \subseteq Nodes
  BY DEF FirstEligible, Eligible
<1>3. \A t \in Tasks : F(t) # {} => n(t) \in Nodes
  BY <1>2
<1>4. tasks' = [t \in Tasks |-> IF tasks[t].status = "ready" /\ F(t) # {}
                                THEN [tasks[t] EXCEPT !.status = "running", !.node = n(t)]
                                ELSE tasks[t]]
  BY DEF SchedulePending
<1> HIDE DEF F, n
<1>5. ASSUME NEW t \in Tasks
      PROVE  Sound(t) /\ tasks'[t] \in Task
  <2>1. tasks[t] \in Task
    BY <1>1
  <2>2. CASE tasks[t].status = "ready" /\ F(t) # {}
    <3>1. tasks'[t] = [tasks[t] EXCEPT !.status = "running", !.node = n(t)]
      BY <1>4, <2>2
    <3>2. n(t) \in Nodes
      BY <1>3, <2>2
    <3>3. /\ tasks'[t] \in Task /\ tasks'[t].status = "running" /\ tasks'[t].node = n(t)
      BY <2>1, <3>1, <3>2 DEF Task, TaskStatus
    <3>4. QED
      BY <2>2, <3>2, <3>3, NoneAssumption DEF Sound, Unplaced
  <2>3. CASE ~(tasks[t].status = "ready" /\ F(t) # {})
    <3>1. tasks'[t] = tasks[t]
      BY <1>4, <2>3
    <3>2. QED
      BY <2>1, <3>1 DEF Inv, CompletedOnce, ReadyInOrder, Sound, Unplaced
  <2>4. QED
    BY <2>2, <2>3
<1>6. tasks' \in [Tasks -> Task]
  BY <1>4, <1>5
<1>7. QED
  BY <1>5, <1>6 DEF AllSound
-----------------------------------------------------------------------------
(* What a step may do to everything else.                                  *)

\* Every step keeps the invariant, leaves deleted tasks deleted and lets no task
\* run without a node but in the ways that are stated.
Kept == Inv' /\ StaysDeletedStep /\ RunningHasNodeStep

LeasesGrow == \A l \in DOMAIN leases : l \in DOMAIN leases' /\ leases'[l].task = leases[l].task

\* What is sound but for tasks that run without a node.
Steady(t) ==
    /\ tasks'[t].status = "completed" => t \in done'
    /\ tasks'[t].status = "ready" => tasks'[t].deps \subseteq done'
    /\ tasks[t].status = "deleted" => tasks'[t].status = "deleted"

LEMMA SteadyKeepsInv ==
    ASSUME Inv, TypeOK', ApiOK', RecoveryOK', RunningHasNodeStep, \A t \in Tasks : Steady(t)
    PROVE  Kept
<1>1. CompletedOnce' /\ ReadyInOrder' /\ StaysDeletedStep
  BY DEF Steady, CompletedOnce, ReadyInOrder, StaysDeletedStep
<1>2. QED
  BY <1>1 DEF Inv, Kept

LEMMA StepKeepsInv ==
    ASSUME Inv, TypeOK', ApiOK', RecoveryOK', AllSound,
           api' = api \/ ~At("assign") \/ fresh'
    PROVE  Kept
<1>1. RunningHasNodeStep
  <2>1. ASSUME NEW t \in Tasks, Unplaced(t)', ~HasLease(t)
        PROVE  (Unplaced(t) /\ (fresh' \/ ~BeingPlaced(t))) \/ BeingPlaced(t)'
    <3>1. Unplaced(t)
      BY <2>1 DEF AllSound, Sound
    <3>2. QED
      BY <3>1 DEF BeingPlaced, At, Idle
  <2>2. QED
    BY <2>1 DEF RunningHasNodeStep, HasLease
<1>2. \A t \in Tasks : Steady(t)
  BY DEF AllSound, Sound, Steady
<1>3. QED
  BY <1>1, <1>2, SteadyKeepsInv

LEMMA ApiUntouched ==
    ASSUME Inv, UNCHANGED api, done \subseteq done',
           \A t \in Tasks : tasks'[t].deps = tasks[t].deps
    PROVE  ApiOK'
BY DEF Inv, ApiOK, At, Idle

LEMMA LeasesStay ==
    ASSUME Inv, LeasesGrow, NEW t, HasLease(t)
    PROVE  HasLease(t)'
BY DEF LeasesGrow, HasLease

LEMMA RecoveryUntouched ==
    ASSUME Inv, LeasesGrow, UNCHANGED recovery
    PROVE  RecoveryOK'
<1>1. \A i \in DOMAIN recovery.orphans : HasLease(recovery.orphans[i])'
  <2>1. ASSUME NEW i \in DOMAIN recovery.orphans
        PROVE  HasLease(recovery.orphans[i])'
    <3>1. PICK t : t = recovery.orphans[i]
      OBVIOUS
    <3>2. HasLease(t)
      BY <3>1 DEF Inv, RecoveryOK
    <3>3. HasLease(t)'
      BY <3>2, LeasesStay
    <3>4. QED
      BY <3>1, <3>3 DEF HasLease
  <2>2. QED
    BY <2>1
<1>2. QED
  BY <1>1 DEF Inv, RecoveryOK, LeasesGrow

LEMMA ApiPlain ==
    ASSUME api'.plan \in Plans \ Placing, api'.plan \notin Judging
    PROVE  ApiOK'
<1>1. api'.plan \in Plans
  OBVIOUS
<1>2. ~(api'.plan # <<>> /\ Head(api'.plan) \in {"read", "settle"})
  BY DEF Plans, Judging
<1>3. QED
  BY <1>1, <1>2 DEF ApiOK, At, Idle

LEMMA TailOfPlan ==
    ASSUME NEW plan \in Plans, plan # <<>>
    PROVE  Len(plan) # 1 =>
             /\ Tail(plan) \in Plans /\ Tail(plan) \notin Judging
             /\ Tail(plan) \in Placing => plan \in Placing
<1>1. CASE plan = <<"depend", "place", "assign">>
  <2>1. Tail(plan) = <<"place", "assign">>
    BY <1>1
  <2>2. QED
    BY <1>1, <2>1 DEF Plans, Placing, Judging
<1>2. CASE plan = <<"place", "assign">>
  <2>1. Tail(plan) = <<"assign">>
    BY <1>2
  <2>2. QED
    BY <1>2, <2>1 DEF Plans, Placing, Judging
<1>3. CASE plan = <<"propagate", "schedule">>
  <2>1. Tail(plan) = <<"schedule">>
    BY <1>3
  <2>2. QED
    BY <1>3, <2>1 DEF Plans, Placing, Judging
<1>4. CASE plan \in Judging
  <2>1. Tail(plan) = <<"propagate", "schedule">>
    <3>1. CASE plan = <<"read", "propagate", "schedule">>
      BY <3>1
    <3>2. CASE plan = <<"settle", "propagate", "schedule">>
      BY <3>2
    <3>3. QED
      BY <1>4, <3>1, <3>2 DEF Judging
  <2>2. QED
    BY <1>4, <2>1 DEF Plans, Placing, Judging
<1>5. CASE plan = <<"list", "block">>
  <2>1. Tail(plan) = <<"block">>
    BY <1>5
  <2>2. QED
    BY <1>5, <2>1 DEF Plans, Placing, Judging
<1>6. CASE plan = <<"revoke", "unready", "schedule">>
  <2>1. Tail(plan) = <<"unready", "schedule">>
    BY <1>6
  <2>2. QED
    BY <1>6, <2>1 DEF Plans, Placing, Judging
<1>7. CASE plan = <<"unready", "schedule">>
  <2>1. Tail(plan) = <<"schedule">>
    BY <1>7
  <2>2. QED
    BY <1>7, <2>1 DEF Plans, Placing, Judging
<1>8. CASE plan = <<"unready", "trigger">>
  <2>1. Tail(plan) = <<"trigger">>
    BY <1>8
  <2>2. QED
    BY <1>8, <2>1 DEF Plans, Placing, Judging
<1>9. ASSUME Len(plan) # 1
      PROVE  \/ plan \in Judging
             \/ plan \in {<<"depend", "place", "assign">>, <<"place", "assign">>, <<"propagate", "schedule">>,
                          <<"list", "block">>, <<"revoke", "unready", "schedule">>,
                          <<"unready", "schedule">>, <<"unready", "trigger">>}
  BY <1>9 DEF Plans, Judging
<1>10. QED
  BY <1>1, <1>2, <1>3, <1>4, <1>5, <1>6, <1>7, <1>8, <1>9

\* The call has ended, or goes on with what it was to do next.
LEMMA ContinueOK ==
    ASSUME Inv, Continue, ~Idle
    PROVE  api' \in Call /\ ApiOK'
<1>1. api \in Call /\ api.plan \in Plans /\ api.plan # <<>>
  BY DEF Inv, TypeOK, ApiOK, Idle
<1>2. CASE Len(api.plan) = 1
  <2>1. api' = NoCall
    BY <1>2 DEF Continue, Finished
  <2>2. api'.plan = <<>> /\ <<>> \in Plans \ Placing /\ <<>> \notin Judging
    BY <2>1 DEF NoCall, Plans, Placing, Judging
  <2>3. api' \in Call
    BY <2>1 DEF NoCall, Call, Verdicts
  <2>4. QED
    BY <2>2, <2>3, ApiPlain
<1>3. CASE Len(api.plan) # 1
  <2>1. api' = [api EXCEPT !.plan = Tail(api.plan)]
    BY <1>1, <1>3 DEF Continue, Skip
  <2>2. Tail(api.plan) \in Plans /\ Tail(api.plan) \in Seq(Steps)
    BY <1>1, <1>3, TailOfPlan, PlansAreSeqs
  <2>3. /\ api' \in Call /\ api'.plan = Tail(api.plan)
        /\ api'.task = api.task /\ api'.node = api.node
    BY <1>1, <2>1, <2>2 DEF Call
  <2>4. api'.plan \in Placing => api'.task \in Tasks /\ api'.node \in Nodes
    BY <1>1, <1>3, <2>3, TailOfPlan DEF Inv, ApiOK
  <2>5. ~(api'.plan # <<>> /\ Head(api'.plan) \in {"read", "settle"})
    BY <1>1, <1>3, <2>2, <2>3, TailOfPlan DEF Plans, Judging
  <2>6. QED
    BY <2>2, <2>3, <2>4, <2>5 DEF ApiOK, At, Idle
<1>4. QED
  BY <1>2, <1>3

LEMMA BeginOK ==
    ASSUME NEW plan \in Plans, NEW t \in Tasks \cup {None}
    PROVE  /\ Begin(plan, t) \in Call /\ Begin(plan, t).plan = plan /\ Begin(plan, t).task = t
           /\ NoCall \in Call /\ NoCall.plan = <<>>
<1>1. plan \in Seq(Steps)
  BY PlansAreSeqs
<1>2. NoCall \in Call /\ NoCall.plan = <<>>
  BY DEF NoCall, Call, Verdicts
<1>3. Begin(plan, t) \in Call /\ Begin(plan, t).plan = plan /\ Begin(plan, t).task = t
  BY <1>1, <1>2 DEF Begin, Call
<1>4. QED
  BY <1>2, <1>3

\* A transaction on the table of tasks.
LEMMA OnTasksKeepsInv ==
    ASSUME Inv, fresh' \in BOOLEAN, OnTasks(tasks'), AllSound, done \subseteq done', done' \subseteq Tasks,
           api' \in Call, ApiOK', ~At("assign")
    PROVE  Kept
<1>1. /\ saved' = nodes
      /\ UNCHANGED <<before, nodes, leases, queue, recovery>>
  BY DEF OnTasks, Commit, Table
<1>2. TypeOK'
  BY <1>1 DEF Inv, TypeOK, AllSound
<1>3. RecoveryOK'
  BY <1>1, RecoveryUntouched DEF LeasesGrow
<1>4. QED
  BY <1>1, <1>2, <1>3, StepKeepsInv

\* A step that changes nothing but the call.
LEMMA ReadKeepsInv ==
    ASSUME Inv, fresh' \in BOOLEAN, JustRead, api' \in Call, ApiOK', ~At("assign")
    PROVE  Kept
<1>1. UNCHANGED <<tasks, before, nodes, saved, leases, queue, recovery, done>>
  BY DEF JustRead, Table
<1>2. AllSound
  BY <1>1, UnchangedSound
<1>3. TypeOK'
  BY <1>1 DEF Inv, TypeOK
<1>4. RecoveryOK'
  BY <1>1, RecoveryUntouched DEF LeasesGrow
<1>5. QED
  BY <1>1, <1>2, <1>3, <1>4, StepKeepsInv
-----------------------------------------------------------------------------
(* The calls.                                                              *)

LEMMA IdlePlan == Idle => ~At("assign") /\ api.plan = <<>>
BY DEF At, Idle

\* A call that begins with a write and goes on with a plan that places nothing.
LEMMA BeginWithWrite ==
    ASSUME Inv, fresh' \in BOOLEAN, Idle, OnTasks(tasks'), AllSound, done \subseteq done', done' \subseteq Tasks,
           NEW plan \in {<<>>, <<"trigger">>, <<"schedule">>, <<"propagate", "schedule">>,
                         <<"list", "block">>, <<"depend">>},
           api' \in Call, api'.plan = plan
    PROVE  Kept
<1>1. plan \in Plans \ Placing /\ plan \notin Judging
  BY DEF Plans, Placing, Judging
<1>2. QED
  BY <1>1, ApiPlain, IdlePlan, OnTasksKeepsInv

LEMMA CreatingCalls ==
    ASSUME Inv, fresh' \in BOOLEAN, NEW t \in Tasks, NEW req \in CapSets, NEW D \in SUBSET Tasks,
           NEW n \in Nodes \cup {None}, SubmitTask(t, req) \/ NewTask(t, req, D, n)
    PROVE  Kept
<1>1. req \in SUBSET Caps /\ D \in SUBSET Tasks /\ done \subseteq Tasks
  BY InputsAssumption DEF Inv, TypeOK
<1>2. /\ Idle /\ tasks[t].status = "absent" /\ UNCHANGED done
      /\ OnTasks(CreateTask(tasks, t, req))
  BY DEF SubmitTask, NewTask
<1>3. tasks' = CreateTask(tasks, t, req) /\ OnTasks(tasks')
  BY <1>2 DEF OnTasks
<1>4. AllSound
  BY <1>1, <1>2, <1>3, CreateSound
<1>5. CASE SubmitTask(t, req)
  <2>1. api' = Begin(<<"trigger">>, t) /\ <<"trigger">> \in Plans
    BY <1>5 DEF SubmitTask, Plans
  <2>2. QED
    BY <1>1, <1>2, <1>3, <1>4, <2>1, BeginOK, BeginWithWrite
<1>6. CASE NewTask(t, req, D, n)
  <2> DEFINE plan == NewTaskPlan(D, n)
  <2>1. plan \in Plans
    BY NewTaskPlans
  <2>2. api' = IF plan = <<>> THEN NoCall ELSE [Begin(plan, t) EXCEPT !.deps = D, !.node = n]
    BY <1>6 DEF NewTask
  <2>3. n = None => plan \in {<<>>, <<"depend">>}
    BY DEF NewTaskPlan
  <2> HIDE DEF plan
  <2>4. /\ api' \in Call /\ api'.plan = plan
        /\ plan # <<>> => api'.task = t /\ api'.node = n
    <3>1. CASE plan = <<>>
      BY <2>1, <2>2, <3>1, BeginOK
    <3>2. CASE plan # <<>>
      <4>1. Begin(plan, t) \in Call /\ Begin(plan, t).plan = plan /\ Begin(plan, t).task = t
        BY <2>1, BeginOK
      <4>2. api' = [Begin(plan, t) EXCEPT !.deps = D, !.node = n]
        BY <2>2, <3>2
      <4>3. QED
        BY <1>1, <4>1, <4>2 DEF Call
    <3>3. QED
      BY <3>1, <3>2
  <2>5. CASE n = None
    BY <1>1, <1>2, <1>3, <1>4, <2>3, <2>4, <2>5, BeginWithWrite
  <2>6. CASE n # None
    <3>1. <<>> \notin Placing
      BY DEF Placing
    <3>2. plan \notin Judging
      BY NewTaskPlans DEF plan, Judging
    <3>3. ~(plan # <<>> /\ Head(plan) \in {"read", "settle"})
      BY <2>1, <3>2 DEF Plans, Judging
    <3>4. ApiOK'
      BY <2>1, <2>4, <2>6, <3>1, <3>3 DEF ApiOK, At, Idle
    <3>5. QED
      BY <1>1, <1>2, <1>3, <1>4, <2>4, <3>4, IdlePlan, OnTasksKeepsInv
  <2>7. QED
    BY <2>5, <2>6
<1>7. QED
  BY <1>5, <1>6

LEMMA StatusCalls ==
    ASSUME Inv, fresh' \in BOOLEAN, NEW t \in Tasks, CompleteTask(t) \/ FailTask(t)
    PROVE  Kept
<1>1. done \subseteq Tasks
  BY DEF Inv, TypeOK
<1>2. CASE CompleteTask(t)
  <2>1. /\ tasks' = SetTaskStatus(tasks, t, "completed") /\ OnTasks(tasks') /\ Idle
        /\ done' = done \cup {t}
        /\ api' = [Begin(<<"propagate", "schedule">>, t) EXCEPT !.agenda = {t}]
    BY <1>2 DEF CompleteTask, OnTasks
  <2>2. AllSound
    BY <2>1, SetStatusSound DEF TaskStatus
  <2>3. <<"propagate", "schedule">> \in Plans /\ {t} \in SUBSET Tasks
    BY DEF Plans
  <2>4. api' \in Call /\ api'.plan = <<"propagate", "schedule">>
    <3> DEFINE b == Begin(<<"propagate", "schedule">>, t)
    <3>1. b \in Call /\ b.plan = <<"propagate", "schedule">>
      BY <2>3, BeginOK
    <3>2. api' = [b EXCEPT !.agenda = {t}]
      BY <2>1
    <3> HIDE DEF b
    <3>3. QED
      BY <2>3, <3>1, <3>2 DEF Call
  <2>5. QED
    BY <1>1, <2>1, <2>2, <2>4, BeginWithWrite
<1>3. CASE FailTask(t)
  <2>1. /\ tasks' = SetTaskStatus(tasks, t, "failed") /\ OnTasks(tasks') /\ Idle
        /\ UNCHANGED done /\ api' = Begin(<<"list", "block">>, t)
    BY <1>3 DEF FailTask, OnTasks
  <2>2. AllSound
    BY <2>1, SetStatusSound DEF TaskStatus
  <2>3. <<"list", "block">> \in Plans
    BY DEF Plans
  <2>4. api' \in Call /\ api'.plan = <<"list", "block">>
    BY <2>1, <2>3, BeginOK
  <2>5. QED
    BY <1>1, <2>1, <2>2, <2>4, BeginWithWrite
<1>4. QED
  BY <1>2, <1>3

LEMMA AutoScheduleKeepsInv == ASSUME Inv, fresh' \in BOOLEAN, AutoSchedule PROVE Kept
<1>1. /\ tasks' = TriggerPendingTasks(tasks) /\ OnTasks(tasks') /\ Idle /\ UNCHANGED done
      /\ api' = Begin(<<"schedule">>, None) /\ done \subseteq Tasks
  BY DEF AutoSchedule, OnTasks, Inv, TypeOK
<1>2. AllSound
  BY <1>1, TriggerSound
<1>3. <<"schedule">> \in Plans
  BY DEF Plans
<1>4. api' \in Call /\ api'.plan = <<"schedule">>
  BY <1>1, <1>3, BeginOK
<1>5. QED
  BY <1>1, <1>2, <1>4, BeginWithWrite

LEMMA UpdatingCalls ==
    ASSUME Inv, fresh' \in BOOLEAN, NEW t \in Tasks, NEW req \in CapSets, NEW D \in SUBSET Tasks,
           UpdateTask(t, D, req) \/ UpdateRequires(t, req)
    PROVE  Kept
<1>1. /\ req \in SUBSET Caps /\ D \in SUBSET Tasks
      /\ UNCHANGED <<api, done>> /\ Idle /\ OnTasks(tasks')
      /\ \/ tasks' = SetRequires(SetDependencies(tasks, t, D), t, req)
         \/ tasks' = SetRequires(tasks, t, req)
  BY InputsAssumption DEF UpdateTask, UpdateRequires, OnTasks
<1>2. AllSound
  BY <1>1, UpdateSound
<1>3. api' \in Call /\ api'.plan = <<>> /\ done \subseteq Tasks
  BY <1>1, IdlePlan DEF Inv, TypeOK
<1>4. QED
  BY <1>1, <1>2, <1>3, BeginWithWrite

\* Calls whose first step only reads.
LEMMA ReadingCalls ==
    ASSUME Inv, fresh' \in BOOLEAN, NEW t \in Tasks, NEW n \in Nodes,
           CancelTask(t) \/ RetryTask(t) \/ DeleteTask(t) \/ ScheduleTaskToNode(t, n)
    PROVE  Kept
<1>1. Idle /\ JustRead
  BY DEF CancelTask, RetryTask, DeleteTask, ScheduleTaskToNode
<1>2. ~At("assign")
  BY <1>1, IdlePlan
<1>3. ASSUME NEW plan \in {<<"cancel">>, <<"unready", "trigger">>, <<"delete">>},
             api' = Begin(plan, t)
      PROVE  Kept
  <2>1. plan \in Plans \ Placing /\ plan \notin Judging
    BY DEF Plans, Placing, Judging
  <2>2. api' \in Call /\ api'.plan = plan
    BY <1>3, <2>1, BeginOK
  <2>3. QED
    BY <1>1, <1>2, <2>1, <2>2, ApiPlain, ReadKeepsInv
<1>4. ASSUME api' = [Begin(<<"start">>, t) EXCEPT !.node = n]
      PROVE  Kept
  <2>1. <<"start">> \in Plans
    BY DEF Plans
  <2>2. api' \in Call /\ api'.plan = <<"start">> /\ api'.task = t /\ api'.node = n
    <3> DEFINE b == Begin(<<"start">>, t)
    <3>1. b \in Call /\ b.plan = <<"start">> /\ b.task = t
      BY <2>1, BeginOK
    <3> HIDE DEF b
    <3>2. QED
      BY <1>4, <3>1 DEF Call, b
  <2>3. ApiOK'
    BY <2>1, <2>2 DEF ApiOK, At, Idle
  <2>4. QED
    BY <1>1, <1>2, <2>2, <2>3, ReadKeepsInv
<1>5. QED
  BY <1>3, <1>4 DEF CancelTask, RetryTask, DeleteTask, ScheduleTaskToNode
-----------------------------------------------------------------------------
(* Calls that touch leases and nodes.                                      *)

SameLeases ==
    /\ leases' \in Seq(Lease) /\ DOMAIN leases' = DOMAIN leases
    /\ LeasesGrow

LEMMA SetLeasesFacts ==
    ASSUME leases \in Seq(Lease), NEW R, NEW s \in {"revoked", "expired", "deleted"},
           leases' = SetLeases(leases, R, s)
    PROVE  SameLeases
<1>1. DOMAIN leases = 1..Len(leases) /\ Len(leases) \in Nat
  OBVIOUS
<1>2. ASSUME NEW l \in DOMAIN leases
      PROVE  leases'[l] \in Lease /\ leases'[l].task = leases[l].task
  <2>1. leases[l] \in Lease
    BY <1>2
  <2>2. /\ [leases[l] EXCEPT !.status = s, !.due = FALSE] \in Lease
        /\ [leases[l] EXCEPT !.status = s, !.due = FALSE].task = leases[l].task
    BY <2>1 DEF Lease
  <2>3. QED
    BY <2>1, <2>2 DEF SetLeases
<1>3. leases' \in [1..Len(leases) -> Lease]
  BY <1>1, <1>2 DEF SetLeases
<1>4. QED
  BY <1>1, <1>2, <1>3 DEF SameLeases, LeasesGrow

LEMMA ScanFacts ==
    ASSUME Inv, Scan
    PROVE  SameLeases /\ queue' \in Seq(Nodes) /\ saved' = nodes
<1>1. leases \in Seq(Lease) /\ queue \in Seq(Nodes)
  BY DEF Inv, TypeOK
<1>2. /\ leases' = SetLeases(leases, Overdue(leases), "expired")
      /\ queue' = queue \o Notices(Overdue(leases)) /\ saved' = nodes
  BY DEF Scan, ExpireLeases, Commit
<1>3. Notices(Overdue(leases)) \in Seq(Nodes)
  BY <1>1, NoticesType DEF Overdue, Active
<1>4. queue' \in Seq(Nodes)
  BY <1>1, <1>2, <1>3, ConcatProperties
<1>5. QED
  BY <1>1, <1>2, <1>4, SetLeasesFacts

LEMMA PurgeKeepsInv ==
    ASSUME Inv, fresh' \in BOOLEAN, NEW T \in SUBSET Tasks, PurgeCompleted(T)
    PROVE  Kept
<1>1. /\ tasks' = DeleteTasks(tasks, T) /\ leases' = DeleteLeases(leases, T)
      /\ saved' = nodes
      /\ UNCHANGED <<before, nodes, queue, api, recovery, done>> /\ Idle
  BY DEF PurgeCompleted, Commit, Table
<1>2. AllSound
  BY <1>1, DeleteSound
<1>3. SameLeases
  BY <1>1, SetLeasesFacts DEF DeleteLeases, Inv, TypeOK
<1>4. TypeOK'
  BY <1>1, <1>2, <1>3 DEF Inv, TypeOK, AllSound, SameLeases
<1>5. ApiOK'
  <2>1. api'.plan = <<>> /\ <<>> \in Plans \ Placing /\ <<>> \notin Judging
    BY <1>1, IdlePlan DEF Plans, Placing, Judging
  <2>2. QED
    BY <2>1, ApiPlain
<1>6. RecoveryOK'
  BY <1>1, <1>2, <1>3, RecoveryUntouched DEF SameLeases, LeasesGrow
<1>7. QED
  BY <1>1, <1>2, <1>3, <1>4, <1>5, <1>6, StepKeepsInv DEF SameLeases, LeasesGrow

\* A step on the table of nodes, by a call or by the watchdog.
LEMMA NodesKeepInv ==
    ASSUME Inv, fresh' \in BOOLEAN, TypeOK', ApiOK', UNCHANGED <<tasks, leases, recovery, done>>,
           api' = api \/ ~At("assign")
    PROVE  Kept
<1>1. AllSound
  BY UnchangedSound
<1>2. RecoveryOK'
  BY RecoveryUntouched DEF LeasesGrow
<1>3. QED
  BY <1>1, <1>2, StepKeepsInv

LEMMA RegisterFacts ==
    ASSUME NEW ns \in [Nodes -> Node], NEW n \in Nodes, NEW caps \in SUBSET Caps,
           before \subseteq Nodes \X Nodes
    PROVE  /\ RegisterNode(ns, n, caps) \in [Nodes -> Node]
           /\ RegisterRow(ns, before, n) \subseteq Nodes \X Nodes
BY DEF RegisterNode, RegisterRow, Node

LEMMA NodeCallKeepsInv ==
    ASSUME Inv, fresh' \in BOOLEAN, NEW n \in Nodes, NodeCall(n)
    PROVE  Kept
<1>1. CapSets \subseteq SUBSET Caps /\ nodes \in [Nodes -> Node] /\ before \subseteq Nodes \X Nodes
  BY InputsAssumption DEF Inv, TypeOK
<1>2. <<"trigger">> \in Plans \ Placing /\ <<"trigger">> \notin Judging
  BY DEF Plans, Placing, Judging
<1>3. /\ Begin(<<"trigger">>, None) \in Call /\ Begin(<<"trigger">>, None).plan = <<"trigger">>
  BY <1>2, BeginOK
<1>4. ASSUME NEW caps \in CapSets, RegisterNodeCall(n, caps) \/ ChangeCapabilities(n, caps)
      PROVE  Kept
  <2>1. /\ Idle /\ api' = Begin(<<"trigger">>, None) /\ saved' = nodes'
        /\ UNCHANGED <<tasks, leases, queue, recovery, done>>
    BY <1>4 DEF RegisterNodeCall, ChangeCapabilities
  <2>2. [nodes[n] EXCEPT !.caps = caps] \in Node
    BY <1>1 DEF Node
  <2>3. nodes' \in [Nodes -> Node] /\ before' \subseteq Nodes \X Nodes
    BY <1>1, <1>4, <2>2, RegisterFacts DEF RegisterNodeCall, ChangeCapabilities
  <2>4. TypeOK'
    BY <1>3, <2>1, <2>3 DEF Inv, TypeOK
  <2>5. ApiOK'
    BY <1>2, <1>3, <2>1, ApiPlain
  <2>6. QED
    BY <2>1, <2>4, <2>5, IdlePlan, NodesKeepInv
<1>5. CASE UpdateHeartbeat(n)
  <2>1. /\ nodes' = [nodes EXCEPT ![n] = [nodes[n] EXCEPT !.status = "online"]] /\ saved' = nodes'
        /\ UNCHANGED <<tasks, before, leases, queue, api, recovery, done>>
    BY <1>5 DEF UpdateHeartbeat
  <2>2. [nodes[n] EXCEPT !.status = "online"] \in Node
    BY <1>1 DEF Node
  <2>3. nodes' \in [Nodes -> Node]
    BY <1>1, <2>1, <2>2
  <2>4. TypeOK'
    BY <2>1, <2>3 DEF Inv, TypeOK
  <2>5. ApiOK'
    BY <2>1, ApiUntouched
  <2>6. QED
    BY <2>1, <2>4, <2>5, NodesKeepInv
<1>6. QED
  BY <1>4, <1>5 DEF NodeCall

LEMMA RefuseKeepsInv ==
    ASSUME Inv, fresh' \in BOOLEAN, NEW t \in Tasks, RefuseUpdate(t)
    PROVE  Kept
<1>1. nodes' = saved /\ UNCHANGED <<tasks, before, saved, leases, queue, api, recovery, done>>
  BY DEF RefuseUpdate
<1>2. TypeOK'
  BY <1>1 DEF Inv, TypeOK
<1>3. ApiOK'
  BY <1>1, ApiUntouched
<1>4. QED
  BY <1>1, <1>2, <1>3, NodesKeepInv

\* A lease is taken, for whatever task and node.
LEMMA TakeLeaseKeepsInv ==
    ASSUME Inv, fresh' \in BOOLEAN, NEW t \in Tasks, NEW n \in Nodes, TakeLease(t, n)
    PROVE  Kept
<1> DEFINE new == [task |-> t, node |-> n, due |-> FALSE, status |-> "active"]
<1>1. /\ leases' = Append(leases, new) /\ saved' = nodes
      /\ UNCHANGED <<tasks, before, nodes, queue, recovery, done, api>>
  BY DEF TakeLease, OnLeases, CreateLease, Commit, Table
<1>2. new \in Lease
  BY DEF Lease
<1>3. leases \in Seq(Lease)
  BY DEF Inv, TypeOK
<1> HIDE DEF new
<1>4. leases' \in Seq(Lease) /\ LeasesGrow
  BY <1>1, <1>2, <1>3 DEF LeasesGrow
<1>5. AllSound
  BY <1>1, UnchangedSound
<1>6. TypeOK'
  BY <1>1, <1>4 DEF Inv, TypeOK
<1>7. ApiOK' /\ RecoveryOK'
  BY <1>1, <1>4, ApiUntouched, RecoveryUntouched
<1>8. QED
  BY <1>1, <1>5, <1>6, <1>7, StepKeepsInv

LEMMA RescheduleKeepsInv ==
    ASSUME Inv, fresh' \in BOOLEAN, NEW t \in Tasks, RescheduleTask(t)
    PROVE  Kept
<1>1. /\ <<"unready", "schedule">> \in Plans \ Placing
      /\ <<"revoke", "unready", "schedule">> \in Plans \ Placing
      /\ <<"unready", "schedule">> \notin Judging
      /\ <<"revoke", "unready", "schedule">> \notin Judging
  BY DEF Plans, Placing, Judging
<1>2. Idle
  BY DEF RescheduleTask
<1>3. CASE tasks[t].node = None
  <2>1. JustRead /\ api' = Begin(<<"unready", "schedule">>, t)
    BY <1>3 DEF RescheduleTask
  <2>2. api' \in Call /\ api'.plan = <<"unready", "schedule">>
    BY <1>1, <2>1, BeginOK
  <2>3. QED
    BY <1>1, <1>2, <2>1, <2>2, ApiPlain, IdlePlan, ReadKeepsInv
<1>4. CASE tasks[t].node # None
  <2> DEFINE b == Begin(<<"revoke", "unready", "schedule">>, t)
  <2>1. /\ Scan /\ api' = [b EXCEPT !.found = InTime(leases)]
        /\ UNCHANGED <<tasks, before, nodes, recovery, done>>
    BY <1>4 DEF RescheduleTask, Table
  <2>2. b \in Call /\ b.plan = <<"revoke", "unready", "schedule">>
    BY <1>1, BeginOK
  <2>3. InTime(leases) \in SUBSET Nat
    BY DEF InTime, Active, Inv, TypeOK
  <2> HIDE DEF b
  <2>4. api' \in Call /\ api'.plan = <<"revoke", "unready", "schedule">>
    BY <2>1, <2>2, <2>3 DEF Call
  <2>5. SameLeases /\ queue' \in Seq(Nodes) /\ saved' = nodes
    BY <2>1, ScanFacts
  <2>6. AllSound
    BY <2>1, UnchangedSound
  <2>7. TypeOK'
    BY <2>1, <2>4, <2>5 DEF Inv, TypeOK, SameLeases
  <2>8. ApiOK'
    BY <1>1, <2>4, ApiPlain
  <2>9. RecoveryOK'
    BY <2>1, <2>5, <2>6, RecoveryUntouched DEF SameLeases, LeasesGrow
  <2>10. QED
    BY <1>2, <2>1, <2>5, <2>6, <2>7, <2>8, <2>9, IdlePlan, StepKeepsInv DEF SameLeases, LeasesGrow
<1>5. QED
  BY <1>3, <1>4
-----------------------------------------------------------------------------
(* The further steps of a call.                                            *)

LEMMA StartSound ==
    ASSUME Inv, NEW t \in Tasks, NEW n \in Nodes, UNCHANGED done,
           tasks' = SetAssignee(SetTaskStatus(tasks, t, "running"), t, n)
    PROVE  AllSound
<1>1. tasks \in [Tasks -> Task] /\ tasks[t] \in Task
  BY DEF Inv, TypeOK
<1> DEFINE runs == [tasks[t] EXCEPT !.status = "running"]
<1>2. runs \in Task /\ runs.status = "running"
  BY <1>1, TaskFields DEF TaskStatus
<1>3. CASE Exists(tasks, t)
  <2>1. SetTaskStatus(tasks, t, "running") = [tasks EXCEPT ![t] = runs]
    BY <1>1, <1>3 DEF SetTaskStatus
  <2> HIDE DEF runs
  <2>2. SetTaskStatus(tasks, t, "running")[t] = runs /\ Exists(SetTaskStatus(tasks, t, "running"), t)
    BY <1>1, <1>2, <2>1 DEF Exists, Gone
  <2>3. tasks' = [tasks EXCEPT ![t] = [runs EXCEPT !.node = n]]
    BY <1>1, <2>1, <2>2 DEF SetAssignee
  <2>4. /\ tasks' \in [Tasks -> Task] /\ tasks'[t].status = "running" /\ tasks'[t].node = n
        /\ \A u \in Tasks : u # t => tasks'[u] = tasks[u]
    <3> DEFINE new == [runs EXCEPT !.node = n]
    <3>1. new \in Task /\ new.status = "running" /\ new.node = n
      BY <1>2, TaskFields
    <3> HIDE DEF new
    <3>2. tasks' = [tasks EXCEPT ![t] = new]
      BY <2>3 DEF new
    <3>3. QED
      BY <1>1, <3>1, <3>2
  <2>5. Sound(t)
    BY <1>3, <2>4, NoneAssumption DEF Sound, Unplaced, Exists, Gone
  <2>6. \A u \in Tasks : u # t => Sound(u)
    BY <2>4 DEF Inv, CompletedOnce, ReadyInOrder, Sound, Unplaced
  <2>7. QED
    BY <2>4, <2>5, <2>6 DEF AllSound
<1>4. CASE ~Exists(tasks, t)
  <2>1. tasks' = tasks
    BY <1>4 DEF SetTaskStatus, SetAssignee
  <2>2. QED
    BY <2>1, UnchangedSound
<1>5. QED
  BY <1>3, <1>4

LEMMA DependSound ==
    ASSUME Inv, NEW t, NEW D \in SUBSET Tasks, tasks' = SetDependencies(tasks, t, D), UNCHANGED done
    PROVE  AllSound
<1>1. CASE t \in Tasks
  BY <1>1, UpdateSound
<1>2. CASE t \notin Tasks
  <2>1. tasks' = tasks
    BY <1>2 DEF SetDependencies, Inv, TypeOK
  <2>2. QED
    BY <2>1, UnchangedSound
<1>3. QED
  BY <1>1, <1>2

\* Steps that are one transaction on the tasks.
LEMMA TaskStepsKeepInv ==
    ASSUME Inv, fresh' \in BOOLEAN, Trigger \/ Schedule \/ Depend \/ Unready \/ Cancel \/ Start
    PROVE  Kept
<1>1. /\ OnTasks(tasks') /\ Continue /\ UNCHANGED done /\ ~Idle
      /\ \/ tasks' = TriggerPendingTasks(tasks)
         \/ tasks' = SchedulePending(tasks, nodes, before)
         \/ tasks' = SetDependencies(tasks, api.task, api.deps)
         \/ tasks' = SetTaskStatus(tasks, api.task, "pending")
         \/ tasks' = SetTaskStatus(tasks, api.task, "failed")
         \/ /\ At("start")
            /\ tasks' = SetAssignee(SetTaskStatus(tasks, api.task, "running"), api.task, api.node)
  BY DEF Trigger, Schedule, Depend, Unready, Cancel, Start, OnTasks, At
<1>2. ~At("assign")
  BY DEF Trigger, Schedule, Depend, Unready, Cancel, Start, At
<1>3. api.deps \in SUBSET Tasks /\ done \subseteq Tasks
  BY DEF Inv, TypeOK, Call
<1>4. At("start") => api.task \in Tasks /\ api.node \in Nodes
  BY PlanAt DEF Inv, ApiOK, Placing
<1>5. AllSound
  <2>1. CASE tasks' = TriggerPendingTasks(tasks)
    BY <1>1, <2>1, TriggerSound
  <2>2. CASE tasks' = SchedulePending(tasks, nodes, before)
    BY <1>1, <2>2, ScheduleSound
  <2>3. CASE tasks' = SetDependencies(tasks, api.task, api.deps)
    BY <1>1, <1>3, <2>3, DependSound
  <2>4. ASSUME NEW s \in {"pending", "failed"}, tasks' = SetTaskStatus(tasks, api.task, s)
        PROVE  AllSound
    BY <1>1, <2>4, SetStatusSound DEF TaskStatus
  <2>5. CASE At("start") /\ tasks' = SetAssignee(SetTaskStatus(tasks, api.task, "running"), api.task, api.node)
    BY <1>1, <1>4, <2>5, StartSound
  <2>6. QED
    BY <1>1, <2>1, <2>2, <2>3, <2>4, <2>5
<1>6. api' \in Call /\ ApiOK'
  BY <1>1, ContinueOK
<1>7. QED
  BY <1>1, <1>2, <1>3, <1>5, <1>6, OnTasksKeepsInv

\* A known task runs before it gets its node: the one step that is not sound,
\* excused by what the call does next.
LEMMA PlaceKeepsInv == ASSUME Inv, fresh' \in BOOLEAN, Place PROVE Kept
<1>1. /\ api.plan = <<"place", "assign">> /\ ~Idle /\ ~At("assign")
      /\ api.task \in Tasks /\ api.node \in Nodes
  BY PlanAt DEF Place, Inv, ApiOK, Placing, At, Idle
<1>2. CASE nodes[api.node].status = "absent"
  <2>1. JustRead /\ api' = NoCall
    BY <1>2 DEF Place, Finished
  <2>2. <<>> \in Plans \ Placing /\ <<>> \notin Judging
    BY DEF Plans, Placing, Judging
  <2>3. api' \in Call /\ api'.plan = <<>>
    BY <2>1, BeginOK DEF Plans
  <2>4. QED
    BY <1>1, <2>1, <2>2, <2>3, ApiPlain, ReadKeepsInv
<1>3. CASE nodes[api.node].status # "absent"
  <2>0. PICK t \in Tasks : t = api.task
    BY <1>1
  <2>1. /\ tasks' = SetTaskStatus(tasks, t, "running") /\ Continue
        /\ saved' = nodes
        /\ UNCHANGED <<before, nodes, leases, queue, recovery, done>>
    BY <1>3, <2>0 DEF Place, OnTasks, Commit, Table
  <2>2. api' \in Call /\ ApiOK'
    BY <1>1, <2>1, ContinueOK
  <2>3. api'.plan = <<"assign">> /\ api'.task = t
    <3>1. api' = [api EXCEPT !.plan = <<"assign">>]
      BY <1>1, <2>1 DEF Continue, Skip
    <3>2. QED
      BY <2>0, <3>1 DEF Inv, TypeOK, Call
  <2>4. tasks \in [Tasks -> Task] /\ tasks[t] \in Task
    BY <1>1 DEF Inv, TypeOK
  <2>5. /\ tasks' \in [Tasks -> Task]
        /\ \A u \in Tasks : u # t => tasks'[u] = tasks[u]
        /\ \/ /\ tasks'[t].status = "running" /\ tasks'[t].node = tasks[t].node /\ tasks'[t].deps = tasks[t].deps
              /\ Exists(tasks, t)
           \/ tasks'[t] = tasks[t]
    <3>1. CASE Exists(tasks, t)
      <4>1. tasks' = [tasks EXCEPT ![t] = [tasks[t] EXCEPT !.status = "running"]]
        BY <1>1, <2>1, <2>4, <3>1 DEF SetTaskStatus
      <4>2. QED
        BY <2>4, <3>1, <4>1, TaskFields DEF TaskStatus
    <3>2. CASE ~Exists(tasks, t)
      BY <2>1, <2>4, <3>2 DEF SetTaskStatus
    <3>3. QED
      BY <3>1, <3>2
  <2>7. Steady(t)
    BY <2>1, <2>5 DEF Inv, CompletedOnce, ReadyInOrder, Steady, Exists, Gone
  <2>8. \A u \in Tasks : u # t => Steady(u)
    BY <2>1, <2>5 DEF Inv, CompletedOnce, ReadyInOrder, Steady
  <2>9. \A u \in Tasks : Steady(u)
    BY <2>7, <2>8
  <2>10. TypeOK'
    BY <2>1, <2>2, <2>5 DEF Inv, TypeOK
  <2>11. RecoveryOK'
    BY <2>1, RecoveryUntouched DEF LeasesGrow
  <2>12. RunningHasNodeStep
    <3>1. BeingPlaced(t)'
      BY <2>3 DEF BeingPlaced, At, Idle
    <3>2. \A u \in Tasks : u # t => (Unplaced(u)' => Unplaced(u) /\ ~BeingPlaced(u))
      BY <1>1, <2>5 DEF Unplaced, BeingPlaced
    <3>3. QED
      BY <3>1, <3>2 DEF RunningHasNodeStep
  <2>13. QED
    BY <2>1, <2>2, <2>9, <2>10, <2>11, <2>12, SteadyKeepsInv
<1>4. QED
  BY <1>2, <1>3

LEMMA AssignKeepsInv == ASSUME Inv, fresh' \in BOOLEAN, Assign PROVE Kept
<1>1. api.plan = <<"assign">> /\ ~Idle /\ api.task \in Tasks /\ api.node \in Nodes
  BY PlanAt DEF Assign, Inv, ApiOK, Placing, At, Idle
<1>2. /\ tasks' = SetAssignee(tasks, api.task, api.node) /\ Continue /\ saved' = nodes
      /\ UNCHANGED <<before, nodes, leases, queue, recovery, done>>
  BY DEF Assign, OnTasks, Commit, Table
<1>3. AllSound /\ (tasks'[api.task].status = "running" => tasks'[api.task].node = api.node)
  BY <1>1, <1>2, SetAssigneeSound
<1>4. \A u \in Tasks : Steady(u)
  BY <1>3 DEF AllSound, Sound, Steady
<1>5. api' \in Call /\ ApiOK'
  BY <1>1, <1>2, ContinueOK
<1>6. TypeOK'
  BY <1>2, <1>3, <1>5 DEF Inv, TypeOK, AllSound
<1>7. RecoveryOK'
  BY <1>2, RecoveryUntouched DEF LeasesGrow
<1>8. RunningHasNodeStep
  <2>1. \A t \in Tasks : BeingPlaced(t) => ~Unplaced(t)'
    BY <1>1, <1>3, NoneAssumption DEF BeingPlaced, Unplaced
  <2>2. QED
    BY <1>3, <2>1 DEF RunningHasNodeStep, AllSound, Sound, HasLease
<1>9. QED
  BY <1>2, <1>4, <1>5, <1>6, <1>7, <1>8, SteadyKeepsInv

LEMMA DeleteKeepsInv == ASSUME Inv, fresh' \in BOOLEAN, Delete PROVE Kept
<1>1. /\ tasks' = DeleteTasks(tasks, {api.task}) /\ leases' = DeleteLeases(leases, {api.task})
      /\ Continue /\ saved' = nodes /\ ~Idle /\ ~At("assign")
      /\ UNCHANGED <<before, nodes, queue, recovery, done>>
  BY DEF Delete, Commit, Table, At
<1>2. AllSound
  BY <1>1, DeleteSound
<1>3. SameLeases
  BY <1>1, SetLeasesFacts DEF DeleteLeases, Inv, TypeOK
<1>4. api' \in Call /\ ApiOK'
  BY <1>1, ContinueOK
<1>5. TypeOK'
  BY <1>1, <1>2, <1>3, <1>4 DEF Inv, TypeOK, AllSound, SameLeases
<1>6. RecoveryOK'
  BY <1>1, <1>2, <1>3, RecoveryUntouched DEF SameLeases, LeasesGrow
<1>7. QED
  BY <1>1, <1>2, <1>3, <1>4, <1>5, <1>6, StepKeepsInv DEF SameLeases, LeasesGrow

LEMMA RevokeKeepsInv == ASSUME Inv, fresh' \in BOOLEAN, Revoke PROVE Kept
<1>1. /\ \E R : leases' = SetLeases(leases, R, "revoked")
      /\ Continue /\ saved' = nodes /\ ~Idle /\ ~At("assign")
      /\ UNCHANGED <<tasks, before, nodes, queue, recovery, done>>
  BY DEF Revoke, OnLeases, Commit, Table, At
<1>2. AllSound
  BY <1>1, UnchangedSound
<1>3. SameLeases
  BY <1>1, SetLeasesFacts DEF Inv, TypeOK
<1>4. api' \in Call /\ ApiOK'
  BY <1>1, ContinueOK
<1>5. TypeOK'
  BY <1>1, <1>3, <1>4 DEF Inv, TypeOK, SameLeases
<1>6. RecoveryOK'
  BY <1>1, <1>2, <1>3, RecoveryUntouched DEF SameLeases, LeasesGrow
<1>7. QED
  BY <1>1, <1>2, <1>3, <1>4, <1>5, <1>6, StepKeepsInv DEF SameLeases, LeasesGrow
-----------------------------------------------------------------------------
(* The resolver.                                                           *)

\* A step of a call that only reads and leaves a plan that places nothing.
LEMMA LookKeepsInv ==
    ASSUME Inv, fresh' \in BOOLEAN, JustRead, ~At("assign"), api' \in Call, api'.plan \in Plans \ Placing,
           api'.plan \notin Judging
    PROVE  Kept
BY ApiPlain, ReadKeepsInv

LEMMA PropagateKeepsInv == ASSUME Inv, fresh' \in BOOLEAN, Propagate \/ Propagated PROVE Kept
<1>1. /\ JustRead /\ ~At("assign") /\ api.plan = <<"propagate", "schedule">>
      /\ api \in Call
  BY PlanAt DEF Propagate, Propagated, Inv, TypeOK, ApiOK, At, Idle
<1>2. /\ {<<"propagate", "schedule">>, <<"schedule">>} \subseteq (Plans \ Placing) \ Judging
      /\ <<"schedule">> \in Seq(Steps)
  BY PlansAreSeqs DEF Plans, Placing, Judging
<1>3. CASE Propagate
  <2>1. PICK u \in api.agenda :
          api' = [api EXCEPT !.agenda = @ \ {u},
                             !.todo = {v \in Dependents(tasks, u) :
                                          tasks[v].status \in {"pending", "blocked"}}]
    BY <1>3 DEF Propagate
  <2>2. {v \in Dependents(tasks, u) : tasks[v].status \in {"pending", "blocked"}} \subseteq Tasks
    BY DEF Dependents
  <2>3. api' \in Call /\ api'.plan = api.plan
    BY <1>1, <2>1, <2>2 DEF Call
  <2>4. QED
    BY <1>1, <1>2, <2>3, LookKeepsInv
<1>4. CASE Propagated
  <2>1. api' = [api EXCEPT !.plan = <<"schedule">>]
    BY <1>1, <1>4 DEF Propagated, Skip
  <2>2. api' \in Call /\ api'.plan = <<"schedule">>
    BY <1>1, <1>2, <2>1 DEF Call
  <2>3. QED
    BY <1>1, <1>2, <2>2, LookKeepsInv
<1>5. QED
  BY <1>3, <1>4

\* Two steps of a plan put before a third.
LEMMA JudgingPlans ==
    ASSUME NEW step \in {"read", "settle"}
    PROVE  <<step>> \o <<"propagate", "schedule">> = <<step, "propagate", "schedule">>
<1> DEFINE both == <<step>> \o <<"propagate", "schedule">>
<1>1. <<step>> \in Seq(Steps) /\ <<"propagate", "schedule">> \in Seq(Steps)
  BY DEF Steps
<1>2. both \in Seq(Steps) /\ Len(both) = 3
  BY <1>1, ConcatProperties
<1>3. both[1] = step /\ both[2] = "propagate" /\ both[3] = "schedule"
  BY <1>1
<1>4. <<step, "propagate", "schedule">> \in Seq(Steps)
  BY DEF Steps
<1> HIDE DEF both
<1>5. \A i \in 1..Len(both) : both[i] = <<step, "propagate", "schedule">>[i]
  BY <1>2, <1>3
<1>6. both = <<step, "propagate", "schedule">>
  BY <1>2, <1>4, <1>5, SeqEqual
<1>7. QED
  BY <1>6 DEF both

\* What the steps of a verdict do to the call.
LEMMA ResolveFacts ==
    ASSUME Inv, Resolve
    PROVE  \E v \in Tasks :
              /\ v \in api.todo /\ api' \in Call
              /\ api'.task = api.task /\ api'.agenda = api.agenda /\ api'.todo = api.todo \ {v}
              /\ IF tasks[v].status # "pending" THEN api'.plan = <<"propagate", "schedule">>
                 ELSE /\ api'.plan = <<"read", "propagate", "schedule">>
                      /\ api'.target = v /\ api'.deps = tasks[v].deps /\ api'.verdict = "ready"
<1>1. api.plan = <<"propagate", "schedule">> /\ api \in Call
  BY PlanAt DEF Resolve, Inv, TypeOK, ApiOK
<1>2. PICK v \in api.todo :
          api' = IF tasks[v].status # "pending" THEN [api EXCEPT !.todo = @ \ {v}]
                 ELSE [api EXCEPT !.todo = @ \ {v}, !.plan = <<"read">> \o @,
                                  !.target = v, !.deps = tasks[v].deps, !.verdict = "ready"]
  BY DEF Resolve
<1>3. v \in Tasks /\ tasks[v].deps \subseteq Tasks
  BY <1>1, <1>2, TaskFields DEF Call, Inv, TypeOK
<1> DEFINE plan == <<"read", "propagate", "schedule">>
<1>4. plan \in Seq(Steps) /\ <<"read">> \o api.plan = plan
  BY <1>1, JudgingPlans DEF Steps
<1> HIDE DEF plan
<1>5. CASE tasks[v].status # "pending"
  <2>1. api' = [api EXCEPT !.todo = @ \ {v}]
    BY <1>2, <1>5
  <2>2. /\ api' \in Call /\ api'.plan = api.plan /\ api'.task = api.task
        /\ api'.agenda = api.agenda /\ api'.todo = api.todo \ {v}
    BY <1>1, <2>1 DEF Call
  <2>3. QED
    BY <1>1, <1>2, <1>3, <1>5, <2>2
<1>6. CASE tasks[v].status = "pending"
  <2>1. api' = [api EXCEPT !.todo = @ \ {v}, !.plan = plan,
                           !.target = v, !.deps = tasks[v].deps, !.verdict = "ready"]
    BY <1>2, <1>4, <1>6
  <2>2. /\ api' \in Call /\ api'.plan = plan /\ api'.task = api.task
        /\ api'.agenda = api.agenda /\ api'.todo = api.todo \ {v}
        /\ api'.target = v /\ api'.deps = tasks[v].deps /\ api'.verdict = "ready"
    BY <1>1, <1>3, <1>4, <2>1 DEF Call, Verdicts
  <2>3. QED
    BY <1>2, <1>3, <1>6, <2>2 DEF plan
<1>7. QED
  BY <1>5, <1>6

LEMMA ReadingFacts ==
    ASSUME Inv, ReadDependency
    PROVE  /\ api' \in Call
           /\ api'.task = api.task /\ api'.agenda = api.agenda /\ api'.todo = api.todo
           /\ api'.target = api.target
           /\ \E d \in api.deps :
                 IF tasks[d].status = "failed"
                 THEN api'.plan = <<"settle", "propagate", "schedule">> /\ api'.verdict = "blocked"
                 ELSE /\ api'.plan = <<"read", "propagate", "schedule">>
                      /\ api'.deps = api.deps \ {d}
                      /\ api'.verdict = IF tasks[d].status = "completed" THEN api.verdict ELSE "none"
<1>1. api.plan = <<"read", "propagate", "schedule">> /\ api \in Call /\ api.verdict \in Verdicts
  BY PlanAt DEF ReadDependency, Inv, TypeOK, ApiOK, Call
<1>2. PICK d \in api.deps :
          api' = IF tasks[d].status = "failed"
                 THEN [api EXCEPT !.plan = <<"settle">> \o Tail(@), !.verdict = "blocked", !.deps = {}]
                 ELSE [api EXCEPT !.deps = @ \ {d},
                                  !.verdict = IF tasks[d].status = "completed" THEN @ ELSE "none"]
  BY DEF ReadDependency
<1> DEFINE plan == <<"settle", "propagate", "schedule">>
<1>3. plan \in Seq(Steps) /\ <<"settle">> \o Tail(api.plan) = plan
  <2>1. Tail(api.plan) = <<"propagate", "schedule">>
    BY <1>1
  <2>2. <<"settle">> \o <<"propagate", "schedule">> = plan
    BY JudgingPlans
  <2>3. plan \in Seq(Steps) /\ <<"propagate", "schedule">> \in Seq(Steps)
    BY DEF Steps
  <2>4. QED
    BY <2>1, <2>2, <2>3
<1> HIDE DEF plan
<1>4. CASE tasks[d].status = "failed"
  <2>1. api' = [api EXCEPT !.plan = plan, !.verdict = "blocked", !.deps = {}]
    BY <1>2, <1>3, <1>4
  <2>2. /\ api' \in Call /\ api'.plan = plan /\ api'.task = api.task
        /\ api'.agenda = api.agenda /\ api'.todo = api.todo /\ api'.target = api.target
        /\ api'.verdict = "blocked"
    BY <1>1, <1>3, <2>1 DEF Call, Verdicts
  <2>3. QED
    BY <1>2, <1>4, <2>2 DEF plan
<1>5. CASE tasks[d].status # "failed"
  <2> DEFINE verdict == IF tasks[d].status = "completed" THEN api.verdict ELSE "none"
  <2>1. api' = [api EXCEPT !.deps = @ \ {d}, !.verdict = verdict] /\ verdict \in Verdicts
    BY <1>1, <1>2, <1>5 DEF Verdicts
  <2> HIDE DEF verdict
  <2>2. /\ api' \in Call /\ api'.plan = api.plan /\ api'.task = api.task
        /\ api'.agenda = api.agenda /\ api'.todo = api.todo /\ api'.target = api.target
        /\ api'.deps = api.deps \ {d} /\ api'.verdict = verdict
    BY <1>1, <2>1 DEF Call
  <2>3. QED
    BY <1>1, <1>2, <1>5, <2>2 DEF verdict
<1>6. QED
  BY <1>4, <1>5

LEMMA JudgeFacts ==
    ASSUME Inv, Judge
    PROVE  /\ api' \in Call
           /\ api'.task = api.task /\ api'.agenda = api.agenda /\ api'.todo = api.todo
           /\ IF api.verdict = "ready"
              THEN /\ api'.plan = <<"settle", "propagate", "schedule">>
                   /\ api'.verdict = "ready" /\ api'.target = api.target
              ELSE api'.plan = <<"propagate", "schedule">>
<1>1. api.plan = <<"read", "propagate", "schedule">> /\ api \in Call
  BY PlanAt DEF Judge, Inv, TypeOK, ApiOK
<1>2. api' = IF api.verdict = "ready" THEN [api EXCEPT !.plan = <<"settle">> \o Tail(@)]
             ELSE [Skip EXCEPT !.target = None]
  BY DEF Judge
<1> DEFINE plan == <<"settle", "propagate", "schedule">>
           rest == <<"propagate", "schedule">>
<1>3. /\ plan \in Seq(Steps) /\ rest \in Seq(Steps) /\ Tail(api.plan) = rest
      /\ <<"settle">> \o Tail(api.plan) = plan
  <2>1. Tail(api.plan) = <<"propagate", "schedule">>
    BY <1>1
  <2>2. <<"settle">> \o <<"propagate", "schedule">> = plan
    BY JudgingPlans
  <2>3. plan \in Seq(Steps) /\ <<"propagate", "schedule">> \in Seq(Steps)
    BY DEF Steps
  <2>4. QED
    BY <2>1, <2>2, <2>3
<1> HIDE DEF plan, rest
<1>4. CASE api.verdict = "ready"
  <2>1. api' = [api EXCEPT !.plan = plan]
    BY <1>2, <1>3, <1>4
  <2>2. /\ api' \in Call /\ api'.plan = plan /\ api'.task = api.task
        /\ api'.agenda = api.agenda /\ api'.todo = api.todo /\ api'.target = api.target
        /\ api'.verdict = api.verdict
    BY <1>1, <1>3, <2>1 DEF Call
  <2>3. QED
    BY <1>4, <2>2 DEF plan
<1>5. CASE api.verdict # "ready"
  <2>1. api' = [api EXCEPT !.plan = rest, !.target = None]
    BY <1>1, <1>2, <1>3, <1>5 DEF Skip, Call
  <2>2. /\ api' \in Call /\ api'.plan = rest /\ api'.task = api.task
        /\ api'.agenda = api.agenda /\ api'.todo = api.todo
    BY <1>1, <1>3, <2>1 DEF Call
  <2>3. QED
    BY <1>5, <2>2 DEF rest
<1>6. QED
  BY <1>4, <1>5

\* Nothing that a dependent waits for has been read yet; then every dependency
\* that was read before the verdict was made has been completed.
LEMMA JudgingKeepsInv == ASSUME Inv, fresh' \in BOOLEAN, Resolve \/ ReadDependency \/ Judge PROVE Kept
<1>1. /\ JustRead /\ ~At("assign") /\ UNCHANGED <<tasks, done>> /\ api \in Call
  BY DEF Resolve, ReadDependency, Judge, Inv, TypeOK, At, JustRead
<1>2. /\ <<"propagate", "schedule">> \in Plans \ Placing
      /\ <<"propagate", "schedule">> \notin Judging
      /\ \A plan \in Judging : plan \in Plans \ Placing /\ plan # <<>>
      /\ Head(<<"read", "propagate", "schedule">>) = "read"
      /\ Head(<<"settle", "propagate", "schedule">>) = "settle"
  BY DEF Plans, Placing, Judging
<1>3. CASE Resolve
  <2>1. PICK v \in Tasks :
              /\ api' \in Call
              /\ IF tasks[v].status # "pending" THEN api'.plan = <<"propagate", "schedule">>
                 ELSE /\ api'.plan = <<"read", "propagate", "schedule">>
                      /\ api'.target = v /\ api'.deps = tasks[v].deps /\ api'.verdict = "ready"
    BY <1>3, ResolveFacts
  <2>2. CASE tasks[v].status # "pending"
    BY <1>1, <1>2, <2>1, <2>2, LookKeepsInv
  <2>3. CASE tasks[v].status = "pending"
    <3>1. ApiOK'
      BY <1>1, <1>2, <2>1, <2>3 DEF ApiOK, At, Idle, Judging
    <3>2. QED
      BY <1>1, <2>1, <3>1, ReadKeepsInv
  <2>4. QED
    BY <2>2, <2>3
<1>4. ASSUME At("read")
      PROVE  /\ api.verdict \in {"ready", "none"} /\ api.target \in Tasks
             /\ api.deps \subseteq tasks[api.target].deps /\ api.deps \subseteq Tasks
             /\ api.verdict = "ready" => tasks[api.target].deps \ api.deps \subseteq done
  BY <1>1, <1>4 DEF Inv, ApiOK, Call
<1>5. CASE ReadDependency
  <2>1. PICK d \in api.deps :
              /\ api' \in Call /\ api'.target = api.target
              /\ IF tasks[d].status = "failed"
                 THEN api'.plan = <<"settle", "propagate", "schedule">> /\ api'.verdict = "blocked"
                 ELSE /\ api'.plan = <<"read", "propagate", "schedule">>
                      /\ api'.deps = api.deps \ {d}
                      /\ api'.verdict = IF tasks[d].status = "completed" THEN api.verdict ELSE "none"
    BY <1>5, ReadingFacts
  <2>2. At("read")
    BY <1>5 DEF ReadDependency
  <2>3. CASE tasks[d].status = "failed"
    <3>1. ApiOK'
      BY <1>1, <1>2, <1>4, <2>1, <2>2, <2>3 DEF ApiOK, At, Idle, Judging
    <3>2. QED
      BY <1>1, <2>1, <3>1, ReadKeepsInv
  <2>4. CASE tasks[d].status # "failed"
    <3>1. tasks[d].status = "completed" => d \in done
      BY <1>4, <2>2 DEF Inv, CompletedOnce
    <3>2. api'.verdict = "ready" => tasks[api.target].deps \ api'.deps \subseteq done
      BY <1>4, <2>1, <2>2, <2>4, <3>1
    <3>3. ApiOK'
      BY <1>1, <1>2, <1>4, <2>1, <2>2, <2>4, <3>2 DEF ApiOK, At, Idle, Judging
    <3>4. QED
      BY <1>1, <2>1, <3>3, ReadKeepsInv
  <2>5. QED
    BY <2>3, <2>4
<1>6. CASE Judge
  <2>1. At("read") /\ api.deps = {}
    BY <1>6 DEF Judge
  <2>2. CASE api.verdict = "ready"
    <3>1. ApiOK'
      BY <1>1, <1>2, <1>4, <1>6, <2>1, <2>2, JudgeFacts DEF ApiOK, At, Idle, Judging
    <3>2. QED
      BY <1>1, <1>6, <3>1, JudgeFacts, ReadKeepsInv
  <2>3. CASE api.verdict # "ready"
    BY <1>1, <1>2, <1>6, <2>3, JudgeFacts, LookKeepsInv
  <2>4. QED
    BY <2>2, <2>3
<1>7. QED
  BY <1>3, <1>5, <1>6

\* ... and stays completed once, whatever has happened since.
LEMMA SettleKeepsInv == ASSUME Inv, fresh' \in BOOLEAN, Settle PROVE Kept
<1>1. /\ tasks' = SetTaskStatus(tasks, api.target, api.verdict) /\ OnTasks(tasks')
      /\ UNCHANGED done /\ ~At("assign") /\ done \subseteq Tasks /\ api \in Call
      /\ api.verdict \in {"ready", "blocked"} /\ api.target \in Tasks
      /\ api.verdict = "ready" => tasks[api.target].deps \subseteq done
      /\ api.plan = <<"settle", "propagate", "schedule">>
  BY PlanAt DEF Settle, OnTasks, Inv, TypeOK, ApiOK, At, Idle
<1>2. AllSound
  BY <1>1, SetStatusSound DEF TaskStatus
<1>3. /\ <<"propagate", "schedule">> \in (Plans \ Placing) \ Judging
      /\ <<"propagate", "schedule">> \in Seq(Steps)
  BY PlansAreSeqs DEF Plans, Placing, Judging
<1>4. Skip \in Call /\ Skip.plan = <<"propagate", "schedule">> /\ Skip.agenda = api.agenda
  <2>1. Skip = [api EXCEPT !.plan = <<"propagate", "schedule">>]
    BY <1>1 DEF Skip
  <2>2. QED
    BY <1>1, <1>3, <2>1 DEF Call
<1>5. api' = [Skip EXCEPT !.target = None, !.verdict = "none",
                          !.agenda = IF api.verdict = "ready" THEN @ \cup {api.target} ELSE @]
  BY DEF Settle
<1>6. api' \in Call /\ api'.plan = <<"propagate", "schedule">>
  BY <1>1, <1>4, <1>5 DEF Call, Verdicts
<1>7. QED
  BY <1>1, <1>2, <1>3, <1>6, ApiPlain, OnTasksKeepsInv

LEMMA BlockingKeepsInv == ASSUME Inv, fresh' \in BOOLEAN, List \/ Block PROVE Kept
<1>1. api \in Call /\ done \subseteq Tasks
  BY DEF Inv, TypeOK
<1>2. <<"block">> \in (Plans \ Placing) \ Judging /\ <<"block">> \in Seq(Steps)
  BY PlansAreSeqs DEF Plans, Placing, Judging
<1>3. CASE List
  <2>1. JustRead /\ ~At("assign") /\ api.plan = <<"list", "block">>
    BY <1>3, PlanAt DEF List, Inv, ApiOK, At
  <2> DEFINE waiting == {v \in Dependents(tasks, api.task) : tasks[v].status = "pending"}
  <2>2. waiting \subseteq Tasks
    BY DEF Dependents
  <2>3. api' = [Skip EXCEPT !.todo = waiting]
    BY <1>3 DEF List
  <2>4. Skip = [api EXCEPT !.plan = <<"block">>]
    BY <2>1 DEF Skip
  <2> HIDE DEF waiting
  <2>5. api' \in Call /\ api'.plan = <<"block">>
    BY <1>1, <1>2, <2>2, <2>3, <2>4 DEF Call
  <2>6. QED
    BY <1>2, <2>1, <2>5, LookKeepsInv
<1>4. CASE Block /\ api.todo = {}
  <2>1. JustRead /\ Continue /\ ~Idle /\ ~At("assign")
    BY <1>4 DEF Block, At
  <2>2. QED
    BY <2>1, ContinueOK, ReadKeepsInv
<1>5. CASE Block /\ api.todo # {}
  <2>1. PICK v \in api.todo : /\ OnTasks(SetTaskStatus(tasks, v, "blocked"))
                              /\ api' = [api EXCEPT !.todo = @ \ {v}] /\ UNCHANGED done
    BY <1>5 DEF Block
  <2>2. tasks' = SetTaskStatus(tasks, v, "blocked") /\ OnTasks(tasks')
    BY <2>1 DEF OnTasks
  <2>3. AllSound
    BY <2>1, <2>2, SetStatusSound DEF TaskStatus
  <2>4. api.plan = <<"block">> /\ ~At("assign")
    BY <1>5, PlanAt DEF Block, Inv, ApiOK, At
  <2>5. api' \in Call /\ api'.plan = <<"block">>
    BY <1>1, <2>1, <2>4 DEF Call
  <2>6. QED
    BY <1>1, <1>2, <2>1, <2>2, <2>3, <2>4, <2>5, ApiPlain, OnTasksKeepsInv
<1>6. QED
  BY <1>3, <1>4, <1>5

LEMMA StepsKeepInv == ASSUME Inv, fresh' \in BOOLEAN, Step PROVE Kept
BY TaskStepsKeepInv, PlaceKeepsInv, AssignKeepsInv, DeleteKeepsInv, RevokeKeepsInv,
   PropagateKeepsInv, JudgingKeepsInv, SettleKeepsInv, BlockingKeepsInv DEF Step
-----------------------------------------------------------------------------
(* The recovery detector.                                                  *)

\* A step of the detector that leaves the tasks alone.
LEMMA DetectorKeepsInv ==
    ASSUME Inv, fresh' \in BOOLEAN, UNCHANGED <<tasks, before, nodes, api, done>>, SameLeases,
           queue' \in Seq(Nodes), saved' \in [Nodes -> Node], recovery' \in Recovery,
           recovery'.next # "wait" => recovery'.node \in Nodes, RecoveryOK'
    PROVE  Kept
<1>1. AllSound
  BY UnchangedSound
<1>2. TypeOK'
  BY DEF Inv, TypeOK, SameLeases
<1>3. ApiOK'
  BY ApiUntouched
<1>4. QED
  BY <1>1, <1>2, <1>3, StepKeepsInv DEF SameLeases, LeasesGrow

LEMMA WaitingOK ==
    /\ Waiting \in Recovery /\ Waiting.next = "wait"
    /\ Waiting.found = {} /\ Waiting.orphans = <<>>
<1>1. <<>> \in Seq(Tasks)
  OBVIOUS
<1>2. QED
  BY <1>1 DEF Waiting, Recovery, Verdicts

LEMMA TakeEventKeepsInv == ASSUME Inv, fresh' \in BOOLEAN, TakeEvent PROVE Kept
<1>1. /\ queue # <<>> /\ queue \in Seq(Nodes) /\ queue' = Tail(queue)
      /\ recovery' = [Waiting EXCEPT !.next = "scan", !.node = Head(queue)]
      /\ UNCHANGED <<tasks, before, nodes, saved, leases, api, done>>
  BY DEF TakeEvent, Table, Inv, TypeOK
<1>2. Head(queue) \in Nodes /\ queue' \in Seq(Nodes)
  BY <1>1
<1>3. /\ recovery' \in Recovery /\ recovery'.next = "scan" /\ recovery'.node \in Nodes
      /\ recovery'.found = {} /\ recovery'.orphans = <<>>
  BY <1>1, <1>2, WaitingOK DEF Recovery
<1>4. SameLeases
  BY <1>1 DEF SameLeases, LeasesGrow, Inv, TypeOK
<1>5. saved' \in [Nodes -> Node]
  BY <1>1 DEF Inv, TypeOK
<1>6. RecoveryOK'
  BY <1>3 DEF RecoveryOK
<1>7. QED
  BY <1>1, <1>2, <1>3, <1>4, <1>5, <1>6, DetectorKeepsInv

LEMMA RecoveryScanKeepsInv == ASSUME Inv, fresh' \in BOOLEAN, RecoveryScan PROVE Kept
<1> DEFINE mine == {l \in InTime(leases) : leases[l].node = recovery.node}
<1>1. /\ Scan /\ recovery' = [recovery EXCEPT !.next = "revoke", !.found = mine]
      /\ UNCHANGED <<tasks, before, nodes, api, done>>
      /\ recovery.next = "scan"
  BY DEF RecoveryScan, Table
<1>2. SameLeases /\ queue' \in Seq(Nodes) /\ saved' = nodes
  BY <1>1, ScanFacts
<1>3. mine \in SUBSET Nat /\ mine \subseteq DOMAIN leases
  BY DEF InTime, Active, Inv, TypeOK
<1>4. recovery \in Recovery /\ recovery.node \in Nodes /\ nodes \in [Nodes -> Node]
  BY <1>1 DEF Inv, TypeOK
<1> HIDE DEF mine
<1>5. /\ recovery' \in Recovery /\ recovery'.next = "revoke" /\ recovery'.node = recovery.node
      /\ recovery'.found = mine /\ recovery'.orphans = recovery.orphans
  BY <1>1, <1>3, <1>4 DEF Recovery
<1>6. RecoveryOK'
  BY <1>1, <1>2, <1>3, <1>5 DEF Inv, RecoveryOK, HasLease, SameLeases, LeasesGrow
<1>7. QED
  BY <1>1, <1>2, <1>4, <1>5, <1>6, DetectorKeepsInv

\* The task of a lease joins the orphans.
LEMMA RevokeNextKeepsInv == ASSUME Inv, fresh' \in BOOLEAN, RevokeNext PROVE Kept
<1>1. PICK l \in recovery.found :
          /\ leases' = SetLeases(leases, {l}, "revoked")
          /\ recovery' = [recovery EXCEPT !.found = @ \ {l},
                                          !.orphans = Append(@, leases[l].task)]
  BY DEF RevokeNext, RevokeLease
<1>2. /\ UNCHANGED <<tasks, before, nodes, queue, api, done>>
      /\ saved' = nodes /\ recovery.next = "revoke"
  BY DEF RevokeNext, Commit, Table
<1>3. /\ recovery \in Recovery /\ recovery.node \in Nodes /\ nodes \in [Nodes -> Node]
      /\ queue \in Seq(Nodes) /\ leases \in Seq(Lease)
  BY <1>2 DEF Inv, TypeOK
<1>4. SameLeases
  BY <1>1, <1>3, SetLeasesFacts
<1>5. l \in DOMAIN leases /\ HasLease(leases[l].task) /\ leases[l].task \in Tasks
  <2>1. l \in DOMAIN leases
    BY DEF Inv, RecoveryOK
  <2>2. leases[l] \in Lease
    BY <1>3, <2>1
  <2>3. QED
    BY <2>1, <2>2 DEF HasLease, Lease
<1> DEFINE t == leases[l].task
           more == Append(recovery.orphans, t)
<1>6. recovery.orphans \in Seq(Tasks) /\ recovery.found \in SUBSET Nat
  BY <1>3 DEF Recovery
<1>7. more \in Seq(Tasks)
  BY <1>5, <1>6
<1>8. \A i \in DOMAIN more : HasLease(more[i])
  <2>1. \A i \in DOMAIN more : more[i] = t \/ (i \in DOMAIN recovery.orphans /\ more[i] = recovery.orphans[i])
    BY <1>5, <1>6
  <2> HIDE DEF more
  <2>2. QED
    BY <1>5, <2>1 DEF Inv, RecoveryOK
<1> HIDE DEF more
<1>9. /\ recovery' \in Recovery /\ recovery'.next = "revoke" /\ recovery'.node = recovery.node
      /\ recovery'.found = recovery.found \ {l} /\ recovery'.orphans = more
  <2>1. recovery' = [recovery EXCEPT !.found = @ \ {l}, !.orphans = more]
    BY <1>1 DEF more
  <2>2. QED
    BY <1>2, <1>3, <1>6, <1>7, <2>1 DEF Recovery
<1>10. \A i \in DOMAIN recovery'.orphans : HasLease(recovery.orphans[i])'
  BY <1>4, <1>8, <1>9 DEF HasLease, SameLeases, LeasesGrow
<1>11. RecoveryOK'
  BY <1>4, <1>9, <1>10 DEF Inv, RecoveryOK, SameLeases, LeasesGrow
<1>12. QED
  BY <1>2, <1>3, <1>4, <1>9, <1>11, DetectorKeepsInv

\* The orphan that comes next is the second one, if there is one.
LEMMA NextOrphanOK ==
    ASSUME Inv, recovery.next \in {"look", "put"}, recovery' = NextOrphan,
           LeasesGrow
    PROVE  /\ recovery' \in Recovery /\ (recovery'.next # "wait" => recovery'.node \in Nodes)
           /\ RecoveryOK'
<1>1. /\ recovery \in Recovery /\ recovery.orphans \in Seq(Tasks) /\ recovery.orphans # <<>>
      /\ recovery.node \in Nodes
  BY DEF Inv, TypeOK, RecoveryOK, Recovery
<1>2. CASE Len(recovery.orphans) = 1
  <2>1. recovery' = Waiting
    BY <1>2 DEF NextOrphan
  <2>2. QED
    BY <2>1, WaitingOK DEF RecoveryOK
<1>3. CASE Len(recovery.orphans) # 1
  <2> DEFINE rest == Tail(recovery.orphans)
  <2>1. recovery' = [recovery EXCEPT !.next = "look", !.orphans = rest, !.verdict = "none"]
    BY <1>3 DEF NextOrphan
  <2>2. /\ rest \in Seq(Tasks) /\ rest # <<>>
        /\ \A i \in DOMAIN rest : i + 1 \in DOMAIN recovery.orphans /\ rest[i] = recovery.orphans[i + 1]
    <3>1. rest \in Seq(Tasks) /\ Len(rest) = Len(recovery.orphans) - 1
      BY <1>1, <1>3
    <3>2. \A i \in 1..Len(rest) : rest[i] = recovery.orphans[i + 1]
      BY <1>1, <3>1
    <3>3. DOMAIN rest = 1..Len(rest) /\ DOMAIN recovery.orphans = 1..Len(recovery.orphans)
      BY <1>1, <3>1
    <3>4. Len(recovery.orphans) \in Nat
      BY <1>1
    <3> HIDE DEF rest
    <3>5. rest # <<>>
      <4>1. Len(rest) # 0
        BY <1>3, <3>1, <3>4
      <4>2. Len(<<>>) = 0
        OBVIOUS
      <4>3. QED
        BY <4>1, <4>2
    <3>6. \A i \in DOMAIN rest : i + 1 \in DOMAIN recovery.orphans
      BY <3>1, <3>3, <3>4
    <3>7. QED
      BY <3>1, <3>2, <3>3, <3>5, <3>6
  <2> HIDE DEF rest
  <2>3. /\ recovery' \in Recovery /\ recovery'.next = "look" /\ recovery'.node = recovery.node
        /\ recovery'.found = recovery.found /\ recovery'.orphans = rest
    BY <1>1, <2>1, <2>2 DEF Recovery, Verdicts
  <2>4. \A i \in DOMAIN rest : rest[i] \in Tasks /\ HasLease(rest[i])
    BY <1>1, <2>2 DEF Inv, RecoveryOK
  <2>5. \A i \in DOMAIN recovery'.orphans : HasLease(recovery.orphans[i])'
    BY <2>3, <2>4 DEF HasLease, LeasesGrow
  <2>6. QED
    BY <1>1, <2>2, <2>3, <2>5 DEF Inv, RecoveryOK, LeasesGrow
<1>4. QED
  BY <1>2, <1>3

LEMMA LookingKeepsInv == ASSUME Inv, fresh' \in BOOLEAN, Revoked \/ LookAtOrphan PROVE Kept
<1>1. UNCHANGED <<tasks, before, nodes, saved, leases, queue, api, done>>
  BY DEF Revoked, LookAtOrphan, JustReadToo, Table
<1>2. /\ recovery \in Recovery /\ recovery.orphans \in Seq(Tasks) /\ queue \in Seq(Nodes)
      /\ saved \in [Nodes -> Node] /\ recovery.node \in Nodes
  BY DEF Inv, TypeOK, Recovery, Revoked, LookAtOrphan
<1>3. SameLeases
  BY <1>1 DEF SameLeases, LeasesGrow, Inv, TypeOK
<1>4. LeasesGrow
  BY <1>3 DEF SameLeases
<1>5. /\ recovery' \in Recovery /\ (recovery'.next # "wait" => recovery'.node \in Nodes)
      /\ RecoveryOK'
  <2>1. CASE recovery' = Waiting
    BY <2>1, WaitingOK DEF RecoveryOK
  <2>2. CASE recovery.next = "look" /\ recovery' = NextOrphan
    BY <1>1, <1>4, <2>2, NextOrphanOK
  <2>3. ASSUME NEW next \in {"look", "put"}, NEW verdict \in Verdicts,
               recovery' = [recovery EXCEPT !.next = next, !.verdict = verdict],
               recovery.orphans # <<>>,
               next = "put" => verdict \in {"running", "failed"}
        PROVE  /\ recovery' \in Recovery /\ (recovery'.next # "wait" => recovery'.node \in Nodes)
               /\ RecoveryOK'
    <3>1. /\ recovery' \in Recovery /\ recovery'.next = next /\ recovery'.verdict = verdict
          /\ recovery'.node = recovery.node /\ recovery'.found = recovery.found
          /\ recovery'.orphans = recovery.orphans
      BY <1>2, <2>3 DEF Recovery
    <3>2. \A i \in DOMAIN recovery.orphans : recovery.orphans[i] \in Tasks /\ HasLease(recovery.orphans[i])
      BY <1>2 DEF Inv, RecoveryOK
    <3>3. QED
      BY <1>1, <1>2, <2>3, <3>1, <3>2 DEF Inv, RecoveryOK, HasLease
  <2>4. CASE Revoked /\ recovery.orphans # <<>>
    <3>1. recovery' = [recovery EXCEPT !.next = "look", !.verdict = recovery.verdict]
      <4>1. recovery' = [recovery EXCEPT !.next = "look"]
        BY <2>4 DEF Revoked
      <4>2. QED
        BY <1>2, <4>1 DEF Recovery
    <3>2. recovery.verdict \in Verdicts
      BY <1>2 DEF Recovery
    <3>3. QED
      BY <2>3, <2>4, <3>1, <3>2
  <2>5. CASE LookAtOrphan /\ Exists(tasks, Orphan)
    <3>1. PICK verdict \in {"running", "failed"} :
              recovery' = [recovery EXCEPT !.next = "put", !.verdict = verdict]
      BY <2>5 DEF LookAtOrphan
    <3>2. recovery.orphans # <<>>
      BY <2>5 DEF LookAtOrphan, Inv, RecoveryOK
    <3>3. QED
      BY <2>3, <3>1, <3>2 DEF Verdicts
  <2>6. QED
    BY <2>1, <2>2, <2>4, <2>5 DEF Revoked, LookAtOrphan
<1>6. QED
  BY <1>1, <1>2, <1>3, <1>5, DetectorKeepsInv

\* A task that recovery makes run has a lease.
LEMMA PutOrphanKeepsInv == ASSUME Inv, fresh' \in BOOLEAN, PutOrphan PROVE Kept
<1>1. /\ tasks' = SetTaskStatus(tasks, Orphan, recovery.verdict) /\ recovery' = NextOrphan
      /\ saved' = nodes /\ recovery.next = "put"
      /\ UNCHANGED <<before, nodes, leases, queue, api, done>>
  BY DEF PutOrphan, Commit, Table
<1>2. /\ recovery.orphans \in Seq(Tasks) /\ recovery.orphans # <<>>
      /\ recovery.verdict \in {"running", "failed"}
  BY <1>1 DEF Inv, TypeOK, RecoveryOK, Recovery
<1>3. Orphan \in Tasks /\ HasLease(Orphan)
  BY <1>2 DEF Orphan, Inv, RecoveryOK
<1>4. AllSound
  BY <1>1, <1>2, <1>3, SetStatusSound DEF TaskStatus
<1>5. \A t \in Tasks : tasks'[t].deps = tasks[t].deps
  BY <1>1 DEF SetTaskStatus, Inv, TypeOK, Task
<1>6. /\ recovery' \in Recovery /\ (recovery'.next # "wait" => recovery'.node \in Nodes)
      /\ RecoveryOK'
  <2>1. LeasesGrow
    BY <1>1 DEF LeasesGrow
  <2>2. QED
    BY <1>1, <2>1, NextOrphanOK
<1>7. TypeOK'
  BY <1>1, <1>4, <1>6 DEF Inv, TypeOK, AllSound
<1>8. ApiOK'
  BY <1>1, <1>5, ApiUntouched
<1>9. QED
  BY <1>1, <1>4, <1>6, <1>7, <1>8, StepKeepsInv

-----------------------------------------------------------------------------
(* The scanner, the watchdog, the clock and restarts.                      *)

LEMMA ScanOnceKeepsInv == ASSUME Inv, fresh' \in BOOLEAN, ScanOnce PROVE Kept
<1>1. Scan /\ UNCHANGED <<tasks, before, nodes, api, recovery, done>>
  BY DEF ScanOnce, Table
<1>2. SameLeases /\ queue' \in Seq(Nodes) /\ saved' = nodes
  BY <1>1, ScanFacts
<1>3. AllSound
  BY <1>1, UnchangedSound
<1>4. TypeOK'
  BY <1>1, <1>2 DEF Inv, TypeOK, SameLeases
<1>5. ApiOK' /\ RecoveryOK'
  BY <1>1, <1>2, <1>3, ApiUntouched, RecoveryUntouched DEF SameLeases, LeasesGrow
<1>6. QED
  BY <1>1, <1>2, <1>3, <1>4, <1>5, StepKeepsInv DEF SameLeases, LeasesGrow

LEMMA WatchdogKeepsInv ==
    ASSUME Inv, fresh' \in BOOLEAN, NEW n \in Nodes, NEW s \in Marks, WatchdogMark(n, s)
    PROVE  Kept
<1>1. /\ nodes' = [nodes EXCEPT ![n] = [nodes[n] EXCEPT !.status = s]]
      /\ queue' = IF s = "offline" THEN Append(queue, n) ELSE queue
      /\ UNCHANGED <<tasks, before, saved, leases, api, recovery, done>>
      /\ nodes \in [Nodes -> Node]
  BY DEF WatchdogMark, Inv, TypeOK
<1>2. [nodes[n] EXCEPT !.status = s] \in Node
  BY <1>1, InputsAssumption DEF Node
<1>3. nodes' \in [Nodes -> Node]
  BY <1>1, <1>2
<1>4. queue' \in Seq(Nodes)
  BY <1>1 DEF Inv, TypeOK
<1>5. TypeOK'
  BY <1>1, <1>3, <1>4 DEF Inv, TypeOK
<1>6. ApiOK'
  BY <1>1, ApiUntouched
<1>7. QED
  BY <1>1, <1>5, <1>6, NodesKeepInv

LEMMA DueKeepsInv ==
    ASSUME Inv, fresh' \in BOOLEAN, NEW l \in DOMAIN leases, LeaseFallsDue(l)
    PROVE  Kept
<1>1. /\ leases' = [leases EXCEPT ![l] = [leases[l] EXCEPT !.due = TRUE]]
      /\ UNCHANGED <<tasks, before, nodes, saved, queue, api, recovery, done>>
      /\ leases \in Seq(Lease)
  BY DEF LeaseFallsDue, Table, Inv, TypeOK
<1>2. /\ [leases[l] EXCEPT !.due = TRUE] \in Lease
      /\ [leases[l] EXCEPT !.due = TRUE].task = leases[l].task
  <2>1. leases[l] \in Lease
    BY <1>1
  <2>2. QED
    BY <2>1 DEF Lease
<1>3. SameLeases
  BY <1>1, <1>2 DEF SameLeases, LeasesGrow
<1>4. AllSound
  BY <1>1, UnchangedSound
<1>5. TypeOK'
  BY <1>1, <1>3 DEF Inv, TypeOK, SameLeases
<1>6. ApiOK' /\ RecoveryOK'
  BY <1>1, <1>3, <1>4, ApiUntouched, RecoveryUntouched DEF SameLeases, LeasesGrow
<1>7. QED
  BY <1>1, <1>3, <1>4, <1>5, <1>6, StepKeepsInv DEF SameLeases, LeasesGrow

LEMMA RestartKeepsInv == ASSUME Inv, Restart PROVE Kept
<1>1. /\ fresh' = TRUE
      /\ nodes' = RegisterNode(saved, Self, SelfCaps)
      /\ before' = RegisterRow(saved, before, Self)
      /\ saved' = nodes' /\ queue' = <<>> /\ recovery' = Waiting
      /\ api' = Begin(<<"trigger">>, None)
      /\ UNCHANGED <<tasks, leases, done>>
  BY DEF Restart, Inv, TypeOK
<1>2. saved \in [Nodes -> Node] /\ Self \in Nodes /\ SelfCaps \in SUBSET Caps
  BY SelfAssumption DEF Inv, TypeOK
<1>3. nodes' \in [Nodes -> Node] /\ before' \subseteq Nodes \X Nodes
  BY <1>1, <1>2, RegisterFacts DEF Inv, TypeOK
<1>4. <<"trigger">> \in Plans \ Placing /\ <<"trigger">> \notin Judging
  BY DEF Plans, Placing, Judging
<1>5. api' \in Call /\ api'.plan = <<"trigger">>
  BY <1>1, <1>4, BeginOK
<1>6. AllSound
  BY <1>1, UnchangedSound
<1>7. TypeOK'
  BY <1>1, <1>3, <1>5, WaitingOK DEF Inv, TypeOK
<1>8. ApiOK' /\ RecoveryOK'
  BY <1>1, <1>4, <1>5, ApiPlain, WaitingOK DEF RecoveryOK
<1>9. QED
  BY <1>1, <1>6, <1>7, <1>8, StepKeepsInv

-----------------------------------------------------------------------------
(* The theorems.                                                           *)

LEMMA InitInv == Init => Inv
<1> SUFFICES ASSUME Init PROVE Inv
  OBVIOUS
<1>1. /\ tasks = [t \in Tasks |-> NoTask] /\ before = {} /\ leases = <<>> /\ queue = <<>>
      /\ nodes = RegisterNode([n \in Nodes |-> NoNode], Self, SelfCaps) /\ saved = nodes
      /\ api = NoCall /\ recovery = Waiting /\ done = Tasks \ Awaited /\ fresh = TRUE
  BY DEF Init
<1>2. NoTask \in Task /\ NoTask.status = "absent"
  BY DEF NoTask, Task, Gone
<1>3. [n \in Nodes |-> NoNode] \in [Nodes -> Node]
  BY DEF NoNode, Node
<1>4. nodes \in [Nodes -> Node]
  BY <1>1, <1>3, SelfAssumption DEF RegisterNode, Node
<1>5. api \in Call /\ api.plan = <<>>
  BY <1>1, BeginOK DEF Plans
<1>6. tasks \in [Tasks -> Task] /\ \A t \in Tasks : tasks[t].status = "absent"
  BY <1>1, <1>2
<1>7. TypeOK
  BY <1>1, <1>4, <1>5, <1>6, WaitingOK DEF TypeOK
<1>8. ApiOK
  BY <1>5 DEF ApiOK, At, Idle, Plans, Placing
<1>9. RecoveryOK
  BY <1>1, WaitingOK DEF RecoveryOK
<1>10. CompletedOnce /\ ReadyInOrder
  BY <1>6 DEF CompletedOnce, ReadyInOrder
<1>11. QED
  BY <1>7, <1>8, <1>9, <1>10 DEF Inv

LEMMA CallsKeepInv ==
    ASSUME Inv, fresh' \in BOOLEAN, NEW t \in Tasks, TaskCall(t)
    PROVE  Kept
<1>1. /\ Self \in Nodes /\ None \in Nodes \cup {None} /\ {} \in SUBSET Tasks
      /\ DepSets[t] \subseteq SUBSET Tasks
  BY SelfAssumption, InputsAssumption
<1>2. ASSUME NEW req \in CapSets, SubmitTask(t, req) \/ UpdateRequires(t, req)
      PROVE  Kept
  BY <1>1, <1>2, CreatingCalls, UpdatingCalls
<1>3. ASSUME NEW req \in CapSets, NEW D \in DepSets[t], NEW n \in Nodes \cup {None},
             NewTask(t, req, D, n) \/ UpdateTask(t, D, req)
      PROVE  Kept
  BY <1>1, <1>3, CreatingCalls, UpdatingCalls
<1>4. ASSUME NEW n \in Nodes, ScheduleTaskToNode(t, n) \/ TakeLease(t, n)
      PROVE  Kept
  BY <1>4, ReadingCalls, TakeLeaseKeepsInv
<1>5. CASE CompleteTask(t) \/ FailTask(t)
  BY <1>5, StatusCalls
<1>6. CASE CancelTask(t) \/ RetryTask(t) \/ DeleteTask(t)
  BY <1>1, <1>6, ReadingCalls
<1>7. CASE RefuseUpdate(t) \/ RescheduleTask(t)
  BY <1>7, RefuseKeepsInv, RescheduleKeepsInv
<1>8. ASSUME \E req \in CapSets : \/ UpdateRequires(t, req)
                                  \/ \E D \in DepSets[t] : UpdateTask(t, D, req)
      PROVE  Kept
  <2>1. PICK req \in CapSets : \/ UpdateRequires(t, req)
                               \/ \E D \in DepSets[t] : UpdateTask(t, D, req)
    BY <1>8
  <2>2. QED
    BY <1>1, <1>2, <1>3, <2>1
<1>9. QED
  BY <1>2, <1>3, <1>4, <1>5, <1>6, <1>7, <1>8 DEF TaskCall

LEMMA NextKeepsInv == Inv /\ [Next]_vars => Kept
<1> SUFFICES ASSUME Inv, [Next]_vars PROVE Kept
  OBVIOUS
<1>1. CASE UNCHANGED vars
  <2>1. /\ UNCHANGED <<tasks, before, leases, nodes, saved, queue, api, recovery, done, fresh>>
    BY <1>1 DEF vars
  <2>2. Inv'
    BY <2>1 DEF Inv, TypeOK, ApiOK, At, Idle, HasLease, RecoveryOK, CompletedOnce,
               ReadyInOrder
  <2>3. RunningHasNodeStep
    BY <2>1 DEF RunningHasNodeStep, Unplaced, BeingPlaced, At, Idle
  <2>4. QED
    BY <2>1, <2>2, <2>3 DEF Kept, StaysDeletedStep
<1>2. ASSUME NEW t \in Tasks, TaskCall(t), fresh' \in BOOLEAN PROVE Kept
  BY <1>2, CallsKeepInv
<1>3. ASSUME NEW T \in SUBSET Tasks, PurgeCompleted(T), fresh' \in BOOLEAN PROVE Kept
  BY <1>3, PurgeKeepsInv
<1>4. ASSUME NEW n \in Joining, NodeCall(n), fresh' \in BOOLEAN PROVE Kept
  BY <1>4, SelfAssumption, NodeCallKeepsInv
<1>5. CASE AutoSchedule /\ fresh' \in BOOLEAN
  BY <1>5, AutoScheduleKeepsInv
<1>6. CASE Step /\ fresh' \in BOOLEAN
  BY <1>6, StepsKeepInv
<1>7. CASE Recover /\ fresh' \in BOOLEAN
  BY <1>7, TakeEventKeepsInv, RecoveryScanKeepsInv, RevokeNextKeepsInv, LookingKeepsInv,
     PutOrphanKeepsInv DEF Recover
<1>8. CASE ScanOnce /\ fresh' \in BOOLEAN
  BY <1>8, ScanOnceKeepsInv
<1>9. ASSUME NEW n \in Nodes, NEW s \in Marks, WatchdogMark(n, s), fresh' \in BOOLEAN PROVE Kept
  BY <1>9, WatchdogKeepsInv
<1>10. ASSUME NEW l \in DOMAIN leases, LeaseFallsDue(l), fresh' \in BOOLEAN PROVE Kept
  BY <1>10, DueKeepsInv
<1>11. CASE Restart
  BY <1>11, RestartKeepsInv
<1>12. QED
  BY <1>1, <1>2, <1>3, <1>4, <1>5, <1>6, <1>7, <1>8, <1>9, <1>10, <1>11 DEF Next, Operate

LEMMA InvHolds == Spec => []Inv
<1>1. Inv /\ [Next]_vars => Inv'
  BY NextKeepsInv DEF Kept
<1>2. QED
  BY InitInv, <1>1, PTL DEF Spec

\* The tables keep their types (cluster_store.py), and the detector recovers
\* only nodes it has been told of (recovery.py:_loop), for any plan of calls.
THEOREM CoreTypes == Spec => []TypeOK
BY InvHolds, PTL DEF Inv

\* However promotion is cut into transactions, a task is ready only when each of
\* its dependencies has been completed (workflow_resolver.py, trigger_pending_tasks).
THEOREM ReadyAfterDependencies == Spec => []ReadyInOrder
BY InvHolds, PTL DEF Inv

\* A task comes to run without a node only within the call that places it, or by
\* recovery if a lease was taken for it before it had one (task_manager.py:create_task).
THEOREM RunningPlaced == Spec => RunningHasNode
<1>1. Inv /\ [Next]_vars => [RunningHasNodeStep]_vars
  BY NextKeepsInv DEF Kept
<1>2. QED
  BY InvHolds, <1>1, PTL DEF Spec, RunningHasNode

\* No write that is based on a stale reading brings a deleted task back
\* (cluster_store.py updates rows and inserts none).
THEOREM DeletionFinal == Spec => StaysDeleted
<1>1. Inv /\ [Next]_vars => [StaysDeletedStep]_vars
  BY NextKeepsInv DEF Kept
<1>2. QED
  BY InvHolds, <1>1, PTL DEF Spec, StaysDeleted

-----------------------------------------------------------------------------
(* The propagation of a completion (workflow_resolver.py:_propagate).  All *)
(* the while no task becomes pending or completed but by the call itself,  *)
(* and no dependencies change, so the dependents that wait for nothing     *)
(* become fewer; each is still to be looked at, or about to be made ready. *)

Waits(t) == {u \in Dependents(tasks, t) : tasks[u].status = "pending" /\ DependenciesMet(tasks, u)}

PropagationOK ==
    /\ At("propagate") /\ api.task \notin api.agenda => Waits(api.task) \subseteq api.todo
    /\ (At("read") \/ At("settle")) /\ api.task \notin api.agenda =>
          Waits(api.task) \subseteq
              api.todo \cup (IF api.verdict = "ready" THEN {api.target} ELSE {})

\* Not in the middle of a propagation.
Apart(call) == call.plan = <<>> \/ Head(call.plan) \notin {"propagate", "read", "settle"}

LEMMA ApartOK == ASSUME Apart(api') PROVE PropagationOK'
BY DEF Apart, PropagationOK, At, Idle

\* Nothing comes to wait that did not wait already.
FewerWait ==
    \A u \in Tasks :
        /\ tasks'[u].deps = tasks[u].deps
        /\ tasks'[u].status = "pending" => tasks[u].status = "pending"
        /\ tasks'[u].status = "completed" => tasks[u].status = "completed"

LEMMA WaitsShrink ==
    ASSUME Inv, FewerWait, NEW t
    PROVE  Waits(t)' \subseteq Waits(t)
<1>1. ASSUME NEW u \in Waits(t)'
      PROVE  u \in Waits(t)
  <2>1. /\ u \in Tasks /\ t \in tasks'[u].deps /\ tasks'[u].status = "pending"
        /\ \A d \in tasks'[u].deps : tasks'[d].status = "completed"
    BY <1>1 DEF Waits, Dependents, DependenciesMet
  <2>2. tasks[u].deps \subseteq Tasks
    BY <2>1, TaskFields DEF Inv, TypeOK
  <2>3. /\ t \in tasks[u].deps /\ tasks[u].status = "pending"
        /\ \A d \in tasks[u].deps : tasks[d].status = "completed"
    BY <2>1, <2>2 DEF FewerWait
  <2>4. QED
    BY <2>1, <2>3 DEF Waits, Dependents, DependenciesMet, Exists, Gone
<1>2. QED
  BY <1>1

LEMMA UntouchedPropagation ==
    ASSUME Inv, PropagationOK, FewerWait, UNCHANGED api
    PROVE  PropagationOK'
<1>1. PICK t : t = api.task
  OBVIOUS
<1>2. Waits(t)' \subseteq Waits(t)
  BY WaitsShrink
<1>3. QED
  BY <1>1, <1>2 DEF PropagationOK, At, Idle, Waits

LEMMA SameTasksWait == ASSUME UNCHANGED tasks PROVE FewerWait
BY DEF FewerWait

LEMMA StatusWait ==
    ASSUME Inv, NEW t, NEW s, s \notin {"pending", "completed"}, tasks' = SetTaskStatus(tasks, t, s)
    PROVE  FewerWait /\ (t \in Tasks => tasks'[t].status # "pending")
<1>1. tasks \in [Tasks -> Task]
  BY DEF Inv, TypeOK
<1>2. CASE t \in Tasks /\ Exists(tasks, t)
  <2>1. tasks' = [tasks EXCEPT ![t] = [tasks[t] EXCEPT !.status = s]] /\ tasks[t] \in Task
    BY <1>1, <1>2 DEF SetTaskStatus
  <2>2. /\ [tasks[t] EXCEPT !.status = s].status = s
        /\ [tasks[t] EXCEPT !.status = s].deps = tasks[t].deps
    BY <2>1 DEF Task
  <2>3. QED
    BY <1>1, <1>2, <2>1, <2>2 DEF FewerWait
<1>3. CASE ~(t \in Tasks /\ Exists(tasks, t))
  <2>1. tasks' = tasks
    BY <1>1, <1>3 DEF SetTaskStatus
  <2>2. QED
    BY <1>3, <2>1 DEF FewerWait, Exists, Gone
<1>4. QED
  BY <1>2, <1>3

LEMMA ContinueApart ==
    ASSUME Inv, Continue, ~Idle, Apart(api)
    PROVE  Apart(api')
<1>1. api \in Call /\ api.plan \in Plans /\ api.plan # <<>>
  BY DEF Inv, TypeOK, ApiOK, Idle
<1>2. CASE Len(api.plan) = 1
  BY <1>2 DEF Continue, Finished, NoCall, Apart
<1>3. CASE Len(api.plan) # 1
  <2>1. api' = [api EXCEPT !.plan = Tail(api.plan)]
    BY <1>1, <1>3 DEF Continue, Skip
  <2>2. api'.plan = Tail(api.plan)
    BY <1>1, <2>1 DEF Call
  <2>3. api.plan \in {<<"depend", "place", "assign">>, <<"place", "assign">>, <<"list", "block">>,
                      <<"revoke", "unready", "schedule">>, <<"unready", "schedule">>,
                      <<"unready", "trigger">>}
    BY <1>1, <1>3 DEF Plans, Apart
  <2>4. Head(Tail(api.plan)) \notin {"propagate", "read", "settle"}
    <3>1. CASE api.plan = <<"depend", "place", "assign">>
      BY <3>1
    <3>2. CASE api.plan = <<"revoke", "unready", "schedule">>
      BY <3>2
    <3>3. CASE api.plan = <<"place", "assign">>
      BY <3>3
    <3>4. CASE api.plan = <<"list", "block">>
      BY <3>4
    <3>5. CASE api.plan = <<"unready", "schedule">>
      BY <3>5
    <3>6. CASE api.plan = <<"unready", "trigger">>
      BY <3>6
    <3>7. QED
      BY <2>3, <3>1, <3>2, <3>3, <3>4, <3>5, <3>6
  <2>5. QED
    BY <2>2, <2>4 DEF Apart
<1>4. QED
  BY <1>2, <1>3

LEMMA BeginApart ==
    ASSUME NEW t \in Tasks \cup {None}, NEW plan \in Plans,
           plan = <<>> \/ Head(plan) \notin {"propagate", "read", "settle"}
    PROVE  /\ Apart(Begin(plan, t)) /\ Apart(NoCall)
           /\ \A n : Apart([Begin(plan, t) EXCEPT !.node = n])
           /\ \A F : Apart([Begin(plan, t) EXCEPT !.found = F])
           /\ \A D, n : Apart([Begin(plan, t) EXCEPT !.deps = D, !.node = n])
<1>1. Begin(plan, t) \in Call /\ Begin(plan, t).plan = plan /\ NoCall.plan = <<>>
  BY BeginOK
<1>2. ASSUME NEW call \in Call, Apart(call)
      PROVE  /\ \A n : Apart([call EXCEPT !.node = n])
             /\ \A F : Apart([call EXCEPT !.found = F])
             /\ \A D, n : Apart([call EXCEPT !.deps = D, !.node = n])
  BY <1>2 DEF Apart, Call
<1>3. QED
  BY <1>1, <1>2 DEF Apart

LEMMA CallsPropagate ==
    ASSUME Inv, PropagationOK, NEW t \in Tasks, TaskCall(t)
    PROVE  PropagationOK'
<1>1. /\ \A plan \in {<<"trigger">>, <<"list", "block">>, <<"unready", "schedule">>,
                      <<"revoke", "unready", "schedule">>, <<"cancel">>, <<"unready", "trigger">>,
                      <<"delete">>, <<"start">>} :
            plan \in Plans /\ Head(plan) \notin {"propagate", "read", "settle"}
      /\ t \in Tasks \cup {None}
  BY DEF Plans
<1>2. CASE \E req \in CapSets : SubmitTask(t, req)
  BY <1>1, <1>2, BeginApart, ApartOK DEF SubmitTask
<1>3. ASSUME NEW req \in CapSets, NEW D \in DepSets[t], NEW n \in Nodes \cup {None},
             NewTask(t, req, D, n)
      PROVE  PropagationOK'
  <2> DEFINE plan == NewTaskPlan(D, n)
  <2>1. plan \in Plans /\ (plan = <<>> \/ Head(plan) \notin {"propagate", "read", "settle"})
    BY NewTaskPlans
  <2>2. api' = IF plan = <<>> THEN NoCall ELSE [Begin(plan, t) EXCEPT !.deps = D, !.node = n]
    BY <1>3 DEF NewTask
  <2> HIDE DEF plan
  <2>3. QED
    BY <1>1, <2>1, <2>2, BeginApart, ApartOK
<1>4. CASE \/ \E req \in CapSets : UpdateRequires(t, req) \/ \E D \in DepSets[t] : UpdateTask(t, D, req)
           \/ \E n \in Nodes : TakeLease(t, n)
           \/ RefuseUpdate(t)
  BY <1>4, ApartOK DEF UpdateRequires, UpdateTask, TakeLease, RefuseUpdate, Idle, Apart
<1>5. ASSUME NEW n \in Nodes, ScheduleTaskToNode(t, n)
      PROVE  PropagationOK'
  <2>1. <<"start">> \in Plans /\ Head(<<"start">>) = "start"
    BY DEF Plans
  <2>2. Apart([Begin(<<"start">>, t) EXCEPT !.node = n])
    BY <2>1, BeginApart
  <2>3. QED
    BY <1>5, <2>2, ApartOK DEF ScheduleTaskToNode
<1>6. CASE CompleteTask(t)
  <2> DEFINE plan == <<"propagate", "schedule">>
             b == Begin(plan, t)
  <2>1. api' = [b EXCEPT !.agenda = {t}]
    BY <1>6 DEF CompleteTask
  <2>2. b \in Call /\ b.plan = plan /\ b.task = t
    BY BeginOK DEF Plans
  <2> HIDE DEF b
  <2>3. api'.plan = plan /\ api'.task = t /\ api'.agenda = {t}
    BY <2>1, <2>2 DEF Call
  <2>4. QED
    BY <2>3 DEF PropagationOK, At, Idle
<1>7. CASE FailTask(t) \/ CancelTask(t) \/ RetryTask(t) \/ DeleteTask(t)
  BY <1>1, <1>7, BeginApart, ApartOK DEF FailTask, CancelTask, RetryTask, DeleteTask
<1>8. CASE RescheduleTask(t)
  <2> DEFINE plan == <<"revoke", "unready", "schedule">>
  <2>1. plan \in Plans /\ Head(plan) = "revoke"
    BY DEF Plans
  <2> HIDE DEF plan
  <2>2. Apart([Begin(plan, t) EXCEPT !.found = InTime(leases)])
    BY <2>1, BeginApart
  <2>3. Apart(Begin(<<"unready", "schedule">>, t))
    BY <1>1, BeginApart
  <2>4. QED
    BY <1>8, <2>2, <2>3, ApartOK DEF RescheduleTask, plan
<1>9. QED
  BY <1>2, <1>3, <1>4, <1>5, <1>6, <1>7, <1>8 DEF TaskCall

LEMMA OtherStepsPropagate ==
    ASSUME Inv, Step, ~(Propagate \/ Resolve \/ ReadDependency \/ Judge \/ Settle)
    PROVE  PropagationOK'
<1>1. api \in Call /\ api.plan \in Plans
  BY DEF Inv, TypeOK, ApiOK
<1>2. \A step \in Steps \ {"propagate", "read", "settle"} : At(step) => Apart(api) /\ ~Idle
  BY DEF At, Apart
<1>3. ASSUME ~Propagated, ~List, ~Place, ~(Block /\ api.todo # {})
      PROVE  Continue /\ Apart(api) /\ ~Idle
  BY <1>2, <1>3 DEF Step, Trigger, Schedule, Depend, Assign, Unready, Cancel, Start, Delete,
     Revoke, Block, Steps
<1>4. CASE Place
  BY <1>2, <1>4, ContinueApart, ApartOK, BeginApart
     DEF Place, Steps, Finished, NoCall, Apart
<1>5. CASE Propagated \/ List
  <2>1. api' = Skip \/ \E S : api' = [Skip EXCEPT !.todo = S]
    BY <1>5 DEF Propagated, List
  <2>2. api.plan = <<"propagate", "schedule">> \/ api.plan = <<"list", "block">>
    BY <1>1, <1>5, PlanAt DEF Propagated, List
  <2>3. Tail(api.plan) \in {<<"schedule">>, <<"block">>} /\ Tail(api.plan) \in Seq(Steps)
    <3>1. CASE api.plan = <<"propagate", "schedule">>
      BY <3>1 DEF Steps
    <3>2. CASE api.plan = <<"list", "block">>
      BY <3>2 DEF Steps
    <3>3. QED
      BY <2>2, <3>1, <3>2
  <2>4. Skip \in Call /\ Skip.plan = Tail(api.plan)
    BY <1>1, <2>3 DEF Skip, Call
  <2>5. api'.plan = Tail(api.plan)
    BY <2>1, <2>4 DEF Call
  <2>6. api'.plan = <<"schedule">> \/ api'.plan = <<"block">>
    BY <2>3, <2>5
  <2>7. Apart(api')
    BY <2>6 DEF Apart
  <2>8. QED
    BY <2>7, ApartOK
<1>6. CASE Block /\ api.todo # {}
  <2>1. api'.plan = api.plan
    BY <1>1, <1>6 DEF Block, Call
  <2>2. QED
    BY <1>2, <1>6, <2>1, ApartOK DEF Block, Steps, Apart
<1>7. QED
  BY <1>3, <1>4, <1>5, <1>6, ContinueApart, ApartOK

\* Whoever waits for nothing reads no dependency that is not completed.
LEMMA WaitingReads ==
    ASSUME NEW t, NEW u \in Waits(t), NEW d \in tasks[u].deps
    PROVE  tasks[d].status = "completed"
BY DEF Waits, DependenciesMet

LEMMA PropagationSteps ==
    ASSUME Inv, PropagationOK, Propagate \/ Resolve \/ ReadDependency \/ Judge \/ Settle
    PROVE  PropagationOK'
<1>1. api \in Call /\ api.plan \in Plans
  BY DEF Inv, TypeOK, ApiOK
<1>2. CASE Propagate
  <2>1. PICK u \in api.agenda :
          api' = [api EXCEPT !.agenda = @ \ {u},
                             !.todo = {v \in Dependents(tasks, u) :
                                          tasks[v].status \in {"pending", "blocked"}}]
    BY <1>2 DEF Propagate
  <2>2. /\ UNCHANGED tasks /\ At("propagate") /\ api.todo = {}
        /\ ~At("read") /\ ~At("settle")
    BY <1>2 DEF Propagate, JustRead, At
  <2>3. /\ api'.plan = api.plan /\ api'.task = api.task /\ api'.agenda = api.agenda \ {u}
        /\ api'.todo = {v \in Dependents(tasks, u) : tasks[v].status \in {"pending", "blocked"}}
    BY <1>1, <2>1 DEF Call
  <2>4. Waits(api.task)' = Waits(api.task)
    BY <2>2, <2>3 DEF Waits
  <2>5. api.task = u => Waits(api.task) \subseteq api'.todo
    BY <2>3 DEF Waits
  <2>6. api.task \notin api'.agenda => Waits(api.task) \subseteq api'.todo
    BY <2>2, <2>3, <2>5 DEF PropagationOK
  <2>7. ~At("read")' /\ ~At("settle")'
    BY <2>2, <2>3 DEF At, Idle
  <2>8. QED
    BY <2>3, <2>4, <2>6, <2>7 DEF PropagationOK
<1>3. CASE Resolve
  <2>1. UNCHANGED tasks /\ At("propagate")
    BY <1>3 DEF Resolve, JustRead
  <2>2. PICK v \in Tasks :
              /\ api'.task = api.task /\ api'.agenda = api.agenda /\ api'.todo = api.todo \ {v}
              /\ IF tasks[v].status # "pending" THEN api'.plan = <<"propagate", "schedule">>
                 ELSE /\ api'.plan = <<"read", "propagate", "schedule">>
                      /\ api'.target = v /\ api'.verdict = "ready"
    BY <1>3, ResolveFacts
  <2>3. Waits(api.task)' = Waits(api.task)
    BY <2>1, <2>2 DEF Waits
  <2>4. api.task \notin api.agenda => Waits(api.task) \subseteq api.todo
    BY <2>1 DEF PropagationOK
  <2>5. CASE tasks[v].status # "pending"
    <3>1. ~At("read")' /\ ~At("settle")'
      <4>1. api'.plan = <<"propagate", "schedule">>
        BY <2>2, <2>5
      <4>2. QED
        BY <4>1 DEF At
    <3>2. v \notin Waits(api.task)
      BY <2>5 DEF Waits
    <3>3. QED
      BY <2>2, <2>3, <2>4, <3>1, <3>2 DEF PropagationOK
  <2>6. CASE tasks[v].status = "pending"
    <3>1. ~At("propagate")'
      BY <2>2, <2>6 DEF At, Idle
    <3>2. QED
      BY <2>2, <2>3, <2>4, <2>6, <3>1 DEF PropagationOK
  <2>7. QED
    BY <2>5, <2>6
<1>4. CASE ReadDependency \/ Judge
  <2>1. UNCHANGED tasks /\ At("read")
    BY <1>4 DEF ReadDependency, Judge, JustRead
  <2>2. /\ api'.task = api.task /\ api'.agenda = api.agenda /\ api'.todo = api.todo
    BY <1>4, ReadingFacts, JudgeFacts
  <2>3. Waits(api.task)' = Waits(api.task)
    BY <2>1, <2>2 DEF Waits
  <2>4. api.task \notin api.agenda =>
          Waits(api.task) \subseteq
              api.todo \cup (IF api.verdict = "ready" THEN {api.target} ELSE {})
    BY <2>1 DEF PropagationOK
  <2>5. CASE ReadDependency
    <3>1. PICK d \in api.deps :
                /\ api'.target = api.target
                /\ IF tasks[d].status = "failed"
                   THEN /\ api'.plan = <<"settle", "propagate", "schedule">>
                        /\ api'.verdict = "blocked"
                   ELSE /\ api'.plan = <<"read", "propagate", "schedule">>
                        /\ api'.verdict = IF tasks[d].status = "completed"
                                         THEN api.verdict ELSE "none"
      BY <2>5, ReadingFacts
    <3>2. d \in tasks[api.target].deps
      BY <2>1, <3>1 DEF Inv, ApiOK
    <3>3. tasks[d].status # "completed" => api.target \notin Waits(api.task)
      BY <3>2, WaitingReads
    <3>4. ~At("propagate")'
      BY <3>1 DEF At, Idle
    <3>5. api'.verdict # "ready" => tasks[d].status # "completed" \/ api.verdict # "ready"
      BY <3>1
    <3>6. api.task \notin api.agenda =>
            Waits(api.task) \subseteq
                api'.todo \cup (IF api'.verdict = "ready" THEN {api'.target} ELSE {})
      BY <2>2, <2>4, <3>1, <3>3, <3>5
    <3>7. QED
      BY <2>2, <2>3, <3>4, <3>6 DEF PropagationOK
  <2>6. CASE Judge /\ api.verdict = "ready"
    <3>1. /\ api'.plan = <<"settle", "propagate", "schedule">>
          /\ api'.verdict = "ready" /\ api'.target = api.target
      BY <2>6, JudgeFacts
    <3>2. ~At("propagate")'
      BY <3>1 DEF At, Idle
    <3>3. QED
      BY <2>2, <2>3, <2>4, <2>6, <3>1, <3>2 DEF PropagationOK
  <2>7. CASE Judge /\ api.verdict # "ready"
    <3>1. api'.plan = <<"propagate", "schedule">>
      BY <2>7, JudgeFacts
    <3>2. ~At("read")' /\ ~At("settle")'
      BY <3>1 DEF At, Idle
    <3>3. QED
      BY <2>2, <2>3, <2>4, <2>7, <3>2 DEF PropagationOK
  <2>8. QED
    BY <1>4, <2>5, <2>6, <2>7
<1>6. CASE Settle
  <2>1. /\ tasks' = SetTaskStatus(tasks, api.target, api.verdict) /\ At("settle")
        /\ api.verdict \in {"ready", "blocked"} /\ api.target \in Tasks
    BY <1>6 DEF Settle, OnTasks, Inv, ApiOK
  <2>2. FewerWait /\ tasks'[api.target].status # "pending"
    BY <2>1, StatusWait
  <2>3. api.plan = <<"settle", "propagate", "schedule">>
    BY <1>1, <2>1, PlanAt
  <2>4. Tail(api.plan) = <<"propagate", "schedule">> /\ Tail(api.plan) \in Seq(Steps)
    BY <2>3 DEF Steps
  <2>5. /\ Skip \in Call /\ Skip.plan = Tail(api.plan) /\ Skip.task = api.task
        /\ Skip.agenda = api.agenda /\ Skip.todo = api.todo
    BY <1>1, <2>4 DEF Skip, Call
  <2>6. api' = [Skip EXCEPT !.target = None, !.verdict = "none",
                            !.agenda = IF api.verdict = "ready" THEN @ \cup {api.target} ELSE @]
    BY <1>6 DEF Settle
  <2>7. /\ api'.plan = <<"propagate", "schedule">> /\ api'.task = api.task
        /\ api.agenda \subseteq api'.agenda /\ api'.todo = api.todo
    BY <2>4, <2>5, <2>6 DEF Call
  <2>8. ~At("read")' /\ ~At("settle")'
    BY <2>7 DEF At
  <2>9. Waits(api.task)' \subseteq Waits(api.task) \ {api.target}
    <3>1. PICK t, v : t = api.task /\ v = api.target
      OBVIOUS
    <3>2. Waits(t)' \subseteq Waits(t)
      BY <2>2, WaitsShrink
    <3>3. v \notin Waits(t)'
      BY <2>2, <3>1 DEF Waits
    <3>4. Waits(api.task)' = Waits(t)'
      BY <2>7, <3>1 DEF Waits
    <3>5. QED
      BY <3>1, <3>2, <3>3, <3>4
  <2>10. QED
    BY <2>1, <2>7, <2>8, <2>9 DEF PropagationOK
<1>7. QED
  BY <1>2, <1>3, <1>4, <1>6

LEMMA NextPropagates ==
    ASSUME Inv, PropagationOK, [Next]_vars
    PROVE  PropagationOK' /\ NoneLeftBehindStep
<1>1. PropagationOK'
  <2>1. CASE UNCHANGED <<tasks, api>>
    BY <2>1, SameTasksWait, UntouchedPropagation
  <2>2. CASE Step
    BY <2>2, OtherStepsPropagate, PropagationSteps
  <2>3. CASE PutOrphan
    <3>1. tasks' = SetTaskStatus(tasks, Orphan, recovery.verdict) /\ UNCHANGED api
      BY <2>3 DEF PutOrphan
    <3>2. recovery.verdict \in {"running", "failed"}
      BY <2>3 DEF PutOrphan, Inv, RecoveryOK
    <3>3. FewerWait
      BY <3>1, <3>2, StatusWait
    <3>4. QED
      BY <3>1, <3>3, UntouchedPropagation
  <2>4. CASE \E T \in SUBSET Tasks : PurgeCompleted(T)
    BY <2>4, ApartOK DEF PurgeCompleted, Idle, Apart
  <2>5. /\ <<"trigger">> \in Plans /\ Head(<<"trigger">>) = "trigger"
        /\ <<"schedule">> \in Plans /\ Head(<<"schedule">>) = "schedule"
    BY DEF Plans
  <2>6. CASE AutoSchedule \/ Restart
    BY <2>5, <2>6, BeginApart, ApartOK DEF AutoSchedule, Restart
  <2>7. ASSUME NEW n \in Joining, NodeCall(n)
        PROVE  PropagationOK'
    <3>1. Apart(Begin(<<"trigger">>, None))
      BY <2>5, BeginApart
    <3>2. api' = Begin(<<"trigger">>, None) \/ (Idle /\ UNCHANGED api)
      BY <2>7 DEF NodeCall, RegisterNodeCall, ChangeCapabilities, UpdateHeartbeat
    <3>3. QED
      BY <3>1, <3>2, ApartOK DEF Idle, Apart
  <2>8. QED
    BY <2>1, <2>2, <2>3, <2>4, <2>6, <2>7, CallsPropagate
       DEF Next, Operate, vars, Recover, TakeEvent, RecoveryScan, RevokeNext, Revoked, LookAtOrphan,
           JustReadToo, ScanOnce, WatchdogMark, LeaseFallsDue
<1>2. NoneLeftBehindStep
  <2>1. Propagated => Waits(api.task) = {}
    BY DEF Propagated, PropagationOK
  <2>2. QED
    BY <2>1 DEF NoneLeftBehindStep, Waits
<1>3. QED
  BY <1>1, <1>2

\* When the propagation of a completion ends, no dependent is left that waits for
\* nothing (workflow_resolver.py:_propagate), whatever recovery wrote meanwhile.
THEOREM PropagationComplete == Spec => NoneLeftBehind
<1>1. Init => PropagationOK
  BY DEF Init, NoCall, PropagationOK, At, Idle
<1>2. Inv /\ PropagationOK /\ [Next]_vars => PropagationOK' /\ [NoneLeftBehindStep]_vars
  BY NextPropagates
<1>3. QED
  BY <1>1, <1>2, InvHolds, PTL DEF Spec, NoneLeftBehind
=============================================================================
