------------------------ MODULE ClusterThreadsProofs ------------------------
(***************************************************************************)
(* Proofs about ClusterThreads for any tasks, nodes, inputs and bounds.    *)
(* With recovery on two threads: types, the life of a lease, and each      *)
(* thread revokes the right one; leases exclusive and TaskOwnership        *)
(* implemented, as long as the recovery thread unassigns no task that was  *)
(* claimed anew.  Without the recovery thread: both at every critical      *)
(* section, and tasks promoted in order; if there are no peers, either,    *)
(* running tasks have a holder and completed ones no lease.                *)
(*                                                                         *)
(* ClusterApiProofs is at hand as Proved, with its own copy of every       *)
(* operator.                                                               *)
(***************************************************************************)
EXTENDS ClusterThreads, SequenceTheorems, WellFoundedInduction, TLAPS

Proved == INSTANCE ClusterApiProofs

-----------------------------------------------------------------------------
(* The operators of the store are those that ClusterApiProofs is about.    *)

LEMMA Assumptions ==
    /\ None \notin Nodes /\ Proved!IsFiniteSet(Nodes)
    /\ CapSets \subseteq SUBSET Caps /\ DepSets \subseteq SUBSET Tasks
    /\ MaxLeases \in Nat /\ MaxSync \in Nat
BY NoneAssumption, FiniteAssumption, InputsAssumption, BoundsAssumption
   DEF Proved!IsFiniteSet, IsFiniteSet

LEMMA SameTypes ==
    /\ Proved!Task = Task /\ Proved!Node = Node /\ Proved!Lease = Lease
    /\ Proved!TaskStatus = TaskStatus /\ Proved!NodeStatus = NodeStatus
    /\ Proved!TypeOK <=> StoreTypeOK
BY DEF Proved!Task, Task, Proved!Node, Node, Proved!Lease, Lease, Proved!TaskStatus, TaskStatus,
       Proved!NodeStatus, NodeStatus, Proved!LeaseStatus, LeaseStatus,
       Proved!TypeOK, Proved!StoreTypeOK, StoreTypeOK

LEMMA SameTasks ==
    ASSUME NEW ts, NEW t, NEW s, NEW ns
    PROVE  /\ Proved!SetTaskStatus(ts, t, s) = SetTaskStatus(ts, t, s)
           /\ Proved!SetAssignee(ts, t, s) = SetAssignee(ts, t, s)
           /\ Proved!CreateTask(ts, t, s) = CreateTask(ts, t, s)
           /\ Proved!Promote(ts, Tasks) = TriggerPendingTasks(ts)
           /\ Proved!SchedulePending(ts, ns) = SchedulePending(ts, ns)
BY DEF Proved!SetTaskStatus, SetTaskStatus, Proved!SetAssignee, SetAssignee,
       Proved!CreateTask, CreateTask, Proved!Promote, TriggerPendingTasks, Promote,
       Proved!Promotable, Promotable, Proved!DependenciesMet, DependenciesMet,
       Proved!SchedulePending, SchedulePending, Proved!Schedulable, Schedulable,
       Proved!FirstEligible, FirstEligible, Proved!Eligible, Eligible

LEMMA SameLeases ==
    ASSUME NEW ls, NEW R, NEW t, NEW n
    PROVE  /\ Proved!RevokeLeases(ls, R) = RevokeLeases(ls, R)
           /\ Proved!ExpireDue(ls) = ExpireDue(ls)
           /\ Proved!CreateLease(ls, t, n) = CreateLease(ls, t, n)
           /\ Proved!ActiveLeases(ls) = ActiveLeases(ls)
           /\ Proved!LeaseByTask(ls, R, t) = LeaseByTask(ls, R, t)
           /\ Api!Revoke(R) <=> Proved!Revoke(R)
           /\ Api!LeaseStep <=> Proved!LeaseStep
BY DEF Proved!RevokeLeases, RevokeLeases, Proved!ExpireDue, ExpireDue,
       Proved!CreateLease, CreateLease, Proved!ActiveLeases, ActiveLeases,
       Proved!LeaseByTask, LeaseByTask, Proved!LeasesOf, LeasesOf,
       Api!Revoke, Proved!Revoke, Api!RevokeLeases, Api!DropIndex, Proved!DropIndex,
       Api!LeaseStep, Proved!LeaseStep

\* Steps of a single critical section are requests of ClusterApi.
LEMMA ShortSteps ==
    ASSUME ShortRequest \/ Background
    PROVE  Proved!PeerNext /\ UNCHANGED thread
<1>1. ASSUME NEW t \in Tasks, NEW D \in DepSets, Api!SetTaskDependencies(t, D)
      PROVE  Proved!TaskNext
  BY <1>1 DEF Api!SetTaskDependencies, Proved!SetTaskDependencies, Api!Known, Proved!Known,
     Api!SetDependencies, Proved!SetDependencies, Proved!TaskNext
<1>2. ASSUME NEW t \in Tasks, Api!UnblockTask(t)
      PROVE  Proved!TaskNext
  BY <1>2 DEF Api!UnblockTask, Proved!UnblockTask, Api!SetTaskStatus, Proved!SetTaskStatus,
     Proved!TaskNext
<1>3. ASSUME NEW n \in Nodes, NEW caps \in CapSets, Api!JoinNode(n, caps)
      PROVE  Proved!NodeNext
  BY <1>3 DEF Api!JoinNode, Proved!JoinNode, Api!Registered, Proved!Registered,
     Api!RegisterNode, Proved!RegisterNode, Api!UpdateHeartbeat, Proved!UpdateHeartbeat,
     Api!UpdateCapabilities, Proved!UpdateCapabilities, Api!Cardinality, Proved!Cardinality,
     Proved!NodeNext
<1>4. ASSUME NEW n \in Nodes, Api!Heartbeat(n)
      PROVE  Proved!NodeNext
  BY <1>4 DEF Api!Heartbeat, Proved!Heartbeat, Api!Registered, Proved!Registered,
     Api!UpdateHeartbeat, Proved!UpdateHeartbeat, Proved!NodeNext
<1>5. ASSUME NEW l \in LeaseIds, Api!DeleteLease(l)
      PROVE  Proved!LeaseNext
  BY <1>5, SameLeases DEF Api!DeleteLease, Proved!DeleteLease, LeaseIds, Api!LeaseIds, Proved!LeaseIds,
     Proved!LeaseNext
<1>6. ASSUME Api!SyncNext
      PROVE  Proved!SyncNext
  BY <1>6 DEF Api!SyncNext, Proved!SyncNext, Api!SyncReceive, Proved!SyncReceive,
     Api!SyncVersionOnly, Proved!SyncVersionOnly, Api!SyncStatus, Proved!SyncStatus,
     Api!TaskStatus, Proved!TaskStatus, Api!ApplyTaskState, Proved!ApplyTaskState,
     Api!Known, Proved!Known
<1>7. ASSUME Api!ScanLeases
      PROVE  Proved!LeaseNext
  BY <1>7 DEF Api!ScanLeases, Proved!ScanLeases, Api!ExpireDue, Proved!ExpireDue, Proved!LeaseNext
<1>8. ASSUME NEW n \in Nodes, NEW s \in NodeStatus, Api!WatchdogCheck(n, s)
      PROVE  Proved!NodeNext
  BY <1>8 DEF Api!WatchdogCheck, Proved!WatchdogCheck, Api!Registered, Proved!Registered,
     Api!SetNodeStatus, Proved!SetNodeStatus, NodeStatus, Proved!NodeStatus, Proved!NodeNext
<1>9. ASSUME NEW l \in LeaseIds, Api!LeaseFallsDue(l)
      PROVE  Proved!LeaseNext
  BY <1>9 DEF Api!LeaseFallsDue, Proved!LeaseFallsDue, Api!ActiveLeases, Proved!ActiveLeases,
     LeaseIds, Proved!LeaseIds, Proved!LeaseNext
<1>10. QED
  BY <1>1, <1>2, <1>3, <1>4, <1>5, <1>6, <1>7, <1>8, <1>9
  DEF ShortRequest, Background, Proved!PeerNext, Proved!LocalNext

-----------------------------------------------------------------------------
(* Types, and what a thread in the middle of something is sure to have.    *)

Places == {"idle", "online", "assign", "promoteAll", "advance",
           "claimHolder", "claimRun", "claimAssign", "claimLease",
           "findLease", "revokeFound", "release", "releaseHolder", "complete",
           "dependents", "visit", "read", "mark",
           "snapshot", "listExpired", "revoke", "unassign", "verify", "markFailed"}

Local == [pc: Places, then: Places, task: Tasks \cup {None}, node: Nodes \cup {None},
          dep: Tasks \cup {None}, unread: SUBSET Tasks, waiting: SUBSET Tasks,
          mark: {"ready", "blocked"},
          lease: Nat, online: SUBSET Nodes, left: SUBSET Nat, freed: SUBSET Nat,
          targets: SUBSET Nodes]

OfTask == {"advance", "claimHolder", "claimRun", "claimAssign", "claimLease",
           "findLease", "revokeFound", "release", "releaseHolder", "complete"}
OfClaim == {"claimHolder", "claimRun", "claimAssign", "claimLease"}
OfOrphan == {"unassign", "verify", "markFailed"}

\* The local state th of a thread fits the lease table ls.
Fits(th, ls) ==
    /\ th \in Local
    /\ th.left \subseteq DOMAIN ls /\ th.freed \subseteq DOMAIN ls
    /\ th.pc \in OfTask => th.task \in Tasks
    /\ th.pc \in OfClaim => th.node \in Nodes
    /\ th.pc \in {"read", "mark"} => th.dep \in Tasks
    /\ th.pc \in {"findLease", "revokeFound"} => th.then \in {"release", "complete"}
    /\ th.pc = "revoke" => th.left # {}
    /\ th.pc \in OfOrphan \/ th.then = "verify" => th.freed # {}

ThreadsFit == /\ thread = [p \in Threads |-> thread[p]]
              /\ \A p \in Threads : Fits(thread[p], leases)

Types == StoreTypeOK /\ ThreadsFit

LEMMA TypesImply == Types => TypeOK
BY DEF Types, ThreadsFit, Fits, Local, TypeOK, LeaseIds

LEMMA IdleFits == Idle \in Local /\ \A ls : Fits(Idle, ls)
BY DEF Idle, Fits, Local, Places, OfTask, OfClaim, OfOrphan

LEMMA TaskFields ==
    ASSUME tasks \in [Tasks -> Task]
    PROVE  \A t \in Tasks : /\ tasks[t].status \in TaskStatus \cup {"absent"}
                            /\ tasks[t].node \in Nodes \cup {None}
                            /\ tasks[t].deps \subseteq Tasks
                            /\ tasks[t].requires \subseteq Caps
BY DEF Task

LEMMA InitTypes == Init => Types
<1> SUFFICES ASSUME Init PROVE Types
  OBVIOUS
<1>1. StoreTypeOK
  BY DEF Init, StoreInit, StoreTypeOK, Task, NoTask, Node, NoNode, Lease
<1>2. ThreadsFit
  BY IdleFits DEF Init, ThreadsFit
<1>3. QED
  BY <1>1, <1>2 DEF Types

\* The oldest of a set of leases exists.
LEMMA OldestIn ==
    ASSUME NEW S \in SUBSET Nat, S # {}
    PROVE  Oldest(S) \in S /\ \A m \in S : Oldest(S) <= m
<1>1. PICK l \in S : \A m \in S : l <= m
  <2>1. PICK n \in S : \A m \in S : ~(<<m, n>> \in OpToRel(<, Nat))
    BY WFMin, NatLessThanWellFounded
  <2>2. \A m \in S : ~(m < n)
    BY <2>1 DEF OpToRel
  <2>3. QED
    BY <2>2
<1>2. QED
  BY <1>1 DEF Oldest

\* Leases stay in the table, so the threads that stand still go on fitting.
LEMMA ThreadMoves ==
    ASSUME Types, StoreTypeOK', Api!LeaseStep, NEW p \in Threads, NEW th,
           thread' = [thread EXCEPT ![p] = th], Fits(th, leases')
    PROVE  Types'
<1>1. DOMAIN leases \subseteq DOMAIN leases'
  BY DEF Api!LeaseStep
<1>2. \A q \in Threads : Fits(thread[q], leases')
  BY <1>1 DEF Types, ThreadsFit, Fits
<1>3. thread'[p] = th /\ \A q \in Threads \ {p} : thread'[q] = thread[q]
  BY DEF Types, ThreadsFit
<1>4. thread' = [q \in Threads |-> thread'[q]]
  BY DEF Types, ThreadsFit
<1>5. \A q \in Threads : Fits(thread'[q], leases')
  BY <1>2, <1>3
<1>6. QED
  BY <1>4, <1>5 DEF Types, ThreadsFit

LEMMA ThreadsStand ==
    ASSUME Types, StoreTypeOK', Api!LeaseStep, thread' = thread
    PROVE  Types'
BY DEF Api!LeaseStep, Types, ThreadsFit, Fits

LEMMA NoLeaseStep ==
    ASSUME leases' = leases
    PROVE  Api!LeaseStep
BY DEF Api!LeaseStep

-----------------------------------------------------------------------------
(* What the steps do to the store.                                         *)

\* Steps that only write tasks, in one of the ways the store has.
TaskWrite ==
    \/ \E t \in Tasks, s \in TaskStatus : tasks' = SetTaskStatus(tasks, t, s)
    \/ \E t \in Tasks, n \in Nodes \cup {None} : tasks' = SetAssignee(tasks, t, n)
    \/ \E t \in Tasks : tasks' = UnassignTask(tasks, t)
    \/ tasks' = TriggerPendingTasks(tasks)
    \/ \E t \in Tasks, req \in CapSets :
          ~Known(tasks, t) /\ tasks' = CreateTask(tasks, t, req)
    \/ \E ns \in [Nodes -> Node] : tasks' = SchedulePending(tasks, ns)

LEMMA TaskWriteTypes ==
    ASSUME tasks \in [Tasks -> Task], TaskWrite
    PROVE  tasks' \in [Tasks -> Task]
<1>1. ASSUME NEW t \in Tasks, NEW s \in TaskStatus, tasks' = SetTaskStatus(tasks, t, s)
      PROVE  tasks' \in [Tasks -> Task]
  BY <1>1 DEF SetTaskStatus, Task
<1>2. ASSUME NEW t \in Tasks, NEW n \in Nodes \cup {None}, tasks' = SetAssignee(tasks, t, n)
      PROVE  tasks' \in [Tasks -> Task]
  BY <1>2 DEF SetAssignee, Task
<1>3. ASSUME NEW t \in Tasks, tasks' = UnassignTask(tasks, t)
      PROVE  tasks' \in [Tasks -> Task]
  <2>1. tasks' = SetAssignee(SetTaskStatus(tasks, t, "ready"), t, None)
    BY <1>3 DEF UnassignTask, SetAssignee, SetTaskStatus
  <2>2. SetTaskStatus(tasks, t, "ready") \in [Tasks -> Task]
    BY DEF SetTaskStatus, Task, TaskStatus
  <2>3. QED
    BY <2>1, <2>2 DEF SetAssignee, Task
<1>4. ASSUME tasks' = TriggerPendingTasks(tasks)
      PROVE  tasks' \in [Tasks -> Task]
  BY <1>4, Assumptions, Proved!PromoteSteady, SameTypes, SameTasks DEF Proved!Steady
<1>5. ASSUME NEW t \in Tasks, NEW req \in CapSets, tasks' = CreateTask(tasks, t, req)
      PROVE  tasks' \in [Tasks -> Task]
  <2>1. [status |-> "pending", node |-> None, deps |-> {}, requires |-> req] \in Task
    BY InputsAssumption DEF Task, TaskStatus
  <2>2. QED
    BY <1>5, <2>1 DEF CreateTask
<1>6. ASSUME NEW ns \in [Nodes -> Node], tasks' = SchedulePending(tasks, ns)
      PROVE  tasks' \in [Tasks -> Task]
  BY <1>6, Assumptions, Proved!SchedulePendingSteady, SameTypes, SameTasks DEF Proved!Steady
<1>7. QED
  BY <1>1, <1>2, <1>3, <1>4, <1>5, <1>6 DEF TaskWrite

LEMMA TaskWriteStep ==
    ASSUME StoreTypeOK, TaskWrite, UNCHANGED <<leases, index, syncVersion>>,
           nodes' \in [Nodes -> Node]
    PROVE  StoreTypeOK' /\ Api!LeaseStep
BY TaskWriteTypes, NoLeaseStep DEF StoreTypeOK

LEMMA NoStoreStep ==
    ASSUME StoreTypeOK, UNCHANGED storeVars
    PROVE  StoreTypeOK' /\ Api!LeaseStep
BY NoLeaseStep DEF StoreTypeOK, storeVars

LEMMA RevokeStep ==
    ASSUME StoreTypeOK, NEW R, Api!Revoke(R), UNCHANGED <<tasks, nodes, syncVersion>>
    PROVE  /\ StoreTypeOK' /\ Api!LeaseStep
           /\ DOMAIN leases' = DOMAIN leases
           /\ ActiveLeases(leases') = ActiveLeases(leases) \ R
<1>1. Proved!Revoke(R) /\ Proved!TypeOK
  BY SameLeases, SameTypes
<1>2. leases' \in Seq(Lease) /\ index' \in [Tasks -> Nat]
  BY <1>1, Assumptions, Proved!RevokeType, SameTypes
<1>3. /\ Proved!LeaseStep /\ DOMAIN leases' = DOMAIN leases
      /\ Proved!ActiveLeases(leases') = Proved!ActiveLeases(leases) \ R
  BY <1>1, Assumptions, Proved!RevokeKeeps
<1>4. QED
  BY <1>2, <1>3, SameLeases DEF StoreTypeOK

LEMMA ScanStep ==
    ASSUME StoreTypeOK, leases' = ExpireDue(leases), UNCHANGED <<tasks, nodes, index, syncVersion>>
    PROVE  /\ StoreTypeOK' /\ Api!LeaseStep
           /\ DOMAIN leases' = DOMAIN leases
           /\ ActiveLeases(leases') \subseteq ActiveLeases(leases)
<1>1. leases' = Proved!ExpireDue(leases) /\ Proved!TypeOK
  BY SameLeases, SameTypes
<1>2. leases' \in Seq(Lease)
  <2>1. leases \in Seq(Proved!Lease)
    BY SameTypes DEF StoreTypeOK
  <2>2. Proved!ExpireDue(leases) \in Seq(Proved!Lease)
    BY <2>1, Assumptions, Proved!ExpireDueType
  <2>3. QED
    BY <1>1, <2>2, SameTypes
<1>3. /\ Proved!LeaseStep /\ DOMAIN leases' = DOMAIN leases
      /\ Proved!ActiveLeases(leases') \subseteq Proved!ActiveLeases(leases)
  BY <1>1, Assumptions, Proved!ScanKeeps
<1>4. QED
  BY <1>2, <1>3, SameLeases DEF StoreTypeOK

LEMMA CreateStep ==
    ASSUME StoreTypeOK, NEW t \in Tasks, NEW n \in Nodes, leases' = CreateLease(leases, t, n),
           index' = [index EXCEPT ![t] = Len(leases) + 1], UNCHANGED <<tasks, nodes, syncVersion>>
    PROVE  StoreTypeOK' /\ Api!LeaseStep
<1>1. leases' = Proved!CreateLease(leases, t, n) /\ Proved!TypeOK
  BY SameLeases, SameTypes
<1>2. leases' \in Seq(Lease)
  <2>1. leases \in Seq(Proved!Lease)
    BY SameTypes DEF StoreTypeOK
  <2>2. Proved!CreateLease(leases, t, n) \in Seq(Proved!Lease)
    BY <2>1, Assumptions, Proved!CreateLeaseType
  <2>3. QED
    BY <1>1, <2>2, SameTypes
<1>3. Proved!LeaseStep
  BY <1>1, Assumptions, Proved!CreateKeeps
<1>4. index' \in [Tasks -> Nat]
  <2>1. Len(leases) \in Nat
    BY LenProperties DEF StoreTypeOK
  <2>2. QED
    BY <2>1 DEF StoreTypeOK
<1>5. QED
  BY <1>2, <1>3, <1>4, SameLeases DEF StoreTypeOK

LEMMA ShortStepTypes ==
    ASSUME StoreTypeOK, ShortRequest \/ Background
    PROVE  StoreTypeOK' /\ Api!LeaseStep
<1>1. Proved!TypeOK /\ [Proved!Next]_Proved!storeVars
  BY ShortSteps, SameTypes DEF Proved!Next
<1>2. Proved!TypeOK'
  BY <1>1, Assumptions, Proved!StepType
<1>3. Proved!LeaseStep
  BY <1>1, Assumptions, Proved!LeaseTableStep
<1>4. StoreTypeOK'
  BY <1>2 DEF Proved!Task, Task, Proved!Node, Node, Proved!Lease, Lease,
     Proved!TaskStatus, TaskStatus, Proved!NodeStatus, NodeStatus,
     Proved!LeaseStatus, LeaseStatus, Proved!TypeOK, Proved!StoreTypeOK, StoreTypeOK
<1>5. QED
  BY <1>3, <1>4, SameLeases

-----------------------------------------------------------------------------
(* Types under every step.                                                 *)

LEMMA Finishes ==
    ASSUME Types, StoreTypeOK', Api!LeaseStep, NEW p \in Threads, Finish(p)
    PROVE  Types'
BY IdleFits, ThreadMoves DEF Finish

LEMMA Goes ==
    ASSUME Types, StoreTypeOK', Api!LeaseStep, NEW p \in Threads, NEW step \in Places,
           Goto(p, step),
           step \in OfTask => thread[p].task \in Tasks,
           step \in OfClaim => thread[p].node \in Nodes,
           step \in {"read", "mark"} => thread[p].dep \in Tasks,
           step \in {"findLease", "revokeFound"} => thread[p].then \in {"release", "complete"},
           step = "revoke" => thread[p].left # {},
           step \in OfOrphan => thread[p].freed # {}
    PROVE  Types'
<1> DEFINE th == [thread[p] EXCEPT !.pc = step]
<1>1. thread' = [thread EXCEPT ![p] = th]
  BY DEF Goto
<1>2. Fits(thread[p], leases) /\ DOMAIN leases \subseteq DOMAIN leases'
  BY DEF Types, ThreadsFit, Api!LeaseStep
<1>3. th \in Local
  BY <1>2 DEF Fits, Local
<1>4. /\ th.pc = step /\ th.then = thread[p].then /\ th.task = thread[p].task
      /\ th.node = thread[p].node /\ th.dep = thread[p].dep
      /\ th.left = thread[p].left /\ th.freed = thread[p].freed
  BY <1>2 DEF Fits, Local
<1>5. Fits(th, leases')
  BY <1>2, <1>3, <1>4 DEF Fits
<1>6. QED
  BY <1>1, <1>5, ThreadMoves

LEMMA Returns ==
    ASSUME Types, StoreTypeOK', Api!LeaseStep, NEW p \in Threads,
           NEW scheduled \in BOOLEAN, Return(p, scheduled)
    PROVE  Types'
<1>1. thread[p].then = "verify" => thread[p].freed # {}
  BY DEF Types, ThreadsFit, Fits
<1>2. CASE thread[p].then # "verify"
  BY <1>2, Finishes DEF Return
<1>3. CASE thread[p].then = "verify" /\ scheduled
  BY <1>1, <1>3, Goes DEF Return, Places, OfTask, OfClaim
<1>4. CASE thread[p].then = "verify" /\ ~scheduled
  BY <1>1, <1>4, Goes DEF Return, Places, OfTask, OfClaim
<1>5. QED
  BY <1>2, <1>3, <1>4

LEMMA Continues ==
    ASSUME Types, StoreTypeOK', Api!LeaseStep, NEW p \in Threads,
           NEW F \in SUBSET (DOMAIN leases'), NEW N \in SUBSET Nodes, Continue(p, F, N)
    PROVE  Types'
<1> DEFINE th == IF F = {} /\ N = {} THEN Idle
                 ELSE [Idle EXCEPT !.pc = IF F = {} THEN "snapshot" ELSE "unassign",
                                   !.freed = F, !.targets = N]
<1>1. DOMAIN leases' \subseteq Nat
  BY LenProperties DEF StoreTypeOK
<1>2. Fits(th, leases')
  <2>1. CASE F = {} /\ N = {}
    BY <2>1, IdleFits
  <2>2. CASE F = {} /\ N # {}
    <3>1. th = [Idle EXCEPT !.pc = "snapshot", !.freed = F, !.targets = N]
      BY <2>2
    <3>2. QED
      BY <3>1, <1>1 DEF Idle, Fits, Local, Places, OfTask, OfClaim, OfOrphan
  <2>3. CASE F # {}
    <3>1. th = [Idle EXCEPT !.pc = "unassign", !.freed = F, !.targets = N]
      BY <2>3
    <3>2. QED
      BY <2>3, <3>1, <1>1 DEF Idle, Fits, Local, Places, OfTask, OfClaim, OfOrphan
  <2>4. QED
    BY <2>1, <2>2, <2>3
<1>3. QED
  BY <1>2, ThreadMoves DEF Continue

LEMMA Begins ==
    ASSUME Types, StoreTypeOK', Api!LeaseStep, NEW p \in Threads,
           NEW local, Begin(p, local), Fits(local, leases')
    PROVE  Types'
BY ThreadMoves DEF Begin

\* What a thread begins with: a task to look up, or a set of nodes.
LEMMA BeginningsFit ==
    ASSUME NEW ls
    PROVE  /\ \A step \in {"promoteAll", "listExpired"} : Fits([Idle EXCEPT !.pc = step], ls)
           /\ Fits([Idle EXCEPT !.pc = "promoteAll", !.then = "online"], ls)
           /\ \A t \in Tasks :
                 /\ Fits([Idle EXCEPT !.pc = "advance", !.task = t], ls)
                 /\ Fits([Idle EXCEPT !.pc = "dependents", !.mark = "blocked", !.task = t], ls)
                 /\ \A then \in {"release", "complete"} :
                       Fits([Idle EXCEPT !.pc = "findLease", !.then = then, !.task = t], ls)
                 /\ \A n \in Nodes :
                       Fits([Idle EXCEPT !.pc = "claimHolder", !.task = t, !.node = n], ls)
           /\ \A n \in Nodes : Fits([Idle EXCEPT !.pc = "snapshot", !.targets = {n}], ls)
<1>1. ASSUME NEW step \in {"promoteAll", "listExpired"}
      PROVE  Fits([Idle EXCEPT !.pc = step], ls)
  BY DEF Idle, Fits, Local, Places, OfTask, OfClaim, OfOrphan
<1>2. Fits([Idle EXCEPT !.pc = "promoteAll", !.then = "online"], ls)
  BY DEF Idle, Fits, Local, Places, OfTask, OfClaim, OfOrphan
<1>3. ASSUME NEW t \in Tasks
      PROVE  /\ Fits([Idle EXCEPT !.pc = "advance", !.task = t], ls)
             /\ Fits([Idle EXCEPT !.pc = "dependents", !.mark = "blocked", !.task = t], ls)
  BY DEF Idle, Fits, Local, Places, OfTask, OfClaim, OfOrphan
<1>4. ASSUME NEW t \in Tasks, NEW then \in {"release", "complete"}
      PROVE  Fits([Idle EXCEPT !.pc = "findLease", !.then = then, !.task = t], ls)
  BY DEF Idle, Fits, Local, Places, OfTask, OfClaim, OfOrphan
<1>5. ASSUME NEW t \in Tasks, NEW n \in Nodes
      PROVE  Fits([Idle EXCEPT !.pc = "claimHolder", !.task = t, !.node = n], ls)
  BY DEF Idle, Fits, Local, Places, OfTask, OfClaim, OfOrphan
<1>6. ASSUME NEW n \in Nodes
      PROVE  Fits([Idle EXCEPT !.pc = "snapshot", !.targets = {n}], ls)
  BY DEF Idle, Fits, Local, Places, OfTask, OfClaim, OfOrphan
<1>7. QED
  BY <1>1, <1>2, <1>3, <1>4, <1>5, <1>6

LEMMA OrphanIsTask ==
    ASSUME Types, NEW p \in Threads, thread[p].freed # {}
    PROVE  /\ Oldest(thread[p].freed) \in thread[p].freed
           /\ Orphan(p) \in Tasks
<1>1. thread[p].freed \subseteq DOMAIN leases /\ thread[p].freed \in SUBSET Nat
  BY DEF Types, ThreadsFit, Fits, Local
<1>2. Oldest(thread[p].freed) \in thread[p].freed
  BY <1>1, OldestIn
<1>3. \A l \in DOMAIN leases : leases[l] \in Lease
  BY DEF Types, StoreTypeOK
<1>4. QED
  BY <1>1, <1>2, <1>3 DEF Orphan, Lease

LEMMA SeenIsTable ==
    ASSUME Types, NEW p \in Threads
    PROVE  Seen(p) \in [Nodes -> Node]
BY DEF Types, StoreTypeOK, Seen, Node, NodeStatus

LEMMA RequestTypes ==
    ASSUME Types, Request \/ DetectExpired("auto")
    PROVE  Types' /\ Api!LeaseStep
<1> USE BeginningsFit
<1>0. StoreTypeOK /\ "loop" \in Threads
  BY DEF Types, Threads
<1>1. ASSUME NEW t \in Tasks, NEW req \in CapSets, SubmitTask(t, req)
      PROVE  Types' /\ Api!LeaseStep
  <2>1. StoreTypeOK' /\ Api!LeaseStep
    BY <1>0, <1>1, TaskWriteStep DEF SubmitTask, TaskWrite, OnlyTasks, StoreTypeOK
  <2>2. QED
    BY <1>0, <1>1, <2>1, Begins DEF SubmitTask
<1>2. ASSUME ScheduleTrigger
      PROVE  Types' /\ Api!LeaseStep
  BY <1>0, <1>2, NoStoreStep, Begins DEF ScheduleTrigger
<1>3. ASSUME NEW n \in Nodes, NEW caps \in CapSets, PatchCapabilities(n, caps)
      PROVE  Types' /\ Api!LeaseStep
  <2>1. nodes' \in [Nodes -> Node]
    <3>1. caps \subseteq Caps /\ nodes \in [Nodes -> Node]
      BY <1>0, InputsAssumption DEF StoreTypeOK
    <3>2. [nodes[n] EXCEPT !.caps = caps] \in Node
      BY <3>1 DEF Node
    <3>3. nodes' = [nodes EXCEPT ![n] = [nodes[n] EXCEPT !.caps = caps]]
      BY <1>3 DEF PatchCapabilities, UpdateCapabilities
    <3>4. QED
      BY <3>1, <3>2, <3>3
  <2>2. StoreTypeOK' /\ Api!LeaseStep
    BY <1>0, <1>3, <2>1, NoLeaseStep DEF PatchCapabilities, StoreTypeOK
  <2>3. QED
    BY <1>0, <1>3, <2>2, Begins DEF PatchCapabilities
<1>4. ASSUME NEW t \in Tasks, ManualAdvance(t)
      PROVE  Types' /\ Api!LeaseStep
  BY <1>0, <1>4, NoStoreStep, Begins DEF ManualAdvance
<1>5. ASSUME NEW t \in Tasks, NEW n \in Nodes, ClaimTask(t, n)
      PROVE  Types' /\ Api!LeaseStep
  BY <1>0, <1>5, NoStoreStep, Begins DEF ClaimTask
<1>6. ASSUME NEW t \in Tasks, NEW n \in Nodes, ReleaseTask(t, n)
      PROVE  Types' /\ Api!LeaseStep
  BY <1>0, <1>6, NoStoreStep, Begins DEF ReleaseTask
<1>7. ASSUME NEW t \in Tasks, CompleteTask(t)
      PROVE  Types' /\ Api!LeaseStep
  BY <1>0, <1>7, NoStoreStep, Begins DEF CompleteTask
<1>8. ASSUME NEW t \in Tasks, FailTask(t)
      PROVE  Types' /\ Api!LeaseStep
  <2>1. StoreTypeOK' /\ Api!LeaseStep
    BY <1>0, <1>8, TaskWriteStep DEF FailTask, TaskWrite, TaskStatus, OnlyTasks, StoreTypeOK
  <2>2. QED
    BY <1>0, <1>8, <2>1, Begins DEF FailTask
<1>9. ASSUME NEW n \in Nodes, TriggerRecovery(n)
      PROVE  Types' /\ Api!LeaseStep
  BY <1>0, <1>9, NoStoreStep, Begins DEF TriggerRecovery
<1>10. ASSUME NEW p \in Threads, DetectExpired(p)
       PROVE  Types' /\ Api!LeaseStep
  BY <1>0, <1>10, ScanStep, Begins DEF DetectExpired
<1>11. QED
  BY <1>1, <1>2, <1>3, <1>4, <1>5, <1>6, <1>7, <1>8, <1>9, <1>10 DEF Request, Threads

\* A handler that visits a dependent and reads what that depends on.
Judges(p) == Visit(p) \/ ReadDependency(p) \/ AllRead(p)

\* It goes on with the same dependent and one dependency less to read, that being
\* completed, or turns to another, or has nothing left to read.
JudgedAs(th, old) ==
    /\ th.task = old.task /\ th.node = old.node /\ th.then = old.then /\ th.mark = old.mark
    /\ th.left = old.left /\ th.freed = old.freed
    /\ \/ th.pc = "visit"
       \/ /\ th.pc = "read" /\ th.dep \in Tasks
          /\ th.mark = "ready" => th.unread = tasks[th.dep].deps
       \/ /\ th.pc = "read" /\ old.pc = "read" /\ th.dep = old.dep
          /\ \E d \in old.unread : /\ tasks[d].status = "completed"
                                  /\ th.unread = old.unread \ {d}
       \/ /\ th.pc = "mark" /\ old.pc = "read" /\ th.dep = old.dep
          /\ old.unread = {} /\ th.unread = {}

LEMMA JudgesFacts ==
    ASSUME StoreTypeOK, NEW p \in Threads, thread[p] \in Local, Judges(p)
    PROVE  /\ UNCHANGED storeVars
           /\ \E th \in Local : thread' = [thread EXCEPT ![p] = th] /\ JudgedAs(th, thread[p])
<1> DEFINE old == thread[p]
<1>1. UNCHANGED storeVars
  BY DEF Judges, Visit, ReadDependency, AllRead
<1>2. CASE Visit(p)
  <2>1. PICK d \in old.waiting :
          thread' = [thread EXCEPT
              ![p].waiting = @ \ {d}, ![p].dep = d,
              ![p].unread = IF thread[p].mark = "ready" THEN tasks[d].deps ELSE {},
              ![p].pc = IF tasks[d].status = "pending" THEN "read" ELSE "visit"]
    BY <1>2 DEF Visit
  <2>2. d \in Tasks /\ tasks[d].deps \subseteq Tasks
    BY <2>1, TaskFields DEF Local, StoreTypeOK
  <2> DEFINE U == IF old.mark = "ready" THEN tasks[d].deps ELSE {}
             step == IF tasks[d].status = "pending" THEN "read" ELSE "visit"
             th == [old EXCEPT !.waiting = @ \ {d}, !.dep = d, !.unread = U, !.pc = step]
  <2>3. thread' = [thread EXCEPT ![p] = th]
    BY <2>1
  <2>4. U \in SUBSET Tasks /\ (old.mark = "ready" => U = tasks[d].deps)
    BY <2>2
  <2>5. step \in {"read", "visit"} /\ step \in Places
    BY DEF Places
  <2> HIDE DEF U, step
  <2>6. /\ th \in Local
        /\ th.task = old.task /\ th.node = old.node /\ th.then = old.then /\ th.mark = old.mark
        /\ th.left = old.left /\ th.freed = old.freed
        /\ th.dep = d /\ th.unread = U /\ th.pc = step
    BY <2>2, <2>4, <2>5 DEF Local
  <2> HIDE DEF th
  <2>7. JudgedAs(th, old)
    BY <2>2, <2>4, <2>5, <2>6 DEF JudgedAs
  <2>8. QED
    BY <1>1, <2>3, <2>6, <2>7
<1>3. CASE ReadDependency(p)
  <2>1. PICK d \in old.unread :
          thread' = [thread EXCEPT
              ![p].unread = @ \ {d},
              ![p].pc = IF tasks[d].status = "completed" THEN "read" ELSE "visit"]
    BY <1>3 DEF ReadDependency
  <2> DEFINE step == IF tasks[d].status = "completed" THEN "read" ELSE "visit"
             th == [old EXCEPT !.unread = @ \ {d}, !.pc = step]
  <2>2. thread' = [thread EXCEPT ![p] = th] /\ old.pc = "read"
    BY <1>3, <2>1 DEF ReadDependency, At
  <2>3. /\ step = "visit" \/ (step = "read" /\ tasks[d].status = "completed")
        /\ step \in Places
    BY DEF Places
  <2> HIDE DEF step
  <2>4. /\ th \in Local
        /\ th.task = old.task /\ th.node = old.node /\ th.then = old.then /\ th.mark = old.mark
        /\ th.left = old.left /\ th.freed = old.freed
        /\ th.dep = old.dep /\ th.unread = old.unread \ {d} /\ th.pc = step
    BY <2>3 DEF Local
  <2> HIDE DEF th
  <2>5. JudgedAs(th, old)
    BY <2>1, <2>2, <2>3, <2>4 DEF JudgedAs
  <2>6. QED
    BY <1>1, <2>2, <2>4, <2>5
<1>4. CASE AllRead(p)
  <2> DEFINE th == [old EXCEPT !.pc = "mark"]
  <2>1. thread' = [thread EXCEPT ![p] = th] /\ old.pc = "read" /\ old.unread = {}
    BY <1>4 DEF AllRead, At, Goto
  <2>2. /\ th \in Local
        /\ th.task = old.task /\ th.node = old.node /\ th.then = old.then /\ th.mark = old.mark
        /\ th.left = old.left /\ th.freed = old.freed
        /\ th.dep = old.dep /\ th.unread = old.unread /\ th.pc = "mark"
    BY DEF Local, Places
  <2> HIDE DEF th
  <2>3. JudgedAs(th, old)
    BY <2>1, <2>2 DEF JudgedAs
  <2>4. QED
    BY <1>1, <2>1, <2>2, <2>3
<1>5. QED
  BY <1>2, <1>3, <1>4 DEF Judges

LEMMA HandleTypes ==
    ASSUME Types, NEW p \in Threads, Handle(p)
    PROVE  Types' /\ Api!LeaseStep
<1>0. StoreTypeOK /\ Fits(thread[p], leases)
  BY DEF Types, ThreadsFit
<1>1. ASSUME PromoteAll(p)
      PROVE  Types' /\ Api!LeaseStep
  <2>1. StoreTypeOK' /\ Api!LeaseStep
    BY <1>0, <1>1, TaskWriteStep DEF PromoteAll, TaskWrite, OnlyTasks, StoreTypeOK
  <2>2. QED
    BY <1>1, <2>1, Goes, Finishes DEF PromoteAll, Places, OfTask, OfClaim, OfOrphan
<1>2. ASSUME NEW pc \in OfTask, NEW step \in Places, At(p, pc), Goto(p, step),
             StoreTypeOK', Api!LeaseStep,
             step \in OfClaim => pc \in OfClaim,
             step \notin OfOrphan \cup {"read", "mark", "revoke", "findLease", "revokeFound"}
      PROVE  Types' /\ Api!LeaseStep
  BY <1>0, <1>2, Goes DEF At, Fits, OfTask
<1>3. ASSUME AdvanceReady(p)
      PROVE  Types' /\ Api!LeaseStep
  <2>1. StoreTypeOK' /\ Api!LeaseStep
    BY <1>0, <1>3, TaskWriteStep
    DEF AdvanceReady, At, T, Fits, OfTask, TaskWrite, TaskStatus, OnlyTasks, StoreTypeOK
  <2>2. QED
    BY <1>2, <1>3, <2>1 DEF AdvanceReady, Places, OfTask, OfClaim, OfOrphan
<1>4. ASSUME ClaimHolder(p)
      PROVE  Types' /\ Api!LeaseStep
  BY <1>0, <1>2, <1>4, NoStoreStep, Finishes DEF ClaimHolder, Places, OfTask, OfClaim, OfOrphan
<1>5. ASSUME ClaimRun(p)
      PROVE  Types' /\ Api!LeaseStep
  <2>1. StoreTypeOK' /\ Api!LeaseStep
    BY <1>0, <1>5, TaskWriteStep
    DEF ClaimRun, At, T, Fits, OfTask, TaskWrite, TaskStatus, OnlyTasks, StoreTypeOK
  <2>2. QED
    BY <1>2, <1>5, <2>1 DEF ClaimRun, Places, OfTask, OfClaim, OfOrphan
<1>6. ASSUME ClaimAssign(p)
      PROVE  Types' /\ Api!LeaseStep
  <2>1. StoreTypeOK' /\ Api!LeaseStep
    BY <1>0, <1>6, TaskWriteStep
    DEF ClaimAssign, At, T, Fits, OfTask, OfClaim, TaskWrite, OnlyTasks, StoreTypeOK
  <2>2. QED
    BY <1>2, <1>6, <2>1 DEF ClaimAssign, Places, OfTask, OfClaim, OfOrphan
<1>7. ASSUME ClaimLease(p)
      PROVE  Types' /\ Api!LeaseStep
  <2>1. T(p) \in Tasks /\ thread[p].node \in Nodes
    BY <1>0, <1>7 DEF ClaimLease, At, T, Fits, OfTask, OfClaim
  <2>2. StoreTypeOK' /\ Api!LeaseStep
    BY <1>0, <1>7, <2>1, CreateStep DEF ClaimLease, OnlyLeases
  <2>3. QED
    BY <1>7, <2>2, Finishes DEF ClaimLease
<1>8. ASSUME FindLease(p)
      PROVE  Types' /\ Api!LeaseStep
  <2> DEFINE l == LeaseByTask(leases, index, T(p))
             step == IF l = 0 THEN thread[p].then ELSE "revokeFound"
             th == [thread[p] EXCEPT !.pc = step, !.lease = l]
  <2>1. T(p) \in Tasks /\ thread[p].then \in {"release", "complete"}
    BY <1>0, <1>8 DEF FindLease, At, T, Fits, OfTask
  <2>2. l \in Nat
    BY <1>0, <2>1, LenProperties
    DEF LeaseByTask, LeasesOf, ActiveLeases, StoreTypeOK
  <2>3. thread' = [thread EXCEPT ![p] = th]
    BY <1>8 DEF FindLease
  <2>4. /\ th \in Local /\ th.pc \in {"release", "complete", "revokeFound"}
        /\ th.then = thread[p].then /\ th.task = T(p)
        /\ th.left = thread[p].left /\ th.freed = thread[p].freed
    <3>1. step \in {"release", "complete", "revokeFound"}
      BY <2>1
    <3>2. step \in Places
      BY <3>1 DEF Places
    <3> HIDE DEF l, step
    <3>3. QED
      BY <1>0, <2>2, <3>1, <3>2 DEF Fits, Local, T
  <2>5. Fits(th, leases)
    BY <1>0, <2>1, <2>4 DEF Fits, OfTask, OfClaim, OfOrphan
  <2>6. QED
    BY <1>0, <1>8, <2>3, <2>5, NoStoreStep, ThreadMoves DEF FindLease, storeVars
<1>9. ASSUME RevokeFound(p)
      PROVE  Types' /\ Api!LeaseStep
  <2>1. thread[p].then \in {"release", "complete"}
    BY <1>0, <1>9 DEF RevokeFound, At, Fits
  <2>2. QED
    BY <1>0, <1>2, <1>9, <2>1, RevokeStep
    DEF RevokeFound, OnlyLeases, Places, OfTask, OfClaim, OfOrphan
<1>10. ASSUME ReleaseReady(p)
       PROVE  Types' /\ Api!LeaseStep
  <2>1. StoreTypeOK' /\ Api!LeaseStep
    BY <1>0, <1>10, TaskWriteStep
    DEF ReleaseReady, At, T, Fits, OfTask, TaskWrite, TaskStatus, OnlyTasks, StoreTypeOK
  <2>2. QED
    BY <1>2, <1>10, <2>1 DEF ReleaseReady, Places, OfTask, OfClaim, OfOrphan
<1>11. ASSUME ReleaseHolder(p)
       PROVE  Types' /\ Api!LeaseStep
  <2>1. StoreTypeOK' /\ Api!LeaseStep
    BY <1>0, <1>11, TaskWriteStep
    DEF ReleaseHolder, At, T, Fits, OfTask, TaskWrite, OnlyTasks, StoreTypeOK
  <2>2. QED
    BY <1>11, <2>1, Finishes DEF ReleaseHolder
<1>12. ASSUME CompleteMark(p)
       PROVE  Types' /\ Api!LeaseStep
  <2> DEFINE th == [thread[p] EXCEPT !.pc = "dependents", !.then = "online"]
  <2>1. StoreTypeOK' /\ Api!LeaseStep
    BY <1>0, <1>12, TaskWriteStep
    DEF CompleteMark, At, T, Fits, OfTask, TaskWrite, TaskStatus, OnlyTasks, StoreTypeOK
  <2>2. thread' = [thread EXCEPT ![p] = th]
    BY <1>12 DEF CompleteMark
  <2>3. th \in Local /\ th.pc = "dependents" /\ th.then = "online"
        /\ th.left = thread[p].left /\ th.freed = thread[p].freed
    <3>1. {"dependents", "online"} \subseteq Places /\ thread[p] \in Local
      BY <1>0 DEF Fits, Places
    <3>2. QED
      BY <3>1 DEF Local
  <2>4. Fits(th, leases)
    BY <1>0, <2>3 DEF Fits, OfTask, OfClaim, OfOrphan
  <2>5. QED
    BY <1>12, <2>1, <2>2, <2>4, ThreadMoves DEF CompleteMark, OnlyTasks
<1>13. ASSUME ListDependents(p)
       PROVE  Types' /\ Api!LeaseStep
  <2> DEFINE th == [thread[p] EXCEPT !.pc = "visit", !.waiting = Dependents(tasks, T(p))]
  <2>1. thread' = [thread EXCEPT ![p] = th]
    BY <1>13 DEF ListDependents
  <2>2. Dependents(tasks, T(p)) \in SUBSET Tasks
    BY DEF Dependents
  <2>3. th \in Local /\ th.pc = "visit" /\ th.then = thread[p].then
        /\ th.left = thread[p].left /\ th.freed = thread[p].freed
    BY <1>0, <2>2 DEF Fits, Local, Places
  <2>4. Fits(th, leases)
    BY <1>0, <2>3 DEF Fits, OfTask, OfClaim, OfOrphan
  <2>5. QED
    BY <1>0, <1>13, <2>1, <2>4, NoStoreStep, ThreadMoves DEF ListDependents, storeVars
<1>14. ASSUME Judges(p)
       PROVE  Types' /\ Api!LeaseStep
  <2>1. UNCHANGED storeVars
    BY <1>0, <1>14, JudgesFacts DEF Fits
  <2>2. PICK th \in Local : thread' = [thread EXCEPT ![p] = th] /\ JudgedAs(th, thread[p])
    BY <1>0, <1>14, JudgesFacts DEF Fits
  <2>3. th.pc \in {"visit", "read", "mark"} /\ (th.pc # "visit" => th.dep \in Tasks)
    BY <1>0, <2>2 DEF JudgedAs, Fits
  <2>4. Fits(th, leases)
    BY <1>0, <2>2, <2>3 DEF JudgedAs, Fits, OfTask, OfClaim, OfOrphan
  <2>5. QED
    BY <1>0, <2>1, <2>2, <2>4, NoStoreStep, ThreadMoves DEF storeVars
<1>15. ASSUME MarkDependent(p)
       PROVE  Types' /\ Api!LeaseStep
  <2>1. thread[p].dep \in Tasks /\ thread[p].mark \in TaskStatus
    BY <1>0, <1>15 DEF MarkDependent, At, Fits, Local, TaskStatus
  <2>2. StoreTypeOK' /\ Api!LeaseStep
    BY <1>0, <1>15, <2>1, TaskWriteStep DEF MarkDependent, TaskWrite, OnlyTasks, StoreTypeOK
  <2>3. QED
    BY <1>15, <2>2, Goes DEF MarkDependent, Places, OfTask, OfClaim, OfOrphan
<1>16. ASSUME Visited(p)
       PROVE  Types' /\ Api!LeaseStep
  BY <1>0, <1>16, NoStoreStep, Goes, Finishes DEF Visited, Places, OfTask, OfClaim, OfOrphan
<1>17. QED
  BY <1>1, <1>3, <1>4, <1>5, <1>6, <1>7, <1>8, <1>9, <1>10, <1>11, <1>12, <1>13, <1>14,
     <1>15, <1>16 DEF Handle, Judges

LEMMA RecoveryTypes ==
    ASSUME Types, NEW p \in Threads, RecoveryStep(p)
    PROVE  Types' /\ Api!LeaseStep
<1>0. /\ StoreTypeOK /\ thread[p] \in Local
      /\ thread[p].left \subseteq DOMAIN leases /\ thread[p].freed \subseteq DOMAIN leases
      /\ thread[p].pc = "revoke" => thread[p].left # {}
      /\ thread[p].pc \in OfOrphan => thread[p].freed # {}
  BY DEF Types, ThreadsFit, Fits
<1>1. ASSUME ReadOnline(p)
      PROVE  Types' /\ Api!LeaseStep
  <2> DEFINE seen == {n \in Nodes : nodes[n].status = "online"}
             th == [thread[p] EXCEPT !.pc = "assign", !.online = seen]
  <2>1. StoreTypeOK' /\ Api!LeaseStep /\ leases' = leases
    BY <1>0, <1>1, NoStoreStep DEF ReadOnline, storeVars
  <2>2. CASE seen = {}
    BY <1>1, <2>1, <2>2, Returns DEF ReadOnline
  <2>3. CASE seen # {}
    <3>1. thread' = [thread EXCEPT ![p] = th]
      BY <1>1, <2>3 DEF ReadOnline
    <3>2. seen \in SUBSET Nodes /\ "assign" \in Places
      BY DEF Places
    <3> HIDE DEF seen
    <3>3. th \in Local /\ th.pc = "assign" /\ th.then = thread[p].then
          /\ th.left = thread[p].left /\ th.freed = thread[p].freed
      BY <1>0, <3>2 DEF Local
    <3>4. thread[p].then = "verify" => thread[p].freed # {}
      BY DEF Types, ThreadsFit, Fits
    <3>5. Fits(th, leases)
      BY <1>0, <3>3, <3>4 DEF Fits, OfTask, OfClaim, OfOrphan
    <3>6. QED
      BY <2>1, <3>1, <3>5, ThreadMoves
  <2>4. QED
    BY <2>2, <2>3
<1>2. ASSUME AssignReady(p)
      PROVE  Types' /\ Api!LeaseStep
  <2>1. StoreTypeOK' /\ Api!LeaseStep
    BY <1>0, <1>2, SeenIsTable, TaskWriteStep DEF AssignReady, TaskWrite, OnlyTasks, StoreTypeOK
  <2>2. QED
    BY <1>2, <2>1, Returns DEF AssignReady
<1>3. ASSUME ListExpired(p)
      PROVE  Types' /\ Api!LeaseStep
  <2>1. ExpiredNodes(leases) \in SUBSET Nodes
    BY DEF ExpiredNodes
  <2>2. QED
    BY <1>0, <1>3, <2>1, NoStoreStep, Continues DEF ListExpired
<1>4. ASSUME SnapshotLeases(p)
      PROVE  Types' /\ Api!LeaseStep
  <2>1. StoreTypeOK' /\ Api!LeaseStep
    BY <1>0, <1>4, ScanStep DEF SnapshotLeases
  <2>2. PICK n \in thread[p].targets :
          LET N == thread[p].targets \ {n}
              held == {l \in ActiveLeases(leases') : leases[l].node = n}
          IN IF held = {} THEN Continue(p, {}, N)
             ELSE thread' = [thread EXCEPT ![p].pc = "revoke",
                                           ![p].left = held, ![p].targets = N]
    BY <1>4 DEF SnapshotLeases
  <2> DEFINE N == thread[p].targets \ {n}
             held == {l \in ActiveLeases(leases') : leases[l].node = n}
             th == [thread[p] EXCEPT !.pc = "revoke", !.left = held, !.targets = N]
  <2>3. N \in SUBSET Nodes /\ held \subseteq DOMAIN leases' /\ held \in SUBSET Nat
    BY <1>0, <2>1, LenProperties DEF Local, ActiveLeases, StoreTypeOK
  <2>4. CASE held = {}
    BY <2>1, <2>2, <2>3, <2>4, Continues
  <2>5. CASE held # {}
    <3>1. thread' = [thread EXCEPT ![p] = th]
      BY <2>2, <2>5
    <3>2. "revoke" \in Places /\ DOMAIN leases \subseteq DOMAIN leases'
      BY <2>1 DEF Places, Api!LeaseStep
    <3> HIDE DEF held, N
    <3>3. th \in Local /\ th.pc = "revoke" /\ th.then = thread[p].then
          /\ th.left = held /\ th.freed = thread[p].freed
      BY <1>0, <2>3, <3>2 DEF Local
    <3>4. thread[p].then = "verify" => thread[p].freed # {}
      BY DEF Types, ThreadsFit, Fits
    <3>5. Fits(th, leases')
      BY <1>0, <2>3, <2>5, <3>2, <3>3, <3>4 DEF Fits, OfTask, OfClaim, OfOrphan
    <3>6. QED
      BY <2>1, <3>1, <3>5, ThreadMoves
  <2>6. QED
    BY <2>4, <2>5
<1>5. ASSUME RevokeNext(p)
      PROVE  Types' /\ Api!LeaseStep
  <2> DEFINE l == Oldest(thread[p].left)
             step == IF thread[p].left = {l} THEN "unassign" ELSE "revoke"
             th == [thread[p] EXCEPT !.left = @ \ {l}, !.freed = @ \cup {l}, !.pc = step]
  <2>1. thread[p].left # {} /\ thread[p].left \in SUBSET Nat
    BY <1>0, <1>5 DEF RevokeNext, At, Local
  <2>2. l \in thread[p].left
    BY <2>1, OldestIn
  <2>3. /\ StoreTypeOK' /\ Api!LeaseStep /\ DOMAIN leases' = DOMAIN leases
    BY <1>0, <1>5, RevokeStep DEF RevokeNext, OnlyLeases
  <2>4. thread' = [thread EXCEPT ![p] = th]
    BY <1>5 DEF RevokeNext
  <2>5. step \in {"unassign", "revoke"} /\ {"unassign", "revoke"} \subseteq Places
        /\ (step = "revoke" => thread[p].left \ {l} # {})
    BY <2>2 DEF Places
  <2> HIDE DEF l, step
  <2>6. th \in Local /\ th.pc = step /\ th.then = thread[p].then
        /\ th.left = thread[p].left \ {l} /\ th.freed = thread[p].freed \cup {l}
    BY <1>0, <2>1, <2>2, <2>5 DEF Local
  <2>7. Fits(th, leases')
    BY <1>0, <2>2, <2>3, <2>5, <2>6 DEF Fits, OfTask, OfClaim, OfOrphan
  <2>8. QED
    BY <2>3, <2>4, <2>7, ThreadMoves
<1>6. ASSUME Unassign(p)
      PROVE  Types' /\ Api!LeaseStep
  <2> DEFINE th == [thread[p] EXCEPT !.pc = "online", !.then = "verify"]
  <2>1. thread[p].freed # {}
    BY <1>0, <1>6 DEF Unassign, At, OfOrphan
  <2>2. StoreTypeOK' /\ Api!LeaseStep /\ leases' = leases
    BY <1>0, <1>6, <2>1, OrphanIsTask, TaskWriteStep
    DEF Unassign, TaskWrite, OnlyTasks, StoreTypeOK
  <2>3. thread' = [thread EXCEPT ![p] = th] /\ {"online", "verify"} \subseteq Places
    BY <1>6 DEF Unassign, Places
  <2>4. th \in Local /\ th.pc = "online" /\ th.then = "verify"
        /\ th.left = thread[p].left /\ th.freed = thread[p].freed
    BY <1>0, <2>3 DEF Local
  <2>5. Fits(th, leases)
    BY <1>0, <2>1, <2>4 DEF Fits, OfTask, OfClaim, OfOrphan
  <2>6. QED
    BY <2>2, <2>3, <2>5, ThreadMoves
<1>7. ASSUME NEW F, F = thread[p].freed \ {Oldest(thread[p].freed)}, NextOrphan(p),
             StoreTypeOK', Api!LeaseStep
      PROVE  Types' /\ Api!LeaseStep
  <2>1. F \in SUBSET (DOMAIN leases') /\ thread[p].targets \in SUBSET Nodes
    BY <1>0, <1>7 DEF Local, Api!LeaseStep
  <2>2. QED
    BY <1>7, <2>1, Continues DEF NextOrphan
<1>8. ASSUME Verify(p)
      PROVE  Types' /\ Api!LeaseStep
  <2>1. StoreTypeOK' /\ Api!LeaseStep
    BY <1>0, <1>8, NoStoreStep DEF Verify
  <2>2. thread[p].freed # {}
    BY <1>0, <1>8 DEF Verify, At, OfOrphan
  <2>3. CASE NextOrphan(p)
    BY <1>7, <2>1, <2>3
  <2>4. CASE Goto(p, "markFailed")
    BY <2>1, <2>2, <2>4, Goes DEF Places, OfTask, OfClaim
  <2>5. QED
    BY <1>8, <2>3, <2>4 DEF Verify
<1>9. ASSUME MarkFailed(p)
      PROVE  Types' /\ Api!LeaseStep
  <2>1. thread[p].freed # {}
    BY <1>0, <1>9 DEF MarkFailed, At, OfOrphan
  <2>2. StoreTypeOK' /\ Api!LeaseStep
    BY <1>0, <1>9, <2>1, OrphanIsTask, TaskWriteStep
    DEF MarkFailed, TaskWrite, TaskStatus, OnlyTasks, StoreTypeOK
  <2>3. QED
    BY <1>7, <1>9, <2>2 DEF MarkFailed
<1>10. QED
  BY <1>1, <1>2, <1>3, <1>4, <1>5, <1>6, <1>8, <1>9 DEF RecoveryStep

LEMMA NextTypes ==
    ASSUME Types, [Next]_vars
    PROVE  Types' /\ Api!LeaseStep
<1>0. StoreTypeOK /\ {"loop", "auto"} \subseteq Threads
  BY DEF Types, Threads
<1>1. CASE ShortRequest \/ Background
  BY <1>0, <1>1, ShortSteps, ShortStepTypes, ThreadsStand
<1>2. CASE UNCHANGED vars
  BY <1>0, <1>2, NoStoreStep, ThreadsStand DEF vars
<1>3. QED
  BY <1>0, <1>1, <1>2, RequestTypes, HandleTypes, RecoveryTypes DEF Next, Step

\* The tables keep their types and every thread points at existing leases,
\* whatever request handlers, the recovery thread, the lease scanner and the
\* watchdog do between each other's critical sections.
THEOREM ThreadsTypeCorrect == Spec => []TypeOK
<1>1. Init => Types
  BY InitTypes
<1>2. Types /\ [Next]_vars => Types'
  BY NextTypes
<1>3. QED
  BY <1>1, <1>2, TypesImply, PTL DEF Spec

\* However recovery on the event loop and on the recovery thread interleave
\* with each other and with the handlers, no lease comes back, and none passes
\* to another task or node.
THEOREM ThreadsLifecycle == Spec => LeaseLifecycle
<1>1. Init => Types
  BY InitTypes
<1>2. Types /\ [Next]_vars => Types' /\ [Api!LeaseStep]_vars
  BY NextTypes
<1>3. QED
  BY <1>1, <1>2, PTL DEF Spec, LeaseLifecycle

-----------------------------------------------------------------------------
(* Without the recovery thread.  Only the loop writes tasks and creates    *)
(* leases, so what one of its steps has found still holds at the next.     *)

\* No active lease of t; no other active lease of the task of l.
Cleared(ls, t) == \A l \in ActiveLeases(ls) : ls[l].task # t
OnlyLease(ls, l) == \A m \in ActiveLeases(ls) : ls[m].task = ls[l].task => m = l

\* The invariant of ClusterApiProofs, said of any tables.
Exclusive(ts, ls, ix) ==
    /\ \A t \in Tasks : ix[t] # 0 => ix[t] \in DOMAIN ls /\ ls[ix[t]].task = t
    /\ \A t \in Tasks : ts[t].status = "absent" => ts[t].node = None
    /\ \A l, m \in ActiveLeases(ls) : ls[l].task = ls[m].task => l = m
    /\ \A l \in ActiveLeases(ls) : ts[ls[l].task].node # None

\* A claim goes on with the task it found free.
Claiming(th, ts, ls) ==
    /\ th.pc \in {"claimHolder", "claimRun"} => ts[th.task].status = "ready"
    /\ th.pc \in {"claimRun", "claimAssign"} => ts[th.task].node = None
    /\ th.pc \in {"claimAssign", "claimLease"} => ts[th.task].status = "running"
    /\ th.pc = "claimLease" => ts[th.task].node # None /\ Cleared(ls, th.task)

\* A release or completion has found the only lease, and then revoked it.
Revoking(th, ts, ls) ==
    /\ th.pc = "revokeFound" =>
          \A l \in ActiveLeases(ls) : ls[l].task = th.task => l = th.lease
    /\ th.pc \in {"release", "releaseHolder", "complete"} => Cleared(ls, th.task)
    /\ th.pc \in {"findLease", "revokeFound"} /\ th.then = "release"
          => ts[th.task].node # None
    /\ th.pc = "release" => ts[th.task].node # None
    /\ th.pc = "releaseHolder" => ts[th.task].status = "ready"

\* What is about to be promoted has its dependencies completed.
Promoting(th, ts) ==
    /\ th.pc = "advance" => DependenciesMet(ts, th.task)
    /\ th.pc = "read" /\ th.mark = "ready" =>
          \A d \in ts[th.dep].deps \ th.unread : ts[d].status = "completed"
    /\ th.pc = "mark" /\ th.mark = "ready" => DependenciesMet(ts, th.dep)

InRecovery == {"revoke", "unassign", "online", "assign", "verify", "markFailed"}

\* A recovery has the only leases of as many tasks, which keep their assignee
\* until it is their turn.
Recovering(th, ts, ls) ==
    /\ th.pc # "revoke" => th.left = {}
    /\ th.pc \notin InRecovery => th.freed = {}
    /\ th.pc \in {"snapshot", "revoke", "unassign"} => th.then # "verify"
    /\ \A l \in th.left : OnlyLease(ls, l) /\ ts[ls[l].task].node # None
    /\ \A l \in th.freed :
          /\ Cleared(ls, ls[l].task)
          /\ ts[ls[l].task].node # None \/ (th.then = "verify" /\ l = Oldest(th.freed))
    /\ \A l, m \in th.left \cup th.freed : ls[l].task = ls[m].task => l = m

LoopOK(th, ts, ls) ==
    Claiming(th, ts, ls) /\ Revoking(th, ts, ls) /\ Promoting(th, ts) /\ Recovering(th, ts, ls)

\* Unless peers send task states: a running task is held, or being claimed,
\* and a completed one holds no lease.
Settled(th, ts, ls) ==
    /\ \A t \in Tasks : ts[t].status = "running" /\ ts[t].node = None
                        => th.pc = "claimAssign" /\ th.task = t
    /\ \A l \in ActiveLeases(ls) : ts[ls[l].task].status # "completed"

Alone ==
    /\ Types
    /\ thread["auto"] = Idle
    /\ Exclusive(tasks, leases, index)
    /\ LoopOK(thread["loop"], tasks, leases)
    /\ MaxSync = 0 => Settled(thread["loop"], tasks, leases)

\* What a step of the loop leads to, th being what it leaves the loop with.
Keeps(th) ==
    /\ Exclusive(tasks', leases', index')
    /\ LoopOK(th, tasks', leases')
    /\ MaxSync = 0 => Settled(th, tasks', leases')
    /\ Api!PromotionStep

LEMMA ExclusiveIs ==
    /\ Proved!LeaseInv <=> StoreTypeOK /\ Exclusive(tasks, leases, index)
    /\ StoreTypeOK /\ Exclusive(tasks, leases, index)
          => Api!AtMostOneLease /\ Api!UnassignedHoldsNoLease
<1>1. StoreTypeOK <=> Proved!TypeOK
  BY SameTypes
<1>2. Exclusive(tasks, leases, index) <=>
         /\ Proved!IndexNamesTask /\ Proved!AbsentUnassigned
         /\ Proved!AtMostOneLease /\ Proved!UnassignedHoldsNoLease
  BY DEF Exclusive, ActiveLeases, Proved!IndexNamesTask, Proved!LeaseIds, Proved!AbsentUnassigned,
     Proved!Known, Proved!AtMostOneLease, Proved!UnassignedHoldsNoLease, Proved!ActiveLeases
<1>3. QED
  BY <1>1, <1>2 DEF Proved!LeaseInv, Exclusive, ActiveLeases, Api!ActiveLeases,
     Api!AtMostOneLease, Api!UnassignedHoldsNoLease

LEMMA ExclusiveAfter ==
    Proved!LeaseInv' <=> StoreTypeOK' /\ Exclusive(tasks', leases', index')
<1>1. StoreTypeOK' <=> Proved!TypeOK'
  BY DEF Proved!Task, Task, Proved!Node, Node, Proved!Lease, Lease,
     Proved!TaskStatus, TaskStatus, Proved!NodeStatus, NodeStatus,
     Proved!LeaseStatus, LeaseStatus, Proved!TypeOK, Proved!StoreTypeOK, StoreTypeOK
<1>2. Exclusive(tasks', leases', index') <=>
         /\ Proved!IndexNamesTask' /\ Proved!AbsentUnassigned'
         /\ Proved!AtMostOneLease' /\ Proved!UnassignedHoldsNoLease'
  BY DEF Exclusive, ActiveLeases, Proved!IndexNamesTask, Proved!LeaseIds, Proved!AbsentUnassigned,
     Proved!Known, Proved!AtMostOneLease, Proved!UnassignedHoldsNoLease, Proved!ActiveLeases
<1>3. QED
  BY <1>1, <1>2 DEF Proved!LeaseInv

LEMMA IdleLoop == \A ts, ls : LoopOK(Idle, ts, ls)
BY DEF Idle, LoopOK, Claiming, Revoking, Promoting, Recovering, InRecovery

LEMMA ActiveTask ==
    ASSUME NEW ls \in Seq(Lease), NEW l \in ActiveLeases(ls)
    PROVE  l \in DOMAIN ls /\ ls[l].task \in Tasks /\ ls[l].node \in Nodes
<1>1. l \in DOMAIN ls /\ ls[l] \in Lease
  BY DEF ActiveLeases
<1>2. QED
  BY <1>1 DEF Lease

\* The fields of the loop's state after a step.
LEMMA GotoFields ==
    ASSUME Types, NEW p \in Threads, NEW step, Goto(p, step)
    PROVE  /\ thread'[p].pc = step /\ thread'[p].then = thread[p].then
           /\ thread'[p].task = thread[p].task /\ thread'[p].node = thread[p].node
           /\ thread'[p].dep = thread[p].dep /\ thread'[p].mark = thread[p].mark
           /\ thread'[p].lease = thread[p].lease
           /\ thread'[p].left = thread[p].left /\ thread'[p].freed = thread[p].freed
<1>1. thread[p] \in Local /\ p \in DOMAIN thread
  BY DEF Types, ThreadsFit, Fits
<1>2. QED
  BY <1>1 DEF Goto, Local

LEMMA OwnFields ==
    ASSUME Types, NEW p \in Threads, NEW th, thread' = [thread EXCEPT ![p] = th]
    PROVE  thread'[p] = th /\ \A q \in Threads \ {p} : thread'[q] = thread[q]
BY DEF Types, ThreadsFit

-----------------------------------------------------------------------------
(* What single writes to the tables keep.                                  *)

LEMMA TasksKeep ==
    ASSUME NEW ts, NEW us, NEW ls \in Seq(Lease), NEW ix, Exclusive(ts, ls, ix),
           \A t \in Tasks : us[t].status = "absent" => us[t].node = None,
           \A t \in Tasks : us[t].node = None /\ ts[t].node # None => Cleared(ls, t)
    PROVE  Exclusive(us, ls, ix)
<1>1. ASSUME NEW l \in ActiveLeases(ls)
      PROVE  us[ls[l].task].node # None
  BY <1>1, ActiveTask DEF Exclusive, Cleared
<1>2. QED
  BY <1>1 DEF Exclusive

LEMMA LeasesShrink ==
    ASSUME NEW ts, NEW ls \in Seq(Lease), NEW ms, NEW ix, NEW jx, Exclusive(ts, ls, ix),
           DOMAIN ms = DOMAIN ls, \A l \in DOMAIN ls : ms[l].task = ls[l].task,
           ActiveLeases(ms) \subseteq ActiveLeases(ls), \A t \in Tasks : jx[t] \in {0, ix[t]}
    PROVE  /\ Exclusive(ts, ms, jx)
           /\ \A th : /\ th.left \subseteq DOMAIN ls /\ th.freed \subseteq DOMAIN ls
                      /\ LoopOK(th, ts, ls)
                      => LoopOK(th, ts, ms)
           /\ \A th : Settled(th, ts, ls) => Settled(th, ts, ms)
<1>1. \A l \in ActiveLeases(ms) : l \in DOMAIN ls /\ ms[l].task = ls[l].task
  BY DEF ActiveLeases
<1>2. \A t : Cleared(ls, t) => Cleared(ms, t)
  BY <1>1 DEF Cleared
<1>3. \A l \in DOMAIN ls : OnlyLease(ls, l) => OnlyLease(ms, l)
  BY <1>1 DEF OnlyLease
<1>4. Exclusive(ts, ms, jx)
  <2>1. \A t \in Tasks : jx[t] # 0 => jx[t] \in DOMAIN ms /\ ms[jx[t]].task = t
    BY DEF Exclusive
  <2>2. \A l, m \in ActiveLeases(ms) : ms[l].task = ms[m].task => l = m
    BY <1>1 DEF Exclusive
  <2>3. \A l \in ActiveLeases(ms) : ts[ms[l].task].node # None
    BY <1>1 DEF Exclusive
  <2>4. QED
    BY <2>1, <2>2, <2>3 DEF Exclusive
<1>5. ASSUME NEW th, th.left \subseteq DOMAIN ls, th.freed \subseteq DOMAIN ls, LoopOK(th, ts, ls)
      PROVE  LoopOK(th, ts, ms)
  <2>1. Claiming(th, ts, ms)
    BY <1>2, <1>5 DEF LoopOK, Claiming
  <2>2. Revoking(th, ts, ms)
    BY <1>1, <1>2, <1>5 DEF LoopOK, Revoking
  <2>3. \A l \in th.left : OnlyLease(ms, l) /\ ts[ms[l].task].node # None
    BY <1>3, <1>5 DEF LoopOK, Recovering
  <2>4. \A l \in th.freed :
          /\ Cleared(ms, ms[l].task)
          /\ ts[ms[l].task].node # None \/ (th.then = "verify" /\ l = Oldest(th.freed))
    BY <1>2, <1>5 DEF LoopOK, Recovering
  <2>5. \A l, m \in th.left \cup th.freed : ms[l].task = ms[m].task => l = m
    BY <1>5 DEF LoopOK, Recovering
  <2>6. QED
    BY <1>5, <2>1, <2>2, <2>3, <2>4, <2>5 DEF LoopOK, Recovering
<1>6. \A th : Settled(th, ts, ls) => Settled(th, ts, ms)
  BY <1>1 DEF Settled
<1>7. QED
  BY <1>4, <1>5, <1>6

LEMMA StatusFields ==
    ASSUME NEW ts \in [Tasks -> Task], NEW t \in Tasks, NEW s,
           NEW us, us = SetTaskStatus(ts, t, s)
    PROVE  /\ us[t].status = s /\ us[t].node = ts[t].node /\ us[t].deps = ts[t].deps
           /\ \A u \in Tasks \ {t} : us[u] = ts[u]
BY DEF SetTaskStatus, Task

LEMMA HolderFields ==
    ASSUME NEW ts \in [Tasks -> Task], NEW t \in Tasks, NEW n,
           NEW us, us = SetAssignee(ts, t, n)
    PROVE  /\ us[t].status = ts[t].status /\ us[t].node = n /\ us[t].deps = ts[t].deps
           /\ \A u \in Tasks \ {t} : us[u] = ts[u]
BY DEF SetAssignee, Task

LEMMA PromotedFields ==
    ASSUME NEW ts \in [Tasks -> Task], NEW t \in Tasks, NEW us, us = TriggerPendingTasks(ts)
    PROVE  /\ us[t].node = ts[t].node /\ us[t].deps = ts[t].deps
           /\ \/ us[t] = ts[t]
              \/ ts[t].status = "pending" /\ us[t].status = "ready" /\ DependenciesMet(ts, t)
<1>1. ts[t] \in Task
  OBVIOUS
<1>2. us[t] = IF Promotable(ts, t) THEN [ts[t] EXCEPT !.status = "ready"] ELSE ts[t]
  BY DEF TriggerPendingTasks, Promote
<1>3. QED
  BY <1>1, <1>2 DEF Promotable, Task

LEMMA ScheduledFields ==
    ASSUME NEW ts \in [Tasks -> Task], NEW t \in Tasks, NEW ns,
           NEW us, us = SchedulePending(ts, ns)
    PROVE  /\ us[t].deps = ts[t].deps
           /\ \/ us[t] = ts[t]
              \/ ts[t].status = "ready" /\ us[t].status = "running" /\ us[t].node \in Nodes
<1>1. ts[t] \in Task
  OBVIOUS
<1> DEFINE n == CHOOSE m \in FirstEligible(ns, ts[t]) : TRUE
<1>2. us[t] = IF Schedulable(ts, ns, t)
              THEN [ts[t] EXCEPT !.status = "running", !.node = n] ELSE ts[t]
  BY DEF SchedulePending
<1>3. Schedulable(ts, ns, t) => n \in Nodes
  BY DEF Schedulable, FirstEligible, Eligible
<1>4. QED
  BY <1>1, <1>2, <1>3 DEF Schedulable, Task

\* A task write that promotes nothing, or what it may.
LEMMA NothingPromoted ==
    ASSUME \A t \in Tasks : tasks[t].status = "pending" /\ tasks[t].node = None
                            => tasks'[t].status \notin {"ready", "running"}
    PROVE  Api!PromotionStep
BY DEF Api!PromotionStep

LEMMA RightlyPromoted ==
    ASSUME tasks \in [Tasks -> Task],
           \A t \in Tasks : tasks[t].status = "completed" => tasks'[t].status = "completed",
           \A t \in Tasks : tasks[t].status = "pending" /\ tasks'[t].status \in {"ready", "running"}
                            => DependenciesMet(tasks, t)
    PROVE  Api!PromotionStep
<1>1. \A t \in Tasks : tasks[t].deps \subseteq Tasks
  BY TaskFields
<1>2. QED
  BY <1>1 DEF Api!PromotionStep, DependenciesMet

-----------------------------------------------------------------------------
(* The steps of the loop, one family at a time.                            *)

LEMMA AloneHas ==
    ASSUME Alone
    PROVE  /\ StoreTypeOK /\ tasks \in [Tasks -> Task] /\ leases \in Seq(Lease)
           /\ Fits(thread["loop"], leases) /\ "loop" \in Threads
           /\ Exclusive(tasks, leases, index)
           /\ LoopOK(thread["loop"], tasks, leases)
           /\ MaxSync = 0 => Settled(thread["loop"], tasks, leases)
BY DEF Alone, Types, ThreadsFit, StoreTypeOK, Threads

LEMMA SettledOn ==
    ASSUME NEW local, NEW ts, NEW ls, Settled(local, ts, ls), local.pc # "claimAssign", NEW th
    PROVE  Settled(th, ts, ls)
BY DEF Settled

LEMMA NoRecovery ==
    ASSUME NEW th, NEW ts, NEW ls, th.left = {}, th.freed = {},
           th.pc \notin {"snapshot", "revoke", "unassign"}
    PROVE  Recovering(th, ts, ls)
BY DEF Recovering

\* Steps that leave tasks and leases alone.
LEMMA Unmoved ==
    ASSUME Alone, UNCHANGED <<tasks, leases, index>>, NEW th, LoopOK(th, tasks, leases),
           thread["loop"].pc # "claimAssign"
    PROVE  Keeps(th)
<1>1. Api!PromotionStep
  BY NothingPromoted
<1>2. QED
  BY <1>1, AloneHas, SettledOn DEF Keeps

LEMMA Unwritten ==
    ASSUME Alone, UNCHANGED storeVars, NEW th, LoopOK(th, tasks, leases),
           thread["loop"].pc # "claimAssign"
    PROVE  Keeps(th)
BY Unmoved DEF storeVars

LEMMA ClaimKeeps ==
    ASSUME Alone, ClaimHolder("loop") \/ ClaimRun("loop") \/ ClaimAssign("loop") \/ ClaimLease("loop")
    PROVE  Keeps(thread'["loop"])
<1> DEFINE old == thread["loop"]
           new == thread'["loop"]
           t == old.task
<1>1. Types /\ T("loop") = t
  BY DEF Alone, T
<1>2. t \in Tasks /\ old.node \in Nodes /\ old.pc \in OfClaim
  BY AloneHas DEF ClaimHolder, ClaimRun, ClaimAssign, ClaimLease, At, Fits, OfTask, OfClaim
<1>3. old.left = {} /\ old.freed = {} /\ Claiming(old, tasks, leases)
  BY <1>2, AloneHas DEF LoopOK, Recovering, InRecovery, OfClaim
<1>4. tasks[t].node = None => Cleared(leases, t)
  BY AloneHas DEF Exclusive, Cleared
<1>5. ASSUME NEW step \in OfClaim, Goto("loop", step), Claiming(new, tasks', leases')
      PROVE  /\ LoopOK(new, tasks', leases')
             /\ new.pc = step /\ new.task = t
  <2>1. new.pc = step /\ new.task = t /\ new.left = {} /\ new.freed = {}
    BY <1>1, <1>3, <1>5, AloneHas, GotoFields
  <2>2. QED
    BY <1>5, <2>1, NoRecovery DEF LoopOK, Revoking, Promoting, OfClaim
<1>6. CASE ClaimHolder("loop")
  <2>1. old.pc = "claimHolder" /\ UNCHANGED storeVars
    BY <1>6 DEF ClaimHolder, At
  <2>2. CASE tasks[t].node = None
    <3>1. Goto("loop", "claimRun")
      BY <1>1, <1>6, <2>2 DEF ClaimHolder
    <3>2. new.pc = "claimRun" /\ new.task = t
      BY <1>1, <3>1, AloneHas, GotoFields
    <3>3. Claiming(new, tasks, leases)
      BY <1>3, <2>1, <2>2, <3>2 DEF Claiming
    <3>4. LoopOK(new, tasks, leases)
      BY <1>5, <2>1, <3>1, <3>3 DEF OfClaim, storeVars
    <3>5. QED
      BY <2>1, <3>4, Unwritten
  <2>3. CASE tasks[t].node # None
    <3>1. new = Idle
      BY <1>1, <1>6, <2>3, AloneHas, OwnFields DEF ClaimHolder, Finish
    <3>2. QED
      BY <2>1, <3>1, IdleLoop, Unwritten
  <2>4. QED
    BY <2>2, <2>3
<1>7. CASE ClaimRun("loop")
  <2>1. old.pc = "claimRun" /\ Goto("loop", "claimAssign") /\ UNCHANGED <<leases, index>>
    BY <1>7 DEF ClaimRun, At, OnlyTasks
  <2>2. tasks[t].status = "ready" /\ tasks[t].node = None
    BY <1>3, <2>1 DEF Claiming
  <2>3. /\ tasks'[t].status = "running" /\ tasks'[t].node = None
        /\ \A u \in Tasks \ {t} : tasks'[u] = tasks[u]
    BY <1>1, <1>2, <1>7, <2>2, AloneHas, StatusFields DEF ClaimRun
  <2>4. new.pc = "claimAssign" /\ new.task = t
    BY <1>1, <2>1, AloneHas, GotoFields
  <2>5. LoopOK(new, tasks', leases')
    BY <1>5, <2>1, <2>3, <2>4 DEF Claiming, OfClaim
  <2>6. Exclusive(tasks', leases, index)
    <3>1. \A u \in Tasks : tasks'[u].status = "absent" => tasks'[u].node = None
      BY <2>3, AloneHas DEF Exclusive
    <3>2. \A u \in Tasks : tasks'[u].node = tasks[u].node
      BY <2>2, <2>3
    <3>3. QED
      BY <3>1, <3>2, AloneHas, TasksKeep
  <2>7. MaxSync = 0 => Settled(new, tasks', leases)
    <3>1. SUFFICES ASSUME MaxSync = 0 PROVE Settled(new, tasks', leases)
      OBVIOUS
    <3>2. Settled(old, tasks, leases) /\ \A l \in ActiveLeases(leases) : leases[l].task \in Tasks
      BY <3>1, AloneHas, ActiveTask
    <3>3. QED
      BY <2>1, <2>3, <2>4, <3>2 DEF Settled
  <2>8. Api!PromotionStep
    BY <2>2, <2>3, NothingPromoted
  <2>9. QED
    BY <2>1, <2>5, <2>6, <2>7, <2>8 DEF Keeps
<1>8. CASE ClaimAssign("loop")
  <2>1. old.pc = "claimAssign" /\ Goto("loop", "claimLease") /\ UNCHANGED <<leases, index>>
    BY <1>8 DEF ClaimAssign, At, OnlyTasks
  <2>2. tasks[t].status = "running" /\ tasks[t].node = None
    BY <1>3, <2>1 DEF Claiming
  <2>3. /\ tasks'[t].status = "running" /\ tasks'[t].node \in Nodes
        /\ \A u \in Tasks \ {t} : tasks'[u] = tasks[u]
    BY <1>1, <1>2, <1>8, <2>2, AloneHas, HolderFields DEF ClaimAssign
  <2>4. new.pc = "claimLease" /\ new.task = t
    BY <1>1, <2>1, AloneHas, GotoFields
  <2>5. LoopOK(new, tasks', leases')
    BY <1>4, <1>5, <2>1, <2>2, <2>3, <2>4, NoneAssumption DEF Claiming, OfClaim
  <2>6. Exclusive(tasks', leases, index)
    <3>1. \A u \in Tasks : tasks'[u].status = "absent" => tasks'[u].node = None
      BY <2>3, AloneHas DEF Exclusive
    <3>2. \A u \in Tasks : tasks'[u].node = None => tasks[u].node = None
      BY <2>2, <2>3
    <3>3. QED
      BY <3>1, <3>2, AloneHas, TasksKeep
  <2>7. MaxSync = 0 => Settled(new, tasks', leases)
    <3>1. SUFFICES ASSUME MaxSync = 0 PROVE Settled(new, tasks', leases)
      OBVIOUS
    <3>2. Settled(old, tasks, leases) /\ \A l \in ActiveLeases(leases) : leases[l].task \in Tasks
      BY <3>1, AloneHas, ActiveTask
    <3>3. QED
      BY <2>1, <2>3, <2>4, <3>2, NoneAssumption DEF Settled
  <2>8. Api!PromotionStep
    BY <2>2, <2>3, NothingPromoted
  <2>9. QED
    BY <2>1, <2>5, <2>6, <2>7, <2>8 DEF Keeps
<1>9. CASE ClaimLease("loop")
  <2> DEFINE k == Len(leases) + 1
  <2>1. /\ old.pc = "claimLease" /\ new = Idle /\ tasks' = tasks
        /\ leases' = CreateLease(leases, t, old.node) /\ index' = [index EXCEPT ![t] = k]
    BY <1>1, <1>9, AloneHas, OwnFields DEF ClaimLease, At, OnlyLeases, Finish
  <2>2. tasks[t].status = "running" /\ tasks[t].node # None /\ Cleared(leases, t)
    BY <1>3, <2>1 DEF Claiming
  <2>3. /\ DOMAIN leases' = DOMAIN leases \cup {k}
        /\ \A l \in DOMAIN leases : leases'[l] = leases[l]
        /\ leases'[k].task = t
        /\ ActiveLeases(leases') = ActiveLeases(leases) \cup {k}
    <3>1. leases' = Proved!CreateLease(leases, t, old.node) /\ Proved!TypeOK
      BY <2>1, AloneHas, SameLeases, SameTypes
    <3>2. /\ DOMAIN leases' = DOMAIN leases \cup {k}
          /\ \A l \in DOMAIN leases : leases'[l] = leases[l]
          /\ leases'[k].task = t
          /\ Proved!ActiveLeases(leases') = Proved!ActiveLeases(leases) \cup {k}
      BY <1>2, <3>1, Assumptions, Proved!CreateKeeps
    <3>3. QED
      BY <3>2, SameLeases
  <2>4. \A l \in ActiveLeases(leases) : leases'[l] = leases[l]
    BY <2>3 DEF ActiveLeases
  <2>5. Exclusive(tasks', leases', index')
    <3>1. \A u \in Tasks : index'[u] # 0
             => index'[u] \in DOMAIN leases' /\ leases'[index'[u]].task = u
      BY <1>2, <2>1, <2>3, AloneHas DEF Exclusive, StoreTypeOK
    <3>2. \A l, m \in ActiveLeases(leases') : leases'[l].task = leases'[m].task => l = m
      BY <2>2, <2>3, <2>4, AloneHas DEF Exclusive, Cleared
    <3>3. \A l \in ActiveLeases(leases') : tasks'[leases'[l].task].node # None
      BY <2>1, <2>2, <2>3, <2>4, AloneHas DEF Exclusive
    <3>4. QED
      BY <2>1, <3>1, <3>2, <3>3, AloneHas DEF Exclusive
  <2>6. MaxSync = 0 => Settled(new, tasks', leases')
    BY <2>1, <2>2, <2>3, <2>4, AloneHas DEF Settled
  <2>7. Api!PromotionStep
    BY <2>1, NothingPromoted
  <2>8. QED
    BY <2>1, <2>5, <2>6, <2>7, IdleLoop DEF Keeps
<1>10. QED
  BY <1>6, <1>7, <1>8, <1>9

\* The lease a handler finds is the only one of its task.
LEMMA FoundIsAll ==
    ASSUME StoreTypeOK, Exclusive(tasks, leases, index), NEW t \in Tasks,
           NEW l \in ActiveLeases(leases), leases[l].task = t
    PROVE  l = LeaseByTask(leases, index, t) /\ l # 0
<1>1. Proved!LeaseInv
  BY ExclusiveIs
<1>2. \A m \in Proved!ActiveLeases(leases) \ Proved!FoundLease(t) : leases[m].task # t
  BY <1>1, Assumptions, Proved!FoundLeaseIsAll
<1>3. l \in Proved!FoundLease(t)
  BY <1>2, SameLeases
<1>4. QED
  BY <1>3, SameLeases DEF Proved!FoundLease

LEMMA ReleaseKeeps ==
    ASSUME Alone, \/ FindLease("loop") \/ RevokeFound("loop") \/ ReleaseReady("loop")
                  \/ ReleaseHolder("loop") \/ CompleteMark("loop")
    PROVE  Keeps(thread'["loop"])
<1> DEFINE old == thread["loop"]
           new == thread'["loop"]
           t == old.task
<1>1. Types /\ T("loop") = t
  BY DEF Alone, T
<1>2. /\ t \in Tasks
      /\ old.pc \in {"findLease", "revokeFound", "release", "releaseHolder", "complete"}
  BY AloneHas
  DEF FindLease, RevokeFound, ReleaseReady, ReleaseHolder, CompleteMark, At, Fits, OfTask
<1>3. old.left = {} /\ old.freed = {} /\ Revoking(old, tasks, leases)
  BY <1>2, AloneHas DEF LoopOK, Recovering, InRecovery
<1>4. old.pc \in {"findLease", "revokeFound"} => old.then \in {"release", "complete"}
  BY AloneHas DEF Fits
<1>5. ASSUME new.left = {}, new.freed = {}, Revoking(new, tasks', leases'),
             new.pc \in {"revokeFound", "release", "releaseHolder", "complete", "dependents"}
      PROVE  LoopOK(new, tasks', leases')
  BY <1>5, NoRecovery DEF LoopOK, Claiming, Promoting
<1>6. ASSUME NEW s \in {"ready", "completed"}, tasks' = SetTaskStatus(tasks, t, s),
             UNCHANGED <<leases, index>>, Cleared(leases, t), old.pc # "claimAssign"
      PROVE  /\ Exclusive(tasks', leases', index')
             /\ MaxSync = 0 => Settled(new, tasks', leases')
             /\ tasks'[t].status = s /\ tasks'[t].node = tasks[t].node
             /\ \A u \in Tasks \ {t} : tasks'[u] = tasks[u]
  <2>1. /\ tasks'[t].status = s /\ tasks'[t].node = tasks[t].node
        /\ \A u \in Tasks \ {t} : tasks'[u] = tasks[u]
    BY <1>2, <1>6, AloneHas, StatusFields
  <2>2. Exclusive(tasks', leases, index)
    <3>1. \A u \in Tasks : tasks'[u].status = "absent" => tasks'[u].node = None
      BY <2>1, AloneHas DEF Exclusive
    <3>2. \A u \in Tasks : tasks'[u].node = tasks[u].node
      BY <2>1
    <3>3. QED
      BY <3>1, <3>2, AloneHas, TasksKeep
  <2>3. ASSUME MaxSync = 0
        PROVE  Settled(new, tasks', leases)
    <3>1. Settled(old, tasks, leases) /\ \A l \in ActiveLeases(leases) : leases[l].task \in Tasks
      BY <2>3, AloneHas, ActiveTask
    <3>2. \A l \in ActiveLeases(leases) : leases[l].task # t
      BY <1>6 DEF Cleared
    <3>3. QED
      BY <1>6, <2>1, <3>1, <3>2 DEF Settled
  <2>4. QED
    BY <1>6, <2>1, <2>2, <2>3
<1>7. CASE FindLease("loop")
  <2> DEFINE l == LeaseByTask(leases, index, t)
             step == IF l = 0 THEN old.then ELSE "revokeFound"
  <2>1. old.pc = "findLease" /\ UNCHANGED storeVars
    BY <1>7 DEF FindLease, At
  <2>2. thread' = [thread EXCEPT !["loop"] = [old EXCEPT !.pc = step, !.lease = l]]
    BY <1>1, <1>7 DEF FindLease
  <2>3. \A m \in ActiveLeases(leases) : leases[m].task = t => m = l /\ l # 0
    BY <1>2, AloneHas, FoundIsAll
  <2> HIDE DEF l
  <2>4. /\ new.pc = step /\ new.task = t /\ new.then = old.then /\ new.lease = l
        /\ new.left = {} /\ new.freed = {}
    <3>1. new = [old EXCEPT !.pc = step, !.lease = l]
      BY <1>1, <2>2, AloneHas, OwnFields
    <3> HIDE DEF step
    <3>2. QED
      BY <1>3, <3>1, AloneHas DEF Fits, Local
  <2>5. Revoking(new, tasks, leases)
    <3>1. CASE l = 0
      BY <1>3, <1>4, <2>1, <2>3, <2>4, <3>1 DEF Revoking, Cleared
    <3>2. CASE l # 0
      BY <1>3, <2>1, <2>3, <2>4, <3>2 DEF Revoking
    <3>3. QED
      BY <3>1, <3>2
  <2>6. LoopOK(new, tasks, leases)
    BY <1>4, <1>5, <2>1, <2>4, <2>5 DEF storeVars
  <2>7. QED
    BY <2>1, <2>6, Unwritten
<1>8. CASE RevokeFound("loop")
  <2>1. /\ old.pc = "revokeFound" /\ Goto("loop", old.then) /\ Api!Revoke({old.lease})
        /\ UNCHANGED <<tasks, nodes, syncVersion>>
    BY <1>8 DEF RevokeFound, At, OnlyLeases
  <2>2. /\ DOMAIN leases' = DOMAIN leases /\ Api!LeaseStep
        /\ ActiveLeases(leases') = ActiveLeases(leases) \ {old.lease}
    BY <2>1, AloneHas, RevokeStep
  <2>3. \A l \in DOMAIN leases : leases'[l].task = leases[l].task
    BY <2>2 DEF Api!LeaseStep
  <2>4. \A u \in Tasks : index'[u] \in {0, index[u]}
    BY <2>1 DEF Api!Revoke, Api!DropIndex
  <2>5. /\ Exclusive(tasks, leases', index')
        /\ \A th : Settled(th, tasks, leases) => Settled(th, tasks, leases')
    BY <2>2, <2>3, <2>4, AloneHas, LeasesShrink
  <2>6. Cleared(leases', t)
    BY <1>3, <2>1, <2>2, <2>3 DEF Revoking, Cleared, ActiveLeases
  <2>7. new.pc = old.then /\ new.task = t /\ new.then = old.then /\ new.left = {} /\ new.freed = {}
    BY <1>1, <1>3, <2>1, AloneHas, GotoFields
  <2>8. Revoking(new, tasks, leases')
    BY <1>3, <1>4, <2>1, <2>6, <2>7 DEF Revoking
  <2>9. LoopOK(new, tasks', leases')
    BY <1>4, <1>5, <2>1, <2>7, <2>8
  <2>10. MaxSync = 0 => Settled(new, tasks, leases')
    BY <2>1, <2>5, AloneHas, SettledOn
  <2>11. Api!PromotionStep
    BY <2>1, NothingPromoted
  <2>12. QED
    BY <2>1, <2>5, <2>9, <2>10, <2>11 DEF Keeps
<1>9. CASE ReleaseReady("loop")
  <2>1. /\ old.pc = "release" /\ Goto("loop", "releaseHolder")
        /\ tasks' = SetTaskStatus(tasks, t, "ready") /\ UNCHANGED <<leases, index>>
    BY <1>1, <1>9 DEF ReleaseReady, At, OnlyTasks
  <2>2. Cleared(leases, t) /\ tasks[t].node # None
    BY <1>3, <2>1 DEF Revoking
  <2>3. /\ Exclusive(tasks', leases', index') /\ (MaxSync = 0 => Settled(new, tasks', leases'))
        /\ tasks'[t].status = "ready" /\ \A u \in Tasks \ {t} : tasks'[u] = tasks[u]
    BY <1>6, <2>1, <2>2
  <2>4. new.pc = "releaseHolder" /\ new.task = t /\ new.left = {} /\ new.freed = {}
    BY <1>1, <1>3, <2>1, AloneHas, GotoFields
  <2>5. LoopOK(new, tasks', leases')
    BY <1>5, <2>1, <2>2, <2>3, <2>4 DEF Revoking
  <2>6. Api!PromotionStep
    BY <2>2, <2>3, NothingPromoted
  <2>7. QED
    BY <2>3, <2>5, <2>6 DEF Keeps
<1>10. CASE ReleaseHolder("loop")
  <2>1. /\ old.pc = "releaseHolder" /\ new = Idle
        /\ tasks' = SetAssignee(tasks, t, None) /\ UNCHANGED <<leases, index>>
    BY <1>1, <1>10, AloneHas, OwnFields DEF ReleaseHolder, At, OnlyTasks, Finish
  <2>2. Cleared(leases, t) /\ tasks[t].status = "ready"
    BY <1>3, <2>1 DEF Revoking
  <2>3. /\ tasks'[t].status = "ready" /\ tasks'[t].node = None
        /\ \A u \in Tasks \ {t} : tasks'[u] = tasks[u]
    BY <1>2, <2>1, <2>2, AloneHas, HolderFields
  <2>4. Exclusive(tasks', leases, index)
    <3>1. \A u \in Tasks : tasks'[u].status = "absent" => tasks'[u].node = None
      BY <2>3, AloneHas DEF Exclusive
    <3>2. \A u \in Tasks : tasks'[u].node = None /\ tasks[u].node # None => Cleared(leases, u)
      BY <2>2, <2>3
    <3>3. QED
      BY <3>1, <3>2, AloneHas, TasksKeep
  <2>5. ASSUME MaxSync = 0
        PROVE  Settled(new, tasks', leases)
    <3>1. Settled(old, tasks, leases) /\ \A l \in ActiveLeases(leases) : leases[l].task \in Tasks
      BY <2>5, AloneHas, ActiveTask
    <3>2. QED
      BY <2>1, <2>3, <3>1 DEF Settled
  <2>6. Api!PromotionStep
    BY <2>2, <2>3, NothingPromoted
  <2>7. QED
    BY <2>1, <2>4, <2>5, <2>6, IdleLoop DEF Keeps
<1>11. CASE CompleteMark("loop")
  <2> DEFINE local == [old EXCEPT !.pc = "dependents", !.then = "online"]
  <2>1. /\ old.pc = "complete" /\ thread' = [thread EXCEPT !["loop"] = local]
        /\ tasks' = SetTaskStatus(tasks, t, "completed") /\ UNCHANGED <<leases, index>>
    BY <1>1, <1>11 DEF CompleteMark, At, OnlyTasks
  <2>2. Cleared(leases, t)
    BY <1>3, <2>1 DEF Revoking
  <2>3. /\ Exclusive(tasks', leases', index') /\ (MaxSync = 0 => Settled(new, tasks', leases'))
        /\ tasks'[t].status = "completed" /\ \A u \in Tasks \ {t} : tasks'[u] = tasks[u]
    BY <1>6, <2>1, <2>2
  <2>4. new.pc = "dependents" /\ new.left = {} /\ new.freed = {}
    <3>1. new = local
      BY <1>1, <2>1, AloneHas, OwnFields
    <3>2. QED
      BY <1>3, <3>1, AloneHas DEF Fits, Local
  <2>5. LoopOK(new, tasks', leases')
    BY <1>5, <2>4 DEF Revoking
  <2>6. Api!PromotionStep
    BY <2>3, NothingPromoted
  <2>7. QED
    BY <2>3, <2>5, <2>6 DEF Keeps
<1>12. QED
  BY <1>7, <1>8, <1>9, <1>10, <1>11

LEMMA OnePromoted ==
    ASSUME tasks \in [Tasks -> Task], NEW t \in Tasks, \A u \in Tasks \ {t} : tasks'[u] = tasks[u],
           \/ tasks'[t].status \notin {"ready", "running"}
           \/ tasks[t].status = "pending" => DependenciesMet(tasks, t)
    PROVE  Api!PromotionStep
<1>1. \A u \in Tasks : tasks[u].deps \subseteq Tasks
  BY TaskFields
<1>2. ASSUME NEW u \in Tasks, tasks[u].status = "pending", tasks'[u].status \in {"ready", "running"},
             NEW d \in tasks[u].deps
      PROVE  tasks'[d].status = "completed"
  <2>1. u = t /\ tasks[d].status = "completed"
    BY <1>2 DEF DependenciesMet
  <2>2. d # t /\ d \in Tasks
    BY <1>1, <1>2, <2>1
  <2>3. QED
    BY <2>1, <2>2
<1>3. QED
  BY <1>2 DEF Api!PromotionStep

\* A write of a status that asks for no assignee and forbids no lease.
LEMMA StatusKeeps ==
    ASSUME Alone, NEW t \in Tasks, NEW s \in {"ready", "blocked", "failed"},
           tasks' = SetTaskStatus(tasks, t, s), UNCHANGED <<leases, index>>,
           thread["loop"].pc # "claimAssign", NEW th
    PROVE  /\ Exclusive(tasks', leases', index')
           /\ MaxSync = 0 => Settled(th, tasks', leases')
           /\ tasks'[t].status = s /\ tasks'[t].node = tasks[t].node
           /\ \A u \in Tasks \ {t} : tasks'[u] = tasks[u]
<1>1. /\ tasks'[t].status = s /\ tasks'[t].node = tasks[t].node
      /\ \A u \in Tasks \ {t} : tasks'[u] = tasks[u]
  BY AloneHas, StatusFields
<1>2. Exclusive(tasks', leases, index)
  <2>1. \A u \in Tasks : tasks'[u].status = "absent" => tasks'[u].node = None
    BY <1>1, AloneHas DEF Exclusive
  <2>2. \A u \in Tasks : tasks'[u].node = tasks[u].node
    BY <1>1
  <2>3. QED
    BY <2>1, <2>2, AloneHas, TasksKeep
<1>3. ASSUME MaxSync = 0
      PROVE  Settled(th, tasks', leases)
  <2>1. Settled(thread["loop"], tasks, leases)
        /\ \A l \in ActiveLeases(leases) : leases[l].task \in Tasks
    BY <1>3, AloneHas, ActiveTask
  <2>2. QED
    BY <1>1, <2>1 DEF Settled
<1>4. QED
  BY <1>1, <1>2, <1>3

LEMMA PromoteKeeps ==
    ASSUME Alone, \/ PromoteAll("loop") \/ AdvanceReady("loop") \/ ListDependents("loop")
                  \/ Judges("loop") \/ MarkDependent("loop") \/ Visited("loop")
    PROVE  Keeps(thread'["loop"])
<1> DEFINE old == thread["loop"]
           new == thread'["loop"]
<1>1. Types /\ T("loop") = old.task
  BY DEF Alone, T
<1>2. old.pc \in {"promoteAll", "advance", "dependents", "visit", "read", "mark"}
  BY DEF PromoteAll, AdvanceReady, ListDependents, Judges, Visit, ReadDependency, AllRead,
     MarkDependent, Visited, At
<1>3. old.left = {} /\ old.freed = {} /\ Promoting(old, tasks)
  BY <1>2, AloneHas DEF LoopOK, Recovering, InRecovery
<1>4. ASSUME NEW ts, NEW ls, new.left = {}, new.freed = {}, Promoting(new, ts),
             new.pc \in {"online", "visit", "read", "mark"}
      PROVE  LoopOK(new, ts, ls)
  BY <1>4, NoRecovery DEF LoopOK, Claiming, Revoking
<1>5. ASSUME Goto("loop", "online") \/ Finish("loop")
      PROVE  \A ts, ls : LoopOK(new, ts, ls)
  <2>1. CASE Goto("loop", "online")
    <3>1. new.pc = "online" /\ new.left = {} /\ new.freed = {}
      BY <1>1, <1>3, <2>1, AloneHas, GotoFields
    <3>2. QED
      BY <1>4, <3>1 DEF Promoting
  <2>2. CASE Finish("loop")
    BY <1>1, <2>2, AloneHas, OwnFields, IdleLoop DEF Finish
  <2>3. QED
    BY <1>5, <2>1, <2>2
<1>6. CASE PromoteAll("loop")
  <2>1. /\ tasks' = TriggerPendingTasks(tasks) /\ UNCHANGED <<leases, index>>
        /\ \A ts, ls : LoopOK(new, ts, ls)
    BY <1>5, <1>6 DEF PromoteAll, OnlyTasks
  <2>2. \A u \in Tasks :
           /\ tasks'[u].node = tasks[u].node
           /\ \/ tasks'[u] = tasks[u]
              \/ tasks[u].status = "pending" /\ tasks'[u].status = "ready" /\ DependenciesMet(tasks, u)
    BY <2>1, AloneHas, PromotedFields
  <2>3. Exclusive(tasks', leases, index)
    <3>1. \A u \in Tasks : tasks'[u].status = "absent" => tasks'[u].node = None
      BY <2>2, AloneHas DEF Exclusive
    <3>2. QED
      BY <2>2, <3>1, AloneHas, TasksKeep
  <2>4. ASSUME MaxSync = 0
        PROVE  Settled(new, tasks', leases)
    <3>1. Settled(old, tasks, leases) /\ \A l \in ActiveLeases(leases) : leases[l].task \in Tasks
      BY <2>4, AloneHas, ActiveTask
    <3>2. QED
      BY <1>2, <2>2, <3>1 DEF Settled
  <2>5. Api!PromotionStep
    BY <2>2, AloneHas, RightlyPromoted
  <2>6. QED
    BY <2>1, <2>3, <2>4, <2>5 DEF Keeps
<1>7. CASE AdvanceReady("loop")
  <2>1. /\ old.pc = "advance" /\ Goto("loop", "online") /\ UNCHANGED <<leases, index>>
        /\ tasks' = SetTaskStatus(tasks, old.task, "ready")
    BY <1>1, <1>7 DEF AdvanceReady, At, OnlyTasks
  <2>2. old.task \in Tasks /\ DependenciesMet(tasks, old.task)
    BY <1>3, <2>1, AloneHas DEF Fits, OfTask, Promoting
  <2>3. /\ Exclusive(tasks', leases', index') /\ (MaxSync = 0 => Settled(new, tasks', leases'))
        /\ \A u \in Tasks \ {old.task} : tasks'[u] = tasks[u]
    BY <2>1, <2>2, StatusKeeps
  <2>4. Api!PromotionStep
    BY <2>2, <2>3, AloneHas, OnePromoted
  <2>5. QED
    BY <1>5, <2>1, <2>3, <2>4 DEF Keeps
<1>8. CASE ListDependents("loop")
  <2>1. thread' = [thread EXCEPT !["loop"] =
                      [old EXCEPT !.pc = "visit", !.waiting = Dependents(tasks, old.task)]]
    BY <1>1, <1>8 DEF ListDependents
  <2>2. new = [old EXCEPT !.pc = "visit", !.waiting = Dependents(tasks, old.task)]
    BY <1>1, <2>1, AloneHas, OwnFields
  <2>3. new.pc = "visit" /\ new.left = {} /\ new.freed = {}
    BY <1>3, <2>2, AloneHas DEF Fits, Local
  <2>4. LoopOK(new, tasks, leases)
    BY <1>4, <2>3 DEF Promoting
  <2>5. QED
    BY <1>2, <1>8, <2>4, Unwritten DEF ListDependents
<1>9. CASE Judges("loop")
  <2>1. PICK th \in Local : thread' = [thread EXCEPT !["loop"] = th] /\ JudgedAs(th, old)
    BY <1>9, AloneHas, JudgesFacts DEF Fits
  <2>2. new = th
    BY <1>1, <2>1, AloneHas, OwnFields
  <2>3. /\ new.pc \in {"visit", "read", "mark"} /\ new.left = {} /\ new.freed = {}
        /\ new.mark = old.mark
    BY <1>3, <2>1, <2>2 DEF JudgedAs
  <2>4. Promoting(new, tasks)
    BY <1>3, <2>1, <2>2 DEF JudgedAs, Promoting, DependenciesMet
  <2>5. LoopOK(new, tasks, leases)
    BY <1>4, <2>3, <2>4
  <2>6. UNCHANGED storeVars
    BY <1>9, AloneHas, JudgesFacts DEF Fits
  <2>7. QED
    BY <1>2, <2>5, <2>6, Unwritten
<1>10. CASE MarkDependent("loop")
  <2>1. /\ old.pc = "mark" /\ Goto("loop", "visit") /\ UNCHANGED <<leases, index>>
        /\ tasks' = SetTaskStatus(tasks, old.dep, old.mark)
    BY <1>10 DEF MarkDependent, At, OnlyTasks
  <2>2. /\ old.dep \in Tasks /\ old.mark \in {"ready", "blocked"}
        /\ old.mark = "ready" => DependenciesMet(tasks, old.dep)
    BY <1>3, <2>1, AloneHas DEF Fits, Local, Promoting
  <2>3. /\ Exclusive(tasks', leases', index') /\ (MaxSync = 0 => Settled(new, tasks', leases'))
        /\ tasks'[old.dep].status = old.mark
        /\ \A u \in Tasks \ {old.dep} : tasks'[u] = tasks[u]
    BY <2>1, <2>2, StatusKeeps
  <2>4. Api!PromotionStep
    BY <2>2, <2>3, AloneHas, OnePromoted
  <2>5. new.pc = "visit" /\ new.left = {} /\ new.freed = {}
    BY <1>1, <1>3, <2>1, AloneHas, GotoFields
  <2>6. LoopOK(new, tasks', leases')
    BY <1>4, <2>5 DEF Promoting
  <2>7. QED
    BY <2>3, <2>4, <2>6 DEF Keeps
<1>11. CASE Visited("loop")
  BY <1>2, <1>5, <1>11, Unwritten DEF Visited
<1>12. QED
  BY <1>6, <1>7, <1>8, <1>9, <1>10, <1>11

\* The loop between two orphans, with F still to be rescheduled.
LEMMA ContinueOK ==
    ASSUME Alone, NEW F, NEW N, Continue("loop", F, N), NEW ts, NEW ls,
           \A l \in F : Cleared(ls, ls[l].task) /\ ts[ls[l].task].node # None,
           \A l, m \in F : ls[l].task = ls[m].task => l = m
    PROVE  LoopOK(thread'["loop"], ts, ls)
<1> DEFINE new == thread'["loop"]
           local == [Idle EXCEPT !.pc = IF F = {} THEN "snapshot" ELSE "unassign",
                                 !.freed = F, !.targets = N]
           either == IF F = {} /\ N = {} THEN Idle ELSE local
<1>1. new = either
  <2>1. thread' = [thread EXCEPT !["loop"] = either]
    BY DEF Continue
  <2> HIDE DEF either
  <2>2. QED
    BY <2>1, AloneHas, OwnFields DEF Alone
<1>2. /\ local.pc = IF F = {} THEN "snapshot" ELSE "unassign"
      /\ local.then = "idle" /\ local.left = {} /\ local.freed = F
  BY DEF Idle
<1> HIDE DEF local
<1>3. Claiming(local, ts, ls) /\ Revoking(local, ts, ls) /\ Promoting(local, ts)
  BY <1>2 DEF Claiming, Revoking, Promoting
<1>4. Recovering(local, ts, ls)
  BY <1>2 DEF Recovering, InRecovery
<1>5. QED
  BY <1>1, <1>3, <1>4, IdleLoop DEF LoopOK

\* Scheduling during a recovery: what was freed stays freed.
LEMMA ReturnOK ==
    ASSUME Alone, NEW scheduled, Return("loop", scheduled),
           thread["loop"].pc \in {"online", "assign"}, NEW ts, NEW ls,
           Recovering(thread["loop"], ts, ls)
    PROVE  LoopOK(thread'["loop"], ts, ls)
<1> DEFINE old == thread["loop"]
           new == thread'["loop"]
<1>1. ASSUME NEW step \in {"verify", "markFailed"}, Goto("loop", step)
      PROVE  LoopOK(new, ts, ls)
  <2>1. /\ new.pc = step /\ new.then = old.then
        /\ new.left = old.left /\ new.freed = old.freed
    BY <1>1, AloneHas, GotoFields DEF Alone
  <2>2. Recovering(new, ts, ls)
    BY <2>1 DEF Recovering, InRecovery
  <2>3. QED
    BY <2>1, <2>2 DEF LoopOK, Claiming, Revoking, Promoting
<1>2. CASE Finish("loop")
  BY <1>2, AloneHas, OwnFields, IdleLoop DEF Finish, Alone
<1>3. QED
  BY <1>1, <1>2 DEF Return

LEMMA LeaseTasks ==
    ASSUME Alone
    PROVE  \A l \in DOMAIN leases : leases[l].task \in Tasks
<1>1. \A l \in DOMAIN leases : leases[l] \in Lease
  BY DEF Alone, Types, StoreTypeOK
<1>2. QED
  BY <1>1 DEF Lease

LEMMA ScheduleKeeps ==
    ASSUME Alone, ReadOnline("loop") \/ AssignReady("loop")
    PROVE  Keeps(thread'["loop"])
<1> DEFINE old == thread["loop"]
           new == thread'["loop"]
<1>1. Types /\ Recovering(old, tasks, leases)
  BY AloneHas DEF Alone, LoopOK
<1>2. CASE ReadOnline("loop")
  <2> DEFINE seen == {n \in Nodes : nodes[n].status = "online"}
             local == [old EXCEPT !.pc = "assign", !.online = seen]
  <2>1. old.pc = "online" /\ UNCHANGED storeVars
    BY <1>2 DEF ReadOnline, At
  <2>2. CASE seen = {}
    BY <1>1, <1>2, <2>1, <2>2, ReturnOK, Unwritten DEF ReadOnline
  <2>3. CASE seen # {}
    <3>1. thread' = [thread EXCEPT !["loop"] = local]
      BY <1>2, <2>3 DEF ReadOnline
    <3>2. /\ local.pc = "assign" /\ local.then = old.then
          /\ local.left = old.left /\ local.freed = old.freed
      BY AloneHas DEF Fits, Local
    <3> HIDE DEF local
    <3>3. new = local
      BY <1>1, <3>1, AloneHas, OwnFields
    <3>4. Recovering(new, tasks, leases)
      BY <1>1, <2>1, <3>2, <3>3 DEF Recovering, InRecovery
    <3>5. LoopOK(new, tasks, leases)
      BY <3>2, <3>3, <3>4 DEF LoopOK, Claiming, Revoking, Promoting
    <3>6. QED
      BY <2>1, <3>5, Unwritten
  <2>4. QED
    BY <2>2, <2>3
<1>3. CASE AssignReady("loop")
  <2>1. /\ old.pc = "assign" /\ tasks' = SchedulePending(tasks, Seen("loop"))
        /\ Return("loop", \E t \in Tasks : Schedulable(tasks, Seen("loop"), t))
        /\ UNCHANGED <<leases, index>>
    BY <1>3 DEF AssignReady, At, OnlyTasks
  <2>2. \A t \in Tasks :
           \/ tasks'[t] = tasks[t]
           \/ /\ tasks[t].status = "ready"
              /\ tasks'[t].status = "running" /\ tasks'[t].node \in Nodes
    BY <2>1, AloneHas, ScheduledFields
  <2>3. \A t \in Tasks : tasks[t].node # None => tasks'[t].node # None
    BY <2>2, NoneAssumption
  <2>4. Exclusive(tasks', leases, index)
    <3>1. \A t \in Tasks : tasks'[t].status = "absent" => tasks'[t].node = None
      BY <2>2, AloneHas DEF Exclusive
    <3>2. QED
      BY <2>3, <3>1, AloneHas, TasksKeep
  <2>5. ASSUME MaxSync = 0
        PROVE  Settled(new, tasks', leases)
    <3>1. Settled(old, tasks, leases) /\ \A l \in ActiveLeases(leases) : leases[l].task \in Tasks
      BY <2>5, AloneHas, ActiveTask
    <3>2. QED
      BY <2>1, <2>2, <3>1, NoneAssumption DEF Settled
  <2>6. Api!PromotionStep
    BY <2>2, NothingPromoted
  <2>7. \A l \in old.left \cup old.freed : leases[l].task \in Tasks
    BY AloneHas, LeaseTasks DEF Fits
  <2>8. Recovering(old, tasks', leases)
    BY <1>1, <2>3, <2>7 DEF Recovering
  <2>9. LoopOK(new, tasks', leases)
    BY <2>1, <2>8, ReturnOK
  <2>10. QED
    BY <2>1, <2>4, <2>5, <2>6, <2>9 DEF Keeps
<1>4. QED
  BY <1>2, <1>3

LEMMA RecoveryKeeps ==
    ASSUME Alone, \/ ListExpired("loop") \/ SnapshotLeases("loop") \/ RevokeNext("loop")
                  \/ Unassign("loop") \/ Verify("loop") \/ MarkFailed("loop")
    PROVE  Keeps(thread'["loop"])
<1> DEFINE old == thread["loop"]
           new == thread'["loop"]
           o == Oldest(old.freed)
<1>1. Types /\ Recovering(old, tasks, leases)
  BY AloneHas DEF Alone, LoopOK
<1>2. /\ old.left \in SUBSET Nat /\ old.left \subseteq DOMAIN leases
      /\ old.freed \in SUBSET Nat /\ old.freed \subseteq DOMAIN leases
      /\ old.pc = "revoke" => old.left # {}
      /\ old.pc \in OfOrphan => old.freed # {}
  BY AloneHas DEF Fits, Local
<1>3. \A l \in DOMAIN leases : leases[l].task \in Tasks
  BY LeaseTasks
<1>4. old.pc \in OfOrphan => o \in old.freed /\ Orphan("loop") = leases[o].task
                             /\ leases[o].task \in Tasks
  BY <1>2, <1>3, OldestIn DEF Orphan
<1>5. CASE ListExpired("loop")
  <2>1. /\ old.pc = "listExpired" /\ UNCHANGED storeVars
        /\ Continue("loop", {}, ExpiredNodes(leases))
    BY <1>5 DEF ListExpired, At
  <2>2. LoopOK(new, tasks, leases)
    BY <2>1, ContinueOK
  <2>3. QED
    BY <2>1, <2>2, Unwritten
<1>6. CASE SnapshotLeases("loop")
  <2>1. old.pc = "snapshot" /\ leases' = ExpireDue(leases) /\ UNCHANGED <<tasks, nodes, index, syncVersion>>
    BY <1>6 DEF SnapshotLeases, At
  <2>2. /\ Api!LeaseStep /\ DOMAIN leases' = DOMAIN leases
        /\ ActiveLeases(leases') \subseteq ActiveLeases(leases)
    BY <2>1, AloneHas, ScanStep
  <2>3. \A l \in DOMAIN leases : leases'[l].task = leases[l].task
    BY <2>2 DEF Api!LeaseStep
  <2>4. /\ Exclusive(tasks, leases', index)
        /\ \A th : Settled(th, tasks, leases) => Settled(th, tasks, leases')
    BY <2>2, <2>3, AloneHas, LeasesShrink
  <2>5. MaxSync = 0 => Settled(new, tasks, leases')
    BY <2>1, <2>4, AloneHas, SettledOn
  <2>6. Api!PromotionStep
    BY <2>1, NothingPromoted
  <2>7. old.left = {} /\ old.freed = {} /\ old.then # "verify"
    BY <1>1, <2>1 DEF Recovering, InRecovery
  <2>8. LoopOK(new, tasks, leases')
    <3>1. PICK n \in old.targets :
            LET N == old.targets \ {n}
                held == {l \in ActiveLeases(leases') : leases[l].node = n}
            IN IF held = {} THEN Continue("loop", {}, N)
               ELSE thread' = [thread EXCEPT !["loop"].pc = "revoke",
                                             !["loop"].left = held, !["loop"].targets = N]
      BY <1>6 DEF SnapshotLeases
    <3> DEFINE N == old.targets \ {n}
               held == {l \in ActiveLeases(leases') : leases[l].node = n}
               local == [old EXCEPT !.pc = "revoke", !.left = held, !.targets = N]
    <3>2. CASE held = {}
      BY <3>1, <3>2, ContinueOK
    <3>3. CASE held # {}
      <4>1. thread' = [thread EXCEPT !["loop"] = local]
        BY <3>1, <3>3
      <4>2. held \subseteq ActiveLeases(leases')
        OBVIOUS
      <4> HIDE DEF held
      <4>3. /\ local.pc = "revoke" /\ local.then = old.then
            /\ local.left = held /\ local.freed = {}
        BY <2>7, AloneHas DEF Fits, Local
      <4> HIDE DEF local
      <4>4. new = local
        BY <1>1, <4>1, AloneHas, OwnFields
      <4>5. \A l \in held : OnlyLease(leases', l) /\ tasks[leases'[l].task].node # None
        BY <2>4, <4>2 DEF Exclusive, OnlyLease
      <4>6. \A l, m \in held : leases'[l].task = leases'[m].task => l = m
        BY <2>4, <4>2 DEF Exclusive
      <4>7. Recovering(new, tasks, leases')
        BY <2>7, <4>3, <4>4, <4>5, <4>6 DEF Recovering, InRecovery
      <4>8. QED
        BY <4>3, <4>4, <4>7 DEF LoopOK, Claiming, Revoking, Promoting
    <3>4. QED
      BY <3>2, <3>3
  <2>9. QED
    BY <2>1, <2>4, <2>5, <2>6, <2>8 DEF Keeps
<1>7. CASE RevokeNext("loop")
  <2> DEFINE l == Oldest(old.left)
             step == IF old.left = {l} THEN "unassign" ELSE "revoke"
             local == [old EXCEPT !.left = @ \ {l}, !.freed = @ \cup {l}, !.pc = step]
  <2>1. /\ old.pc = "revoke" /\ Api!Revoke({l}) /\ UNCHANGED <<tasks, nodes, syncVersion>>
        /\ thread' = [thread EXCEPT !["loop"] = local]
    BY <1>7 DEF RevokeNext, At, OnlyLeases
  <2>2. l \in old.left
    BY <1>2, <2>1, OldestIn
  <2>3. step \in {"unassign", "revoke"} /\ (step = "unassign" => old.left \ {l} = {})
    OBVIOUS
  <2>4. /\ Api!LeaseStep /\ DOMAIN leases' = DOMAIN leases
        /\ ActiveLeases(leases') = ActiveLeases(leases) \ {l}
    BY <2>1, AloneHas, RevokeStep
  <2>5. \A m \in DOMAIN leases : leases'[m].task = leases[m].task
    BY <2>4 DEF Api!LeaseStep
  <2>6. \A t \in Tasks : index'[t] \in {0, index[t]}
    BY <2>1 DEF Api!Revoke, Api!DropIndex
  <2> HIDE DEF l, step
  <2>7. /\ Exclusive(tasks, leases', index')
        /\ \A th : Settled(th, tasks, leases) => Settled(th, tasks, leases')
        /\ LoopOK(old, tasks, leases')
    BY <1>2, <2>4, <2>5, <2>6, AloneHas, LeasesShrink
  <2>8. /\ local.pc = step /\ local.then = old.then
        /\ local.left = old.left \ {l} /\ local.freed = old.freed \cup {l}
    BY AloneHas DEF Fits, Local
  <2> HIDE DEF local
  <2>9. new = local
    BY <1>1, <2>1, AloneHas, OwnFields
  <2>10. Recovering(old, tasks, leases')
    BY <2>7 DEF LoopOK
  <2>11. Cleared(leases', leases'[l].task)
    BY <1>1, <1>2, <2>2, <2>4, <2>5 DEF Recovering, OnlyLease, Cleared, ActiveLeases
  <2>12. Recovering(new, tasks, leases')
    <3>1. old.then # "verify"
      BY <2>1, <2>10 DEF Recovering
    <3>2. \A m \in new.left : OnlyLease(leases', m) /\ tasks[leases'[m].task].node # None
      BY <2>8, <2>9, <2>10 DEF Recovering
    <3>3. \A m \in new.freed : Cleared(leases', leases'[m].task) /\ tasks[leases'[m].task].node # None
      BY <2>2, <2>8, <2>9, <2>10, <2>11, <3>1 DEF Recovering
    <3>4. \A k, m \in new.left \cup new.freed : leases'[k].task = leases'[m].task => k = m
      BY <2>2, <2>8, <2>9, <2>10 DEF Recovering
    <3>5. QED
      BY <2>3, <2>8, <2>9, <3>1, <3>2, <3>3, <3>4 DEF Recovering, InRecovery
  <2>13. LoopOK(new, tasks, leases')
    BY <2>3, <2>8, <2>9, <2>12 DEF LoopOK, Claiming, Revoking, Promoting
  <2>14. MaxSync = 0 => Settled(new, tasks, leases')
    BY <2>1, <2>7, AloneHas, SettledOn
  <2>15. Api!PromotionStep
    BY <2>1, NothingPromoted
  <2>16. QED
    BY <2>1, <2>7, <2>13, <2>14, <2>15 DEF Keeps
<1>8. CASE Unassign("loop")
  <2> DEFINE t == leases[o].task
             local == [old EXCEPT !.pc = "online", !.then = "verify"]
  <2>1. old.pc = "unassign" /\ thread' = [thread EXCEPT !["loop"] = local] /\ UNCHANGED <<leases, index>>
    BY <1>8 DEF Unassign, At, OnlyTasks
  <2>2. o \in old.freed /\ t \in Tasks /\ tasks' = UnassignTask(tasks, t)
    BY <1>4, <1>8, <2>1 DEF Unassign, OfOrphan
  <2>3. /\ tasks'[t].status = "ready" /\ tasks'[t].node = None
        /\ \A u \in Tasks \ {t} : tasks'[u] = tasks[u]
    <3>1. tasks' = [tasks EXCEPT ![t] = [tasks[t] EXCEPT !.status = "ready", !.node = None]]
      BY <2>2 DEF UnassignTask
    <3>2. tasks \in [Tasks -> Task] /\ tasks[t] \in Task
      BY <2>2, AloneHas
    <3>3. QED
      BY <2>2, <3>1, <3>2 DEF Task
  <2>4. /\ old.left = {} /\ old.then # "verify" /\ Cleared(leases, t)
        /\ \A l \in old.freed : Cleared(leases, leases[l].task) /\ tasks[leases[l].task].node # None
        /\ \A l, m \in old.freed : leases[l].task = leases[m].task => l = m
    BY <1>1, <2>1, <2>2 DEF Recovering
  <2>5. Exclusive(tasks', leases, index)
    <3>1. \A u \in Tasks : tasks'[u].status = "absent" => tasks'[u].node = None
      BY <2>3, AloneHas DEF Exclusive
    <3>2. \A u \in Tasks : tasks'[u].node = None /\ tasks[u].node # None => Cleared(leases, u)
      BY <2>3, <2>4
    <3>3. QED
      BY <3>1, <3>2, AloneHas, TasksKeep
  <2>6. ASSUME MaxSync = 0
        PROVE  Settled(new, tasks', leases)
    <3>1. Settled(old, tasks, leases) /\ \A l \in ActiveLeases(leases) : leases[l].task \in Tasks
      BY <2>6, AloneHas, ActiveTask
    <3>2. QED
      BY <2>1, <2>3, <3>1 DEF Settled
  <2>7. Api!PromotionStep
    BY <2>2, <2>3, <2>4, NothingPromoted
  <2>8. /\ local.pc = "online" /\ local.then = "verify"
        /\ local.left = {} /\ local.freed = old.freed
    BY <2>4, AloneHas DEF Fits, Local
  <2> HIDE DEF local
  <2>9. new = local
    BY <1>1, <2>1, AloneHas, OwnFields
  <2>10. \A l \in old.freed : l # o => tasks'[leases[l].task].node # None
    BY <1>2, <1>3, <2>2, <2>3, <2>4
  <2>11. Recovering(new, tasks', leases)
    BY <2>4, <2>8, <2>9, <2>10 DEF Recovering, InRecovery
  <2>12. LoopOK(new, tasks', leases)
    BY <2>8, <2>9, <2>11 DEF LoopOK, Claiming, Revoking, Promoting
  <2>13. QED
    BY <2>1, <2>5, <2>6, <2>7, <2>12 DEF Keeps
<1>9. ASSUME NEW ts, old.pc \in {"verify", "markFailed"}, NextOrphan("loop"),
             \A u \in Tasks : ts[u].node = tasks[u].node
      PROVE  LoopOK(new, ts, leases)
  <2> DEFINE F == old.freed \ {o}
  <2>1. Continue("loop", F, old.targets)
    BY <1>9 DEF NextOrphan
  <2>2. \A l \in F : Cleared(leases, leases[l].task) /\ ts[leases[l].task].node # None
    BY <1>1, <1>2, <1>3, <1>9 DEF Recovering
  <2>3. \A l, m \in F : leases[l].task = leases[m].task => l = m
    BY <1>1 DEF Recovering
  <2>4. QED
    BY <2>1, <2>2, <2>3, ContinueOK
<1>10. CASE Verify("loop")
  <2>1. old.pc = "verify" /\ UNCHANGED storeVars
    BY <1>10 DEF Verify, At
  <2>2. CASE NextOrphan("loop")
    BY <1>9, <2>1, <2>2, Unwritten
  <2>3. CASE Goto("loop", "markFailed")
    <3>1. /\ new.pc = "markFailed" /\ new.then = old.then
          /\ new.left = old.left /\ new.freed = old.freed
      BY <1>1, <2>3, AloneHas, GotoFields
    <3>2. Recovering(new, tasks, leases)
      BY <1>1, <2>1, <3>1 DEF Recovering, InRecovery
    <3>3. LoopOK(new, tasks, leases)
      BY <3>1, <3>2 DEF LoopOK, Claiming, Revoking, Promoting
    <3>4. QED
      BY <2>1, <3>3, Unwritten
  <2>4. QED
    BY <1>10, <2>2, <2>3 DEF Verify
<1>11. CASE MarkFailed("loop")
  <2> DEFINE t == leases[o].task
  <2>1. /\ old.pc = "markFailed" /\ NextOrphan("loop") /\ UNCHANGED <<leases, index>>
        /\ t \in Tasks /\ tasks' = SetTaskStatus(tasks, t, "failed")
    BY <1>4, <1>11 DEF MarkFailed, At, OnlyTasks, OfOrphan
  <2>2. /\ Exclusive(tasks', leases', index') /\ (MaxSync = 0 => Settled(new, tasks', leases'))
        /\ tasks'[t].status = "failed" /\ tasks'[t].node = tasks[t].node
        /\ \A u \in Tasks \ {t} : tasks'[u] = tasks[u]
    BY <2>1, StatusKeeps
  <2>3. Api!PromotionStep
    BY <2>2, NothingPromoted
  <2>4. LoopOK(new, tasks', leases)
    BY <1>9, <2>1, <2>2
  <2>5. QED
    BY <2>1, <2>2, <2>3, <2>4 DEF Keeps
<1>12. QED
  BY <1>5, <1>6, <1>7, <1>8, <1>10, <1>11

LEMMA RequestKeeps ==
    ASSUME Alone, Request
    PROVE  Keeps(thread'["loop"])
<1> DEFINE old == thread["loop"]
           new == thread'["loop"]
<1>1. Types /\ "loop" \in Threads
  BY AloneHas DEF Alone
<1>2. ASSUME NEW local, Begin("loop", local)
      PROVE  new = local /\ old.pc = "idle"
  BY <1>1, <1>2, OwnFields DEF Begin, Free, At
<1>3. ASSUME NEW local, Begin("loop", local), local.left = {}, local.freed = {},
             \/ local.pc \in {"promoteAll", "dependents", "listExpired"}
             \/ local.pc = "snapshot" /\ local.then # "verify"
      PROVE  \A ts, ls : LoopOK(new, ts, ls)
  BY <1>2, <1>3 DEF LoopOK, Claiming, Revoking, Promoting, Recovering
<1>4. ASSUME NEW local, Begin("loop", local), local.left = {}, local.freed = {},
             \/ local.pc \in {"promoteAll", "dependents", "listExpired"}
             \/ local.pc = "snapshot" /\ local.then # "verify",
             UNCHANGED <<tasks, leases, index>>
      PROVE  Keeps(new)
  BY <1>2, <1>3, <1>4, Unmoved
<1>5. ASSUME NEW t \in Tasks, NEW req \in CapSets, SubmitTask(t, req)
      PROVE  Keeps(new)
  <2>1. /\ tasks[t].status = "absent" /\ tasks' = CreateTask(tasks, t, req)
        /\ UNCHANGED <<leases, index>>
    BY <1>5 DEF SubmitTask, Known, OnlyTasks
  <2>2. /\ tasks'[t].status = "pending" /\ tasks'[t].node = None
        /\ \A u \in Tasks \ {t} : tasks'[u] = tasks[u]
    BY <2>1, AloneHas DEF CreateTask
  <2>3. Exclusive(tasks', leases, index)
    <3>1. \A u \in Tasks : tasks'[u].status = "absent" => tasks'[u].node = None
      BY <2>2, AloneHas DEF Exclusive
    <3>2. \A u \in Tasks : tasks'[u].node = tasks[u].node
      BY <2>1, <2>2, AloneHas DEF Exclusive
    <3>3. QED
      BY <3>1, <3>2, AloneHas, TasksKeep
  <2>4. LoopOK(new, tasks', leases') /\ old.pc = "idle"
    BY <1>2, <1>3, <1>5 DEF SubmitTask, Idle
  <2>5. ASSUME MaxSync = 0
        PROVE  Settled(new, tasks', leases)
    <3>1. Settled(old, tasks, leases) /\ \A l \in ActiveLeases(leases) : leases[l].task \in Tasks
      BY <2>5, AloneHas, ActiveTask
    <3>2. QED
      BY <2>2, <2>4, <3>1 DEF Settled
  <2>6. Api!PromotionStep
    BY <2>2, NothingPromoted
  <2>7. QED
    BY <2>1, <2>3, <2>4, <2>5, <2>6 DEF Keeps
<1>6. CASE ScheduleTrigger
  BY <1>4, <1>6 DEF ScheduleTrigger, Idle, storeVars
<1>7. ASSUME NEW n \in Nodes, NEW caps \in CapSets, PatchCapabilities(n, caps)
      PROVE  Keeps(new)
  BY <1>4, <1>7 DEF PatchCapabilities, Idle
<1>8. ASSUME NEW t \in Tasks, ManualAdvance(t)
      PROVE  Keeps(new)
  <2> DEFINE local == [Idle EXCEPT !.pc = "advance", !.task = t]
  <2>1. new = local /\ old.pc = "idle" /\ UNCHANGED storeVars /\ DependenciesMet(tasks, t)
    BY <1>2, <1>8 DEF ManualAdvance
  <2>2. LoopOK(local, tasks, leases)
    BY <2>1 DEF Idle, LoopOK, Claiming, Revoking, Promoting, Recovering
  <2>3. QED
    BY <2>1, <2>2, Unwritten
<1>9. ASSUME NEW t \in Tasks, NEW n \in Nodes, ClaimTask(t, n)
      PROVE  Keeps(new)
  <2> DEFINE local == [Idle EXCEPT !.pc = "claimHolder", !.task = t, !.node = n]
  <2>1. new = local /\ old.pc = "idle" /\ UNCHANGED storeVars /\ tasks[t].status = "ready"
    BY <1>2, <1>9 DEF ClaimTask
  <2>2. LoopOK(local, tasks, leases)
    BY <2>1 DEF Idle, LoopOK, Claiming, Revoking, Promoting, Recovering
  <2>3. QED
    BY <2>1, <2>2, Unwritten
<1>10. ASSUME NEW t \in Tasks, NEW then \in {"release", "complete"},
              Begin("loop", [Idle EXCEPT !.pc = "findLease", !.then = then, !.task = t]),
              then = "release" => tasks[t].node # None, UNCHANGED storeVars
       PROVE  Keeps(new)
  <2> DEFINE local == [Idle EXCEPT !.pc = "findLease", !.then = then, !.task = t]
  <2>1. new = local /\ old.pc = "idle"
    BY <1>2, <1>10
  <2>2. LoopOK(local, tasks, leases)
    BY <1>10 DEF Idle, LoopOK, Claiming, Revoking, Promoting, Recovering
  <2>3. QED
    BY <1>10, <2>1, <2>2, Unwritten
<1>11. ASSUME NEW t \in Tasks, NEW n \in Nodes, ReleaseTask(t, n)
       PROVE  Keeps(new)
  BY <1>10, <1>11, NoneAssumption DEF ReleaseTask
<1>12. ASSUME NEW t \in Tasks, CompleteTask(t)
       PROVE  Keeps(new)
  BY <1>10, <1>12 DEF CompleteTask
<1>13. ASSUME NEW t \in Tasks, FailTask(t)
       PROVE  Keeps(new)
  <2>1. /\ LoopOK(new, tasks', leases') /\ old.pc = "idle"
        /\ tasks' = SetTaskStatus(tasks, t, "failed") /\ UNCHANGED <<leases, index>>
    BY <1>2, <1>3, <1>13 DEF FailTask, OnlyTasks, Idle
  <2>2. /\ Exclusive(tasks', leases', index') /\ (MaxSync = 0 => Settled(new, tasks', leases'))
        /\ tasks'[t].status = "failed" /\ \A u \in Tasks \ {t} : tasks'[u] = tasks[u]
    BY <2>1, StatusKeeps
  <2>3. Api!PromotionStep
    BY <2>2, NothingPromoted
  <2>4. QED
    BY <2>1, <2>2, <2>3 DEF Keeps
<1>14. ASSUME NEW n \in Nodes, TriggerRecovery(n)
       PROVE  Keeps(new)
  BY <1>4, <1>14 DEF TriggerRecovery, Idle, storeVars
<1>15. CASE DetectExpired("loop")
  <2>1. /\ leases' = ExpireDue(leases) /\ UNCHANGED <<tasks, nodes, index, syncVersion>>
        /\ \A ts, ls : LoopOK(new, ts, ls)
        /\ old.pc = "idle"
    BY <1>2, <1>3, <1>15 DEF DetectExpired, Idle
  <2>2. /\ Api!LeaseStep /\ DOMAIN leases' = DOMAIN leases
        /\ ActiveLeases(leases') \subseteq ActiveLeases(leases)
    BY <2>1, AloneHas, ScanStep
  <2>3. \A l \in DOMAIN leases : leases'[l].task = leases[l].task
    BY <2>2 DEF Api!LeaseStep
  <2>4. /\ Exclusive(tasks, leases', index)
        /\ \A th : Settled(th, tasks, leases) => Settled(th, tasks, leases')
    BY <2>2, <2>3, AloneHas, LeasesShrink
  <2>5. MaxSync = 0 => Settled(new, tasks, leases')
    BY <2>1, <2>4, AloneHas, SettledOn
  <2>6. Api!PromotionStep
    BY <2>1, NothingPromoted
  <2>7. QED
    BY <2>1, <2>4, <2>5, <2>6 DEF Keeps
<1>16. QED
  BY <1>5, <1>6, <1>7, <1>8, <1>9, <1>11, <1>12, <1>13, <1>14, <1>15 DEF Request

\* Steps that at most take active leases away, wherever the loop is.
Shrinks ==
    /\ tasks' = tasks
    /\ Api!LeaseStep /\ DOMAIN leases' = DOMAIN leases
    /\ ActiveLeases(leases') \subseteq ActiveLeases(leases)
    /\ \A t \in Tasks : index'[t] \in {0, index[t]}

LEMMA ShrinkKeeps ==
    ASSUME Alone, Shrinks
    PROVE  Keeps(thread["loop"])
<1>1. \A l \in DOMAIN leases : leases'[l].task = leases[l].task
  BY DEF Shrinks, Api!LeaseStep
<1>2. /\ Exclusive(tasks, leases', index')
      /\ LoopOK(thread["loop"], tasks, leases')
      /\ MaxSync = 0 => Settled(thread["loop"], tasks, leases')
  BY <1>1, AloneHas, LeasesShrink DEF Shrinks, Fits
<1>3. Api!PromotionStep
  BY NothingPromoted DEF Shrinks
<1>4. QED
  BY <1>2, <1>3 DEF Shrinks, Keeps

LEMMA StillShrinks ==
    ASSUME UNCHANGED <<tasks, leases, index>>
    PROVE  Shrinks
BY DEF Shrinks, Api!LeaseStep

\* The scanner, the watchdog and the clock, and the requests that only they
\* resemble: heartbeats, joins and deletions of leases.
LEMMA BackgroundShrinks ==
    ASSUME StoreTypeOK,
           \/ Background
           \/ \E n \in Nodes, caps \in CapSets : Api!JoinNode(n, caps)
           \/ \E n \in Nodes : Api!Heartbeat(n)
           \/ \E l \in LeaseIds : Api!DeleteLease(l)
    PROVE  Shrinks
<1>1. StoreTypeOK /\ Proved!TypeOK
  BY SameTypes
<1>2. CASE Api!ScanLeases
  <2>1. leases' = ExpireDue(leases) /\ UNCHANGED <<tasks, nodes, index, syncVersion>>
    BY <1>2 DEF Api!ScanLeases, Api!ExpireDue, ExpireDue
  <2>2. QED
    BY <1>1, <2>1, ScanStep DEF Shrinks
<1>3. ASSUME NEW l \in LeaseIds, Api!LeaseFallsDue(l)
      PROVE  Shrinks
  <2>1. /\ Proved!LeaseFallsDue(l) /\ l \in Proved!LeaseIds
        /\ UNCHANGED <<tasks, nodes, index, syncVersion>>
    BY <1>3 DEF Api!LeaseFallsDue, Proved!LeaseFallsDue, Api!ActiveLeases, Proved!ActiveLeases,
       LeaseIds, Proved!LeaseIds
  <2>2. /\ DOMAIN leases' = DOMAIN leases
        /\ \A m \in DOMAIN leases :
              /\ leases'[m].task = leases[m].task
              /\ leases'[m].node = leases[m].node
              /\ leases'[m].status = leases[m].status
    BY <1>1, <2>1, Assumptions, Proved!FallsDueKeeps
  <2>3. QED
    BY <2>1, <2>2 DEF Shrinks, Api!LeaseStep, ActiveLeases
<1>4. ASSUME NEW l \in LeaseIds, Api!DeleteLease(l)
      PROVE  Shrinks
  <2>1. Api!Revoke({l}) /\ UNCHANGED <<tasks, nodes, syncVersion>>
    BY <1>4 DEF Api!DeleteLease
  <2>2. \A t \in Tasks : index'[t] \in {0, index[t]}
    BY <2>1 DEF Api!Revoke, Api!DropIndex
  <2>3. QED
    BY <1>1, <2>1, <2>2, RevokeStep DEF Shrinks
<1>5. ASSUME \/ \E n \in Nodes, caps \in CapSets : Api!JoinNode(n, caps)
             \/ \E n \in Nodes : Api!Heartbeat(n)
             \/ \E n \in Nodes, s \in NodeStatus : Api!WatchdogCheck(n, s)
      PROVE  Shrinks
  BY <1>5, StillShrinks DEF Api!JoinNode, Api!Heartbeat, Api!WatchdogCheck
<1>6. QED
  BY <1>2, <1>3, <1>4, <1>5 DEF Background

LEMMA ShortKeeps ==
    ASSUME Alone, ShortRequest \/ Background
    PROVE  Keeps(thread'["loop"])
<1> DEFINE old == thread["loop"]
<1>1. thread' = thread
  BY ShortSteps
<1>2. ASSUME Shrinks
      PROVE  Keeps(thread'["loop"])
  BY <1>1, <1>2, ShrinkKeeps
<1>3. Exclusive(tasks', leases', index')
  <2>1. Proved!LeaseInv /\ [Proved!PeerNext]_Proved!storeVars
    BY AloneHas, ExclusiveIs, ShortSteps
  <2>2. Proved!LeaseInv'
    BY <2>1, Assumptions, Proved!LeaseInvStep
  <2>3. QED
    BY <2>2, ExclusiveAfter
<1>4. ASSUME Free("loop")
      PROVE  \A ts, ls : LoopOK(old, ts, ls)
  <2>1. old.pc = "idle" /\ old.left = {} /\ old.freed = {}
    BY <1>4, AloneHas DEF Free, At, LoopOK, Recovering, InRecovery
  <2>2. QED
    BY <2>1 DEF LoopOK, Claiming, Revoking, Promoting, Recovering
<1>5. ASSUME NEW t \in Tasks, NEW D \in DepSets, Free("loop"), Api!SetTaskDependencies(t, D)
      PROVE  Keeps(thread'["loop"])
  <2>1. tasks' = [tasks EXCEPT ![t].deps = D] /\ UNCHANGED <<leases, index>>
    BY <1>5 DEF Api!SetTaskDependencies, Api!SetDependencies
  <2>2. \A u \in Tasks : tasks'[u].status = tasks[u].status /\ tasks'[u].node = tasks[u].node
    <3>1. ASSUME NEW u \in Tasks
          PROVE  tasks'[u].status = tasks[u].status /\ tasks'[u].node = tasks[u].node
      <4>1. tasks[u] \in Task
        BY AloneHas
      <4>2. QED
        BY <2>1, <4>1, AloneHas DEF Task
    <3>2. QED
      BY <3>1
  <2>3. ASSUME MaxSync = 0
        PROVE  Settled(old, tasks', leases)
    <3>1. Settled(old, tasks, leases) /\ \A l \in ActiveLeases(leases) : leases[l].task \in Tasks
      BY <2>3, AloneHas, ActiveTask
    <3>2. QED
      BY <2>2, <3>1 DEF Settled
  <2>4. Api!PromotionStep
    BY <2>2, NothingPromoted
  <2>5. QED
    BY <1>1, <1>3, <1>4, <1>5, <2>1, <2>3, <2>4 DEF Keeps
<1>6. ASSUME NEW t \in Tasks, Free("loop"), Api!UnblockTask(t)
      PROVE  Keeps(thread'["loop"])
  <2>1. tasks' = SetTaskStatus(tasks, t, "pending") /\ UNCHANGED <<leases, index>>
    BY <1>6 DEF Api!UnblockTask, Api!SetTaskStatus, SetTaskStatus
  <2>2. /\ tasks'[t].status = "pending" /\ tasks'[t].node = tasks[t].node
        /\ \A u \in Tasks \ {t} : tasks'[u] = tasks[u]
    BY <2>1, AloneHas, StatusFields
  <2>3. ASSUME MaxSync = 0
        PROVE  Settled(old, tasks', leases)
    <3>1. Settled(old, tasks, leases) /\ \A l \in ActiveLeases(leases) : leases[l].task \in Tasks
      BY <2>3, AloneHas, ActiveTask
    <3>2. QED
      BY <2>2, <3>1 DEF Settled
  <2>4. Api!PromotionStep
    BY <2>2, NothingPromoted
  <2>5. QED
    BY <1>1, <1>3, <1>4, <1>6, <2>1, <2>3, <2>4 DEF Keeps
<1>7. ASSUME Free("loop"), Api!SyncNext
      PROVE  Keeps(thread'["loop"])
  <2>1. PICK v \in 1..MaxSync : v > syncVersion /\ syncVersion' = v
    BY <1>7 DEF Api!SyncNext, Api!SyncReceive, Api!SyncVersionOnly
  <2>2. syncVersion' # syncVersion /\ MaxSync # 0
    BY <2>1, AloneHas, BoundsAssumption DEF StoreTypeOK
  <2>3. Api!PromotionStep
    BY <2>2 DEF Api!PromotionStep
  <2>4. QED
    BY <1>1, <1>3, <1>4, <1>7, <2>2, <2>3 DEF Keeps
<1>8. QED
  BY <1>2, <1>5, <1>6, <1>7, AloneHas, BackgroundShrinks DEF ShortRequest

-----------------------------------------------------------------------------
(* Together.                                                               *)

LEMMA LoopOnly ==
    ASSUME Types, Request \/ Step("loop")
    PROVE  thread'["auto"] = thread["auto"]
<1>1. ASSUME NEW th, thread' = [thread EXCEPT !["loop"] = th]
      PROVE  thread'["auto"] = thread["auto"]
  BY <1>1, OwnFields DEF Threads
<1>2. /\ \A step : Goto("loop", step) => thread'["auto"] = thread["auto"]
      /\ Finish("loop") => thread'["auto"] = thread["auto"]
      /\ \A local : Begin("loop", local) => thread'["auto"] = thread["auto"]
      /\ \A F, N : Continue("loop", F, N) => thread'["auto"] = thread["auto"]
  BY <1>1 DEF Goto, Finish, Begin, Continue
<1>3. CASE Request
  BY <1>2, <1>3 DEF Request, SubmitTask, ScheduleTrigger, PatchCapabilities, ManualAdvance,
     ClaimTask, ReleaseTask, CompleteTask, FailTask, TriggerRecovery, DetectExpired
<1>4. ASSUME \/ PromoteAll("loop") \/ AdvanceReady("loop") \/ ClaimHolder("loop")
             \/ ClaimRun("loop") \/ ClaimAssign("loop") \/ ClaimLease("loop")
             \/ RevokeFound("loop") \/ ReleaseReady("loop") \/ ReleaseHolder("loop")
             \/ MarkDependent("loop") \/ Visited("loop")
      PROVE  thread'["auto"] = thread["auto"]
  BY <1>2, <1>4 DEF PromoteAll, AdvanceReady, ClaimHolder, ClaimRun, ClaimAssign, ClaimLease,
     RevokeFound, ReleaseReady, ReleaseHolder, MarkDependent, Visited
<1>5. ASSUME \/ FindLease("loop") \/ CompleteMark("loop") \/ ListDependents("loop")
             \/ Judges("loop")
      PROVE  thread'["auto"] = thread["auto"]
  BY <1>1, <1>5 DEF FindLease, CompleteMark, ListDependents, Judges, Visit, ReadDependency,
     AllRead, Goto
<1>6. ASSUME \/ ListExpired("loop") \/ Verify("loop") \/ MarkFailed("loop") \/ AssignReady("loop")
      PROVE  thread'["auto"] = thread["auto"]
  BY <1>2, <1>6 DEF ListExpired, Verify, MarkFailed, NextOrphan, AssignReady, Return
<1>7. ASSUME \/ RevokeNext("loop") \/ Unassign("loop")
      PROVE  thread'["auto"] = thread["auto"]
  BY <1>1, <1>7 DEF RevokeNext, Unassign
<1>8. CASE ReadOnline("loop")
  <2> DEFINE seen == {n \in Nodes : nodes[n].status = "online"}
  <2>1. CASE seen = {}
    BY <1>2, <1>8, <2>1 DEF ReadOnline, Return
  <2>2. CASE seen # {}
    BY <1>1, <1>8, <2>2 DEF ReadOnline
  <2>3. QED
    BY <2>1, <2>2
<1>9. CASE SnapshotLeases("loop")
  <2>1. PICK n \in thread["loop"].targets :
          LET N == thread["loop"].targets \ {n}
              held == {l \in ActiveLeases(leases') : leases[l].node = n}
          IN IF held = {} THEN Continue("loop", {}, N)
             ELSE thread' = [thread EXCEPT !["loop"].pc = "revoke",
                                           !["loop"].left = held, !["loop"].targets = N]
    BY <1>9 DEF SnapshotLeases
  <2> DEFINE held == {l \in ActiveLeases(leases') : leases[l].node = n}
  <2>2. CASE held = {}
    BY <1>2, <2>1, <2>2
  <2>3. CASE held # {}
    BY <1>1, <2>1, <2>3
  <2>4. QED
    BY <2>2, <2>3
<1>10. QED
  BY <1>3, <1>4, <1>5, <1>6, <1>7, <1>8, <1>9 DEF Step, Handle, Judges, RecoveryStep

LEMMA AloneInit == Init => Alone
<1> SUFFICES ASSUME Init PROVE Alone
  OBVIOUS
<1>1. Types /\ thread["auto"] = Idle /\ thread["loop"] = Idle
  BY InitTypes DEF Init, Threads
<1>2. Exclusive(tasks, leases, index)
  BY DEF Init, StoreInit, Exclusive, NoTask, ActiveLeases
<1>3. Settled(Idle, tasks, leases)
  BY DEF Init, StoreInit, Settled, NoTask, ActiveLeases
<1>4. QED
  BY <1>1, <1>2, <1>3, IdleLoop DEF Alone

LEMMA AloneStep ==
    ASSUME Alone, ~AutoRecovery, [Next]_vars
    PROVE  Alone' /\ Api!PromotionStep
<1>1. Types /\ Types' /\ thread["auto"] = Idle
  BY NextTypes DEF Alone
<1>2. ~RecoveryStep("auto") /\ ~DetectExpired("auto")
  BY <1>1 DEF Idle, RecoveryStep, At, ReadOnline, AssignReady, ListExpired, SnapshotLeases,
     RevokeNext, Unassign, Verify, MarkFailed, DetectExpired
<1>3. CASE Request \/ Step("loop")
  <2>1. thread'["auto"] = Idle
    BY <1>1, <1>3, LoopOnly
  <2>2. Keeps(thread'["loop"])
    BY <1>3, RequestKeeps, ClaimKeeps, ReleaseKeeps, PromoteKeeps, ScheduleKeeps, RecoveryKeeps
    DEF Step, Handle, Judges, RecoveryStep
  <2>3. QED
    BY <1>1, <2>1, <2>2 DEF Keeps, Alone
<1>4. CASE ShortRequest \/ Background
  <2>1. thread'["auto"] = Idle
    BY <1>1, <1>4, ShortSteps
  <2>2. Keeps(thread'["loop"])
    BY <1>4, ShortKeeps
  <2>3. QED
    BY <1>1, <2>1, <2>2 DEF Keeps, Alone
<1>5. CASE UNCHANGED vars
  <2>1. thread' = thread /\ UNCHANGED <<tasks, leases, index>>
    BY <1>5 DEF vars, storeVars
  <2>2. Keeps(thread["loop"])
    BY <2>1, StillShrinks, ShrinkKeeps
  <2>3. QED
    BY <1>1, <2>1, <2>2 DEF Keeps, Alone
<1>6. QED
  BY <1>2, <1>3, <1>4, <1>5 DEF Next

\* Without the recovery thread: at every critical section of every handler,
\* with the scanner and the watchdog in between, a task has at most one active
\* lease, and a task without assignee has none.
THEOREM HandlersExclusive ==
    ~AutoRecovery => (Spec => [](AtMostOneLease /\ UnassignedHoldsNoLease))
<1> SUFFICES ASSUME ~AutoRecovery
             PROVE  Spec => [](AtMostOneLease /\ UnassignedHoldsNoLease)
  OBVIOUS
<1>1. Alone => AtMostOneLease /\ UnassignedHoldsNoLease
  BY AloneHas, ExclusiveIs DEF AtMostOneLease, UnassignedHoldsNoLease
<1>2. Alone /\ [Next]_vars => Alone'
  BY AloneStep
<1>3. QED
  BY <1>1, <1>2, AloneInit, PTL DEF Spec

\* Without the recovery thread: a pending task that nobody holds is promoted
\* only with all its dependencies completed, although the handlers read them
\* without a lock and promote in a critical section of its own.
THEOREM HandlersPromoteInOrder == ~AutoRecovery => (Spec => PromotedInOrder)
<1> SUFFICES ASSUME ~AutoRecovery
             PROVE  Spec => PromotedInOrder
  OBVIOUS
<1>1. Alone /\ [Next]_vars => Alone' /\ [Api!PromotionStep]_vars
  BY AloneStep
<1>2. QED
  BY <1>1, AloneInit, PTL DEF Spec, PromotedInOrder

\* Without the recovery thread and without peers: once the handlers are
\* through, every running task has an assignee.
THEOREM HandlersSettle == ~AutoRecovery /\ MaxSync = 0 => (Spec => []RunningHasHolder)
<1> SUFFICES ASSUME ~AutoRecovery, MaxSync = 0
             PROVE  Spec => []RunningHasHolder
  OBVIOUS
<1>1. Alone => RunningHasHolder
  <2> SUFFICES ASSUME Alone, Quiet
               PROVE  Api!RunningHasHolder
    BY DEF RunningHasHolder
  <2>1. thread["loop"].pc = "idle"
    BY DEF Quiet, Free, At, Threads
  <2>2. Settled(thread["loop"], tasks, leases) /\ \A t \in Tasks : tasks[t].node \in Nodes \cup {None}
    BY AloneHas, TaskFields
  <2>3. QED
    BY <2>1, <2>2 DEF Settled, Api!RunningHasHolder
<1>2. Alone /\ [Next]_vars => Alone'
  BY AloneStep
<1>3. QED
  BY <1>1, <1>2, AloneInit, PTL DEF Spec

\* Nor does a completed task hold a lease there, whatever the scanner expired
\* between the lookup of the lease and its revocation.
THEOREM HandlersFreeNodes == ~AutoRecovery /\ MaxSync = 0 => (Spec => []CompletedHoldsNoLease)
<1> SUFFICES ASSUME ~AutoRecovery, MaxSync = 0
             PROVE  Spec => []CompletedHoldsNoLease
  OBVIOUS
<1>1. Alone => CompletedHoldsNoLease
  BY AloneHas DEF Settled, ActiveLeases, Api!ActiveLeases, CompletedHoldsNoLease,
     Api!CompletedHoldsNoLease
<1>2. Alone /\ [Next]_vars => Alone'
  BY AloneStep
<1>3. QED
  BY <1>1, <1>2, AloneInit, PTL DEF Spec

\* A lease is created by ClaimLease and by nothing else.
LEMMA LeasesGrow ==
    ASSUME Types, [Next]_vars
    PROVE  \/ DOMAIN leases' = DOMAIN leases
           \/ \E t \in Tasks, n \in Nodes : leases' = CreateLease(leases, t, n)
<1>0. StoreTypeOK /\ \A p \in Threads : Fits(thread[p], leases)
  BY DEF Types, ThreadsFit
<1>1. CASE ShortRequest \/ Background
  <2>1. Proved!TypeOK /\ [Proved!Next]_Proved!storeVars
    BY <1>0, <1>1, ShortSteps, SameTypes DEF Proved!Next
  <2>2. \/ DOMAIN leases' = DOMAIN leases
        \/ \E t \in Tasks, n \in Nodes : leases' = Proved!CreateLease(leases, t, n)
    BY <2>1, Assumptions, Proved!LeaseTableStep
  <2>3. QED
    BY <2>2, SameLeases
<1>2. ASSUME NEW p \in Threads, DetectExpired(p) \/ SnapshotLeases(p)
      PROVE  DOMAIN leases' = DOMAIN leases
  BY <1>0, <1>2, ScanStep DEF DetectExpired, SnapshotLeases
<1>3. ASSUME NEW p \in Threads, RevokeFound(p) \/ RevokeNext(p)
      PROVE  DOMAIN leases' = DOMAIN leases
  BY <1>0, <1>3, RevokeStep DEF RevokeFound, RevokeNext, OnlyLeases
<1>4. ASSUME NEW p \in Threads, ClaimLease(p)
      PROVE  \E t \in Tasks, n \in Nodes : leases' = CreateLease(leases, t, n)
  <2>1. thread[p].task \in Tasks /\ thread[p].node \in Nodes
    BY <1>0, <1>4 DEF ClaimLease, At, Fits, OfTask, OfClaim
  <2>2. QED
    BY <1>4, <2>1 DEF ClaimLease, T
<1>5. ASSUME NEW p \in Threads,
             \/ PromoteAll(p) \/ AdvanceReady(p) \/ ClaimHolder(p) \/ ClaimRun(p)
             \/ ClaimAssign(p) \/ FindLease(p) \/ ReleaseReady(p) \/ ReleaseHolder(p)
             \/ CompleteMark(p) \/ ListDependents(p) \/ Judges(p) \/ MarkDependent(p) \/ Visited(p)
             \/ ReadOnline(p) \/ AssignReady(p) \/ ListExpired(p)
             \/ Unassign(p) \/ Verify(p) \/ MarkFailed(p)
      PROVE  leases' = leases
  BY <1>5 DEF PromoteAll, AdvanceReady, ClaimHolder, ClaimRun, ClaimAssign, FindLease,
     ReleaseReady, ReleaseHolder, CompleteMark, ListDependents, Judges, Visit, ReadDependency,
     AllRead, MarkDependent, Visited, ReadOnline, AssignReady, ListExpired, Unassign, Verify, MarkFailed, OnlyTasks, storeVars
<1>6. ASSUME Request, ~DetectExpired("loop")
      PROVE  leases' = leases
  BY <1>6 DEF Request, SubmitTask, ScheduleTrigger, PatchCapabilities, ManualAdvance,
     ClaimTask, ReleaseTask, CompleteTask, FailTask, TriggerRecovery, OnlyTasks, storeVars
<1>7. CASE UNCHANGED vars
  BY <1>7 DEF vars, storeVars
<1>8. ASSUME NEW p \in Threads, Step(p)
      PROVE  \/ DOMAIN leases' = DOMAIN leases
             \/ \E t \in Tasks, n \in Nodes : leases' = CreateLease(leases, t, n)
  BY <1>2, <1>3, <1>4, <1>5, <1>8 DEF Step, Handle, Judges, RecoveryStep
<1>9. QED
  BY <1>1, <1>2, <1>6, <1>7, <1>8 DEF Next, Step, Threads

\* Where the leases are exclusive before and after, a step is one of the
\* ownership specification.
LEMMA OwnershipStep ==
    ASSUME Types, Types', Exclusive(tasks, leases, index), Exclusive(tasks', leases', index'),
           [Next]_vars
    PROVE  [Api!Ownership!Next]_Api!heldBy
<1>1. Api!LeaseStep
  BY NextTypes
<1>2. Proved!LeaseInv /\ Proved!LeaseInv' /\ Proved!LeaseStep
  BY <1>1, ExclusiveIs, ExclusiveAfter, SameLeases DEF Types
<1>3. Proved!AtMostOneLease /\ Proved!AtMostOneLease'
  BY <1>2 DEF Proved!LeaseInv
<1>4. Proved!Ownership!Next
  <2>1. CASE DOMAIN leases' = DOMAIN leases
    BY <1>2, <1>3, <2>1, Assumptions, Proved!ShrinkGivesUp
  <2>2. CASE \E t \in Tasks, n \in Nodes : leases' = CreateLease(leases, t, n)
    <3>1. PICK t \in Tasks, n \in Nodes : leases' = Proved!CreateLease(leases, t, n)
      BY <2>2, SameLeases
    <3>2. QED
      BY <1>2, <1>3, <3>1, Assumptions, Proved!GrowAcquires
  <2>3. QED
    BY <2>1, <2>2, LeasesGrow
<1>5. Proved!Ownership!Next <=> Api!Ownership!Next
  BY DEF Proved!Ownership!Next, Api!Ownership!Next, Proved!Ownership!Acquire,
     Api!Ownership!Acquire, Proved!Ownership!GiveUp, Api!Ownership!GiveUp,
     Proved!heldBy, Api!heldBy, Proved!HolderIn, Api!HolderIn,
     Proved!LeasesOf, Api!LeasesOf, Proved!ActiveLeases, Api!ActiveLeases
<1>6. QED
  BY <1>4, <1>5

LEMMA OwnershipInit == Init => Api!Ownership!Init
<1>1. ASSUME leases = <<>>
      PROVE  Api!heldBy = [t \in Tasks |-> None]
  BY <1>1 DEF Api!heldBy, Api!HolderIn, Api!LeasesOf, Api!ActiveLeases
<1>2. QED
  BY <1>1 DEF Init, StoreInit, Api!Ownership!Init

\* Without the recovery thread: with the node of its active lease as the
\* holder of a task, every critical section is a step of TaskOwnership.
THEOREM HandlersImplementOwnership == ~AutoRecovery => (Spec => ImplementsOwnership)
<1> SUFFICES ASSUME ~AutoRecovery
             PROVE  Spec => ImplementsOwnership
  OBVIOUS
<1>1. Alone /\ [Next]_vars => Alone' /\ [Api!Ownership!Next]_Api!heldBy
  <2> SUFFICES ASSUME Alone, [Next]_vars
               PROVE  Alone' /\ [Api!Ownership!Next]_Api!heldBy
    OBVIOUS
  <2>1. Types /\ Types' /\ Alone'
    BY AloneStep, NextTypes DEF Alone
  <2>2. QED
    BY <2>1, AloneHas, OwnershipStep DEF Alone
<1>2. QED
  BY <1>1, OwnershipInit, AloneInit, PTL DEF Spec, ImplementsOwnership, Api!ImplementsOwnership,
     Api!Ownership!Spec

-----------------------------------------------------------------------------
(* With the recovery thread.  It creates no lease, and takes an assignee   *)
(* away in Unassign only.  Where that is timely, it leaves the leases      *)
(* exclusive, whatever else it does to the tasks under the hands of the    *)
(* loop: what the loop still has to know of a task is that it is clear of  *)
(* leases, and no longer its status.                                       *)

\* When the recovery thread unassigns a task, nobody has claimed it since its
\* lease was revoked, or is about to be given the lease.
Timely ==
    /\ LeasesOf(leases, Orphan("auto")) = {}
    /\ ~(At("loop", "claimLease") /\ T("loop") = Orphan("auto"))

TimelyRecovery == [][Unassign("auto") => Timely]_vars

\* What the loop can rely on beside a recovery thread.
Secure(th, ts, ls) ==
    /\ th.pc \in {"claimRun", "claimAssign", "claimLease", "release", "releaseHolder"}
          => Cleared(ls, th.task)
    /\ th.pc = "claimAssign" => ts[th.task].status # "absent"
    /\ th.pc = "claimLease" => ts[th.task].node # None
    /\ th.pc = "revokeFound" /\ th.then = "release" =>
          \A l \in ActiveLeases(ls) : ls[l].task = th.task => l = th.lease
    /\ \A l \in th.left : OnlyLease(ls, l)
    /\ \A l \in th.freed : Cleared(ls, ls[l].task)

Shared ==
    /\ Types
    /\ Exclusive(tasks, leases, index)
    /\ Secure(thread["loop"], tasks, leases)

\* What a step leads to.
Upheld == Exclusive(tasks', leases', index') /\ Secure(thread'["loop"], tasks', leases')

\* th is at none of the places where Secure asks for more than of old.
Elsewhere(th, old) ==
    /\ th.pc \notin {"claimRun", "claimAssign", "claimLease", "release", "releaseHolder", "revokeFound"}
    /\ th.left \subseteq old.left /\ th.freed \subseteq old.freed

LoopElsewhere == thread'["loop"] = thread["loop"] \/ Elsewhere(thread'["loop"], thread["loop"])

LEMMA SharedHas ==
    ASSUME Shared
    PROVE  /\ Types /\ StoreTypeOK /\ tasks \in [Tasks -> Task] /\ leases \in Seq(Lease)
           /\ \A p \in Threads : Fits(thread[p], leases)
           /\ "loop" \in Threads /\ "auto" \in Threads
           /\ \A l \in DOMAIN leases : leases[l].task \in Tasks
           /\ Exclusive(tasks, leases, index)
           /\ Secure(thread["loop"], tasks, leases)
<1>1. \A l \in DOMAIN leases : leases[l] \in Lease
  BY DEF Shared, Types, StoreTypeOK
<1>2. \A l \in DOMAIN leases : leases[l].task \in Tasks
  BY <1>1 DEF Lease
<1>3. QED
  BY <1>2 DEF Shared, Types, ThreadsFit, StoreTypeOK, Threads

LEMMA SecureElsewhere ==
    ASSUME NEW th, NEW old, NEW ts, NEW us, NEW ls, Secure(old, ts, ls), Elsewhere(th, old)
    PROVE  Secure(th, us, ls)
BY DEF Secure, Elsewhere

\* A step that only writes tasks, and frees none that has a lease.
LEMMA WriteUpholds ==
    ASSUME Shared, UNCHANGED <<leases, index>>, LoopElsewhere,
           \A t \in Tasks :
              /\ tasks'[t].status = "absent" => tasks[t].status = "absent"
                                                /\ tasks'[t].node = None
              /\ tasks'[t].node = None /\ tasks[t].node # None
                    => Cleared(leases, t) /\ ~(At("loop", "claimLease") /\ T("loop") = t)
    PROVE  Upheld
<1>1. Exclusive(tasks', leases, index)
  BY SharedHas, TasksKeep
<1>2. Secure(thread["loop"], tasks', leases)
  BY SharedHas DEF Secure, Fits, OfTask, At, T
<1>3. QED
  BY <1>1, <1>2, SecureElsewhere DEF LoopElsewhere, Upheld

\* A step that at most takes active leases away.
LEMMA ShrinkUpholds ==
    ASSUME Shared, Shrinks
    PROVE  /\ Exclusive(tasks', leases', index')
           /\ Secure(thread["loop"], tasks', leases')
           /\ LoopElsewhere => Upheld
<1> DEFINE old == thread["loop"]
<1>1. /\ \A l \in DOMAIN leases : leases'[l].task = leases[l].task
      /\ \A l \in ActiveLeases(leases') : l \in DOMAIN leases /\ l \in ActiveLeases(leases)
  BY DEF Shrinks, Api!LeaseStep, ActiveLeases
<1>2. Exclusive(tasks, leases', index')
  BY <1>1, SharedHas, LeasesShrink DEF Shrinks
<1>3. \A t : Cleared(leases, t) => Cleared(leases', t)
  BY <1>1 DEF Cleared
<1>4. \A l \in DOMAIN leases : OnlyLease(leases, l) => OnlyLease(leases', l)
  BY <1>1 DEF OnlyLease
<1>5. old.left \subseteq DOMAIN leases /\ old.freed \subseteq DOMAIN leases
  BY SharedHas DEF Fits
<1>6. Secure(old, tasks, leases')
  BY <1>1, <1>3, <1>4, <1>5, SharedHas DEF Secure
<1>7. QED
  BY <1>2, <1>6, SecureElsewhere DEF Shrinks, LoopElsewhere, Upheld

\* A thread that leaves for such a place.
LEMMA OwnElsewhere ==
    ASSUME Shared, NEW p \in Threads, NEW th, thread' = [thread EXCEPT ![p] = th],
           Elsewhere(th, thread[p])
    PROVE  LoopElsewhere
<1>1. thread'[p] = th /\ \A q \in Threads \ {p} : thread'[q] = thread[q]
  BY SharedHas, OwnFields
<1>2. QED
  BY <1>1 DEF LoopElsewhere, Threads

LEMMA LeavesElsewhere ==
    ASSUME Shared, NEW p \in Threads
    PROVE  /\ Finish(p) => LoopElsewhere
           /\ \A step \in {"online", "verify", "markFailed", "unassign", "complete", "visit"} :
                 Goto(p, step) => LoopElsewhere
           /\ \A scheduled : Return(p, scheduled) => LoopElsewhere
           /\ \A F, N : F \subseteq thread[p].freed /\ Continue(p, F, N) => LoopElsewhere
<1>1. Elsewhere(Idle, thread[p]) /\ thread[p] \in Local
  BY SharedHas DEF Elsewhere, Idle, Fits
<1>2. Finish(p) => LoopElsewhere
  BY <1>1, OwnElsewhere DEF Finish
<1>3. ASSUME NEW step \in {"online", "verify", "markFailed", "unassign", "complete", "visit"},
             Goto(p, step)
      PROVE  LoopElsewhere
  <2> DEFINE th == [thread[p] EXCEPT !.pc = step]
  <2>1. thread' = [thread EXCEPT ![p] = th]
    BY <1>3 DEF Goto
  <2>2. th.pc = step /\ th.left = thread[p].left /\ th.freed = thread[p].freed
    BY <1>1 DEF Local
  <2> HIDE DEF th
  <2>3. Elsewhere(th, thread[p])
    BY <2>2 DEF Elsewhere
  <2>4. QED
    BY <2>1, <2>3, OwnElsewhere
<1>4. ASSUME NEW scheduled, Return(p, scheduled)
      PROVE  LoopElsewhere
  BY <1>2, <1>3, <1>4 DEF Return
<1>5. ASSUME NEW F, NEW N, F \subseteq thread[p].freed, Continue(p, F, N)
      PROVE  LoopElsewhere
  <2> DEFINE local == [Idle EXCEPT !.pc = IF F = {} THEN "snapshot" ELSE "unassign",
                                   !.freed = F, !.targets = N]
             either == IF F = {} /\ N = {} THEN Idle ELSE local
  <2>1. thread' = [thread EXCEPT ![p] = either]
    BY <1>5 DEF Continue
  <2>2. /\ local.pc = IF F = {} THEN "snapshot" ELSE "unassign"
        /\ local.left = {} /\ local.freed = F
    BY DEF Idle
  <2> HIDE DEF local
  <2>3. Elsewhere(either, thread[p])
    BY <1>1, <1>5, <2>2 DEF Elsewhere
  <2>4. QED
    BY <2>1, <2>3, OwnElsewhere
<1>6. QED
  BY <1>2, <1>3, <1>4, <1>5

LEMMA UnassignFields ==
    ASSUME NEW ts \in [Tasks -> Task], NEW t \in Tasks, NEW us, us = UnassignTask(ts, t)
    PROVE  /\ us[t].status = "ready" /\ us[t].node = None
           /\ \A u \in Tasks \ {t} : us[u] = ts[u]
<1>1. us = [ts EXCEPT ![t] = [ts[t] EXCEPT !.status = "ready", !.node = None]]
  BY DEF UnassignTask
<1>2. ts[t] \in Task
  OBVIOUS
<1>3. QED
  BY <1>1, <1>2 DEF Task

\* A status other than absent.
LEMMA StatusUpholds ==
    ASSUME Shared, UNCHANGED <<leases, index>>, LoopElsewhere, NEW t \in Tasks,
           NEW s, s # "absent", tasks' = SetTaskStatus(tasks, t, s)
    PROVE  Upheld
<1>1. /\ tasks'[t].status = s /\ tasks'[t].node = tasks[t].node
      /\ \A u \in Tasks \ {t} : tasks'[u] = tasks[u]
  BY SharedHas, StatusFields
<1>2. QED
  BY <1>1, SharedHas, WriteUpholds DEF Exclusive

LEMMA UnmovedUpholds ==
    ASSUME Shared, UNCHANGED storeVars, LoopElsewhere
    PROVE  Upheld
BY SharedHas, WriteUpholds DEF Exclusive, storeVars

\* The steps of recovery and scheduling that are the same on either thread.
LEMMA CommonUpholds ==
    ASSUME Shared, NEW p \in Threads,
           \/ ReadOnline(p) \/ AssignReady(p) \/ ListExpired(p) \/ Verify(p) \/ MarkFailed(p)
    PROVE  Upheld
<1>1. CASE ReadOnline(p)
  <2> DEFINE seen == {n \in Nodes : nodes[n].status = "online"}
             th == [thread[p] EXCEPT !.pc = "assign", !.online = seen]
  <2>1. CASE seen = {}
    BY <1>1, <2>1, LeavesElsewhere, UnmovedUpholds DEF ReadOnline
  <2>2. CASE seen # {}
    <3>1. thread' = [thread EXCEPT ![p] = th] /\ UNCHANGED storeVars
      BY <1>1, <2>2 DEF ReadOnline
    <3>2. thread[p] \in Local
      BY SharedHas DEF Fits
    <3> HIDE DEF seen
    <3>3. th.pc = "assign" /\ th.left = thread[p].left /\ th.freed = thread[p].freed
      BY <3>2 DEF Local
    <3> HIDE DEF th
    <3>4. LoopElsewhere
      BY <3>1, <3>3, OwnElsewhere DEF Elsewhere
    <3>5. QED
      BY <3>1, <3>4, UnmovedUpholds
  <2>3. QED
    BY <2>1, <2>2
<1>2. CASE AssignReady(p)
  <2>1. /\ tasks' = SchedulePending(tasks, Seen(p)) /\ UNCHANGED <<leases, index>>
        /\ LoopElsewhere
    BY <1>2, LeavesElsewhere DEF AssignReady, OnlyTasks
  <2>2. \A t \in Tasks : \/ tasks'[t] = tasks[t]
                         \/ tasks'[t].status = "running" /\ tasks'[t].node \in Nodes
    BY <2>1, SharedHas, ScheduledFields
  <2>3. QED
    BY <2>1, <2>2, SharedHas, WriteUpholds, NoneAssumption DEF Exclusive
<1>3. CASE ListExpired(p)
  BY <1>3, LeavesElsewhere, UnmovedUpholds DEF ListExpired
<1>4. NextOrphan(p) => LoopElsewhere
  BY LeavesElsewhere DEF NextOrphan
<1>5. CASE Verify(p)
  BY <1>4, <1>5, LeavesElsewhere, UnmovedUpholds DEF Verify
<1>6. CASE MarkFailed(p)
  <2>1. Orphan(p) \in Tasks
    BY <1>6, SharedHas, OrphanIsTask DEF MarkFailed, At, Fits, OfOrphan
  <2>2. QED
    BY <1>4, <1>6, <2>1, StatusUpholds DEF MarkFailed, OnlyTasks
<1>7. QED
  BY <1>1, <1>2, <1>3, <1>5, <1>6

\* Taking the assignee of an orphan: on the loop its lease was the only one.
LEMMA UnassignUpholds ==
    ASSUME Shared, NEW p \in Threads, Unassign(p), p = "auto" => Timely
    PROVE  Upheld
<1> DEFINE old == thread[p]
           t == Orphan(p)
           th == [old EXCEPT !.pc = "online", !.then = "verify"]
<1>1. /\ old.pc = "unassign" /\ thread' = [thread EXCEPT ![p] = th]
      /\ tasks' = UnassignTask(tasks, t) /\ UNCHANGED <<leases, index>>
  BY DEF Unassign, At, OnlyTasks
<1>2. t \in Tasks /\ Oldest(old.freed) \in old.freed
  BY <1>1, SharedHas, OrphanIsTask DEF Fits, OfOrphan
<1>3. /\ tasks'[t].status = "ready" /\ tasks'[t].node = None
      /\ \A u \in Tasks \ {t} : tasks'[u] = tasks[u]
  BY <1>1, <1>2, SharedHas, UnassignFields
<1>4. th.pc = "online" /\ th.left = old.left /\ th.freed = old.freed
  BY SharedHas DEF Fits, Local
<1> HIDE DEF th
<1>5. LoopElsewhere
  BY <1>1, <1>4, OwnElsewhere DEF Elsewhere
<1>6. Cleared(leases, t) /\ ~(At("loop", "claimLease") /\ T("loop") = t)
  <2>1. CASE p = "loop"
    BY <1>1, <1>2, <2>1, SharedHas DEF Secure, Orphan, At
  <2>2. CASE p = "auto"
    BY <2>2 DEF Timely, LeasesOf, Cleared
  <2>3. QED
    BY <2>1, <2>2 DEF Threads
<1>7. QED
  BY <1>1, <1>3, <1>5, <1>6, SharedHas, WriteUpholds DEF Exclusive

\* Recovery takes leases away, on the loop only ones without a rival.
LEMMA RevocationUpholds ==
    ASSUME Shared, NEW p \in Threads, DetectExpired(p) \/ SnapshotLeases(p) \/ RevokeNext(p)
    PROVE  Upheld
<1> DEFINE old == thread[p]
<1>0. /\ old \in Local /\ old.left \subseteq DOMAIN leases /\ old.freed \subseteq DOMAIN leases
      /\ old.left \in SUBSET Nat /\ (old.pc = "revoke" => old.left # {})
  BY SharedHas DEF Fits, Local
<1>1. ASSUME NEW th, thread' = [thread EXCEPT ![p] = th]
      PROVE  /\ p = "auto" => LoopElsewhere
             /\ p = "loop" => thread'["loop"] = th
  BY <1>1, SharedHas, OwnFields DEF LoopElsewhere
<1>2. CASE DetectExpired(p)
  <2> DEFINE th == [Idle EXCEPT !.pc = "listExpired"]
  <2>1. leases' = ExpireDue(leases) /\ UNCHANGED <<tasks, nodes, index, syncVersion>>
        /\ thread' = [thread EXCEPT ![p] = th]
    BY <1>2 DEF DetectExpired, Begin
  <2>2. Elsewhere(th, old)
    BY DEF Elsewhere, Idle
  <2>3. Shrinks
    BY <2>1, SharedHas, ScanStep DEF Shrinks
  <2> HIDE DEF th
  <2>4. QED
    BY <2>1, <2>2, <2>3, OwnElsewhere, ShrinkUpholds
<1>3. CASE SnapshotLeases(p)
  <2>1. leases' = ExpireDue(leases) /\ UNCHANGED <<tasks, nodes, index, syncVersion>>
    BY <1>3 DEF SnapshotLeases
  <2>2. Shrinks
    BY <2>1, SharedHas, ScanStep DEF Shrinks
  <2>3. PICK n \in old.targets :
          LET N == old.targets \ {n}
              held == {l \in ActiveLeases(leases') : leases[l].node = n}
          IN IF held = {} THEN Continue(p, {}, N)
             ELSE thread' = [thread EXCEPT ![p].pc = "revoke",
                                           ![p].left = held, ![p].targets = N]
    BY <1>3 DEF SnapshotLeases
  <2> DEFINE N == old.targets \ {n}
             held == {l \in ActiveLeases(leases') : leases[l].node = n}
             th == [old EXCEPT !.pc = "revoke", !.left = held, !.targets = N]
  <2>4. CASE held = {}
    BY <2>2, <2>3, <2>4, LeavesElsewhere, ShrinkUpholds
  <2>5. CASE held # {}
    <3>1. thread' = [thread EXCEPT ![p] = th]
      BY <2>3, <2>5
    <3>2. held \subseteq ActiveLeases(leases')
      OBVIOUS
    <3> HIDE DEF held
    <3>3. th.pc = "revoke" /\ th.left = held /\ th.freed = old.freed
      BY <1>0 DEF Local
    <3> HIDE DEF th
    <3>4. CASE p = "auto"
      BY <1>1, <2>2, <3>1, <3>4, ShrinkUpholds
    <3>5. CASE p = "loop"
      <4>1. thread'["loop"] = th
        BY <1>1, <3>1, <3>5
      <4>2. Exclusive(tasks', leases', index') /\ Secure(thread["loop"], tasks', leases')
        BY <2>2, ShrinkUpholds
      <4>3. \A l \in held : OnlyLease(leases', l)
        BY <3>2, <4>2 DEF Exclusive, OnlyLease
      <4>4. QED
        BY <3>3, <3>5, <4>1, <4>2, <4>3 DEF Upheld, Secure
    <3>6. QED
      BY <3>4, <3>5 DEF Threads
  <2>6. QED
    BY <2>4, <2>5
<1>4. CASE RevokeNext(p)
  <2> DEFINE l == Oldest(old.left)
             step == IF old.left = {l} THEN "unassign" ELSE "revoke"
             th == [old EXCEPT !.left = @ \ {l}, !.freed = @ \cup {l}, !.pc = step]
  <2>1. /\ old.pc = "revoke" /\ Api!Revoke({l}) /\ UNCHANGED <<tasks, nodes, syncVersion>>
        /\ thread' = [thread EXCEPT ![p] = th]
    BY <1>4 DEF RevokeNext, At, OnlyLeases
  <2>2. l \in old.left
    BY <1>0, <2>1, OldestIn
  <2>3. step \in {"unassign", "revoke"}
    OBVIOUS
  <2>4. /\ Api!LeaseStep /\ DOMAIN leases' = DOMAIN leases
        /\ ActiveLeases(leases') = ActiveLeases(leases) \ {l}
    BY <2>1, SharedHas, RevokeStep
  <2>5. \A t \in Tasks : index'[t] \in {0, index[t]}
    BY <2>1 DEF Api!Revoke, Api!DropIndex
  <2>6. Shrinks
    BY <2>1, <2>4, <2>5 DEF Shrinks
  <2> HIDE DEF l, step
  <2>7. th.pc = step /\ th.left = old.left \ {l} /\ th.freed = old.freed \cup {l}
    BY <1>0 DEF Local
  <2> HIDE DEF th
  <2>8. CASE p = "auto"
    BY <1>1, <2>1, <2>6, <2>8, ShrinkUpholds
  <2>9. CASE p = "loop"
    <3>1. thread'["loop"] = th
      BY <1>1, <2>1, <2>9
    <3>2. Exclusive(tasks', leases', index') /\ Secure(old, tasks', leases')
      BY <2>6, <2>9, ShrinkUpholds
    <3>3. leases'[l].task = leases[l].task /\ OnlyLease(leases, l)
      BY <1>0, <2>2, <2>4, <2>9, SharedHas DEF Secure, Api!LeaseStep
    <3>4. Cleared(leases', leases'[l].task)
      BY <2>4, <3>3 DEF OnlyLease, Cleared, ActiveLeases, Api!LeaseStep
    <3>5. QED
      BY <2>3, <2>7, <3>1, <3>2, <3>4 DEF Upheld, Secure
  <2>10. QED
    BY <2>8, <2>9 DEF Threads
<1>5. QED
  BY <1>2, <1>3, <1>4

\* Claims.
LEMMA ClaimUpholds ==
    ASSUME Shared, ClaimHolder("loop") \/ ClaimRun("loop") \/ ClaimAssign("loop") \/ ClaimLease("loop")
    PROVE  Upheld
<1> DEFINE old == thread["loop"]
           new == thread'["loop"]
           t == old.task
<1>1. Types /\ T("loop") = t
  BY SharedHas DEF T
<1>2. t \in Tasks /\ old.node \in Nodes
  BY SharedHas DEF ClaimHolder, ClaimRun, ClaimAssign, ClaimLease, At, Fits, OfTask, OfClaim
<1>3. ASSUME NEW step, Goto("loop", step)
      PROVE  new.pc = step /\ new.task = t /\ new.left = old.left /\ new.freed = old.freed
  BY <1>1, <1>3, SharedHas, GotoFields
<1>4. /\ \A l \in old.left : OnlyLease(leases, l)
      /\ \A l \in old.freed : Cleared(leases, leases[l].task)
  BY SharedHas DEF Secure
<1>5. CASE ClaimHolder("loop")
  <2>1. UNCHANGED <<tasks, leases, index>> /\ UNCHANGED storeVars
    BY <1>5 DEF ClaimHolder, storeVars
  <2>2. CASE tasks[t].node = None
    <3>1. Goto("loop", "claimRun")
      BY <1>1, <1>5, <2>2 DEF ClaimHolder
    <3>2. Cleared(leases, t)
      BY <2>2, SharedHas DEF Exclusive, Cleared
    <3>3. Secure(new, tasks', leases')
      BY <1>3, <1>4, <2>1, <3>1, <3>2 DEF Secure
    <3>4. QED
      BY <2>1, <3>3, SharedHas DEF Upheld
  <2>3. CASE tasks[t].node # None
    BY <1>1, <1>5, <2>1, <2>3, SharedHas, LeavesElsewhere, UnmovedUpholds DEF ClaimHolder
  <2>4. QED
    BY <2>2, <2>3
<1>6. CASE ClaimRun("loop")
  <2>1. /\ old.pc = "claimRun" /\ Goto("loop", "claimAssign") /\ UNCHANGED <<leases, index>>
        /\ tasks' = SetTaskStatus(tasks, t, "running")
    BY <1>1, <1>6 DEF ClaimRun, At, OnlyTasks
  <2>2. /\ tasks'[t].status = "running" /\ tasks'[t].node = tasks[t].node
        /\ \A u \in Tasks \ {t} : tasks'[u] = tasks[u]
    BY <1>2, <2>1, SharedHas, StatusFields
  <2>3. Exclusive(tasks', leases, index)
    <3>1. \A u \in Tasks : tasks'[u].status = "absent" => tasks'[u].node = None
      BY <2>2, SharedHas DEF Exclusive
    <3>2. \A u \in Tasks : tasks'[u].node = tasks[u].node
      BY <2>2
    <3>3. QED
      BY <3>1, <3>2, SharedHas, TasksKeep
  <2>4. Cleared(leases, t)
    BY <2>1, SharedHas DEF Secure
  <2>5. Secure(new, tasks', leases)
    BY <1>3, <1>4, <2>1, <2>2, <2>4 DEF Secure
  <2>6. QED
    BY <2>1, <2>3, <2>5 DEF Upheld
<1>7. CASE ClaimAssign("loop")
  <2>1. /\ old.pc = "claimAssign" /\ Goto("loop", "claimLease") /\ UNCHANGED <<leases, index>>
        /\ tasks' = SetAssignee(tasks, t, old.node)
    BY <1>1, <1>7 DEF ClaimAssign, At, OnlyTasks
  <2>2. /\ tasks'[t].status = tasks[t].status /\ tasks'[t].node = old.node
        /\ \A u \in Tasks \ {t} : tasks'[u] = tasks[u]
    BY <1>2, <2>1, SharedHas, HolderFields
  <2>3. Cleared(leases, t) /\ tasks[t].status # "absent"
    BY <2>1, SharedHas DEF Secure
  <2>4. Exclusive(tasks', leases, index)
    <3>1. \A u \in Tasks : tasks'[u].status = "absent" => tasks'[u].node = None
      BY <2>2, <2>3, SharedHas DEF Exclusive
    <3>2. \A u \in Tasks : tasks'[u].node = None => tasks[u].node = None
      BY <1>2, <2>2, NoneAssumption
    <3>3. QED
      BY <3>1, <3>2, SharedHas, TasksKeep
  <2>5. Secure(new, tasks', leases)
    BY <1>2, <1>3, <1>4, <2>1, <2>2, <2>3, NoneAssumption DEF Secure
  <2>6. QED
    BY <2>1, <2>4, <2>5 DEF Upheld
<1>8. CASE ClaimLease("loop")
  <2> DEFINE k == Len(leases) + 1
  <2>1. /\ old.pc = "claimLease" /\ new = Idle /\ tasks' = tasks
        /\ leases' = CreateLease(leases, t, old.node) /\ index' = [index EXCEPT ![t] = k]
    BY <1>1, <1>8, SharedHas, OwnFields DEF ClaimLease, At, OnlyLeases, Finish
  <2>2. tasks[t].node # None /\ Cleared(leases, t)
    BY <2>1, SharedHas DEF Secure
  <2>3. /\ DOMAIN leases' = DOMAIN leases \cup {k}
        /\ \A l \in DOMAIN leases : leases'[l] = leases[l]
        /\ leases'[k].task = t
        /\ ActiveLeases(leases') = ActiveLeases(leases) \cup {k}
    <3>1. leases' = Proved!CreateLease(leases, t, old.node) /\ Proved!TypeOK
      BY <2>1, SharedHas, SameLeases, SameTypes
    <3>2. /\ DOMAIN leases' = DOMAIN leases \cup {k}
          /\ \A l \in DOMAIN leases : leases'[l] = leases[l]
          /\ leases'[k].task = t
          /\ Proved!ActiveLeases(leases') = Proved!ActiveLeases(leases) \cup {k}
      BY <1>2, <3>1, Assumptions, Proved!CreateKeeps
    <3>3. QED
      BY <3>2, SameLeases
  <2>4. \A l \in ActiveLeases(leases) : leases'[l] = leases[l]
    BY <2>3 DEF ActiveLeases
  <2> HIDE DEF k
  <2>5. Exclusive(tasks', leases', index')
    <3>1. \A u \in Tasks : index'[u] # 0
             => index'[u] \in DOMAIN leases' /\ leases'[index'[u]].task = u
      BY <1>2, <2>1, <2>3, SharedHas DEF Exclusive, StoreTypeOK
    <3>2. \A l, m \in ActiveLeases(leases') : leases'[l].task = leases'[m].task => l = m
      BY <2>2, <2>3, <2>4, SharedHas DEF Exclusive, Cleared
    <3>3. \A l \in ActiveLeases(leases') : tasks'[leases'[l].task].node # None
      BY <2>1, <2>2, <2>3, <2>4, SharedHas DEF Exclusive
    <3>4. QED
      BY <2>1, <3>1, <3>2, <3>3, SharedHas DEF Exclusive
  <2>6. Secure(Idle, tasks', leases')
    BY DEF Secure, Idle
  <2>7. QED
    BY <2>1, <2>5, <2>6 DEF Upheld
<1>9. QED
  BY <1>5, <1>6, <1>7, <1>8

\* Releases and completions.  What a release has found is all there is to
\* revoke; what a completion has found does not matter here.
LEMMA ReleaseUpholds ==
    ASSUME Shared, \/ FindLease("loop") \/ RevokeFound("loop") \/ ReleaseReady("loop")
                   \/ ReleaseHolder("loop") \/ CompleteMark("loop")
    PROVE  Upheld
<1> DEFINE old == thread["loop"]
           new == thread'["loop"]
           t == old.task
<1>1. Types /\ T("loop") = t
  BY SharedHas DEF T
<1>2. /\ t \in Tasks /\ old \in Local
      /\ old.pc \in {"findLease", "revokeFound"} => old.then \in {"release", "complete"}
  BY SharedHas
  DEF FindLease, RevokeFound, ReleaseReady, ReleaseHolder, CompleteMark, At, Fits, OfTask
<1>3. ASSUME NEW step, Goto("loop", step)
      PROVE  /\ new.pc = step /\ new.task = t /\ new.then = old.then /\ new.lease = old.lease
             /\ new.left = old.left /\ new.freed = old.freed
  BY <1>1, <1>3, SharedHas, GotoFields
<1>4. CASE FindLease("loop")
  <2> DEFINE l == LeaseByTask(leases, index, t)
             step == IF l = 0 THEN old.then ELSE "revokeFound"
             th == [old EXCEPT !.pc = step, !.lease = l]
  <2>1. old.pc = "findLease" /\ UNCHANGED <<tasks, leases, index>>
    BY <1>4 DEF FindLease, At, storeVars
  <2>2. thread' = [thread EXCEPT !["loop"] = th]
    BY <1>1, <1>4 DEF FindLease
  <2>3. \A m \in ActiveLeases(leases) : leases[m].task = t => m = l /\ l # 0
    BY <1>2, SharedHas, FoundIsAll
  <2> HIDE DEF l
  <2>4. step \in {"release", "complete", "revokeFound"} /\ (l = 0 \/ step = "revokeFound")
    BY <1>2, <2>1
  <2> HIDE DEF step
  <2>5. /\ th.pc = step /\ th.task = t /\ th.lease = l
        /\ th.left = old.left /\ th.freed = old.freed
    BY <1>2 DEF Local
  <2> HIDE DEF th
  <2>6. new = th
    BY <1>1, <2>2, SharedHas, OwnFields
  <2>7. Secure(th, tasks, leases)
    BY <2>1, <2>3, <2>4, <2>5, SharedHas DEF Secure, Cleared
  <2>8. QED
    BY <2>1, <2>6, <2>7, SharedHas DEF Upheld
<1>5. CASE RevokeFound("loop")
  <2>1. /\ old.pc = "revokeFound" /\ Api!Revoke({old.lease}) /\ Goto("loop", old.then)
        /\ UNCHANGED <<tasks, nodes, syncVersion>>
    BY <1>5 DEF RevokeFound, At, OnlyLeases
  <2>2. /\ Api!LeaseStep /\ DOMAIN leases' = DOMAIN leases
        /\ ActiveLeases(leases') = ActiveLeases(leases) \ {old.lease}
    BY <2>1, SharedHas, RevokeStep
  <2>3. \A u \in Tasks : index'[u] \in {0, index[u]}
    BY <2>1 DEF Api!Revoke, Api!DropIndex
  <2>4. Shrinks
    BY <2>1, <2>2, <2>3 DEF Shrinks
  <2>5. Exclusive(tasks', leases', index') /\ Secure(old, tasks', leases')
    BY <2>4, ShrinkUpholds
  <2>6. CASE old.then = "complete"
    BY <2>1, <2>4, <2>6, SharedHas, LeavesElsewhere, ShrinkUpholds
  <2>7. CASE old.then = "release"
    <3>1. \A l \in ActiveLeases(leases) : leases[l].task = t => l = old.lease
      BY <2>1, <2>7, SharedHas DEF Secure
    <3>2. Cleared(leases', t)
      BY <2>2, <3>1 DEF Cleared, ActiveLeases, Api!LeaseStep
    <3>3. Secure(new, tasks', leases')
      BY <1>3, <2>1, <2>5, <2>7, <3>2 DEF Secure
    <3>4. QED
      BY <2>5, <3>3 DEF Upheld
  <2>8. QED
    BY <1>2, <2>1, <2>6, <2>7
<1>6. CASE ReleaseReady("loop")
  <2>1. /\ old.pc = "release" /\ Goto("loop", "releaseHolder") /\ UNCHANGED <<leases, index>>
        /\ tasks' = SetTaskStatus(tasks, t, "ready")
    BY <1>1, <1>6 DEF ReleaseReady, At, OnlyTasks
  <2>2. /\ tasks'[t].status = "ready" /\ tasks'[t].node = tasks[t].node
        /\ \A u \in Tasks \ {t} : tasks'[u] = tasks[u]
    BY <1>2, <2>1, SharedHas, StatusFields
  <2>3. Exclusive(tasks', leases, index)
    <3>1. \A u \in Tasks : tasks'[u].status = "absent" => tasks'[u].node = None
      BY <2>2, SharedHas DEF Exclusive
    <3>2. \A u \in Tasks : tasks'[u].node = tasks[u].node
      BY <2>2
    <3>3. QED
      BY <3>1, <3>2, SharedHas, TasksKeep
  <2>4. Secure(new, tasks', leases)
    BY <1>3, <2>1, SharedHas DEF Secure
  <2>5. QED
    BY <2>1, <2>3, <2>4 DEF Upheld
<1>7. CASE ReleaseHolder("loop")
  <2>1. /\ old.pc = "releaseHolder" /\ Finish("loop") /\ UNCHANGED <<leases, index>>
        /\ tasks' = SetAssignee(tasks, t, None)
    BY <1>1, <1>7 DEF ReleaseHolder, At, OnlyTasks
  <2>2. /\ tasks'[t].status = tasks[t].status /\ tasks'[t].node = None
        /\ \A u \in Tasks \ {t} : tasks'[u] = tasks[u]
    BY <1>2, <2>1, SharedHas, HolderFields
  <2>3. Cleared(leases, t)
    BY <2>1, SharedHas DEF Secure
  <2>4. LoopElsewhere
    BY <2>1, SharedHas, LeavesElsewhere
  <2>5. QED
    BY <2>1, <2>2, <2>3, <2>4, SharedHas, WriteUpholds DEF Exclusive, At
<1>8. CASE CompleteMark("loop")
  <2> DEFINE th == [old EXCEPT !.pc = "dependents", !.then = "online"]
  <2>1. /\ thread' = [thread EXCEPT !["loop"] = th] /\ UNCHANGED <<leases, index>>
        /\ tasks' = SetTaskStatus(tasks, t, "completed")
    BY <1>1, <1>8 DEF CompleteMark, OnlyTasks
  <2>2. th.pc = "dependents" /\ th.left = old.left /\ th.freed = old.freed
    BY <1>2 DEF Local
  <2> HIDE DEF th
  <2>3. LoopElsewhere
    BY <2>1, <2>2, SharedHas, OwnElsewhere DEF Elsewhere
  <2>4. QED
    BY <1>2, <2>1, <2>3, StatusUpholds
<1>9. QED
  BY <1>4, <1>5, <1>6, <1>7, <1>8

\* Promotions and the marking of dependents.
LEMMA PromoteUpholds ==
    ASSUME Shared, \/ PromoteAll("loop") \/ AdvanceReady("loop") \/ ListDependents("loop")
                   \/ Judges("loop") \/ MarkDependent("loop") \/ Visited("loop")
    PROVE  Upheld
<1> DEFINE old == thread["loop"]
<1>1. old \in Local /\ T("loop") = old.task /\ "loop" \in Threads
  BY SharedHas DEF Fits, T
<1>3. CASE PromoteAll("loop")
  <2>1. tasks' = TriggerPendingTasks(tasks) /\ UNCHANGED <<leases, index>> /\ LoopElsewhere
    BY <1>1, <1>3, LeavesElsewhere DEF PromoteAll, OnlyTasks
  <2>2. \A t \in Tasks : /\ tasks'[t].node = tasks[t].node
                         /\ tasks'[t] = tasks[t] \/ tasks'[t].status = "ready"
    BY <2>1, SharedHas, PromotedFields
  <2>3. QED
    BY <2>1, <2>2, SharedHas, WriteUpholds DEF Exclusive
<1>4. CASE AdvanceReady("loop")
  <2>1. old.task \in Tasks
    BY <1>4, SharedHas DEF AdvanceReady, At, Fits, OfTask
  <2>2. QED
    BY <1>1, <1>4, <2>1, LeavesElsewhere, StatusUpholds DEF AdvanceReady, OnlyTasks
<1>5. CASE ListDependents("loop")
  <2> DEFINE th == [old EXCEPT !.pc = "visit", !.waiting = Dependents(tasks, old.task)]
  <2>1. thread' = [thread EXCEPT !["loop"] = th] /\ UNCHANGED storeVars
    BY <1>1, <1>5 DEF ListDependents
  <2>2. th.pc = "visit" /\ th.left = old.left /\ th.freed = old.freed
    BY <1>1 DEF Local
  <2> HIDE DEF th
  <2>3. LoopElsewhere
    BY <1>1, <2>1, <2>2, OwnElsewhere DEF Elsewhere
  <2>4. QED
    BY <2>1, <2>3, UnmovedUpholds
<1>6. CASE Judges("loop")
  <2>1. PICK th \in Local : thread' = [thread EXCEPT !["loop"] = th] /\ JudgedAs(th, old)
    BY <1>1, <1>6, SharedHas, JudgesFacts
  <2>2. UNCHANGED storeVars
    BY <1>1, <1>6, SharedHas, JudgesFacts
  <2>3. Elsewhere(th, old)
    BY <2>1 DEF JudgedAs, Elsewhere
  <2>4. LoopElsewhere
    BY <1>1, <2>1, <2>3, OwnElsewhere
  <2>5. QED
    BY <2>2, <2>4, UnmovedUpholds
<1>7. CASE MarkDependent("loop")
  <2>1. old.dep \in Tasks /\ old.mark # "absent"
    BY <1>1, <1>7, SharedHas DEF MarkDependent, At, Fits, Local
  <2>2. QED
    BY <1>1, <1>7, <2>1, LeavesElsewhere, StatusUpholds DEF MarkDependent, OnlyTasks
<1>8. CASE Visited("loop")
  BY <1>1, <1>8, LeavesElsewhere, UnmovedUpholds DEF Visited
<1>9. QED
  BY <1>3, <1>4, <1>5, <1>6, <1>7, <1>8

LEMMA RequestUpholds ==
    ASSUME Shared, Request
    PROVE  Upheld
<1>1. ASSUME NEW local, Begin("loop", local), local.left = {}, local.freed = {},
             local.pc \in {"promoteAll", "advance", "claimHolder", "findLease", "dependents", "snapshot"}
      PROVE  LoopElsewhere
  BY <1>1, SharedHas, OwnElsewhere DEF Begin, Elsewhere
<1>2. ASSUME NEW t \in Tasks, NEW req \in CapSets, SubmitTask(t, req)
      PROVE  Upheld
  <2>1. /\ tasks[t].status = "absent" /\ tasks' = CreateTask(tasks, t, req)
        /\ UNCHANGED <<leases, index>>
    BY <1>2 DEF SubmitTask, Known, OnlyTasks
  <2>2. /\ tasks'[t].status = "pending" /\ tasks'[t].node = None
        /\ \A u \in Tasks \ {t} : tasks'[u] = tasks[u]
    BY <2>1, SharedHas DEF CreateTask
  <2>3. tasks[t].node = None
    BY <2>1, SharedHas DEF Exclusive
  <2>4. LoopElsewhere
    BY <1>1, <1>2 DEF SubmitTask, Idle
  <2>5. QED
    BY <2>1, <2>2, <2>3, <2>4, SharedHas, WriteUpholds DEF Exclusive
<1>3. ASSUME NEW n \in Nodes, NEW caps \in CapSets, PatchCapabilities(n, caps)
      PROVE  Upheld
  <2>1. UNCHANGED <<tasks, leases, index>> /\ LoopElsewhere
    BY <1>1, <1>3 DEF PatchCapabilities, Idle
  <2>2. QED
    BY <2>1, SharedHas, WriteUpholds DEF Exclusive
<1>4. ASSUME NEW t \in Tasks, FailTask(t)
      PROVE  Upheld
  <2>1. tasks' = SetTaskStatus(tasks, t, "failed") /\ UNCHANGED <<leases, index>> /\ LoopElsewhere
    BY <1>1, <1>4 DEF FailTask, OnlyTasks, Idle
  <2>2. QED
    BY <2>1, StatusUpholds
<1>5. CASE \/ ScheduleTrigger
           \/ \E t \in Tasks : ManualAdvance(t) \/ CompleteTask(t)
           \/ \E t \in Tasks, n \in Nodes : ClaimTask(t, n) \/ ReleaseTask(t, n)
           \/ \E n \in Nodes : TriggerRecovery(n)
  BY <1>1, <1>5, UnmovedUpholds
  DEF ScheduleTrigger, ManualAdvance, CompleteTask, ClaimTask, ReleaseTask, TriggerRecovery, Idle
<1>6. CASE DetectExpired("loop")
  BY <1>6, SharedHas, RevocationUpholds
<1>7. QED
  BY <1>2, <1>3, <1>4, <1>5, <1>6 DEF Request

\* Requests of a single critical section, and what runs in the background.
LEMMA ShortUpholds ==
    ASSUME Shared, ShortRequest \/ Background
    PROVE  Upheld
<1>1. thread' = thread
  BY ShortSteps
<1>2. CASE Shrinks
  BY <1>1, <1>2, ShrinkUpholds DEF LoopElsewhere
<1>3. CASE /\ Free("loop")
           /\ \/ \E t \in Tasks, D \in DepSets : Api!SetTaskDependencies(t, D)
              \/ \E t \in Tasks : Api!UnblockTask(t)
              \/ Api!SyncNext
  <2>1. UNCHANGED <<leases, index>>
    BY <1>3 DEF Api!SetTaskDependencies, Api!UnblockTask, Api!SyncNext, Api!SyncReceive,
       Api!SyncVersionOnly
  <2>2. Exclusive(tasks', leases', index')
    <3>1. Proved!LeaseInv /\ [Proved!PeerNext]_Proved!storeVars
      BY SharedHas, ExclusiveIs, ShortSteps
    <3>2. Proved!LeaseInv'
      BY <3>1, Assumptions, Proved!LeaseInvStep
    <3>3. QED
      BY <3>2, ExclusiveAfter
  <2>3. Elsewhere(thread["loop"], thread["loop"])
    BY <1>3 DEF Free, At, Elsewhere
  <2>4. Secure(thread["loop"], tasks', leases)
    BY <2>3, SharedHas, SecureElsewhere
  <2>5. QED
    BY <1>1, <2>1, <2>2, <2>4 DEF Upheld
<1>4. QED
  BY <1>2, <1>3, SharedHas, BackgroundShrinks DEF ShortRequest

LEMMA SharedStep ==
    ASSUME Shared, [Next]_vars, Unassign("auto") => Timely
    PROVE  Shared'
<1>1. Types'
  BY SharedHas, NextTypes
<1>2. Upheld
  <2>1. CASE UNCHANGED vars
    <3>1. UNCHANGED storeVars /\ LoopElsewhere
      BY <2>1 DEF vars, LoopElsewhere
    <3>2. QED
      BY <3>1, UnmovedUpholds
  <2>2. ASSUME NEW p \in Threads, RecoveryStep(p)
        PROVE  Upheld
    BY <2>2, CommonUpholds, RevocationUpholds, UnassignUpholds DEF RecoveryStep
  <2>3. CASE Handle("loop")
    BY <2>3, ClaimUpholds, ReleaseUpholds, PromoteUpholds DEF Handle, Judges
  <2>4. CASE DetectExpired("auto")
    BY <2>4, SharedHas, RevocationUpholds
  <2>5. QED
    BY <2>1, <2>2, <2>3, <2>4, SharedHas, RequestUpholds, ShortUpholds DEF Next, Step
<1>3. QED
  BY <1>1, <1>2 DEF Shared, Upheld

LEMMA SharedInit == Init => Shared
<1> SUFFICES ASSUME Init PROVE Shared
  OBVIOUS
<1>1. Types /\ thread["loop"] = Idle
  BY InitTypes DEF Init, Threads
<1>2. Exclusive(tasks, leases, index)
  BY DEF Init, StoreInit, Exclusive, NoTask, ActiveLeases
<1>3. Secure(Idle, tasks, leases)
  BY DEF Secure, Idle
<1>4. QED
  BY <1>1, <1>2, <1>3 DEF Shared

LEMMA TimelyStep ==
    ASSUME Shared, [Next]_vars, [Unassign("auto") => Timely]_vars
    PROVE  Shared'
<1>1. ASSUME UNCHANGED vars, Unassign("auto")
      PROVE  FALSE
  <2> DEFINE th == [thread["auto"] EXCEPT !.pc = "online", !.then = "verify"]
  <2>1. thread' = [thread EXCEPT !["auto"] = th] /\ thread["auto"] \in Local
    BY <1>1, SharedHas DEF Unassign, Fits
  <2>2. th.pc = "online"
    BY <2>1 DEF Local
  <2> HIDE DEF th
  <2>3. thread'["auto"] = th
    BY <1>1, <2>1, SharedHas, OwnFields
  <2>4. QED
    BY <1>1, <2>2, <2>3 DEF Unassign, At, vars
<1>2. QED
  BY <1>1, SharedStep

\* With the recovery thread, a task gets two active leases, or one while it has
\* no assignee, in no other way than this: the recovery thread unassigned it
\* though it had been claimed since its lease was revoked.  No other
\* interleaving of recovery with a claim, a release, a completion, another
\* recovery, the scheduler or a message of a peer does it.
THEOREM TimelyExclusive ==
    Spec /\ TimelyRecovery => [](AtMostOneLease /\ UnassignedHoldsNoLease)
<1>1. Shared => AtMostOneLease /\ UnassignedHoldsNoLease
  BY SharedHas, ExclusiveIs DEF AtMostOneLease, UnassignedHoldsNoLease
<1>2. Shared /\ [Next]_vars /\ [Unassign("auto") => Timely]_vars => Shared'
  BY TimelyStep
<1>3. QED
  BY <1>1, <1>2, SharedInit, PTL DEF Spec, TimelyRecovery

\* So it is with the ownership specification: with the recovery thread every
\* critical section is a step of it, untimely unassignments apart.
THEOREM TimelyImplementsOwnership == Spec /\ TimelyRecovery => ImplementsOwnership
<1>1. Shared /\ [Next]_vars /\ [Unassign("auto") => Timely]_vars
         => Shared' /\ [Api!Ownership!Next]_Api!heldBy
  <2> SUFFICES ASSUME Shared, [Next]_vars, [Unassign("auto") => Timely]_vars
               PROVE  Shared' /\ [Api!Ownership!Next]_Api!heldBy
    OBVIOUS
  <2>1. Shared'
    BY TimelyStep
  <2>2. QED
    BY <2>1, OwnershipStep DEF Shared
<1>2. QED
  BY <1>1, OwnershipInit, SharedInit, PTL DEF Spec, TimelyRecovery, ImplementsOwnership,
     Api!ImplementsOwnership, Api!Ownership!Spec


-----------------------------------------------------------------------------
(* With recovery on two threads: each works on leases of its own.          *)

\* A handler revokes the lease of the task it frees, and the recovery runs
\* reschedule only tasks whose lease they have revoked, for good.
RightLeases ==
    /\ Api!IndexNamesTask
    /\ \A p \in Threads :
          /\ \A l \in thread[p].freed : leases[l].status = "revoked"
          /\ At(p, "revokeFound") =>
                thread[p].lease \in DOMAIN leases /\ leases[thread[p].lease].task = T(p)

\* th asks for no more than old.
Modest(th, old) == th.freed \subseteq old.freed /\ th.pc # "revokeFound"

Modestly(p) == \E th : thread' = [thread EXCEPT ![p] = th] /\ Modest(th, thread[p])

LEMMA IndexKept ==
    ASSUME Api!IndexNamesTask, Api!LeaseStep, \A t \in Tasks : index'[t] \in {0, index[t]}
    PROVE  Api!IndexNamesTask'
BY DEF Api!IndexNamesTask, Api!LeaseIds, Api!LeaseStep

LEMMA RightOwn ==
    ASSUME Types, RightLeases, Api!LeaseStep, Api!IndexNamesTask', NEW p \in Threads, NEW th,
           thread' = [thread EXCEPT ![p] = th],
           \A l \in th.freed : l \in thread[p].freed \/ leases'[l].status = "revoked",
           th.pc = "revokeFound" =>
              th.lease \in DOMAIN leases /\ leases[th.lease].task = th.task
    PROVE  RightLeases'
<1>1. thread'[p] = th /\ \A q \in Threads \ {p} : thread'[q] = thread[q]
  BY OwnFields
<1>2. \A q \in Threads : thread[q].freed \subseteq DOMAIN leases
  BY DEF Types, ThreadsFit, Fits
<1>3. \A q \in Threads : \A l \in thread'[q].freed : leases'[l].status = "revoked"
  BY <1>1, <1>2 DEF RightLeases, Api!LeaseStep
<1>4. ASSUME NEW q \in Threads, thread'[q].pc = "revokeFound"
      PROVE  /\ thread'[q].lease \in DOMAIN leases'
             /\ leases'[thread'[q].lease].task = thread'[q].task
  <2>1. thread'[q].lease \in DOMAIN leases /\ leases[thread'[q].lease].task = thread'[q].task
    BY <1>1, <1>4 DEF RightLeases, At, T
  <2>2. QED
    BY <2>1 DEF Api!LeaseStep
<1>5. QED
  BY <1>3, <1>4 DEF RightLeases, At, T

LEMMA RightModest ==
    ASSUME Types, RightLeases, Api!LeaseStep, Api!IndexNamesTask', NEW p \in Threads, Modestly(p)
    PROVE  RightLeases'
<1>1. PICK th : thread' = [thread EXCEPT ![p] = th] /\ Modest(th, thread[p])
  BY DEF Modestly
<1>2. QED
  BY <1>1, RightOwn DEF Modest

LEMMA RightStand ==
    ASSUME Types, RightLeases, Api!LeaseStep, Api!IndexNamesTask', thread' = thread
    PROVE  RightLeases'
BY DEF RightLeases, Api!LeaseStep, Types, ThreadsFit, Fits, At, T

\* The ways a thread goes on.
LEMMA ModestMoves ==
    ASSUME Types, NEW p \in Threads
    PROVE  /\ Finish(p) => Modestly(p)
           /\ \A step : Goto(p, step) /\ step # "revokeFound" => Modestly(p)
           /\ \A scheduled : Return(p, scheduled) => Modestly(p)
           /\ \A F, N : F \subseteq thread[p].freed /\ Continue(p, F, N) => Modestly(p)
<1>1. Modest(Idle, thread[p]) /\ thread[p] \in Local
  BY DEF Modest, Idle, Types, ThreadsFit, Fits
<1>2. Finish(p) => Modestly(p)
  BY <1>1 DEF Finish, Modestly
<1>3. ASSUME NEW step, step # "revokeFound", Goto(p, step)
      PROVE  Modestly(p)
  <2> DEFINE th == [thread[p] EXCEPT !.pc = step]
  <2>1. thread' = [thread EXCEPT ![p] = th]
    BY <1>3 DEF Goto
  <2>2. th.pc = step /\ th.freed = thread[p].freed
    BY <1>1 DEF Local
  <2> HIDE DEF th
  <2>3. Modest(th, thread[p])
    BY <1>3, <2>2 DEF Modest
  <2>4. QED
    BY <2>1, <2>3 DEF Modestly
<1>4. \A scheduled : Return(p, scheduled) => Modestly(p)
  BY <1>2, <1>3 DEF Return
<1>5. ASSUME NEW F, NEW N, F \subseteq thread[p].freed, Continue(p, F, N)
      PROVE  Modestly(p)
  <2> DEFINE local == [Idle EXCEPT !.pc = IF F = {} THEN "snapshot" ELSE "unassign",
                                   !.freed = F, !.targets = N]
             either == IF F = {} /\ N = {} THEN Idle ELSE local
  <2>1. thread' = [thread EXCEPT ![p] = either]
    BY <1>5 DEF Continue
  <2>2. local.pc \in {"snapshot", "unassign"} /\ local.freed = F
    BY DEF Idle
  <2> HIDE DEF local
  <2>3. Modest(either, thread[p])
    BY <1>1, <1>5, <2>2 DEF Modest
  <2>4. QED
    BY <2>1, <2>3 DEF Modestly
<1>6. QED
  BY <1>2, <1>3, <1>4, <1>5

LEMMA IndexRevoked ==
    ASSUME NEW R, Api!Revoke(R)
    PROVE  \A t \in Tasks : index'[t] \in {0, index[t]}
BY DEF Api!Revoke, Api!DropIndex

\* The lease a handler finds is one of its task.
LEMMA FoundNames ==
    ASSUME StoreTypeOK, Api!IndexNamesTask, NEW t \in Tasks,
           NEW l, l = LeaseByTask(leases, index, t), l # 0
    PROVE  l \in DOMAIN leases /\ leases[l].task = t
<1>1. CASE index[t] \in ActiveLeases(leases)
  <2>1. l = index[t]
    BY <1>1 DEF LeaseByTask
  <2>2. QED
    BY <2>1 DEF Api!IndexNamesTask, Api!LeaseIds
<1>2. CASE index[t] \notin ActiveLeases(leases)
  <2> DEFINE first(m) == m \in LeasesOf(leases, t) /\ \A k \in LeasesOf(leases, t) : m <= k
  <2>1. /\ \E m \in LeasesOf(leases, t) : first(m)
        /\ l = CHOOSE m \in LeasesOf(leases, t) : \A k \in LeasesOf(leases, t) : m <= k
    BY <1>2 DEF LeaseByTask
  <2>2. l \in LeasesOf(leases, t)
    BY <2>1
  <2>3. QED
    BY <2>2 DEF LeasesOf, ActiveLeases
<1>3. QED
  BY <1>1, <1>2

LEMMA HandleRight ==
    ASSUME Types, RightLeases, Api!LeaseStep, NEW p \in Threads, Handle(p)
    PROVE  RightLeases'
<1>1. thread[p] \in Local /\ StoreTypeOK
  BY DEF Types, ThreadsFit, Fits
<1>2. ASSUME UNCHANGED <<leases, index>>, Modestly(p)
      PROVE  RightLeases'
  BY <1>2, IndexKept, RightModest DEF RightLeases
<1>3. CASE \/ PromoteAll(p) \/ AdvanceReady(p) \/ ClaimHolder(p) \/ ClaimRun(p) \/ ClaimAssign(p)
           \/ ReleaseReady(p) \/ ReleaseHolder(p) \/ MarkDependent(p) \/ Visited(p)
  BY <1>2, <1>3, ModestMoves
     DEF PromoteAll, AdvanceReady, ClaimHolder, ClaimRun, ClaimAssign, ReleaseReady,
         ReleaseHolder, MarkDependent, Visited, OnlyTasks, storeVars
<1>4. CASE ClaimLease(p)
  <2>1. thread[p].task \in Tasks /\ thread[p].node \in Nodes
    BY <1>4 DEF ClaimLease, At, Types, ThreadsFit, Fits, OfTask, OfClaim
  <2>2. leases \in Seq(Lease) /\ index \in [Tasks -> Nat] /\ Finish(p)
    BY <1>1, <1>4 DEF ClaimLease, StoreTypeOK
  <2> DEFINE new == [task |-> T(p), node |-> thread[p].node, status |-> "active", ttl |-> "left"]
  <2>3. /\ leases' = Append(leases, new) /\ new.task = T(p)
        /\ index' = [index EXCEPT ![T(p)] = Len(leases) + 1]
    BY <1>4 DEF ClaimLease, CreateLease
  <2> HIDE DEF new
  <2>4. /\ Len(leases) + 1 \in DOMAIN leases' /\ leases'[Len(leases) + 1] = new
        /\ \A l \in DOMAIN leases : l \in DOMAIN leases' /\ leases'[l] = leases[l]
    BY <2>2, <2>3
  <2>5. Api!IndexNamesTask'
    BY <2>2, <2>3, <2>4 DEF RightLeases, Api!IndexNamesTask, Api!LeaseIds
  <2>6. QED
    BY <2>2, <2>5, ModestMoves, RightModest
<1>5. CASE FindLease(p)
  <2> DEFINE l == LeaseByTask(leases, index, T(p))
             step == IF l = 0 THEN thread[p].then ELSE "revokeFound"
             th == [thread[p] EXCEPT !.pc = step, !.lease = l]
  <2>1. /\ T(p) \in Tasks /\ thread[p].then \in {"release", "complete"}
        /\ thread' = [thread EXCEPT ![p] = th] /\ UNCHANGED <<leases, index>>
    BY <1>5 DEF FindLease, At, T, Types, ThreadsFit, Fits, OfTask, storeVars
  <2>2. l # 0 => l \in DOMAIN leases /\ leases[l].task = T(p)
    BY <1>1, <2>1, FoundNames DEF RightLeases
  <2>3. l = 0 => step # "revokeFound"
    BY <2>1
  <2> HIDE DEF l, step
  <2>4. /\ th.pc = step /\ th.lease = l /\ th.task = thread[p].task
        /\ th.freed = thread[p].freed
    BY <1>1 DEF Local
  <2> HIDE DEF th
  <2>5. Api!IndexNamesTask'
    BY <2>1, IndexKept DEF RightLeases
  <2>6. QED
    BY <2>1, <2>2, <2>3, <2>4, <2>5, RightOwn DEF T
<1>6. CASE RevokeFound(p)
  <2>1. thread[p].then # "revokeFound" /\ Goto(p, thread[p].then) /\ Api!Revoke({thread[p].lease})
    BY <1>6 DEF RevokeFound, At, Types, ThreadsFit, Fits
  <2>2. Api!IndexNamesTask'
    BY <2>1, IndexRevoked, IndexKept DEF RightLeases
  <2>3. QED
    BY <2>1, <2>2, ModestMoves, RightModest
<1>7. CASE CompleteMark(p)
  <2> DEFINE th == [thread[p] EXCEPT !.pc = "dependents", !.then = "online"]
  <2>1. thread' = [thread EXCEPT ![p] = th] /\ UNCHANGED <<leases, index>>
    BY <1>7 DEF CompleteMark, OnlyTasks
  <2>2. th.pc = "dependents" /\ th.freed = thread[p].freed
    BY <1>1 DEF Local
  <2> HIDE DEF th
  <2>3. QED
    BY <1>2, <2>1, <2>2 DEF Modestly, Modest
<1>8. CASE ListDependents(p)
  <2> DEFINE S == Dependents(tasks, T(p))
             th == [thread[p] EXCEPT !.pc = "visit", !.waiting = S]
  <2>1. thread' = [thread EXCEPT ![p] = th] /\ UNCHANGED <<leases, index>>
    BY <1>8 DEF ListDependents, storeVars
  <2> HIDE DEF S
  <2>2. th.pc = "visit" /\ th.freed = thread[p].freed
    BY <1>1 DEF Local
  <2> HIDE DEF th
  <2>3. QED
    BY <1>2, <2>1, <2>2 DEF Modestly, Modest
<1>9. CASE Judges(p)
  <2>1. PICK th \in Local : thread' = [thread EXCEPT ![p] = th] /\ JudgedAs(th, thread[p])
    BY <1>1, <1>9, JudgesFacts
  <2>2. Modest(th, thread[p])
    BY <2>1 DEF JudgedAs, Modest
  <2>3. UNCHANGED <<leases, index>>
    BY <1>1, <1>9, JudgesFacts DEF storeVars
  <2>4. QED
    BY <1>2, <2>1, <2>2, <2>3 DEF Modestly
<1>10. QED
  BY <1>3, <1>4, <1>5, <1>6, <1>7, <1>8, <1>9 DEF Handle, Judges

LEMMA RecoveryRight ==
    ASSUME Types, RightLeases, Api!LeaseStep, NEW p \in Threads, RecoveryStep(p)
    PROVE  RightLeases'
<1>1. thread[p] \in Local /\ StoreTypeOK /\ thread[p].freed \subseteq DOMAIN leases
  BY DEF Types, ThreadsFit, Fits
<1>2. ASSUME UNCHANGED index, Modestly(p)
      PROVE  RightLeases'
  BY <1>2, IndexKept, RightModest DEF RightLeases
<1>3. CASE ReadOnline(p)
  <2> DEFINE seen == {n \in Nodes : nodes[n].status = "online"}
             th == [thread[p] EXCEPT !.pc = "assign", !.online = seen]
  <2>1. UNCHANGED index /\ (Return(p, FALSE) \/ thread' = [thread EXCEPT ![p] = th])
    BY <1>3 DEF ReadOnline, storeVars
  <2> HIDE DEF seen
  <2>2. th.pc = "assign" /\ th.freed = thread[p].freed
    BY <1>1 DEF Local
  <2> HIDE DEF th
  <2>3. Modestly(p)
    BY <2>1, <2>2, ModestMoves DEF Modestly, Modest
  <2>4. QED
    BY <1>2, <2>1, <2>3
<1>4. CASE AssignReady(p)
  BY <1>2, <1>4, ModestMoves DEF AssignReady, OnlyTasks
<1>5. CASE ListExpired(p)
  BY <1>2, <1>5, ModestMoves DEF ListExpired, storeVars
<1>6. CASE SnapshotLeases(p)
  <2>1. PICK n \in thread[p].targets :
          LET N == thread[p].targets \ {n}
              held == {l \in ActiveLeases(leases') : leases[l].node = n}
          IN IF held = {} THEN Continue(p, {}, N)
             ELSE thread' = [thread EXCEPT ![p].pc = "revoke",
                                           ![p].left = held, ![p].targets = N]
    BY <1>6 DEF SnapshotLeases
  <2> DEFINE N == thread[p].targets \ {n}
             held == {l \in ActiveLeases(leases') : leases[l].node = n}
             th == [thread[p] EXCEPT !.pc = "revoke", !.left = held, !.targets = N]
  <2>2. Continue(p, {}, N) \/ thread' = [thread EXCEPT ![p] = th]
    BY <2>1
  <2> HIDE DEF N, held
  <2>3. th.pc = "revoke" /\ th.freed = thread[p].freed
    BY <1>1 DEF Local
  <2> HIDE DEF th
  <2>4. Modestly(p)
    BY <2>2, <2>3, ModestMoves DEF Modestly, Modest
  <2>5. QED
    BY <1>2, <1>6, <2>4 DEF SnapshotLeases
<1>7. CASE RevokeNext(p)
  <2> DEFINE l == Oldest(thread[p].left)
             step == IF thread[p].left = {l} THEN "unassign" ELSE "revoke"
             th == [thread[p] EXCEPT !.left = @ \ {l}, !.freed = @ \cup {l}, !.pc = step]
  <2>1. thread[p].left # {} /\ thread[p].left \in SUBSET Nat /\ thread[p].left \subseteq DOMAIN leases
    BY <1>7 DEF RevokeNext, At, Local, Types, ThreadsFit, Fits
  <2>2. l \in DOMAIN leases
    BY <2>1, OldestIn
  <2>3. thread' = [thread EXCEPT ![p] = th] /\ Api!Revoke({l})
    BY <1>7 DEF RevokeNext
  <2>4. step # "revokeFound"
    OBVIOUS
  <2> HIDE DEF l, step
  <2>5. th.pc = step /\ th.freed = thread[p].freed \cup {l}
    BY <1>1 DEF Local
  <2> HIDE DEF th
  <2>6. leases'[l].status = "revoked"
    <3>1. leases[l] \in Lease
      BY <1>1, <2>2 DEF StoreTypeOK
    <3>2. leases'[l] = [leases[l] EXCEPT !.status = "revoked"]
      BY <2>2, <2>3 DEF Api!Revoke, Api!RevokeLeases
    <3>3. QED
      BY <3>1, <3>2 DEF Lease
  <2>7. Api!IndexNamesTask'
    BY <2>3, IndexRevoked, IndexKept DEF RightLeases
  <2>8. QED
    BY <2>3, <2>4, <2>5, <2>6, <2>7, RightOwn
<1>8. CASE Unassign(p)
  <2> DEFINE th == [thread[p] EXCEPT !.pc = "online", !.then = "verify"]
  <2>1. thread' = [thread EXCEPT ![p] = th] /\ UNCHANGED index
    BY <1>8 DEF Unassign, OnlyTasks
  <2>2. th.pc = "online" /\ th.freed = thread[p].freed
    BY <1>1 DEF Local
  <2> HIDE DEF th
  <2>3. QED
    BY <1>2, <2>1, <2>2 DEF Modestly, Modest
<1>9. CASE Verify(p) \/ MarkFailed(p)
  BY <1>2, <1>9, ModestMoves DEF Verify, MarkFailed, NextOrphan, OnlyTasks, storeVars
<1>10. QED
  BY <1>3, <1>4, <1>5, <1>6, <1>7, <1>8, <1>9 DEF RecoveryStep

LEMMA BeginningsRight ==
    ASSUME Types, RightLeases, Api!LeaseStep, Request \/ DetectExpired("auto")
    PROVE  RightLeases'
<1>1. \A p \in Threads : \A local :
        Begin(p, local) /\ local.freed = {} /\ local.pc # "revokeFound" => Modestly(p)
  BY DEF Begin, Modestly, Modest
<1>2. "loop" \in Threads /\ "auto" \in Threads
  BY DEF Threads
<1>3. Modestly("loop") \/ Modestly("auto")
  <2>1. CASE \/ \E t \in Tasks, req \in CapSets : SubmitTask(t, req)
             \/ ScheduleTrigger
             \/ \E n \in Nodes, caps \in CapSets : PatchCapabilities(n, caps)
             \/ DetectExpired("loop") \/ DetectExpired("auto")
    BY <1>1, <1>2, <2>1
       DEF SubmitTask, ScheduleTrigger, PatchCapabilities, DetectExpired, Idle
  <2>2. CASE \/ \E t \in Tasks : ManualAdvance(t) \/ CompleteTask(t) \/ FailTask(t)
             \/ \E t \in Tasks, n \in Nodes : ClaimTask(t, n) \/ ReleaseTask(t, n)
             \/ \E n \in Nodes : TriggerRecovery(n)
    BY <1>1, <1>2, <2>2
       DEF ManualAdvance, CompleteTask, FailTask, ClaimTask, ReleaseTask, TriggerRecovery, Idle
  <2>3. QED
    BY <2>1, <2>2 DEF Request
<1>4. UNCHANGED index
  BY DEF Request, SubmitTask, ScheduleTrigger, PatchCapabilities, ManualAdvance, ClaimTask,
     ReleaseTask, CompleteTask, FailTask, TriggerRecovery, DetectExpired, OnlyTasks, storeVars
<1>5. QED
  BY <1>2, <1>3, <1>4, IndexKept, RightModest DEF RightLeases

LEMMA RightStep ==
    ASSUME Types, RightLeases, [Next]_vars
    PROVE  RightLeases'
<1>1. Types /\ Api!LeaseStep /\ "loop" \in Threads /\ "auto" \in Threads /\ StoreTypeOK
  BY NextTypes DEF Threads, Types
<1>2. CASE ShortRequest \/ Background
  <2>1. Proved!TypeOK /\ [Proved!Next]_Proved!storeVars /\ UNCHANGED thread
    BY <1>1, <1>2, ShortSteps, SameTypes DEF Proved!Next
  <2>2. Proved!IndexNamesTask
    BY DEF RightLeases, Api!IndexNamesTask, Api!LeaseIds, Proved!IndexNamesTask, Proved!LeaseIds
  <2>3. Proved!IndexNamesTask'
    BY <2>1, <2>2, Assumptions, Proved!IndexStep
  <2>4. Api!IndexNamesTask'
    BY <2>3 DEF Api!IndexNamesTask, Api!LeaseIds, Proved!IndexNamesTask, Proved!LeaseIds
  <2>5. QED
    BY <1>1, <2>1, <2>4, RightStand
<1>3. CASE UNCHANGED vars
  <2>1. UNCHANGED <<thread, index, leases>>
    BY <1>3 DEF vars, storeVars
  <2>2. QED
    BY <1>1, <2>1, IndexKept, RightStand DEF RightLeases
<1>4. QED
  BY <1>1, <1>2, <1>3, HandleRight, RecoveryRight, BeginningsRight DEF Next, Step

\* With recovery on two threads beside the handlers (rescheduler.py, revoker.py,
\* routers/tasks.py): no handler revokes the lease of another task than its own
\* though it looked it up two steps earlier, the index never leads to one, and a
\* recovery run reschedules no task but for a lease that is revoked for good.
THEOREM ThreadsRightLeases == Spec => []RightLeases
<1>1. Init => Types /\ RightLeases
  <2>1. Init => RightLeases
    BY DEF Init, StoreInit, RightLeases, Api!IndexNamesTask, Idle, At
  <2>2. QED
    BY <2>1, InitTypes
<1>2. Types /\ RightLeases /\ [Next]_vars => Types' /\ RightLeases'
  BY NextTypes, RightStep
<1>3. QED
  BY <1>1, <1>2, PTL DEF Spec
=============================================================================
