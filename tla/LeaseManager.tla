---------------------------- MODULE LeaseManager ----------------------------
(***************************************************************************)
(* The LeaseManager (lease/lease_manager.py) at the granularity of its     *)
(* locks: callers on any thread and the scanner thread, over either store. *)
(* The in-memory store scans under its lock and calls back while it holds  *)
(* it; the SQLite store reads in one transaction, calls back without a     *)
(* lock and marks in a second transaction.                                 *)
(*                                                                         *)
(* The task and the node of a lease decide nothing here; a lease knows     *)
(* which one it extends.  Of the statistics only what the listeners were   *)
(* told is kept.  The listeners of the app put an event into a queue and   *)
(* take no lock.                                                           *)
(***************************************************************************)
EXTENDS Naturals, Sequences, FiniteSets

CONSTANTS
    Callers,    \* threads that call the public methods
    Scanner,    \* the scanner thread
    None,       \* nobody
    Uses,       \* bound: the methods that each of them calls
    Backends,   \* the stores to look at, of "memory" and "sqlite"
    MaxLeases   \* bound: leases ever created, for each store

ASSUME ScannerAssumption == Scanner \notin Callers
ASSUME NobodyAssumption == None \notin Callers \cup {Scanner}
ASSUME UsesAssumption == Uses \in [Callers -> SUBSET {"create", "revoke", "list", "extend"}]
ASSUME BackendsAssumption == Backends \subseteq {"memory", "sqlite"}
ASSUME MaxLeasesAssumption == MaxLeases \in [Backends -> Nat]

Threads == Callers \cup {Scanner}

VARIABLES
    backend,    \* the store in use, the same for ever
    leases,     \* its leases in creation order; a lease id is its position
    storeLock,  \* who holds _leases_lock (of the in-memory store)
    lock,       \* who holds _lock
    call,       \* what each thread is in the middle of
    told        \* for every lease, how often its expiry was called back: 0, 1 or more

vars == <<backend, leases, storeLock, lock, call, told>>
storeVars == <<backend, leases, storeLock>>

Lease == [status: {"active", "expired", "revoked"}, ttl: {"left", "over"}, from: Nat]

\* now are the leases overdue on the clock that the scan has read, due those it
\* has still to call back, found those to be marked at its end, and listed
\* tells whether the lease to extend is among the active ones it returns.
Idle == [op |-> "none", pc |-> "idle", lease |-> 0,
         now |-> {}, due |-> {}, found |-> {}, listed |-> FALSE]

At(p, step) == call[p].pc = step
Busy(p) == ~At(p, "idle")
Goto(p, step) == call' = [call EXCEPT ![p].pc = step]
Return(p) == call' = [call EXCEPT ![p] = Idle]
Begin(p, op, step, l) ==
    /\ ~Busy(p)
    /\ call' = [call EXCEPT ![p] = [Idle EXCEPT !.op = op, !.pc = step, !.lease = l]]
    /\ UNCHANGED <<storeVars, lock, told>>

LeaseIds == DOMAIN leases
Active == {l \in LeaseIds : leases[l].status = "active"}
Overdue(l) == l \in Active /\ leases[l].ttl = "over"

\* How much time a lease had left decides nothing once it is retired.
Mark(S, s) ==
    [l \in LeaseIds |-> IF l \in S THEN [leases[l] EXCEPT !.status = s, !.ttl = "over"]
                                  ELSE leases[l]]

\* A step inside of the lock of the store, which it gives back at once.
InStore == storeLock = None /\ UNCHANGED <<backend, storeLock>>

Add(from) ==
    /\ leases' = Append(leases, [status |-> "active", ttl |-> "left", from |-> from])
    /\ told' = Append(told, 0)

\* The leases that calls under way may still add count; extensions of one lease
\* count once, so that they can meet.
Room(new) ==
    LET op(o) == {p \in Callers : call[p].op = o}
        extended == {call[p].lease : p \in op("extend")}
    IN Len(leases) + Cardinality(op("create")) + Cardinality(extended \cup {new})
       <= MaxLeases[backend]

\* The listeners hear of the expiry of the leases in S.
Tell(S) == [l \in DOMAIN told |-> IF l \in S /\ told[l] < 2 THEN told[l] + 1 ELSE told[l]]

-----------------------------------------------------------------------------
(* The calls.                                                              *)

Create(p) == Room(0) /\ Begin(p, "create", "insert", 0)
Revoke(p, l) == l \in LeaseIds /\ Begin(p, "revoke", "revoke", l)
ListActive(p) == Begin(p, "list", "now", 0)
Extend(p, l) == l \in LeaseIds /\ Room(l) /\ Begin(p, "extend", "lock", l)

\* The scanner wakes up.
ScanOnce == Begin(Scanner, "scan", "now", 0)

-----------------------------------------------------------------------------
(* create and revoke: the store, then the statistics.                      *)

Insert(p) ==
    /\ At(p, "insert")
    /\ InStore
    /\ Add(0)
    /\ Goto(p, "count")
    /\ UNCHANGED lock

\* Whatever the lease's status.
RevokeLease(p) ==
    /\ At(p, "revoke")
    /\ InStore
    /\ leases' = Mark({call[p].lease}, "revoked")
    /\ Goto(p, "count")
    /\ UNCHANGED <<lock, told>>

\* The statistics of create and revoke, the metrics of a scan.
Count(p) ==
    /\ At(p, "count")
    /\ lock = None
    /\ Return(p)
    /\ UNCHANGED <<storeVars, lock, told>>

-----------------------------------------------------------------------------
(* get_active_leases of either store, called by list_active, by the        *)
(* scanner and by extend.                                                  *)

\* The clock is read before the lock of the store is taken.
ReadClock(p) ==
    /\ At(p, "now")
    /\ call' = [call EXCEPT ![p].now = {l \in LeaseIds : Overdue(l)}, ![p].pc = "select"]
    /\ UNCHANGED <<storeVars, lock, told>>

Selected(c) ==
    LET due == c.now \cap Active
    IN [c EXCEPT !.pc = "loop", !.now = {}, !.due = due,
                 !.found = IF backend = "sqlite" THEN due ELSE {},
                 !.listed = c.lease \in Active \ due]

\* Fault: the lock of the store is not held over the loop.
SelectUnheld(p) ==
    /\ At(p, "select")
    /\ call' = [call EXCEPT ![p] = Selected(@)]
    /\ UNCHANGED <<storeVars, lock, told>>

Select(p) ==
    /\ At(p, "select")
    /\ storeLock = None
    /\ storeLock' = IF backend = "memory" THEN p ELSE None
    /\ call' = [call EXCEPT ![p] = Selected(@)]
    /\ UNCHANGED <<backend, leases, lock, told>>

\* Fault: the callback is made and the lease left active.
ExpireNextUnmarked(p) ==
    /\ At(p, "loop")
    /\ \E l \in call[p].due :
          call' = [call EXCEPT ![p].due = @ \ {l}, ![p].now = {l}, ![p].pc = "notify"]
    /\ UNCHANGED <<storeVars, lock, told>>

\* The next overdue lease; the in-memory store marks it before the callback.
ExpireNext(p) ==
    /\ At(p, "loop")
    /\ \E l \in call[p].due :
          /\ leases' = IF backend = "memory" THEN Mark({l}, "expired") ELSE leases
          /\ call' = [call EXCEPT ![p].due = @ \ {l}, ![p].now = {l}, ![p].pc = "notify"]
    /\ UNCHANGED <<backend, storeLock, lock, told>>

\* Fault: one callback for everything that a scan has found.
NotifyFirst(p) ==
    /\ At(p, "notify")
    /\ lock = None
    /\ told' = IF call[p].due = {} THEN Tell(call[p].now) ELSE told
    /\ Goto(p, "loop")
    /\ UNCHANGED <<storeVars, lock>>

\* Fault: the thread keeps the lock while it runs the listeners.
NotifyHolding(p) ==
    /\ At(p, "notify")
    /\ lock = None
    /\ lock' = p
    /\ told' = Tell(call[p].now)
    /\ Goto(p, "loop")
    /\ UNCHANGED storeVars

\* _on_lease_expired takes the lock, even if it is this thread that holds it.
Notify(p) ==
    /\ At(p, "notify")
    /\ lock = None
    /\ told' = Tell(call[p].now)
    /\ call' = [call EXCEPT ![p].now = {}, ![p].pc = "loop"]
    /\ UNCHANGED <<storeVars, lock>>

\* The SQLite store marks what it found, revoked since or not.
EndScan(p) ==
    /\ At(p, "loop")
    /\ call[p].due = {}
    /\ leases' = IF backend = "sqlite" THEN Mark(call[p].found, "expired") ELSE leases
    /\ storeLock' = None
    /\ CASE call[p].op = "list" -> Return(p)
         [] call[p].op = "scan" -> Goto(p, "count")
         [] call[p].op = "extend" ->
              Goto(p, IF call[p].listed THEN "renew" ELSE "unlock")
    /\ UNCHANGED <<backend, lock, told>>

-----------------------------------------------------------------------------
(* extend: everything under the lock of the manager.                       *)

\* Fault: the lock is not taken, and two extensions overlap.
TakeLockUnheld(p) ==
    /\ At(p, "lock")
    /\ lock = None
    /\ Goto(p, "now")
    /\ UNCHANGED <<storeVars, lock, told>>

TakeLock(p) ==
    /\ At(p, "lock")
    /\ lock = None
    /\ lock' = p
    /\ Goto(p, "now")
    /\ UNCHANGED <<storeVars, told>>

Renew(p) ==
    /\ At(p, "renew")
    /\ InStore
    /\ Add(call[p].lease)
    /\ Goto(p, "replace")
    /\ UNCHANGED lock

Replace(p) ==
    /\ At(p, "replace")
    /\ InStore
    /\ leases' = Mark({call[p].lease}, "revoked")
    /\ Goto(p, "unlock")
    /\ UNCHANGED <<lock, told>>

Unlock(p) ==
    /\ At(p, "unlock")
    /\ lock' = None
    /\ Return(p)
    /\ UNCHANGED <<storeVars, told>>

-----------------------------------------------------------------------------
\* The clock passes expires_at.
LeaseFallsDue(l) ==
    /\ l \in Active
    /\ leases' = [leases EXCEPT ![l].ttl = "over"]
    /\ UNCHANGED <<backend, storeLock, lock, call, told>>

Init ==
    /\ backend \in Backends
    /\ leases = <<>>
    /\ storeLock = None
    /\ lock = None
    /\ call = [p \in Threads |-> Idle]
    /\ told = <<>>

Call(p) ==
    \/ "create" \in Uses[p] /\ Create(p)
    \/ "list" \in Uses[p] /\ ListActive(p)
    \/ "revoke" \in Uses[p] /\ \E l \in LeaseIds : Revoke(p, l)
    \/ "extend" \in Uses[p] /\ \E l \in LeaseIds : Extend(p, l)

Step(p) ==
    \/ Insert(p) \/ RevokeLease(p) \/ Count(p)
    \/ ReadClock(p) \/ Select(p) \/ ExpireNext(p) \/ Notify(p) \/ EndScan(p)
    \/ TakeLock(p) \/ Renew(p) \/ Replace(p) \/ Unlock(p)

Next ==
    \/ \E p \in Callers : Call(p)
    \/ ScanOnce
    \/ \E p \in Threads : Step(p)
    \/ \E l \in LeaseIds : LeaseFallsDue(l)

Spec == Init /\ [][Next]_vars

\* The scanner goes on for ever, and who waits for a lock that is free again
\* and again gets it.
FairSpec ==
    /\ Spec
    /\ WF_vars(ScanOnce)
    /\ \A p \in Threads : SF_vars(Step(p))

-----------------------------------------------------------------------------
(* Properties.                                                             *)

\* The types, and that whoever holds a lock is on its way to giving it back.
TypeOK ==
    /\ backend \in Backends
    /\ leases \in Seq(Lease)
    /\ storeLock \in Threads \cup {None}
    /\ lock \in Threads \cup {None}
    /\ \A p \in Threads :
          call[p].now \cup call[p].due \cup call[p].found \subseteq LeaseIds
    /\ told \in Seq(0..2) /\ Len(told) = Len(leases)
    /\ lock # None => call[lock].op = "extend"
    /\ storeLock # None => call[storeLock].pc \in {"loop", "notify"}

\* However scans of several threads meet, the in-memory store calls back at
\* most once for a lease.
NotifiedOnce ==
    backend = "memory" => \A l \in LeaseIds : told[l] <= 1

\* Nothing expires behind the listeners' back: with no call under way the
\* expiry of every expired lease has been called back, with either store.
ExpiryNotified ==
    (\A p \in Threads : ~Busy(p))
    => \A l \in LeaseIds : leases[l].status = "expired" => told[l] >= 1

\* Of several extensions of a lease at most one succeeds, whatever revocations
\* and scans fall in between (test_concurrency_conditions.py, C1).
ExtendedOnce ==
    \A l, m \in LeaseIds : leases[l].from # 0 /\ leases[l].from = leases[m].from => l = m

\* An extension whose scan has found an overdue lease waits for the lock that
\* it holds itself; or it waits for the lock of the store, held by a scan that
\* waits for the lock of the extension.
SelfBlocked == \E p \in Threads : At(p, "notify") /\ lock = p
CrossBlocked ==
    \E p, q \in Threads :
        /\ call[p].pc \in {"select", "renew", "replace"} /\ lock = p
        /\ At(q, "notify") /\ storeLock = q
Deadlocked == SelfBlocked \/ CrossBlocked

\* Those are the only ways to wait for ever: with callbacks under either lock
\* every other call returns.
OthersReturn == \A p \in Threads : Busy(p) ~> (~Busy(p) \/ Deadlocked)

\* Unless an extension has brought everything to a halt, no overdue lease
\* stays active.
OverdueRetired ==
    \A l \in UNION {1..MaxLeases[b] : b \in Backends} :
        Overdue(l) ~> (~Overdue(l) \/ Deadlocked)

-----------------------------------------------------------------------------
(* What the comments say and the code does not do.                         *)

\* lease_manager.py: "All public methods are safe to call from any thread", so
\* a call returns.
EveryCallReturns == \A p \in Threads : Busy(p) ~> ~Busy(p)
=============================================================================
