------------------------- MODULE LeaseManagerProofs -------------------------
(***************************************************************************)
(* Proofs about LeaseManager for any number of calling threads and leases, *)
(* over either store: type correctness and the owner of each lock, a       *)
(* callback once per lease, every expiry called back, one extension per    *)
(* lease; and that the calls come to a standstill in no other way than by  *)
(* the two deadlocks of extend, which are for good.                        *)
(***************************************************************************)
EXTENDS LeaseManager, SequenceTheorems, TLAPS

-----------------------------------------------------------------------------
(* The invariant.                                                          *)

Ops == {"none", "create", "revoke", "list", "extend", "scan"}
Scanning == {"now", "select", "loop", "notify"}
Pcs == Scanning \cup {"idle", "insert", "revoke", "count", "lock", "renew", "replace", "unlock"}

CallType == [op: Ops, pc: Pcs, lease: Nat, now: SUBSET Nat, due: SUBSET Nat,
             found: SUBSET Nat, listed: BOOLEAN]

Types ==
    /\ backend \in Backends
    /\ leases \in Seq(Lease)
    /\ told \in Seq(0..2) /\ Len(told) = Len(leases)
    /\ storeLock \in Threads \cup {None}
    /\ lock \in Threads \cup {None}
    /\ call \in [Threads -> CallType]
    /\ \A p \in Threads : call[p].now \cup call[p].due \cup call[p].found \subseteq LeaseIds

\* Where a call may be, and which locks it holds there.
Places ==
    /\ \A p \in Threads :
          /\ call[p].pc \in {"lock", "renew", "replace", "unlock"} => call[p].op = "extend"
          /\ call[p].pc \in Scanning => call[p].op \in {"list", "scan", "extend"}
          /\ call[p].pc = "idle" => call[p].op = "none"
          /\ lock = p <=> call[p].op = "extend" /\ call[p].pc # "lock"
          /\ storeLock = p <=> backend = "memory" /\ call[p].pc \in {"loop", "notify"}

\* In memory a scan marks a lease before it calls back, and nothing is called
\* back that is still to be marked.
Callbacks ==
    backend = "memory" =>
        /\ \A l \in LeaseIds : told[l] <= 1 /\ (told[l] > 0 => leases[l].status # "active")
        /\ \A p \in Threads : call[p].pc \in {"loop", "notify"} =>
              \A l \in call[p].due : leases[l].status = "active"
        /\ \A p \in Threads : call[p].pc = "notify" =>
              \A l \in call[p].now : leases[l].status # "active" /\ told[l] = 0

\* The callback of an expired lease has been made or is under way, in SQLite
\* before the lease is marked.
Announced ==
    /\ \A l \in LeaseIds : leases[l].status = "expired" =>
          \/ told[l] >= 1
          \/ \E p \in Threads : call[p].pc = "notify" /\ l \in call[p].now
    /\ backend = "sqlite" =>
          \A p \in Threads : call[p].pc \in {"loop", "notify"} =>
              \A l \in call[p].found :
                  \/ told[l] >= 1 \/ l \in call[p].due
                  \/ call[p].pc = "notify" /\ l \in call[p].now

\* A lease that has been extended is retired or about to be, by the call that
\* holds the lock; so a call that finds its lease active is the first.
Extensions ==
    /\ \A l \in LeaseIds : leases[l].from = 0 \/ leases[l].from \in LeaseIds
    /\ \A p \in Threads : call[p].op = "extend" => call[p].lease \in LeaseIds
    /\ \A p \in Threads :
          call[p].pc = "renew" \/ (call[p].pc \in {"loop", "notify"} /\ call[p].listed
                                   /\ call[p].op = "extend")
          => \A l \in LeaseIds : leases[l].from # call[p].lease
    /\ \A l \in LeaseIds : leases[l].from # 0 =>
          \/ leases[leases[l].from].status # "active"
          \/ \E p \in Threads : call[p].pc = "replace" /\ call[p].lease = leases[l].from
    /\ \A l, m \in LeaseIds : leases[l].from # 0 /\ leases[l].from = leases[m].from => l = m

Inv == Types /\ Places /\ Callbacks /\ Announced /\ Extensions

LEMMA InvImplies == Inv => TypeOK /\ NotifiedOnce /\ ExtendedOnce /\ ExpiryNotified
<1> SUFFICES ASSUME Inv PROVE TypeOK /\ NotifiedOnce /\ ExtendedOnce /\ ExpiryNotified
  OBVIOUS
<1>1. TypeOK
  BY DEF Inv, Types, Places, TypeOK
<1>2. NotifiedOnce
  BY DEF Inv, Callbacks, NotifiedOnce
<1>3. ExtendedOnce
  BY DEF Inv, Extensions, ExtendedOnce
<1>4. ExpiryNotified
  BY DEF Inv, Announced, ExpiryNotified, Busy, At
<1>5. QED
  BY <1>1, <1>2, <1>3, <1>4

-----------------------------------------------------------------------------
(* The operations on the leases.                                           *)

LEMMA LeaseIdsAre ==
    ASSUME leases \in Seq(Lease)
    PROVE  LeaseIds = 1..Len(leases) /\ 0 \notin LeaseIds /\ LeaseIds \subseteq Nat
BY DEF LeaseIds

\* Marking touches statuses, and of these only those it is asked to.
LEMMA MarkFacts ==
    ASSUME leases \in Seq(Lease), NEW S, NEW s \in {"expired", "revoked"}
    PROVE  /\ Mark(S, s) \in Seq(Lease)
           /\ DOMAIN Mark(S, s) = LeaseIds
           /\ Len(Mark(S, s)) = Len(leases)
           /\ \A l \in LeaseIds :
                 /\ Mark(S, s)[l].from = leases[l].from
                 /\ Mark(S, s)[l].status = IF l \in S THEN s ELSE leases[l].status
<1>1. LeaseIds = 1..Len(leases) /\ Len(leases) \in Nat
  BY DEF LeaseIds
<1>2. \A l \in LeaseIds :
          /\ Mark(S, s)[l] \in Lease
          /\ Mark(S, s)[l].from = leases[l].from
          /\ Mark(S, s)[l].status = IF l \in S THEN s ELSE leases[l].status
  <2> TAKE l \in LeaseIds
  <2>1. leases[l] \in Lease
    BY DEF LeaseIds
  <2>2. [leases[l] EXCEPT !.status = s, !.ttl = "over"] \in Lease
    BY <2>1 DEF Lease
  <2>3. QED
    BY <2>1, <2>2 DEF Mark, Lease
<1>3. Mark(S, s) \in [1..Len(leases) -> Lease]
  BY <1>1, <1>2 DEF Mark
<1>4. QED
  BY <1>1, <1>2, <1>3

\* A new lease is active and has not been called back.
LEMMA AddFacts ==
    ASSUME Types, NEW from \in Nat, Add(from)
    PROVE  /\ leases' \in Seq(Lease) /\ told' \in Seq(0..2)
           /\ Len(leases') = Len(leases) + 1 /\ Len(told') = Len(leases')
           /\ LeaseIds' = LeaseIds \cup {Len(leases) + 1} /\ Len(leases) + 1 \notin LeaseIds
           /\ \A l \in LeaseIds : leases'[l] = leases[l] /\ told'[l] = told[l]
           /\ leases'[Len(leases) + 1].status = "active"
           /\ leases'[Len(leases) + 1].from = from
           /\ told'[Len(leases) + 1] = 0
<1> DEFINE new == [status |-> "active", ttl |-> "left", from |-> from]
<1>1. new \in Lease /\ new.status = "active" /\ new.from = from
  BY DEF Lease
<1>2. leases' = Append(leases, new) /\ told' = Append(told, 0)
  BY DEF Add
<1>3. leases \in Seq(Lease) /\ told \in Seq(0..2) /\ Len(told) = Len(leases)
  BY DEF Types
<1> HIDE DEF new
<1>4. QED
  BY <1>1, <1>2, <1>3 DEF LeaseIds

LEMMA TellFacts ==
    ASSUME Types, NEW S
    PROVE  /\ Tell(S) \in Seq(0..2) /\ Len(Tell(S)) = Len(leases)
           /\ \A l \in LeaseIds : /\ Tell(S)[l] >= told[l]
                                  /\ l \in S => Tell(S)[l] >= 1
                                  /\ l \in S /\ told[l] = 0 => Tell(S)[l] = 1
                                  /\ l \notin S => Tell(S)[l] = told[l]
<1>1. /\ told \in Seq(0..2) /\ Len(told) = Len(leases) /\ Len(leases) \in Nat
      /\ DOMAIN told = 1..Len(leases) /\ LeaseIds = 1..Len(leases)
  BY DEF Types, LeaseIds
<1>2. Tell(S) \in [1..Len(leases) -> 0..2]
  BY <1>1 DEF Tell
<1>3. QED
  BY <1>1, <1>2 DEF Tell
-----------------------------------------------------------------------------
(* The steps of a call.                                                    *)

LEMMA GotoFacts ==
    ASSUME Types, NEW p \in Threads, NEW step \in Pcs, Goto(p, step)
    PROVE  /\ call' \in [Threads -> CallType]
           /\ call'[p].pc = step
           /\ call'[p].op = call[p].op /\ call'[p].lease = call[p].lease
           /\ call'[p].now = call[p].now /\ call'[p].due = call[p].due
           /\ call'[p].found = call[p].found /\ call'[p].listed = call[p].listed
           /\ \A q \in Threads : q # p => call'[q] = call[q]
<1>1. call[p] \in CallType
  BY DEF Types
<1>2. [call[p] EXCEPT !.pc = step] \in CallType
  BY <1>1 DEF CallType
<1>3. call' = [call EXCEPT ![p] = [call[p] EXCEPT !.pc = step]] /\ call \in [Threads -> CallType]
  BY DEF Goto, Types
<1>4. QED
  BY <1>1, <1>2, <1>3 DEF CallType

LEMMA IdleType == Idle \in CallType
BY DEF Idle, CallType, Ops, Pcs

LEMMA ReturnFacts ==
    ASSUME Types, NEW p \in Threads, Return(p)
    PROVE  /\ call' \in [Threads -> CallType]
           /\ call'[p] = Idle
           /\ \A q \in Threads : q # p => call'[q] = call[q]
BY IdleType DEF Return, Types

\* A call that begins has nothing to do with leases and locks yet.
LEMMA BeginKeepsInv ==
    ASSUME Inv, NEW p \in Threads, NEW op \in Ops, NEW step \in {"insert", "revoke", "now", "lock"},
           NEW l \in Nat, Begin(p, op, step, l),
           step = "now" => op \in {"list", "scan"},
           step = "lock" <=> op = "extend",
           op = "extend" => l \in LeaseIds
    PROVE  Inv'
<1> DEFINE new == [Idle EXCEPT !.op = op, !.pc = step, !.lease = l]
<1>1. /\ new \in CallType /\ new.op = op /\ new.pc = step /\ new.lease = l
      /\ new.now = {} /\ new.due = {} /\ new.found = {} /\ new.listed = FALSE
  BY DEF Idle, CallType, Pcs, Scanning, Ops
<1>2. call' = [call EXCEPT ![p] = new] /\ call[p].pc = "idle"
  BY DEF Begin, Busy, At
<1> HIDE DEF new
<1>3. call'[p] = new /\ \A q \in Threads : q # p => call'[q] = call[q]
  BY <1>2 DEF Inv, Types
<1>4. UNCHANGED <<backend, leases, told, storeLock, lock>> /\ LeaseIds' = LeaseIds
  BY DEF Begin, storeVars, LeaseIds
<1>5. Types'
  BY <1>1, <1>2, <1>3, <1>4 DEF Inv, Types
<1>6. Places'
  BY <1>1, <1>2, <1>3, <1>4 DEF Inv, Places, Scanning
<1>7. Callbacks'
  BY <1>1, <1>2, <1>3, <1>4 DEF Inv, Callbacks
<1>8. Announced'
  BY <1>1, <1>2, <1>3, <1>4 DEF Inv, Announced
<1>9. Extensions'
  BY <1>1, <1>2, <1>3, <1>4 DEF Inv, Extensions
<1>10. QED
  BY <1>5, <1>6, <1>7, <1>8, <1>9 DEF Inv

\* A call that waits for nothing but its next step gives nothing up by it.
LEMMA QuietKeepsInv ==
    ASSUME Inv, NEW p \in Threads, Count(p) \/ Unlock(p) \/ TakeLock(p)
    PROVE  Inv'
<1>1. UNCHANGED <<backend, leases, told, storeLock>> /\ LeaseIds' = LeaseIds
  BY DEF Count, Unlock, TakeLock, storeVars, LeaseIds
<1>2. Types
  BY DEF Inv
<1>3. CASE Count(p) \/ Unlock(p)
  <2>1. /\ call' \in [Threads -> CallType] /\ call'[p] = Idle
        /\ \A q \in Threads : q # p => call'[q] = call[q]
    BY <1>2, <1>3, ReturnFacts DEF Count, Unlock
  <2>2. /\ call[p].pc \in {"count", "unlock"}
        /\ lock = None \/ (lock = p /\ lock' = None)
        /\ lock' = None
    BY <1>3 DEF Count, Unlock, At, Inv, Places
  <2>3. Types'
    BY <1>1, <1>2, <2>1, <2>2 DEF Types, Idle
  <2>4. Places'
    BY <1>1, <2>1, <2>2, NobodyAssumption DEF Inv, Places, Idle, Scanning, Threads
  <2>5. Callbacks'
    BY <1>1, <2>1, <2>2 DEF Inv, Callbacks, Idle
  <2>6. Announced'
    BY <1>1, <2>1, <2>2 DEF Inv, Announced, Idle
  <2>7. Extensions'
    BY <1>1, <2>1, <2>2 DEF Inv, Extensions, Idle
  <2>8. QED
    BY <2>3, <2>4, <2>5, <2>6, <2>7 DEF Inv
<1>4. CASE TakeLock(p)
  <2>1. /\ call' \in [Threads -> CallType] /\ call'[p].pc = "now"
        /\ call'[p].op = call[p].op /\ call'[p].lease = call[p].lease
        /\ call'[p].now = call[p].now /\ call'[p].due = call[p].due
        /\ call'[p].found = call[p].found
        /\ \A q \in Threads : q # p => call'[q] = call[q]
    BY <1>2, <1>4, GotoFacts DEF TakeLock, Pcs, Scanning
  <2>2. call[p].pc = "lock" /\ lock = None /\ lock' = p
    BY <1>4 DEF TakeLock, At
  <2>3. Types'
    BY <1>1, <1>2, <2>1, <2>2 DEF Types
  <2>4. Places'
    BY <1>1, <2>1, <2>2, NobodyAssumption DEF Inv, Places, Scanning, Threads
  <2>5. Callbacks'
    BY <1>1, <2>1, <2>2 DEF Inv, Callbacks
  <2>6. Announced'
    BY <1>1, <2>1, <2>2 DEF Inv, Announced
  <2>7. Extensions'
    BY <1>1, <2>1, <2>2 DEF Inv, Extensions
  <2>8. QED
    BY <2>3, <2>4, <2>5, <2>6, <2>7 DEF Inv
<1>5. QED
  BY <1>3, <1>4

\* A lease is added while no scan is under way in memory.
LEMMA AddKeepsInv ==
    ASSUME Inv, NEW p \in Threads, Insert(p) \/ Renew(p)
    PROVE  Inv'
<1> DEFINE new == Len(leases) + 1
           from == IF Insert(p) THEN 0 ELSE call[p].lease
           step == IF Insert(p) THEN "count" ELSE "replace"
<1>1. Types /\ call[p] \in CallType /\ from \in Nat
  BY DEF Inv, Types, CallType
<1>2. /\ call[p].pc = (IF Insert(p) THEN "insert" ELSE "renew")
      /\ Add(from) /\ Goto(p, step) /\ UNCHANGED <<backend, storeLock, lock>>
  BY DEF Insert, Renew, InStore, At
<1>3. /\ leases' \in Seq(Lease) /\ told' \in Seq(0..2) /\ Len(told') = Len(leases')
      /\ LeaseIds' = LeaseIds \cup {new} /\ new \notin LeaseIds
      /\ \A l \in LeaseIds : leases'[l] = leases[l] /\ told'[l] = told[l]
      /\ leases'[new].status = "active" /\ leases'[new].from = from
      /\ told'[new] = 0
  BY <1>1, <1>2, AddFacts
<1>4. /\ call' \in [Threads -> CallType] /\ call'[p].pc = step
      /\ call'[p].op = call[p].op /\ call'[p].lease = call[p].lease
      /\ call'[p].now = call[p].now /\ call'[p].due = call[p].due
      /\ call'[p].found = call[p].found
      /\ \A q \in Threads : q # p => call'[q] = call[q]
  BY <1>1, <1>2, GotoFacts DEF Pcs, Scanning
<1>5. Insert(p) => from = 0 /\ step = "count"
  OBVIOUS
<1>6. ~Insert(p) => /\ from = call[p].lease /\ step = "replace"
                    /\ call[p].pc = "renew" /\ call[p].op = "extend"
  BY <1>2 DEF Inv, Places
<1>7. 0 \notin LeaseIds
  BY <1>1, LeaseIdsAre DEF Types
<1> HIDE DEF new, from, step
<1>8. Types'
  BY <1>1, <1>2, <1>3, <1>4 DEF Types
<1>9. Places'
  BY <1>2, <1>4, <1>5, <1>6 DEF Inv, Places, Scanning
<1>a. \A q \in Threads : call'[q].pc \in {"loop", "notify"} <=> call[q].pc \in {"loop", "notify"}
  BY <1>2, <1>4, <1>5, <1>6
<1>b. \A q \in Threads :
          call'[q].pc \in {"loop", "notify"} =>
              /\ call'[q] = call[q]
              /\ call[q].now \cup call[q].due \cup call[q].found \subseteq LeaseIds
  BY <1>1, <1>4, <1>5, <1>6 DEF Types
<1>10. Callbacks'
  BY <1>2, <1>3, <1>b DEF Inv, Callbacks
<1>11. Announced'
  <2>1. \A q \in Threads : call[q].pc = "notify" => call'[q] = call[q]
    BY <1>a, <1>b
  <2>2. ASSUME NEW l \in LeaseIds', leases'[l].status = "expired"
        PROVE  \/ told'[l] >= 1
               \/ \E q \in Threads : call'[q].pc = "notify" /\ l \in call'[q].now
    <3>1. l \in LeaseIds /\ leases'[l] = leases[l] /\ told'[l] = told[l]
      BY <1>3, <2>2
    <3>2. QED
      BY <2>1, <2>2, <3>1 DEF Inv, Announced
  <2>3. QED
    BY <1>2, <1>3, <1>b, <2>2 DEF Inv, Announced
<1>12. Extensions'
  <2>1. \A l \in LeaseIds : leases[l].from # new
    BY <1>3, LeaseIdsAre DEF Inv, Extensions, Types, new
  <2>2. \A l \in LeaseIds' : leases'[l].from = 0 \/ leases'[l].from \in LeaseIds'
    BY <1>3, <1>5, <1>6 DEF Inv, Extensions
  <2>3. \A q \in Threads : call'[q].op = "extend" => call'[q].lease \in LeaseIds'
    BY <1>3, <1>4 DEF Inv, Extensions
  <2>4. ASSUME NEW q \in Threads,
               call'[q].pc = "renew" \/ (call'[q].pc \in {"loop", "notify"}
                                         /\ call'[q].listed /\ call'[q].op = "extend")
        PROVE  \A l \in LeaseIds' : leases'[l].from # call'[q].lease
    <3>1. q # p /\ call'[q] = call[q]
      BY <1>4, <1>5, <1>6, <2>4
    <3>2. \A l \in LeaseIds : leases[l].from # call[q].lease
      BY <2>4, <3>1 DEF Inv, Extensions
    <3>3. call[q].op = "extend" /\ call[q].lease \in LeaseIds
      BY <2>4, <3>1 DEF Inv, Extensions, Places
    <3>4. CASE Insert(p)
      BY <1>3, <1>5, <1>7, <3>1, <3>2, <3>3, <3>4
    <3>5. CASE ~Insert(p)
      <4>1. lock = p /\ lock = q
        BY <1>6, <2>4, <3>1, <3>3, <3>5 DEF Inv, Places
      <4>2. QED
        BY <3>1, <4>1
    <3>6. QED
      BY <3>4, <3>5
  <2>5. ASSUME NEW l \in LeaseIds', leases'[l].from # 0
        PROVE  \/ leases'[leases'[l].from].status # "active"
               \/ \E q \in Threads : call'[q].pc = "replace" /\ call'[q].lease = leases'[l].from
    <3>1. CASE l \in LeaseIds
      <4>1. leases'[l] = leases[l] /\ leases[l].from \in LeaseIds
        BY <1>3, <2>5, <3>1 DEF Inv, Extensions
      <4>2. leases'[leases[l].from] = leases[leases[l].from]
        BY <1>3, <4>1
      <4>3. CASE leases[leases[l].from].status # "active"
        BY <4>1, <4>2, <4>3
      <4>4. CASE \E q \in Threads : call[q].pc = "replace" /\ call[q].lease = leases[l].from
        <5>1. PICK q \in Threads : call[q].pc = "replace" /\ call[q].lease = leases[l].from
          BY <4>4
        <5>2. q # p
          BY <1>2, <5>1
        <5>3. QED
          BY <1>4, <4>1, <5>1, <5>2
      <4>5. QED
        BY <2>5, <3>1, <4>1, <4>3, <4>4 DEF Inv, Extensions
    <3>2. CASE l = new
      BY <1>3, <1>4, <1>5, <1>6, <2>5, <3>2
    <3>3. QED
      BY <1>3, <3>1, <3>2
  <2>6. ASSUME NEW l \in LeaseIds', NEW m \in LeaseIds',
               leases'[l].from # 0, leases'[l].from = leases'[m].from
        PROVE  l = m
    <3>1. ~Insert(p) => \A k \in LeaseIds : leases[k].from # from
      BY <1>6 DEF Inv, Extensions
    <3>2. CASE l \in LeaseIds /\ m \in LeaseIds
      BY <1>3, <2>6, <3>2 DEF Inv, Extensions
    <3>3. CASE l = new \/ m = new
      BY <1>3, <1>5, <2>6, <3>1, <3>3
    <3>4. QED
      BY <1>3, <3>2, <3>3
  <2>7. QED
    BY <2>2, <2>3, <2>4, <2>5, <2>6 DEF Extensions
<1>13. QED
  BY <1>8, <1>9, <1>10, <1>11, <1>12 DEF Inv
\* A lease is revoked while no scan is under way in memory; of an expiry it
\* hides nothing.
LEMMA RevokeKeepsInv ==
    ASSUME Inv, NEW p \in Threads, RevokeLease(p) \/ Replace(p)
    PROVE  Inv'
<1> DEFINE k == call[p].lease
           step == IF RevokeLease(p) THEN "count" ELSE "unlock"
<1>1. Types /\ leases \in Seq(Lease)
  BY DEF Inv, Types
<1>2. /\ call[p].pc = (IF RevokeLease(p) THEN "revoke" ELSE "replace")
      /\ leases' = Mark({k}, "revoked") /\ Goto(p, step)
      /\ storeLock = None /\ UNCHANGED <<backend, storeLock, lock, told>>
  BY DEF RevokeLease, Replace, InStore, At
<1>3. /\ leases' \in Seq(Lease) /\ Len(leases') = Len(leases) /\ LeaseIds' = LeaseIds
      /\ \A l \in LeaseIds : /\ leases'[l].from = leases[l].from
                             /\ leases'[l].status = IF l = k THEN "revoked" ELSE leases[l].status
  BY <1>1, <1>2, MarkFacts DEF LeaseIds
<1>4. /\ call' \in [Threads -> CallType] /\ call'[p].pc = step
      /\ call'[p].op = call[p].op /\ call'[p].lease = call[p].lease
      /\ call'[p].now = call[p].now /\ call'[p].due = call[p].due
      /\ call'[p].found = call[p].found
      /\ \A q \in Threads : q # p => call'[q] = call[q]
  BY <1>1, <1>2, GotoFacts DEF Pcs, Scanning
<1>5. /\ RevokeLease(p) => step = "count" /\ call[p].pc = "revoke"
      /\ ~RevokeLease(p) => step = "unlock" /\ call[p].pc = "replace"
  BY <1>2
<1>6. \A q \in Threads :
          call'[q].pc \in {"loop", "notify", "renew"} \/ call[q].pc \in {"loop", "notify", "renew"}
          => call'[q] = call[q]
  BY <1>4, <1>5
<1> HIDE DEF k, step
<1>7. Types'
  BY <1>1, <1>2, <1>3, <1>4 DEF Types
<1>8. Places'
  BY <1>2, <1>4, <1>5 DEF Inv, Places, Scanning
<1>9. Callbacks'
  <2>1. backend = "memory" => \A q \in Threads : call[q].pc \notin {"loop", "notify"}
    BY <1>2, NobodyAssumption DEF Inv, Places, Threads
  <2>2. QED
    BY <1>2, <1>3, <1>6, <2>1 DEF Inv, Callbacks
<1>10. Announced'
  <2>1. ASSUME NEW l \in LeaseIds', leases'[l].status = "expired"
        PROVE  \/ told'[l] >= 1
               \/ \E q \in Threads : call'[q].pc = "notify" /\ l \in call'[q].now
    <3>1. l \in LeaseIds /\ leases[l].status = "expired"
      BY <1>3, <2>1
    <3>2. QED
      BY <1>2, <1>6, <3>1 DEF Inv, Announced
  <2>2. QED
    BY <1>2, <1>6, <2>1 DEF Inv, Announced
<1>11. Extensions'
  <2>1. ASSUME NEW l \in LeaseIds', leases'[l].from # 0
        PROVE  \/ leases'[leases'[l].from].status # "active"
               \/ \E q \in Threads : call'[q].pc = "replace" /\ call'[q].lease = leases'[l].from
    <3>1. leases'[l].from = leases[l].from /\ leases[l].from \in LeaseIds
      BY <1>3, <2>1 DEF Inv, Extensions
    <3>2. CASE leases[leases[l].from].status # "active"
      BY <1>3, <3>1, <3>2
    <3>3. ASSUME NEW q \in Threads, call[q].pc = "replace", call[q].lease = leases[l].from
          PROVE  \/ leases'[leases'[l].from].status # "active"
                 \/ call'[q].pc = "replace" /\ call'[q].lease = leases'[l].from
      <4>1. CASE q = p
        BY <1>3, <3>1, <3>3, <4>1 DEF k
      <4>2. CASE q # p
        BY <1>4, <3>1, <3>3, <4>2
      <4>3. QED
        BY <4>1, <4>2
    <3>4. QED
      BY <1>3, <2>1, <3>1, <3>2, <3>3 DEF Inv, Extensions
  <2>2. \A q \in Threads : call'[q].op = "extend" => call'[q].lease \in LeaseIds'
    BY <1>3, <1>4 DEF Inv, Extensions
  <2>3. \A q \in Threads :
            call'[q].pc = "renew" \/ (call'[q].pc \in {"loop", "notify"} /\ call'[q].listed
                                      /\ call'[q].op = "extend")
            => \A l \in LeaseIds' : leases'[l].from # call'[q].lease
    BY <1>3, <1>6 DEF Inv, Extensions
  <2>4. /\ \A l \in LeaseIds' : leases'[l].from = 0 \/ leases'[l].from \in LeaseIds'
        /\ \A l, m \in LeaseIds' :
              leases'[l].from # 0 /\ leases'[l].from = leases'[m].from => l = m
    BY <1>3 DEF Inv, Extensions
  <2>5. QED
    BY <2>1, <2>2, <2>3, <2>4 DEF Extensions
<1>12. QED
  BY <1>7, <1>8, <1>9, <1>10, <1>11 DEF Inv

-----------------------------------------------------------------------------
(* The steps of a scan.                                                    *)

\* The overdue leases are read off, then looked at again inside the store.
LEMMA LookKeepsInv ==
    ASSUME Inv, NEW p \in Threads, ReadClock(p) \/ Select(p)
    PROVE  Inv'
<1> DEFINE due == call[p].now \cap Active
           new == IF ReadClock(p)
                  THEN [call[p] EXCEPT !.now = {l \in LeaseIds : Overdue(l)}, !.pc = "select"]
                  ELSE Selected(call[p])
<1>1. Types /\ call[p] \in CallType /\ call[p].now \subseteq LeaseIds
  BY DEF Inv, Types
<1>2. /\ UNCHANGED <<backend, leases, lock, told>> /\ LeaseIds' = LeaseIds
      /\ ReadClock(p) => call[p].pc = "now" /\ storeLock' = storeLock
      /\ ~ReadClock(p) => /\ call[p].pc = "select" /\ storeLock = None
                          /\ storeLock' = IF backend = "memory" THEN p ELSE None
  BY DEF ReadClock, Select, At, storeVars, LeaseIds
<1>3. call' = [call EXCEPT ![p] = new]
  BY <1>1 DEF ReadClock, Select, Types, CallType
<1>4. /\ ReadClock(p) =>
            /\ new \in CallType /\ new.pc = "select" /\ new.op = call[p].op
            /\ new.lease = call[p].lease
            /\ new.now \subseteq LeaseIds /\ new.due = call[p].due /\ new.found = call[p].found
      /\ ~ReadClock(p) =>
            /\ new \in CallType /\ new.pc = "loop" /\ new.op = call[p].op
            /\ new.lease = call[p].lease
            /\ new.now = {} /\ new.due = due /\ due \subseteq LeaseIds
            /\ new.found = IF backend = "sqlite" THEN due ELSE {}
            /\ new.listed => call[p].lease \in Active
  <2>1. LeaseIds \subseteq Nat
    BY <1>1, LeaseIdsAre DEF Types
  <2>2. CASE ReadClock(p)
    BY <1>1, <2>1, <2>2 DEF CallType, Pcs, Scanning
  <2>3. CASE ~ReadClock(p)
    <3>1. new = [call[p] EXCEPT !.pc = "loop", !.now = {}, !.due = due,
                                !.found = IF backend = "sqlite" THEN due ELSE {},
                                !.listed = call[p].lease \in Active \ due]
      BY <2>3 DEF Selected
    <3>2. due \in SUBSET Nat /\ due \subseteq LeaseIds
      BY <1>1, <2>1
    <3>3. (call[p].lease \in Active \ due) \in BOOLEAN
      OBVIOUS
    <3> HIDE DEF new, due
    <3>4. QED
      BY <1>1, <2>3, <3>1, <3>2, <3>3 DEF CallType, Pcs, Scanning
  <2>4. QED
    BY <2>2, <2>3
<1>5. due \subseteq Active
  OBVIOUS
<1> HIDE DEF new, due
<1>6. /\ call'[p] = new /\ call' \in [Threads -> CallType]
      /\ \A q \in Threads : q # p => call'[q] = call[q]
  BY <1>1, <1>3, <1>4 DEF Types
<1>7. Types'
  BY <1>1, <1>2, <1>4, <1>6 DEF Types
<1>8. Places'
  BY <1>1, <1>2, <1>4, <1>6, NobodyAssumption DEF Inv, Places, Scanning, Types, Threads
<1>9. Callbacks'
  BY <1>2, <1>4, <1>5, <1>6 DEF Inv, Callbacks, Active
<1>10. Announced'
  BY <1>2, <1>4, <1>6 DEF Inv, Announced
<1>11. Extensions'
  <2>1. ASSUME NEW q \in Threads,
               call'[q].pc = "renew" \/ (call'[q].pc \in {"loop", "notify"} /\ call'[q].listed
                                         /\ call'[q].op = "extend")
        PROVE  \A l \in LeaseIds : leases[l].from # call'[q].lease
    <3>1. CASE q # p
      BY <1>6, <2>1, <3>1 DEF Inv, Extensions
    <3>2. CASE q = p
      <4>1. /\ ~ReadClock(p) /\ call[p].op = "extend" /\ call[p].pc = "select"
            /\ call'[p].lease = call[p].lease /\ call[p].lease \in Active
        BY <1>2, <1>4, <1>6, <2>1, <3>2
      <4>2. lock = p
        BY <4>1 DEF Inv, Places
      <4>3. \A r \in Threads : call[r].pc # "replace"
        BY <4>1, <4>2 DEF Inv, Places
      <4>4. ASSUME NEW l \in LeaseIds, leases[l].from = call[p].lease
            PROVE  FALSE
        <5>1. 0 \notin LeaseIds
          BY <1>1, LeaseIdsAre DEF Types
        <5>2. leases[call[p].lease].status = "active" /\ call[p].lease \in LeaseIds
          BY <4>1 DEF Active
        <5>3. QED
          BY <4>3, <4>4, <5>1, <5>2 DEF Inv, Extensions
      <4>5. QED
        BY <3>2, <4>1, <4>4
    <3>3. QED
      BY <3>1, <3>2
  <2>2. \A q \in Threads : call[q].pc = "replace" => call'[q] = call[q]
    BY <1>2, <1>6
  <2>3. \A q \in Threads : call'[q].op = "extend" => call'[q].lease \in LeaseIds
    BY <1>4, <1>6 DEF Inv, Extensions
  <2>4. QED
    BY <1>2, <2>1, <2>2, <2>3 DEF Inv, Extensions
<1>12. QED
  BY <1>7, <1>8, <1>9, <1>10, <1>11 DEF Inv

\* The next lease: marked at once in memory, and in any case called back next.
LEMMA ExpireNextKeepsInv ==
    ASSUME Inv, NEW p \in Threads, ExpireNext(p)
    PROVE  Inv'
<1>1. PICK k \in call[p].due :
         /\ leases' = IF backend = "memory" THEN Mark({k}, "expired") ELSE leases
         /\ call' = [call EXCEPT ![p].due = @ \ {k}, ![p].now = {k}, ![p].pc = "notify"]
  BY DEF ExpireNext
<1>2. /\ Types /\ leases \in Seq(Lease) /\ call[p] \in CallType /\ call[p].pc = "loop"
      /\ call \in [Threads -> CallType]
      /\ call[p].now \cup call[p].due \cup call[p].found \subseteq LeaseIds
      /\ UNCHANGED <<backend, storeLock, lock, told>>
  BY DEF Inv, Types, ExpireNext, At
<1>3. /\ leases' \in Seq(Lease) /\ Len(leases') = Len(leases) /\ LeaseIds' = LeaseIds
      /\ \A l \in LeaseIds :
            /\ leases'[l].from = leases[l].from
            /\ leases'[l].status = IF backend = "memory" /\ l = k THEN "expired"
                                                                  ELSE leases[l].status
  BY <1>1, <1>2, MarkFacts DEF LeaseIds
<1> DEFINE new == [call[p] EXCEPT !.due = @ \ {k}, !.now = {k}, !.pc = "notify"]
<1>4. call' = [call EXCEPT ![p] = new]
  BY <1>1, <1>2 DEF CallType
<1>5. /\ new \in CallType /\ new.pc = "notify" /\ new.op = call[p].op
      /\ new.lease = call[p].lease /\ new.now = {k} /\ new.due = call[p].due \ {k}
      /\ new.found = call[p].found /\ new.listed = call[p].listed
  <2>1. {k} \in SUBSET Nat /\ call[p].due \ {k} \in SUBSET Nat
    BY <1>2 DEF CallType
  <2>2. QED
    BY <1>2, <2>1 DEF CallType, Pcs, Scanning
<1>6. k \in LeaseIds
  BY <1>2
<1> HIDE DEF new
<1>7. /\ call'[p] = new /\ call' \in [Threads -> CallType]
      /\ \A q \in Threads : q # p => call'[q] = call[q]
  BY <1>2, <1>4, <1>5
<1>8. Types'
  BY <1>2, <1>3, <1>5, <1>7 DEF Types
<1>9. Places'
  BY <1>2, <1>5, <1>7 DEF Inv, Places, Scanning
<1>10. Callbacks'
  <2>1. SUFFICES ASSUME backend = "memory" PROVE Callbacks'
    BY <1>2 DEF Callbacks
  <2>2. \A q \in Threads : q # p => call[q].pc \notin {"loop", "notify"}
    BY <1>2, <2>1 DEF Inv, Places
  <2>3. leases[k].status = "active" /\ told[k] = 0
    <3>1. leases[k].status = "active"
      BY <1>2, <2>1 DEF Inv, Callbacks
    <3>2. told[k] \in 0..2
      BY <1>6 DEF Inv, Types, LeaseIds
    <3>3. QED
      BY <1>6, <2>1, <3>1, <3>2 DEF Inv, Callbacks
  <2>4. \A l \in LeaseIds : told[l] <= 1 /\ (told[l] > 0 => leases'[l].status # "active")
    BY <1>3, <2>1 DEF Inv, Callbacks
  <2>5. \A l \in call[p].due \ {k} : leases'[l].status = "active"
    BY <1>2, <1>3, <2>1 DEF Inv, Callbacks
  <2>6. leases'[k].status # "active"
    BY <1>3, <1>6, <2>1
  <2>7. QED
    BY <1>2, <1>3, <1>5, <1>7, <2>2, <2>3, <2>4, <2>5, <2>6 DEF Callbacks
<1>11. Announced'
  <2>1. \A q \in Threads : call[q].pc = "notify" => call'[q] = call[q]
    BY <1>2, <1>7
  <2>2. ASSUME NEW l \in LeaseIds', leases'[l].status = "expired"
        PROVE  \/ told'[l] >= 1
               \/ \E q \in Threads : call'[q].pc = "notify" /\ l \in call'[q].now
    <3>1. CASE l = k
      BY <1>5, <1>7, <3>1
    <3>2. CASE l # k
      <4>1. l \in LeaseIds /\ leases[l].status = "expired"
        BY <1>3, <2>2, <3>2
      <4>2. QED
        BY <1>2, <2>1, <4>1 DEF Inv, Announced
    <3>3. QED
      BY <3>1, <3>2
  <2>3. ASSUME backend = "sqlite", NEW q \in Threads, call'[q].pc \in {"loop", "notify"},
               NEW l \in call'[q].found
        PROVE  \/ told'[l] >= 1 \/ l \in call'[q].due
               \/ call'[q].pc = "notify" /\ l \in call'[q].now
    BY <1>2, <1>5, <1>7, <2>3 DEF Inv, Announced
  <2>4. QED
    BY <1>2, <2>2, <2>3 DEF Announced
<1>12. Extensions'
  <2>1. \A q \in Threads : call[q].pc = "replace" => call'[q] = call[q]
    BY <1>2, <1>7
  <2>2. \A q \in Threads :
            call'[q].pc = "renew" \/ (call'[q].pc \in {"loop", "notify"} /\ call'[q].listed
                                      /\ call'[q].op = "extend")
            => \A l \in LeaseIds' : leases'[l].from # call'[q].lease
    BY <1>2, <1>3, <1>5, <1>7 DEF Inv, Extensions
  <2>3. \A q \in Threads : call'[q].op = "extend" => call'[q].lease \in LeaseIds'
    BY <1>3, <1>5, <1>7 DEF Inv, Extensions
  <2>4. ASSUME NEW l \in LeaseIds', leases'[l].from # 0
        PROVE  \/ leases'[leases'[l].from].status # "active"
               \/ \E q \in Threads : call'[q].pc = "replace" /\ call'[q].lease = leases'[l].from
    <3>1. leases'[l].from = leases[l].from /\ leases[l].from \in LeaseIds
      BY <1>3, <2>4 DEF Inv, Extensions
    <3>2. leases[leases[l].from].status # "active" => leases'[leases[l].from].status # "active"
      BY <1>3, <3>1
    <3>3. QED
      BY <1>3, <2>1, <2>4, <3>1, <3>2 DEF Inv, Extensions
  <2>5. /\ \A l \in LeaseIds' : leases'[l].from = 0 \/ leases'[l].from \in LeaseIds'
        /\ \A l, m \in LeaseIds' :
              leases'[l].from # 0 /\ leases'[l].from = leases'[m].from => l = m
    BY <1>3 DEF Inv, Extensions
  <2>6. QED
    BY <2>2, <2>3, <2>4, <2>5 DEF Extensions
<1>13. QED
  BY <1>8, <1>9, <1>10, <1>11, <1>12 DEF Inv
\* The listeners hear of a lease.
LEMMA NotifyKeepsInv ==
    ASSUME Inv, NEW p \in Threads, Notify(p)
    PROVE  Inv'
<1>1. /\ Types /\ call[p] \in CallType /\ call[p].pc = "notify"
      /\ UNCHANGED <<backend, leases, storeLock, lock>> /\ LeaseIds' = LeaseIds
      /\ told' = Tell(call[p].now)
      /\ call' = [call EXCEPT ![p].now = {}, ![p].pc = "loop"]
  BY DEF Inv, Types, Notify, At, storeVars, LeaseIds
<1>2. /\ told' \in Seq(0..2) /\ Len(told') = Len(leases)
      /\ \A l \in LeaseIds : /\ told'[l] >= told[l]
                             /\ l \in call[p].now => told'[l] >= 1
                             /\ l \in call[p].now /\ told[l] = 0 => told'[l] = 1
                             /\ l \notin call[p].now => told'[l] = told[l]
  BY <1>1, TellFacts
<1>3. /\ call' \in [Threads -> CallType] /\ call'[p].pc = "loop"
      /\ call'[p].op = call[p].op /\ call'[p].lease = call[p].lease
      /\ call'[p].now = {} /\ call'[p].due = call[p].due
      /\ call'[p].found = call[p].found /\ call'[p].listed = call[p].listed
      /\ \A q \in Threads : q # p => call'[q] = call[q]
  <2>1. [call[p] EXCEPT !.now = {}, !.pc = "loop"] \in CallType
    BY <1>1 DEF CallType, Pcs, Scanning
  <2>2. call \in [Threads -> CallType]
    BY <1>1 DEF Types
  <2>3. QED
    BY <1>1, <2>1, <2>2 DEF CallType
<1>4. \A l \in LeaseIds : told[l] \in 0..2 /\ told'[l] \in 0..2
  BY <1>1, <1>2 DEF Types, LeaseIds
<1>5. Types'
  BY <1>1, <1>2, <1>3 DEF Types
<1>6. Places'
  BY <1>1, <1>3 DEF Inv, Places, Scanning
<1>7. Callbacks'
  <2>1. SUFFICES ASSUME backend = "memory" PROVE Callbacks'
    BY <1>1 DEF Callbacks
  <2>2. \A q \in Threads : q # p => call[q].pc \notin {"loop", "notify"}
    BY <1>1, <2>1 DEF Inv, Places
  <2>3. \A l \in LeaseIds : told'[l] <= 1 /\ (told'[l] > 0 => leases[l].status # "active")
    BY <1>1, <1>2, <2>1 DEF Inv, Callbacks
  <2>4. \A l \in call[p].due : leases[l].status = "active"
    BY <1>1, <2>1 DEF Inv, Callbacks
  <2>5. QED
    BY <1>1, <1>3, <2>2, <2>3, <2>4 DEF Callbacks
<1>8. Announced'
  <2>1. ASSUME NEW l \in LeaseIds, leases[l].status = "expired"
        PROVE  \/ told'[l] >= 1
               \/ \E q \in Threads : call'[q].pc = "notify" /\ l \in call'[q].now
    <3>1. CASE told[l] >= 1
      BY <1>2, <1>4, <3>1
    <3>2. CASE \E q \in Threads : call[q].pc = "notify" /\ l \in call[q].now
      BY <1>2, <1>3, <3>2
    <3>3. QED
      BY <2>1, <3>1, <3>2 DEF Inv, Announced
  <2>2. ASSUME backend = "sqlite", NEW q \in Threads, call'[q].pc \in {"loop", "notify"},
               NEW l \in call'[q].found
        PROVE  \/ told'[l] >= 1 \/ l \in call'[q].due
               \/ call'[q].pc = "notify" /\ l \in call'[q].now
    <3>1. /\ call[q].pc \in {"loop", "notify"} /\ call'[q].found = call[q].found
          /\ call'[q].due = call[q].due /\ (q # p => call'[q].now = call[q].now)
      BY <1>1, <1>3, <2>2
    <3>2. l \in LeaseIds
      BY <1>1, <2>2, <3>1 DEF Types
    <3>3. told[l] >= 1 => told'[l] >= 1
      BY <1>2, <1>4, <3>2
    <3>4. q = p /\ l \in call[p].now => told'[l] >= 1
      BY <1>2, <3>2
    <3>5. q # p => call'[q].pc = call[q].pc
      BY <1>3
    <3>6. QED
      BY <2>2, <3>1, <3>3, <3>4, <3>5 DEF Inv, Announced
  <2>3. QED
    BY <1>1, <2>1, <2>2 DEF Announced
<1>9. Extensions'
  BY <1>1, <1>3 DEF Inv, Extensions
<1>10. QED
  BY <1>5, <1>6, <1>7, <1>8, <1>9 DEF Inv

\* The end of a scan: SQLite's store marks what it has called back.
LEMMA EndScanKeepsInv ==
    ASSUME Inv, NEW p \in Threads, EndScan(p)
    PROVE  Inv'
<1>1. /\ Types /\ leases \in Seq(Lease) /\ call[p] \in CallType /\ call[p].pc = "loop"
      /\ call[p].due = {} /\ storeLock' = None
      /\ UNCHANGED <<backend, lock, told>>
  BY DEF Inv, Types, EndScan, At
<1>2. /\ leases' \in Seq(Lease) /\ Len(leases') = Len(leases) /\ LeaseIds' = LeaseIds
      /\ \A l \in LeaseIds :
            /\ leases'[l].from = leases[l].from
            /\ leases'[l].status = IF backend = "sqlite" /\ l \in call[p].found THEN "expired"
                                                                  ELSE leases[l].status
  <2>1. leases' = IF backend = "sqlite" THEN Mark(call[p].found, "expired") ELSE leases
    BY DEF EndScan
  <2>2. CASE backend = "sqlite"
    BY <1>1, <2>1, <2>2, MarkFacts DEF LeaseIds
  <2>3. CASE backend # "sqlite"
    BY <1>1, <2>1, <2>3 DEF LeaseIds
  <2>4. QED
    BY <2>2, <2>3
<1>3. /\ call' \in [Threads -> CallType]
      /\ \A q \in Threads : q # p => call'[q] = call[q]
      /\ \/ call'[p] = Idle /\ call[p].op = "list"
         \/ call'[p].pc = "count" /\ call[p].op = "scan"
         \/ /\ call[p].op = "extend"
            /\ call'[p].pc = IF call[p].listed THEN "renew" ELSE "unlock"
      /\ call'[p] # Idle => /\ call'[p].op = call[p].op /\ call'[p].lease = call[p].lease
                            /\ call'[p].now = call[p].now /\ call'[p].due = call[p].due
                            /\ call'[p].found = call[p].found
  <2>1. \/ Return(p) /\ call[p].op = "list"
        \/ Goto(p, "count") /\ call[p].op = "scan"
        \/ /\ call[p].op = "extend"
           /\ Goto(p, IF call[p].listed THEN "renew" ELSE "unlock")
    BY <1>1 DEF EndScan, Inv, Places, Scanning
  <2>2. CASE Return(p) /\ call[p].op = "list"
    BY <1>1, <2>2, ReturnFacts
  <2>3. CASE Goto(p, "count") /\ call[p].op = "scan"
    BY <1>1, <2>3, GotoFacts DEF Pcs
  <2>4. CASE call[p].op = "extend" /\ Goto(p, IF call[p].listed THEN "renew" ELSE "unlock")
    <3>1. (IF call[p].listed THEN "renew" ELSE "unlock") \in Pcs
      BY DEF Pcs
    <3>2. QED
      BY <1>1, <2>4, <3>1, GotoFacts
  <2>5. QED
    BY <2>1, <2>2, <2>3, <2>4
<1>4. /\ Idle.pc = "idle" /\ Idle.op = "none" /\ Idle.now = {} /\ Idle.due = {} /\ Idle.found = {}
  BY DEF Idle
<1>5. \A q \in Threads :
          call'[q].pc \in {"loop", "notify", "replace"} => call'[q] = call[q] /\ q # p
  BY <1>3, <1>4
<1>6. \A q \in Threads : call[q].pc \in {"notify", "replace"} => call'[q] = call[q]
  BY <1>1, <1>3
<1>7. Types'
  BY <1>1, <1>2, <1>3, <1>4 DEF Types
<1>8. Places'
  <2>1. ASSUME NEW q \in Threads, q # p PROVE storeLock # q
    <3>1. storeLock \in {p, None}
      BY <1>1 DEF Inv, Places, Types
    <3>2. QED
      BY <2>1, <3>1, NobodyAssumption DEF Threads
  <2>2. \A q \in Threads : storeLock' # q
    BY <1>1, NobodyAssumption DEF Threads
  <2>3. \A q \in Threads : backend = "memory" => call'[q].pc \notin {"loop", "notify"}
    BY <1>1, <1>5, <2>1 DEF Inv, Places
  <2>4. QED
    BY <1>1, <1>3, <1>4, <2>2, <2>3 DEF Inv, Places, Scanning
<1>9. Callbacks'
  <2>1. SUFFICES ASSUME backend = "memory" PROVE Callbacks'
    BY <1>1 DEF Callbacks
  <2>2. LeaseIds' = LeaseIds /\ \A l \in LeaseIds : leases'[l].status = leases[l].status
    BY <1>2, <2>1
  <2>3. \A q \in Threads : call[q].now \cup call[q].due \subseteq LeaseIds
    BY <1>1 DEF Types
  <2>4. QED
    BY <1>1, <1>5, <2>1, <2>2, <2>3 DEF Inv, Callbacks
<1>10. Announced'
  <2>1. ASSUME NEW l \in LeaseIds', leases'[l].status = "expired"
        PROVE  \/ told'[l] >= 1
               \/ \E q \in Threads : call'[q].pc = "notify" /\ l \in call'[q].now
    <3>1. CASE leases[l].status = "expired"
      BY <1>1, <1>2, <1>6, <2>1, <3>1 DEF Inv, Announced
    <3>2. CASE backend = "sqlite" /\ l \in call[p].found
      BY <1>1, <3>2 DEF Inv, Announced
    <3>3. QED
      BY <1>2, <2>1, <3>1, <3>2
  <2>2. QED
    BY <1>1, <1>5, <2>1 DEF Inv, Announced
<1>11. Extensions'
  <2>1. ASSUME NEW l \in LeaseIds', leases'[l].from # 0
        PROVE  \/ leases'[leases'[l].from].status # "active"
               \/ \E q \in Threads : call'[q].pc = "replace" /\ call'[q].lease = leases'[l].from
    <3>1. leases'[l].from = leases[l].from /\ leases[l].from \in LeaseIds
      BY <1>2, <2>1 DEF Inv, Extensions
    <3>2. leases[leases[l].from].status # "active" => leases'[leases[l].from].status # "active"
      BY <1>2, <3>1
    <3>3. QED
      BY <1>2, <1>6, <2>1, <3>1, <3>2 DEF Inv, Extensions
  <2>2. \A q \in Threads : call'[q].op = "extend" => call'[q].lease \in LeaseIds'
    BY <1>2, <1>3, <1>4 DEF Inv, Extensions
  <2>3. ASSUME NEW q \in Threads,
               call'[q].pc = "renew" \/ (call'[q].pc \in {"loop", "notify"} /\ call'[q].listed
                                         /\ call'[q].op = "extend")
        PROVE  \A l \in LeaseIds' : leases'[l].from # call'[q].lease
    <3>1. CASE q # p
      BY <1>2, <1>3, <2>3, <3>1 DEF Inv, Extensions
    <3>2. CASE q = p
      <4>1. /\ call'[p].pc = "renew" /\ call[p].listed /\ call[p].op = "extend"
            /\ call'[p].lease = call[p].lease
        BY <1>3, <1>4, <2>3, <3>2
      <4>2. QED
        BY <1>1, <1>2, <3>2, <4>1 DEF Inv, Extensions
    <3>3. QED
      BY <3>1, <3>2
  <2>4. /\ \A l \in LeaseIds' : leases'[l].from = 0 \/ leases'[l].from \in LeaseIds'
        /\ \A l, m \in LeaseIds' :
              leases'[l].from # 0 /\ leases'[l].from = leases'[m].from => l = m
    BY <1>2 DEF Inv, Extensions
  <2>5. QED
    BY <2>1, <2>2, <2>3, <2>4 DEF Extensions
<1>12. QED
  BY <1>7, <1>8, <1>9, <1>10, <1>11 DEF Inv

-----------------------------------------------------------------------------
(* The theorems.                                                           *)

LEMMA FallsDueKeepsInv ==
    ASSUME Inv, NEW k \in LeaseIds, LeaseFallsDue(k)
    PROVE  Inv'
<1>1. /\ leases \in Seq(Lease) /\ leases' = [leases EXCEPT ![k].ttl = "over"]
      /\ UNCHANGED <<backend, storeLock, lock, call, told>>
  BY DEF Inv, Types, LeaseFallsDue
<1>2. [leases[k] EXCEPT !.ttl = "over"] \in Lease
  <2>1. leases[k] \in Lease
    BY <1>1 DEF LeaseIds
  <2>2. QED
    BY <2>1 DEF Lease
<1>3. /\ leases' \in Seq(Lease) /\ Len(leases') = Len(leases) /\ LeaseIds' = LeaseIds
      /\ \A l \in LeaseIds : l # k => leases'[l] = leases[l]
      /\ leases'[k] = [leases[k] EXCEPT !.ttl = "over"]
  BY <1>1, <1>2 DEF LeaseIds
<1>4. \A l \in LeaseIds : /\ leases'[l].status = leases[l].status
                          /\ leases'[l].from = leases[l].from
  <2> TAKE l \in LeaseIds
  <2>1. leases[k] \in Lease
    BY <1>1 DEF LeaseIds
  <2>2. QED
    BY <1>3, <2>1 DEF Lease
<1>5. Types'
  BY <1>1, <1>3 DEF Inv, Types
<1>6. Places' /\ Callbacks' /\ Announced'
  <2>1. Places'
    BY <1>1 DEF Inv, Places
  <2>2. Callbacks'
    BY <1>1, <1>3, <1>4 DEF Inv, Callbacks, Types
  <2>3. Announced'
    BY <1>1, <1>3, <1>4 DEF Inv, Announced
  <2>4. QED
    BY <2>1, <2>2, <2>3
<1>7. Extensions'
  BY <1>1, <1>3, <1>4 DEF Inv, Extensions
<1>8. QED
  BY <1>5, <1>6, <1>7 DEF Inv

LEMMA InitInv == Init => Inv
<1> SUFFICES ASSUME Init PROVE Inv
  OBVIOUS
<1>1. /\ leases = <<>> /\ told = <<>> /\ LeaseIds = {}
      /\ storeLock = None /\ lock = None /\ backend \in Backends
      /\ \A p \in Threads : call[p] = Idle
      /\ call = [p \in Threads |-> Idle]
  BY DEF Init, LeaseIds
<1>2. Types
  BY <1>1, IdleType DEF Types, Idle
<1>3. Places
  BY <1>1, NobodyAssumption DEF Places, Idle, Scanning, Threads
<1>4. Callbacks /\ Announced
  BY <1>1 DEF Callbacks, Announced, Idle
<1>5. Extensions
  BY <1>1 DEF Extensions, Idle
<1>6. QED
  BY <1>2, <1>3, <1>4, <1>5 DEF Inv

LEMMA NextKeepsInv == Inv /\ [Next]_vars => Inv'
<1> SUFFICES ASSUME Inv, [Next]_vars PROVE Inv'
  OBVIOUS
<1>1. LeaseIds \subseteq Nat
  BY LeaseIdsAre DEF Inv, Types
<1>2. CASE UNCHANGED vars
  <2>1. UNCHANGED <<backend, leases, storeLock, lock, call, told>>
    BY <1>2 DEF vars
  <2>2. QED
    BY <2>1 DEF Inv, Types, Places, Callbacks, Announced, Extensions, LeaseIds
<1>3. ASSUME NEW p \in Callers, Call(p)
      PROVE  Inv'
  <2>1. p \in Threads
    BY DEF Threads
  <2>2. CASE Create(p) \/ ListActive(p)
    BY <2>1, <2>2, BeginKeepsInv DEF Create, ListActive, Ops
  <2>3. ASSUME NEW l \in LeaseIds, Revoke(p, l)
        PROVE  Inv'
    BY <1>1, <2>1, <2>3, BeginKeepsInv DEF Revoke, Ops
  <2>4. ASSUME NEW l \in LeaseIds, Extend(p, l)
        PROVE  Inv'
    BY <1>1, <2>1, <2>4, BeginKeepsInv DEF Extend, Ops
  <2>5. QED
    BY <1>3, <2>2, <2>3, <2>4 DEF Call
<1>4. CASE ScanOnce
  BY <1>4, BeginKeepsInv DEF ScanOnce, Ops, Threads
<1>5. ASSUME NEW p \in Threads, Step(p)
      PROVE  Inv'
  BY <1>5, AddKeepsInv, RevokeKeepsInv, QuietKeepsInv, LookKeepsInv, ExpireNextKeepsInv,
     NotifyKeepsInv, EndScanKeepsInv DEF Step
<1>6. ASSUME NEW l \in LeaseIds, LeaseFallsDue(l)
      PROVE  Inv'
  BY <1>6, FallsDueKeepsInv
<1>7. QED
  BY <1>2, <1>3, <1>4, <1>5, <1>6 DEF Next

\* The types, and that a lock is held by a thread on its way to releasing it.
THEOREM LocksOwned == Spec => []TypeOK
<1>1. Inv => TypeOK
  BY InvImplies
<1>2. QED
  BY <1>1, InitInv, NextKeepsInv, PTL DEF Spec

\* Any number of scans of any threads call an expiry back once (in memory).
THEOREM CalledBackOnce == Spec => []NotifiedOnce
<1>1. Inv => NotifiedOnce
  BY InvImplies
<1>2. QED
  BY <1>1, InitInv, NextKeepsInv, PTL DEF Spec

\* No lease expires without its callback, over either store.
THEOREM ExpiryCalledBack == Spec => []ExpiryNotified
<1>1. Inv => ExpiryNotified
  BY InvImplies
<1>2. QED
  BY <1>1, InitInv, NextKeepsInv, PTL DEF Spec

\* Any number of threads may extend a lease at once: one of them succeeds.
THEOREM OneExtension == Spec => []ExtendedOnce
<1>1. Inv => ExtendedOnce
  BY InvImplies
<1>2. QED
  BY <1>1, InitInv, NextKeepsInv, PTL DEF Spec

-----------------------------------------------------------------------------
(* What can come to a standstill.                                          *)

\* create, revoke and the metrics of a scan are no part of an extension, so
\* who waits for the lock there holds nothing.
Errands == \A p \in Threads : call[p].pc \in {"insert", "revoke", "count"} => call[p].op # "extend"

\* The guards of the steps: whoever is busy and not blocked has a next step.
Blocked(p) ==
    \/ call[p].pc \in {"insert", "revoke", "select", "renew", "replace"} /\ storeLock # None
    \/ call[p].pc \in {"lock", "count", "notify"} /\ lock # None

\* The call of one thread moves at a time, and only along its own way.
LEMMA OneCallMoves ==
    ASSUME Inv, NEW p \in Threads, Step(p)
    PROVE  /\ \A q \in Threads : q # p => call'[q] = call[q]
           /\ \/ call'[p] = Idle
              \/ call'[p].op = call[p].op /\ call'[p].pc # "insert" /\ call'[p].pc # "revoke"
           /\ call'[p].pc = "count" => \/ call[p].pc \in {"insert", "revoke"}
                                       \/ call[p].op = "scan"
<1>1. Types /\ call \in [Threads -> CallType] /\ call[p] \in CallType
  BY DEF Inv, Types
<1>2. CASE Count(p) \/ Unlock(p)
  BY <1>1, <1>2, ReturnFacts DEF Count, Unlock, Idle
<1>3. ASSUME NEW step \in Pcs \ {"insert", "revoke"}, Goto(p, step),
             step = "count" => call[p].pc \in {"insert", "revoke"} \/ call[p].op = "scan"
      PROVE  /\ \A q \in Threads : q # p => call'[q] = call[q]
             /\ call'[p].op = call[p].op /\ call'[p].pc # "insert" /\ call'[p].pc # "revoke"
             /\ call'[p].pc = "count" => \/ call[p].pc \in {"insert", "revoke"}
                                         \/ call[p].op = "scan"
  BY <1>1, <1>3, GotoFacts
<1>4. CASE Insert(p) \/ RevokeLease(p) \/ TakeLock(p) \/ Renew(p) \/ Replace(p)
  BY <1>3, <1>4 DEF Insert, RevokeLease, TakeLock, Renew, Replace, At, Pcs, Scanning
<1>5. CASE EndScan(p)
  <2>1. call[p].op \in {"list", "scan", "extend"}
    BY <1>5 DEF EndScan, At, Inv, Places, Scanning
  <2>2. CASE call[p].op = "list"
    BY <1>1, <1>5, <2>2, ReturnFacts DEF EndScan, Idle
  <2>3. CASE call[p].op = "scan"
    BY <1>3, <1>5, <2>3 DEF EndScan, Pcs
  <2>4. CASE call[p].op = "extend"
    BY <1>3, <1>5, <2>4 DEF EndScan, Pcs
  <2>5. QED
    BY <2>1, <2>2, <2>3, <2>4
<1>6. ASSUME NEW step \in Scanning, NEW c, call' = [call EXCEPT ![p] = c],
             c.op = call[p].op, c.pc = step
      PROVE  /\ \A q \in Threads : q # p => call'[q] = call[q]
             /\ call'[p].op = call[p].op /\ call'[p].pc \in Scanning
  BY <1>1, <1>6
<1>7. CASE ReadClock(p)
  <2> DEFINE c == [call[p] EXCEPT !.now = {l \in LeaseIds : Overdue(l)}, !.pc = "select"]
  <2>1. call' = [call EXCEPT ![p] = c] /\ c.op = call[p].op /\ c.pc = "select"
    BY <1>1, <1>7 DEF ReadClock, CallType
  <2> HIDE DEF c
  <2>2. QED
    BY <1>6, <2>1 DEF Scanning
<1>8. CASE Select(p)
  <2> DEFINE c == Selected(call[p])
  <2>1. call' = [call EXCEPT ![p] = c] /\ c.op = call[p].op /\ c.pc = "loop"
    BY <1>1, <1>8 DEF Select, Selected, CallType
  <2> HIDE DEF c
  <2>2. QED
    BY <1>6, <2>1 DEF Scanning
<1>9. CASE ExpireNext(p)
  <2>1. PICK l \in call[p].due :
            call' = [call EXCEPT ![p].due = @ \ {l}, ![p].now = {l}, ![p].pc = "notify"]
    BY <1>9 DEF ExpireNext
  <2> DEFINE c == [call[p] EXCEPT !.due = @ \ {l}, !.now = {l}, !.pc = "notify"]
  <2>2. call' = [call EXCEPT ![p] = c] /\ c.op = call[p].op /\ c.pc = "notify"
    BY <1>1, <2>1 DEF CallType
  <2> HIDE DEF c
  <2>3. QED
    BY <1>6, <2>2 DEF Scanning
<1>10. CASE Notify(p)
  <2> DEFINE c == [call[p] EXCEPT !.now = {}, !.pc = "loop"]
  <2>1. call' = [call EXCEPT ![p] = c] /\ c.op = call[p].op /\ c.pc = "loop"
    BY <1>1, <1>10 DEF Notify, CallType
  <2> HIDE DEF c
  <2>2. QED
    BY <1>6, <2>1 DEF Scanning
<1>11. QED
  BY <1>2, <1>4, <1>5, <1>7, <1>8, <1>9, <1>10 DEF Step

\* A call begins with a thread that has none, and never at count.
LEMMA BeginMoves ==
    ASSUME Inv, NEW p \in Threads, NEW op \in Ops, NEW step, NEW l \in Nat, Begin(p, op, step, l)
    PROVE  /\ \A q \in Threads : q # p => call'[q] = call[q]
           /\ call[p].pc = "idle" /\ call'[p].op = op /\ call'[p].pc = step
           /\ UNCHANGED <<storeLock, lock>>
<1> DEFINE new == [Idle EXCEPT !.op = op, !.pc = step, !.lease = l]
<1>1. call' = [call EXCEPT ![p] = new] /\ call \in [Threads -> CallType]
      /\ new.op = op /\ new.pc = step
  BY DEF Begin, Inv, Types, Idle
<1> HIDE DEF new
<1>2. call[p].pc = "idle" /\ UNCHANGED <<storeLock, lock>>
  BY DEF Begin, Busy, At, storeVars
<1>3. QED
  BY <1>1, <1>2

LEMMA CallMoves ==
    ASSUME Inv, NEW p \in Threads, (ScanOnce /\ p = Scanner) \/ (p \in Callers /\ Call(p))
    PROVE  /\ \A q \in Threads : q # p => call'[q] = call[q]
           /\ call[p].pc = "idle" /\ call'[p].pc # "count"
           /\ call'[p].pc \in {"insert", "revoke"} => call'[p].op # "extend"
           /\ UNCHANGED <<storeLock, lock>>
<1>1. LeaseIds \subseteq Nat /\ 0 \in Nat
  BY LeaseIdsAre DEF Inv, Types
<1>2. PICK op \in Ops, step \in {"insert", "revoke", "now", "lock"}, l \in Nat :
         Begin(p, op, step, l) /\ (step \in {"insert", "revoke"} => op # "extend")
  BY <1>1 DEF ScanOnce, Call, Create, ListActive, Revoke, Extend, Ops
<1>3. QED
  BY <1>2, BeginMoves

LEMMA ErrandsStep == Inv /\ Errands /\ [Next]_vars => Errands'
<1> SUFFICES ASSUME Inv, Errands, [Next]_vars PROVE Errands'
  OBVIOUS
<1>1. ASSUME NEW p \in Threads, Step(p) PROVE Errands'
  <2>1. Idle.pc = "idle"
    BY DEF Idle
  <2>2. QED
    BY <1>1, <2>1, OneCallMoves DEF Errands
<1>2. ASSUME NEW p \in Threads, (ScanOnce /\ p = Scanner) \/ (p \in Callers /\ Call(p))
      PROVE  Errands'
  BY <1>2, CallMoves DEF Errands
<1>3. ASSUME NEW l \in LeaseIds, LeaseFallsDue(l) PROVE Errands'
  BY <1>3 DEF Errands, LeaseFallsDue
<1>4. CASE UNCHANGED vars
  BY <1>4 DEF Errands, vars
<1>5. QED
  BY <1>1, <1>2, <1>3, <1>4 DEF Next, Threads

\* Who holds the lock of the store is calling back or about to; when nobody
\* can move, it waits for the manager's lock, whose holder is an extension.
LEMMA StandstillIsDeadlock ==
    ASSUME Inv, Errands, NEW p \in Threads, Busy(p),
           \A q \in Threads : Busy(q) => Blocked(q)
    PROVE  Deadlocked
<1>1. storeLock \in Threads \cup {None} /\ lock \in Threads \cup {None}
  BY DEF Inv, Types
<1>2. \A q \in Threads : /\ storeLock = q => call[q].pc \in {"loop", "notify"}
                         /\ lock = q => call[q].op = "extend" /\ call[q].pc # "lock"
                         /\ call[q].pc = "idle" => call[q].op = "none"
  BY DEF Inv, Places
<1>3. CASE storeLock # None
  <2>1. PICK q \in Threads : storeLock = q
    BY <1>1, <1>3
  <2>2. call[q].pc = "notify" /\ lock # None
    BY <1>2, <2>1 DEF Busy, At, Blocked
  <2>3. PICK r \in Threads : lock = r
    BY <1>1, <2>2
  <2>4. Busy(r) /\ Blocked(r) /\ call[r].pc # "lock" /\ call[r].op = "extend"
    BY <1>2, <2>3 DEF Busy, At
  <2>5. call[r].pc \in {"notify", "select", "renew", "replace"}
    BY <2>4 DEF Blocked, Errands
  <2>6. QED
    BY <2>1, <2>2, <2>3, <2>5 DEF Deadlocked, SelfBlocked, CrossBlocked, At
<1>4. CASE storeLock = None
  <2>1. lock # None
    BY <1>4 DEF Blocked
  <2>2. PICK r \in Threads : lock = r
    BY <1>1, <2>1
  <2>3. Busy(r) /\ Blocked(r) /\ call[r].pc # "lock" /\ call[r].op = "extend"
    BY <1>2, <2>2 DEF Busy, At
  <2>4. call[r].pc = "notify"
    BY <1>4, <2>3 DEF Blocked, Errands
  <2>5. QED
    BY <2>2, <2>4 DEF Deadlocked, SelfBlocked, At
<1>5. QED
  BY <1>3, <1>4

\* For any number of threads: while calls are under way and the extension has
\* not shut itself out, one of the calls can take its next step.  There is no
\* third way to come to a standstill.
THEOREM OnlyExtensionsDeadlock ==
    Spec => []((\E p \in Threads : Busy(p)) /\ ~Deadlocked
               => \E p \in Threads : Busy(p) /\ ~Blocked(p))
<1>1. Init => Errands
  BY DEF Init, Errands, Idle
<1>2. Inv /\ Errands => ((\E p \in Threads : Busy(p)) /\ ~Deadlocked
                         => \E p \in Threads : Busy(p) /\ ~Blocked(p))
  BY StandstillIsDeadlock
<1>3. QED
  BY <1>1, <1>2, InitInv, NextKeepsInv, ErrandsStep, PTL DEF Spec

\* A lock is given back by nobody but its holder.
LEMMA HolderReleases ==
    ASSUME Inv, NEW p \in Threads, Step(p)
    PROVE  /\ lock # None /\ lock' # lock => lock = p /\ call[p].pc = "unlock"
           /\ storeLock # None /\ storeLock' # storeLock => storeLock = p /\ call[p].pc = "loop"
<1>1. CASE EndScan(p)
  <2>1. call[p].pc = "loop" /\ lock' = lock /\ storeLock' = None
    BY <1>1 DEF EndScan, At
  <2>2. ASSUME storeLock # None PROVE storeLock = p
    <3>1. PICK q \in Threads : storeLock = q
      BY <2>2 DEF Inv, Types
    <3>2. backend = "memory"
      BY <3>1 DEF Inv, Places
    <3>3. QED
      BY <2>1, <3>2 DEF Inv, Places
  <2>3. QED
    BY <2>1, <2>2
<1>2. CASE Unlock(p)
  <2>1. call[p].pc = "unlock" /\ storeLock' = storeLock
    BY <1>2 DEF Unlock, At, storeVars
  <2>2. lock = p
    BY <2>1 DEF Inv, Places
  <2>3. QED
    BY <2>1, <2>2
<1>3. CASE ReadClock(p) \/ ExpireNext(p) \/ Insert(p) \/ RevokeLease(p) \/ Count(p)
           \/ Renew(p) \/ Replace(p) \/ Notify(p)
  BY <1>3 DEF ReadClock, ExpireNext, Insert, RevokeLease, Count, Renew, Replace, Notify,
              InStore, storeVars
<1>4. CASE TakeLock(p)
  BY <1>4 DEF TakeLock, storeVars
<1>5. CASE Select(p)
  BY <1>5 DEF Select
<1>6. QED
  BY <1>1, <1>2, <1>3, <1>4, <1>5 DEF Step

\* Who waits for the lock in its callback has no step while it is held.
LEMMA WaitingStays ==
    ASSUME Inv, NEW p \in Threads, NEW q \in Threads, Step(q),
           \/ call[p].pc = "notify" /\ lock # None
           \/ call[p].pc \in {"select", "renew", "replace"} /\ storeLock # None
    PROVE  call'[p] = call[p]
<1>1. q # p
  BY DEF Step, Insert, RevokeLease, Count, ReadClock, Select, ExpireNext, Notify, EndScan,
         TakeLock, Renew, Replace, Unlock, At, InStore
<1>2. QED
  BY <1>1, OneCallMoves

LEMMA DeadlockStays ==
    ASSUME Inv, NEW q \in Threads, Step(q), Deadlocked
    PROVE  Deadlocked'
<1>1. lock # None /\ None \notin Threads
  BY NobodyAssumption DEF Deadlocked, SelfBlocked, CrossBlocked, Threads
<1>2. CASE SelfBlocked
  <2>1. PICK p \in Threads : call[p].pc = "notify" /\ lock = p
    BY <1>2 DEF SelfBlocked, At
  <2>2. call'[p] = call[p] /\ lock' = lock
    BY <1>1, <2>1, WaitingStays, HolderReleases
  <2>3. QED
    BY <2>1, <2>2 DEF Deadlocked, SelfBlocked, At
<1>3. CASE CrossBlocked
  <2>1. PICK p \in Threads, r \in Threads :
            /\ call[p].pc \in {"select", "renew", "replace"} /\ lock = p
            /\ call[r].pc = "notify" /\ storeLock = r
    BY <1>3 DEF CrossBlocked, At
  <2>2. storeLock # None
    BY <1>1, <2>1
  <2>3. call'[p] = call[p] /\ call'[r] = call[r]
    BY <1>1, <2>1, <2>2, WaitingStays
  <2>4. lock' = lock /\ storeLock' = storeLock
    BY <1>1, <2>1, <2>2, HolderReleases
  <2>5. QED
    BY <2>1, <2>3, <2>4 DEF Deadlocked, CrossBlocked, At
<1>4. QED
  BY <1>2, <1>3 DEF Deadlocked

\* Nothing resolves either deadlock: no scan, no other call, no later expiry.
THEOREM DeadlockForGood == Spec => [][Deadlocked => Deadlocked']_vars
<1>1. ASSUME Inv, Next, Deadlocked PROVE Deadlocked'
  <2>1. ASSUME NEW p \in Threads, (ScanOnce /\ p = Scanner) \/ (p \in Callers /\ Call(p))
        PROVE  Deadlocked'
    BY <1>1, <2>1, CallMoves DEF Deadlocked, SelfBlocked, CrossBlocked, At
  <2>2. ASSUME NEW p \in Threads, Step(p) PROVE Deadlocked'
    BY <1>1, <2>2, DeadlockStays
  <2>3. ASSUME NEW l \in LeaseIds, LeaseFallsDue(l) PROVE Deadlocked'
    BY <1>1, <2>3 DEF Deadlocked, SelfBlocked, CrossBlocked, At, LeaseFallsDue
  <2>4. QED
    BY <1>1, <2>1, <2>2, <2>3 DEF Next, Threads
<1>2. Inv /\ [Next]_vars => [Deadlocked => Deadlocked']_vars
  BY <1>1
<1>3. QED
  BY <1>2, InitInv, NextKeepsInv, PTL DEF Spec
=============================================================================
