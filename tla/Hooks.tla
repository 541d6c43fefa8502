-------------------------------- MODULE Hooks --------------------------------
(***************************************************************************)
(* Webhooks: the HookManager (hooks/manager.py) behind its endpoints       *)
(* (routers/hooks.py) and the Dispatcher (hooks/dispatcher.py).            *)
(*                                                                         *)
(* All of it runs on one event loop.  A delivery is a coroutine that gives *)
(* the loop away only while it waits for its next attempt, the request     *)
(* itself blocks; so an attempt, with its record in the history, is one    *)
(* step, and everything else comes in between attempts.  The request may   *)
(* fail before or after the endpoint has received it.                      *)
(*                                                                         *)
(* Urls, secrets, signatures, bodies and the length of the waits are left  *)
(* out, and so is worker_count, which limits nothing.                      *)
(***************************************************************************)
EXTENDS Naturals, Sequences, FiniteSets, SequencesExt

CONSTANTS
    Hooks,          \* ids of webhooks
    Events,         \* event types
    MaxRetries,     \* max_retries of the dispatcher (3 by default)
    MaxHistory,     \* max_history of the manager (1000 by default)
    MaxDeliveries   \* bound: deliveries ever started

ASSUME HooksAssumption == IsFiniteSet(Hooks)
ASSUME MaxRetriesAssumption == MaxRetries \in Nat
ASSUME MaxHistoryAssumption == MaxHistory \in Nat \ {0}
ASSUME MaxDeliveriesAssumption == MaxDeliveries \in Nat

VARIABLES
    hooks,       \* _hooks: the event types of every registered webhook
    running,     \* _running of the dispatcher
    deliveries,  \* the calls of deliver, in the order they were started
    history,     \* _deliveries: the capped list of records
    got          \* how often the endpoint has received each delivery

vars == <<hooks, running, deliveries, history, got>>

MaxAttempts == MaxRetries + 1
Final == {"success", "failed", "pending"}
Delivery == [hook: Hooks, attempt: 1..MaxAttempts, status: Final \cup {"retry"}]
Record == [of: 1..MaxDeliveries, hook: Hooks, status: Final \cup {"retry"},
           attempt: 1..MaxAttempts]

Registered == {h \in Hooks : hooks[h] # {}}

Init ==
    /\ hooks = [h \in Hooks |-> {}]
    /\ running = FALSE
    /\ deliveries = <<>>
    /\ history = <<>>
    /\ got = <<>>

-----------------------------------------------------------------------------
(* The endpoints, and the dispatcher's start and stop.                     *)

\* An empty list of events is refused; ids are never used twice.
RegisterHook(h, E) ==
    /\ h \notin Registered
    /\ \A d \in DOMAIN deliveries : deliveries[d].hook # h
    /\ E # {}
    /\ hooks' = [hooks EXCEPT ![h] = E]
    /\ UNCHANGED <<running, deliveries, history, got>>

\* Deliveries under way go on.
DeregisterHook(h) ==
    /\ h \in Registered
    /\ hooks' = [hooks EXCEPT ![h] = {}]
    /\ UNCHANGED <<running, deliveries, history, got>>

Start ==
    /\ running' = TRUE
    /\ UNCHANGED <<hooks, deliveries, history, got>>

Stop ==
    /\ running' = FALSE
    /\ UNCHANGED <<hooks, deliveries, history, got>>

HooksForEvent(e) == {h \in Hooks : e \in hooks[h]}

\* One delivery for every webhook that wants the event; none has run yet.
Emit(e) ==
    LET started == SetToSeq({[hook |-> h, attempt |-> 1, status |-> "retry"] :
                             h \in HooksForEvent(e)})
    IN /\ Len(deliveries) + Len(started) <= MaxDeliveries
       /\ deliveries' = deliveries \o started
       /\ got' = got \o [i \in DOMAIN started |-> 0]
       /\ UNCHANGED <<hooks, running, history>>

-----------------------------------------------------------------------------
(* deliver: from one wait to the next.                                     *)

\* Fault: the oldest record is kept for too long.
RecordDeliveryOver(rec) ==
    history' = Append(IF Len(history) > MaxHistory THEN Tail(history) ELSE history, rec)

RecordDelivery(rec) ==
    history' = Append(IF Len(history) >= MaxHistory THEN Tail(history) ELSE history, rec)

\* The attempt ends like this and goes into the history.
Conclude(d, s) ==
    /\ RecordDelivery([of |-> d, hook |-> deliveries[d].hook, status |-> s,
                       attempt |-> deliveries[d].attempt])
    /\ deliveries' = [deliveries EXCEPT
           ![d].status = s, ![d].attempt = IF s = "retry" THEN @ + 1 ELSE @]

Waiting(d) == deliveries[d].status = "retry"

Stopped(d) ==
    /\ ~running
    /\ Conclude(d, "pending")
    /\ UNCHANGED got

Succeeds(d) ==
    /\ running
    /\ Conclude(d, "success")
    /\ got' = [got EXCEPT ![d] = @ + 1]

\* An error status, no answer, or an answer that was lost.
Fails(d) ==
    /\ running
    /\ Conclude(d, IF deliveries[d].attempt >= MaxAttempts THEN "failed" ELSE "retry")
    /\ \E received \in {0, 1} : got' = [got EXCEPT ![d] = @ + received]

\* Fault: one more attempt although this one has succeeded.
AttemptOn(d) ==
    /\ deliveries[d].status \in {"retry", "success"}
    /\ Stopped(d) \/ Succeeds(d) \/ Fails(d)
    /\ UNCHANGED <<hooks, running>>

\* Fault: a stopped dispatcher keeps the delivery waiting.
AttemptRunning(d) ==
    /\ Waiting(d)
    /\ Succeeds(d) \/ Fails(d)
    /\ UNCHANGED <<hooks, running>>

Attempt(d) ==
    /\ Waiting(d)
    /\ Stopped(d) \/ Succeeds(d) \/ Fails(d)
    /\ UNCHANGED <<hooks, running>>

-----------------------------------------------------------------------------
Next ==
    \/ \E h \in Hooks, E \in SUBSET Events : RegisterHook(h, E)
    \/ \E h \in Hooks : DeregisterHook(h)
    \/ \E e \in Events : Emit(e)
    \/ Start \/ Stop
    \/ \E d \in DOMAIN deliveries : Attempt(d)

Spec == Init /\ [][Next]_vars

\* The event loop wakes up a delivery whose wait is over.
FairSpec ==
    /\ Spec
    /\ \A d \in 1..MaxDeliveries : WF_vars(d \in DOMAIN deliveries /\ Attempt(d))

-----------------------------------------------------------------------------
(* Properties.                                                             *)

\* Types; the history keeps to its bound and attempts to theirs.
TypeOK ==
    /\ hooks \in [Hooks -> SUBSET Events]
    /\ running \in BOOLEAN
    /\ deliveries \in Seq(Delivery) /\ Len(deliveries) <= MaxDeliveries
    /\ history \in Seq(Record) /\ Len(history) <= MaxHistory
    /\ got \in Seq(0..MaxAttempts) /\ Len(got) = Len(deliveries)

\* However deliveries interleave and old records fall out of the history: what
\* it has of a delivery (get_deliveries) is the end of its story, one record per
\* attempt in their order and without a gap, up to the last one made, whose
\* verdict is the delivery's own; "success" stands only for what the endpoint
\* has received, and it has received no more than was sent.
Made(d) == deliveries[d].attempt - (IF Waiting(d) THEN 1 ELSE 0)
Later(h, i) == {j \in DOMAIN h : j > i /\ h[j].of = h[i].of}
TellsTheEnd(h) ==
    \A i \in DOMAIN h :
        /\ h[i].hook = deliveries[h[i].of].hook
        /\ h[i].attempt <= Made(h[i].of)
        /\ h[i].attempt = Made(h[i].of) => h[i].status = deliveries[h[i].of].status
        /\ h[i].attempt < Made(h[i].of) =>
              h[i].status = "retry" /\ \E j \in Later(h, i) : h[j].attempt = h[i].attempt + 1
        /\ \A j \in Later(h, i) : h[j].attempt > h[i].attempt
        /\ h[i].status = "success" => got[h[i].of] > 0
HistoryTellsTheEnd ==
    TellsTheEnd(history) /\ \A d \in DOMAIN deliveries : got[d] <= Made(d)

\* Every delivery comes to a verdict, however the dispatcher is stopped and
\* started, whatever the endpoint answers and whether its webhook still exists.
EveryDeliveryEnds ==
    \A d \in 1..MaxDeliveries : d \in DOMAIN deliveries ~> (d \in DOMAIN deliveries /\ ~Waiting(d))
=============================================================================
