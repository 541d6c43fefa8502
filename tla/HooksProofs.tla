----------------------------- MODULE HooksProofs -----------------------------
(***************************************************************************)
(* Proofs about Hooks for any webhooks, number of retries and size of the  *)
(* history: bounds, what the history tells of a delivery, and that nothing *)
(* is missing from it before it is full.                                   *)
(***************************************************************************)
EXTENDS Hooks, SequenceTheorems, FiniteSetTheorems, TLAPS

RecordsKnown == \A i \in DOMAIN history : history[i].of \in DOMAIN deliveries

Inv == TypeOK /\ RecordsKnown /\ HistoryTellsTheEnd

LEMMA InitInv == Init => Inv
<1> SUFFICES ASSUME Init PROVE Inv
  OBVIOUS
<1>1. /\ hooks = [h \in Hooks |-> {}] /\ running = FALSE
      /\ deliveries = <<>> /\ history = <<>> /\ got = <<>>
  BY DEF Init
<1>2. hooks \in [Hooks -> SUBSET Events]
  BY <1>1
<1>3. deliveries \in Seq(Delivery) /\ Len(deliveries) <= MaxDeliveries
  BY <1>1, MaxDeliveriesAssumption
<1>4. history \in Seq(Record) /\ Len(history) <= MaxHistory
  BY <1>1, MaxHistoryAssumption
<1>5. got \in Seq(0..MaxAttempts) /\ Len(got) = Len(deliveries)
  BY <1>1
<1>6. TypeOK
  BY <1>1, <1>2, <1>3, <1>4, <1>5, Zenon DEF TypeOK
<1>7. RecordsKnown /\ HistoryTellsTheEnd
  BY <1>1 DEF RecordsKnown, HistoryTellsTheEnd, TellsTheEnd
<1>8. QED
  BY <1>6, <1>7 DEF Inv

-----------------------------------------------------------------------------
(* The history.                                                            *)

LEMMA SameTells ==
    ASSUME Inv, UNCHANGED history,
           \A e \in DOMAIN deliveries : deliveries'[e] = deliveries[e] /\ got'[e] = got[e]
    PROVE  TellsTheEnd(history)'
BY DEF Inv, RecordsKnown, HistoryTellsTheEnd, TellsTheEnd, Made, Waiting, Later

\* What is told stays true when the first record is dropped: it speaks of later
\* ones only.
LEMMA TailTells ==
    ASSUME NEW h \in Seq(Record), h # <<>>, TellsTheEnd(h)
    PROVE  TellsTheEnd(Tail(h))
<1> DEFINE rest == Tail(h)
<1>1. /\ rest \in Seq(Record) /\ Len(rest) = Len(h) - 1 /\ Len(h) \in Nat
      /\ \A i \in 1..Len(rest) : rest[i] = h[i + 1]
  OBVIOUS
<1>2. DOMAIN rest = 1..Len(rest) /\ DOMAIN h = 1..Len(h)
  BY <1>1
<1> HIDE DEF rest
<1>3. \A i \in DOMAIN rest : i + 1 \in DOMAIN h /\ rest[i] = h[i + 1]
  BY <1>1, <1>2
<1>4. \A i \in DOMAIN rest : \A j \in Later(rest, i) : j + 1 \in Later(h, i + 1)
  BY <1>2, <1>3 DEF Later
<1>5. \A i \in DOMAIN rest : \A k \in Later(h, i + 1) : k - 1 \in Later(rest, i) /\ rest[k - 1] = h[k]
  <2>1. SUFFICES ASSUME NEW i \in DOMAIN rest, NEW k \in Later(h, i + 1)
                 PROVE  k - 1 \in Later(rest, i) /\ rest[k - 1] = h[k]
    OBVIOUS
  <2>2. k \in 1..Len(h) /\ i \in 1..Len(rest) /\ k > i + 1 /\ h[k].of = h[i + 1].of
    BY <1>2 DEF Later
  <2>3. k - 1 \in 1..Len(rest) /\ k - 1 > i /\ (k - 1) + 1 = k
    BY <1>1, <2>2
  <2>4. rest[k - 1] = h[k]
    BY <1>1, <2>3
  <2>5. QED
    BY <1>2, <1>3, <2>2, <2>3, <2>4 DEF Later
<1>6. ASSUME NEW i \in DOMAIN rest
      PROVE  /\ rest[i].hook = deliveries[rest[i].of].hook
             /\ rest[i].attempt <= Made(rest[i].of)
             /\ rest[i].attempt = Made(rest[i].of) => rest[i].status = deliveries[rest[i].of].status
             /\ rest[i].attempt < Made(rest[i].of) =>
                   rest[i].status = "retry" /\ \E j \in Later(rest, i) : rest[j].attempt = rest[i].attempt + 1
             /\ \A j \in Later(rest, i) : rest[j].attempt > rest[i].attempt
             /\ rest[i].status = "success" => got[rest[i].of] > 0
  <2>1. /\ i + 1 \in DOMAIN h /\ rest[i] = h[i + 1]
    BY <1>3
  <2>2. \A j \in Later(rest, i) : rest[j].attempt > rest[i].attempt
    <3>1. \A j \in Later(rest, i) : j + 1 \in Later(h, i + 1) /\ rest[j] = h[j + 1]
      BY <1>3, <1>4 DEF Later
    <3>2. QED
      BY <2>1, <3>1 DEF TellsTheEnd
  <2>3. QED
    BY <1>5, <2>1, <2>2 DEF TellsTheEnd
<1>7. TellsTheEnd(rest)
  BY <1>6 DEF TellsTheEnd
<1>8. QED
  BY <1>7 DEF rest

\* A record of the attempt that is made goes to the end.
LEMMA AppendTells ==
    ASSUME NEW h \in Seq(Record), TellsTheEnd(h),
           \A i \in DOMAIN h : h[i].of \in DOMAIN deliveries,
           deliveries \in Seq(Delivery), got \in Seq(Nat), got' \in Seq(Nat),
           DOMAIN got = DOMAIN deliveries, DOMAIN got' = DOMAIN deliveries,
           NEW d \in DOMAIN deliveries, Waiting(d), NEW rec \in Record,
           rec.of = d, rec.hook = deliveries[d].hook, rec.attempt = deliveries[d].attempt,
           deliveries'[d].hook = deliveries[d].hook, deliveries'[d].status = rec.status,
           Made(d)' = rec.attempt, got'[d] >= got[d],
           rec.status = "success" => got'[d] > 0,
           \A e \in DOMAIN deliveries \ {d} : deliveries'[e] = deliveries[e] /\ got'[e] = got[e],
           history' = Append(h, rec)
    PROVE  TellsTheEnd(history)'
<1> DEFINE n == Len(h) + 1
<1>1. /\ n \in Nat /\ DOMAIN h = 1..Len(h) /\ Len(h) \in Nat
      /\ history' \in Seq(Record)
      /\ DOMAIN history' = DOMAIN h \cup {n} /\ n \notin DOMAIN h
      /\ history'[n] = rec /\ \A i \in DOMAIN h : history'[i] = h[i] /\ h[i] \in Record /\ i < n
  OBVIOUS
<1>2. \A i \in DOMAIN h : h[i].attempt \in Nat /\ h[i].of \in DOMAIN deliveries
  BY <1>1 DEF Record
<1>3. rec.attempt \in Nat
  BY DEF Record
<1>4. Made(d) = rec.attempt - 1 /\ deliveries[d].status = "retry"
  BY DEF Made, Waiting
<1>5. \A e \in DOMAIN deliveries \ {d} : deliveries'[e] = deliveries[e] /\ Made(e)' = Made(e)
  BY DEF Made, Waiting
<1> HIDE DEF n
<1>6. /\ Later(history, n)' = {}
      /\ \A i \in DOMAIN h : Later(history, i)' = IF h[i].of = d THEN Later(h, i) \cup {n} ELSE Later(h, i)
  <2>1. Later(history, n)' = {}
    BY <1>1 DEF Later
  <2>2. ASSUME NEW i \in DOMAIN h
        PROVE  Later(history, i)' = IF h[i].of = d THEN Later(h, i) \cup {n} ELSE Later(h, i)
    <3>1. \A j \in DOMAIN history' :
             j \in Later(history, i)' <=> j \in (IF h[i].of = d THEN Later(h, i) \cup {n} ELSE Later(h, i))
      BY <1>1 DEF Later
    <3>2. Later(h, i) \subseteq DOMAIN history' /\ Later(history, i)' \subseteq DOMAIN history'
      BY <1>1 DEF Later
    <3>3. QED
      BY <1>1, <3>1, <3>2
  <2>3. QED
    BY <2>1, <2>2
<1> DEFINE Told(i) ==
               /\ history'[i].hook = deliveries'[history'[i].of].hook
               /\ history'[i].attempt <= Made(history[i].of)'
               /\ history'[i].attempt = Made(history[i].of)' =>
                     history'[i].status = deliveries'[history'[i].of].status
               /\ history'[i].attempt < Made(history[i].of)' =>
                     /\ history'[i].status = "retry"
                     /\ \E j \in Later(history, i)' : history'[j].attempt = history'[i].attempt + 1
               /\ \A j \in Later(history, i)' : history'[j].attempt > history'[i].attempt
               /\ history'[i].status = "success" => got'[history'[i].of] > 0
<1>7. Told(n)
  BY <1>1, <1>3, <1>6 DEF Made, Waiting
<1>8. ASSUME NEW i \in DOMAIN h, h[i].of = d
      PROVE  Told(i)
  <2>1. Made(history[i].of)' = rec.attempt
    BY <1>1, <1>8 DEF Made, Waiting
  <2>2. history'[i] = h[i] /\ h[i].attempt <= rec.attempt - 1 /\ h[i].attempt \in Nat
    BY <1>1, <1>2, <1>4, <1>8 DEF TellsTheEnd
  <2>3. /\ h[i].status = "retry"
        /\ \E j \in Later(history, i)' : history'[j].attempt = h[i].attempt + 1
    <3>1. CASE h[i].attempt = rec.attempt - 1
      <4>1. h[i].status = "retry"
        BY <1>4, <1>8, <3>1 DEF TellsTheEnd
      <4>2. n \in Later(history, i)' /\ history'[n].attempt = rec.attempt
        BY <1>1, <1>6, <1>8
      <4>3. rec.attempt = h[i].attempt + 1
        BY <1>3, <2>2, <3>1
      <4>4. QED
        BY <4>1, <4>2, <4>3
    <3>2. CASE h[i].attempt < rec.attempt - 1
      <4>1. h[i].status = "retry" /\ \E j \in Later(h, i) : h[j].attempt = h[i].attempt + 1
        BY <1>4, <1>8, <3>2 DEF TellsTheEnd
      <4>2. QED
        BY <1>1, <1>6, <1>8, <4>1 DEF Later
    <3>3. h[i].attempt = rec.attempt - 1 \/ h[i].attempt < rec.attempt - 1
      <4>1. \A x, y \in Nat : x <= y - 1 => x = y - 1 \/ x < y - 1
        OBVIOUS
      <4>2. QED
        BY <1>3, <2>2, <4>1, Zenon
    <3>4. QED
      BY <3>1, <3>2, <3>3
  <2>4. \A j \in Later(history, i)' : history'[j].attempt > h[i].attempt
    <3>1. \A j \in Later(h, i) : h[j].attempt > h[i].attempt /\ history'[j] = h[j]
      BY <1>1 DEF TellsTheEnd, Later
    <3>2. rec.attempt > h[i].attempt
      BY <1>3, <2>2
    <3>3. Later(history, i)' = Later(h, i) \cup {n}
      BY <1>6, <1>8
    <3>4. QED
      BY <1>1, <3>1, <3>2, <3>3
  <2>5. history'[i].hook = deliveries'[history'[i].of].hook
    BY <1>8, <2>2 DEF TellsTheEnd
  <2>6. h[i].attempt <= rec.attempt /\ h[i].attempt # rec.attempt
    BY <1>3, <2>2
  <2>7. history'[i].status # "success"
    BY <2>2, <2>3
  <2>8. QED
    BY <2>1, <2>2, <2>3, <2>4, <2>5, <2>6, <2>7
<1>9. ASSUME NEW i \in DOMAIN h, h[i].of # d
      PROVE  Told(i)
  <2>1. h[i].of \in DOMAIN deliveries \ {d} /\ history'[i] = h[i]
    BY <1>1, <1>2, <1>9
  <2>2. PICK e \in DOMAIN deliveries \ {d} : e = h[i].of
    BY <2>1
  <2>3. Made(history[i].of)' = Made(e) /\ deliveries'[e] = deliveries[e] /\ got'[e] = got[e]
    BY <1>5, <2>1, <2>2 DEF Made, Waiting
  <2>4. Later(history, i)' = Later(h, i) /\ \A j \in Later(h, i) : history'[j] = h[j]
    BY <1>1, <1>6, <1>9 DEF Later
  <2>5. /\ h[i].hook = deliveries[e].hook
        /\ h[i].attempt <= Made(e)
        /\ h[i].attempt = Made(e) => h[i].status = deliveries[e].status
        /\ h[i].attempt < Made(e) =>
              h[i].status = "retry" /\ \E j \in Later(h, i) : h[j].attempt = h[i].attempt + 1
        /\ \A j \in Later(h, i) : h[j].attempt > h[i].attempt
        /\ h[i].status = "success" => got[e] > 0
    BY <2>2 DEF TellsTheEnd
  <2>6. QED
    BY <2>1, <2>2, <2>3, <2>4, <2>5
<1>10. \A i \in DOMAIN history' : Told(i)
  BY <1>1, <1>7, <1>8, <1>9
<1>11. QED
  BY <1>10 DEF TellsTheEnd
-----------------------------------------------------------------------------
(* The steps.                                                              *)

\* The history forgets its oldest record when it is full.
LEMMA RecordFacts ==
    ASSUME Inv, NEW rec \in Record, RecordDelivery(rec)
    PROVE  \E h \in Seq(Record) :
              /\ h = history \/ (history # <<>> /\ h = Tail(history))
              /\ Len(h) + 1 <= MaxHistory /\ history' = Append(h, rec)
              /\ TellsTheEnd(h) /\ \A i \in DOMAIN h : h[i].of \in DOMAIN deliveries
<1>1. history \in Seq(Record) /\ Len(history) <= MaxHistory /\ TellsTheEnd(history)
  BY DEF Inv, TypeOK, HistoryTellsTheEnd
<1>2. CASE Len(history) >= MaxHistory
  <2>1. history # <<>>
    BY <1>1, <1>2, MaxHistoryAssumption
  <2> DEFINE h == Tail(history)
  <2>2. /\ h \in Seq(Record) /\ Len(h) = Len(history) - 1
        /\ \A i \in 1..Len(h) : h[i] = history[i + 1] /\ i + 1 \in DOMAIN history
    BY <1>1, <2>1
  <2>3. TellsTheEnd(h)
    BY <1>1, <2>1, TailTells
  <2>4. \A i \in DOMAIN h : h[i].of \in DOMAIN deliveries
    BY <2>2 DEF Inv, RecordsKnown
  <2>5. history' = Append(h, rec)
    BY <1>2 DEF RecordDelivery
  <2>6. Len(h) + 1 <= MaxHistory
    BY <1>1, <2>2, MaxHistoryAssumption
  <2>7. QED
    BY <2>1, <2>2, <2>3, <2>4, <2>5, <2>6
<1>3. CASE ~(Len(history) >= MaxHistory)
  <2>1. history' = Append(history, rec) /\ Len(history) + 1 <= MaxHistory
    BY <1>1, <1>3, MaxHistoryAssumption DEF RecordDelivery
  <2>2. QED
    BY <1>1, <2>1 DEF Inv, RecordsKnown
<1>4. QED
  BY <1>2, <1>3

\* What a step of a delivery does.
LEMMA AttemptFacts ==
    ASSUME Inv, NEW d \in DOMAIN deliveries, Attempt(d)
    PROVE  \E s \in Final \cup {"retry"}, r \in {0, 1} :
              /\ Waiting(d) /\ Conclude(d, s)
              /\ s = "retry" => deliveries[d].attempt < MaxAttempts
              /\ s = "success" => r = 1
              /\ got' \in Seq(Nat) /\ Len(got') = Len(got)
              /\ got'[d] = got[d] + r /\ \A e \in DOMAIN deliveries \ {d} : got'[e] = got[e]
              /\ UNCHANGED <<hooks, running>>
<1>1. /\ got \in Seq(0..MaxAttempts) /\ Len(got) = Len(deliveries)
      /\ deliveries \in Seq(Delivery) /\ deliveries[d] \in Delivery
  BY DEF Inv, TypeOK
<1>2. MaxAttempts \in Nat
  BY MaxRetriesAssumption DEF MaxAttempts
<1>3. DOMAIN got = DOMAIN deliveries /\ got \in [DOMAIN deliveries -> Nat] /\ got \in Seq(Nat)
      /\ DOMAIN deliveries = 1..Len(got)
  BY <1>1, <1>2
<1>4. ASSUME NEW r \in {0, 1}, got' = got \/ got' = [got EXCEPT ![d] = @ + r], got' = got => r = 0
      PROVE  /\ got' \in Seq(Nat) /\ Len(got') = Len(got)
             /\ got'[d] = got[d] + r /\ \A e \in DOMAIN deliveries \ {d} : got'[e] = got[e]
  <2>1. got[d] \in Nat
    BY <1>3
  <2>2. CASE got' = got
    BY <1>3, <1>4, <2>1, <2>2
  <2>3. CASE got' = [got EXCEPT ![d] = @ + r]
    BY <1>3, <2>1, <2>3
  <2>4. QED
    BY <1>4, <2>2, <2>3
<1>5. UNCHANGED <<hooks, running>> /\ Waiting(d)
  BY DEF Attempt
<1>6. CASE Stopped(d)
  <2>1. Conclude(d, "pending") /\ got' = got
    BY <1>6 DEF Stopped
  <2>2. QED
    BY <1>4, <1>5, <2>1 DEF Final
<1>7. CASE Succeeds(d)
  <2>1. Conclude(d, "success") /\ got' = [got EXCEPT ![d] = @ + 1]
    BY <1>7 DEF Succeeds
  <2>2. got' # got
    <3>1. got'[d] = got[d] + 1 /\ got[d] \in Nat
      BY <1>3, <2>1
    <3>2. QED
      BY <3>1
  <2>3. QED
    BY <1>4, <1>5, <2>1, <2>2 DEF Final
<1>8. CASE Fails(d)
  <2>1. PICK s \in {"failed", "retry"} :
            /\ Conclude(d, s)
            /\ s = "retry" => deliveries[d].attempt < MaxAttempts
    <3>1. deliveries[d].attempt \in Nat
      BY <1>1 DEF Delivery
    <3>2. QED
      BY <1>2, <1>8, <3>1 DEF Fails
  <2>2. PICK r \in {0, 1} : got' = [got EXCEPT ![d] = @ + r]
    BY <1>8 DEF Fails
  <2>3. got' = got => r = 0
    <3>1. got'[d] = got[d] + r /\ got[d] \in Nat
      BY <1>3, <2>2
    <3>2. QED
      BY <3>1
  <2>4. QED
    BY <1>4, <1>5, <2>1, <2>2, <2>3 DEF Final
<1>9. QED
  BY <1>6, <1>7, <1>8 DEF Attempt

LEMMA FunctionIsSeq ==
    ASSUME NEW S, NEW n \in Nat, NEW f \in [1..n -> S]
    PROVE  f \in Seq(S)
OBVIOUS

LEMMA AttemptKeepsInv ==
    ASSUME Inv, NEW d \in DOMAIN deliveries, Attempt(d)
    PROVE  Inv'
<1> DEFINE a == deliveries[d].attempt
<1>1. PICK s \in Final \cup {"retry"}, r \in {0, 1} :
          /\ Waiting(d) /\ Conclude(d, s)
          /\ s = "retry" => a < MaxAttempts
          /\ s = "success" => r = 1
          /\ got' \in Seq(Nat) /\ Len(got') = Len(got)
          /\ got'[d] = got[d] + r /\ \A e \in DOMAIN deliveries \ {d} : got'[e] = got[e]
          /\ UNCHANGED <<hooks, running>>
  BY AttemptFacts
<1>2. /\ deliveries \in Seq(Delivery) /\ deliveries[d] \in Delivery /\ Len(deliveries) <= MaxDeliveries
      /\ got \in Seq(0..MaxAttempts) /\ Len(got) = Len(deliveries) /\ MaxAttempts \in Nat
  BY MaxRetriesAssumption DEF Inv, TypeOK, MaxAttempts
<1>3. a \in 1..MaxAttempts /\ deliveries[d].hook \in Hooks /\ a \in Nat
  BY <1>2 DEF Delivery
<1> DEFINE b == IF s = "retry" THEN a + 1 ELSE a
           new == [deliveries[d] EXCEPT !.status = s, !.attempt = b]
           rec == [of |-> d, hook |-> deliveries[d].hook, status |-> s, attempt |-> a]
<1>4. deliveries' = [deliveries EXCEPT ![d] = new] /\ RecordDelivery(rec)
  BY <1>1, <1>2 DEF Conclude
<1>5. b \in 1..MaxAttempts
  BY <1>1, <1>2, <1>3
<1>6. /\ new \in Delivery /\ new.status = s /\ new.attempt = b /\ new.hook = deliveries[d].hook
  BY <1>2, <1>5 DEF Delivery
<1>7. d \in 1..MaxDeliveries
  BY <1>2, MaxDeliveriesAssumption
<1>8. /\ rec \in Record /\ rec.of = d /\ rec.hook = deliveries[d].hook /\ rec.status = s
      /\ rec.attempt = a
  BY <1>3, <1>7 DEF Record
<1> HIDE DEF new, rec
<1>9. /\ deliveries' \in Seq(Delivery) /\ Len(deliveries') = Len(deliveries)
      /\ DOMAIN deliveries' = DOMAIN deliveries /\ deliveries'[d] = new
      /\ \A e \in DOMAIN deliveries \ {d} : deliveries'[e] = deliveries[e]
  BY <1>2, <1>4, <1>6
<1>10. Made(d)' = a /\ Made(d) = a - 1
  <2>1. Made(d)' = b - (IF s = "retry" THEN 1 ELSE 0)
    BY <1>6, <1>9 DEF Made, Waiting
  <2>2. Made(d)' = a
    BY <1>3, <2>1
  <2>3. QED
    BY <1>1, <2>2 DEF Made
<1>11. /\ DOMAIN got = DOMAIN deliveries /\ DOMAIN got' = DOMAIN deliveries
       /\ got \in Seq(Nat) /\ got[d] \in Nat /\ got[d] <= a - 1
  BY <1>1, <1>2, <1>10 DEF Inv, HistoryTellsTheEnd
<1>12. got'[d] >= got[d] /\ got'[d] <= a /\ (s = "success" => got'[d] > 0)
  <2>1. \A g, x \in Nat : g <= x - 1 =>
            /\ g + 0 >= g /\ g + 0 <= x
            /\ g + 1 >= g /\ g + 1 <= x /\ g + 1 > 0
    OBVIOUS
  <2>2. got'[d] = got[d] + 0 \/ got'[d] = got[d] + 1
    BY <1>1
  <2>3. s = "success" => got'[d] = got[d] + 1
    BY <1>1
  <2>4. QED
    BY <1>3, <1>11, <2>1, <2>2, <2>3, Zenon
<1>13. PICK h \in Seq(Record) :
              /\ h = history \/ (history # <<>> /\ h = Tail(history))
              /\ Len(h) + 1 <= MaxHistory /\ history' = Append(h, rec)
              /\ TellsTheEnd(h) /\ \A i \in DOMAIN h : h[i].of \in DOMAIN deliveries
  BY <1>4, <1>8, RecordFacts
<1>14. TellsTheEnd(history)'
  <2>1. /\ rec.attempt = deliveries[d].attempt /\ Made(d)' = rec.attempt
        /\ deliveries'[d].hook = deliveries[d].hook /\ deliveries'[d].status = rec.status
    BY <1>6, <1>8, <1>9, <1>10
  <2>2. \A e \in DOMAIN deliveries \ {d} : deliveries'[e] = deliveries[e] /\ got'[e] = got[e]
    BY <1>1, <1>9
  <2>3. rec.status = "success" => got'[d] > 0
    BY <1>8, <1>12
  <2> HIDE DEF a, b
  <2>4. QED
    BY <1>1, <1>2, <1>8, <1>11, <1>12, <1>13, <2>1, <2>2, <2>3, AppendTells
<1>15. \A e \in DOMAIN deliveries' : got'[e] <= Made(e)'
  <2>1. \A e \in DOMAIN deliveries \ {d} : Made(e)' = Made(e) /\ got[e] <= Made(e)
    BY <1>9 DEF Made, Waiting, Inv, HistoryTellsTheEnd
  <2>2. QED
    BY <1>1, <1>9, <1>10, <1>12, <2>1
<1>16. HistoryTellsTheEnd'
  BY <1>14, <1>15 DEF HistoryTellsTheEnd
<1>17. history' \in Seq(Record) /\ Len(history') <= MaxHistory /\ RecordsKnown'
  <2>1. /\ history' \in Seq(Record) /\ Len(history') = Len(h) + 1
        /\ \A i \in DOMAIN history' : history'[i] = rec \/ (i \in DOMAIN h /\ history'[i] = h[i])
    BY <1>8, <1>13
  <2>2. QED
    BY <1>8, <1>9, <1>13, <2>1 DEF RecordsKnown
<1>18. got' \in Seq(0..MaxAttempts)
  <2>1. \A e \in DOMAIN got' : got'[e] \in 0..MaxAttempts
    <3>1. got'[d] \in Nat /\ got'[d] <= MaxAttempts
      BY <1>1, <1>2, <1>3, <1>11, <1>12
    <3>2. \A e \in DOMAIN deliveries \ {d} : got'[e] \in 0..MaxAttempts
      <4>1. \A e \in DOMAIN got : got[e] \in 0..MaxAttempts
        BY <1>2
      <4>2. QED
        BY <1>1, <1>11, <4>1
    <3>3. QED
      BY <1>2, <1>11, <3>1, <3>2
  <2>2. \E n \in Nat : got' \in [1..n -> 0..MaxAttempts]
    BY <1>1, <2>1
  <2>3. QED
    BY <2>2, FunctionIsSeq
<1>19. TypeOK'
  BY <1>1, <1>2, <1>9, <1>17, <1>18 DEF Inv, TypeOK
<1>20. QED
  BY <1>16, <1>17, <1>19 DEF Inv

\* A set has an enumeration, and every delivery that starts is of it.
LEMMA EnumerationType ==
    ASSUME NEW S, IsFiniteSet(S)
    PROVE  SetToSeq(S) \in Seq(S)
<1>1. Cardinality(S) \in Nat /\ \E f \in [1..Cardinality(S) -> S] : IsInjective(f)
  BY FS_CardinalityType DEF ExistsBijection, Bijection, Injection
<1>2. SetToSeq(S) \in [1..Cardinality(S) -> S]
  BY <1>1 DEF SetToSeq
<1>3. QED
  BY <1>1, <1>2

LEMMA EmitKeepsInv == ASSUME Inv, NEW e \in Events, Emit(e) PROVE Inv'
<1> DEFINE first(h) == [hook |-> h, attempt |-> 1, status |-> "retry"]
           S == {first(h) : h \in HooksForEvent(e)}
           started == SetToSeq(S)
           none == [i \in DOMAIN started |-> 0]
<1>1. /\ Len(deliveries) + Len(started) <= MaxDeliveries
      /\ deliveries' = deliveries \o started /\ got' = got \o none
      /\ UNCHANGED <<hooks, running, history>>
  BY DEF Emit
<1>2. /\ deliveries \in Seq(Delivery) /\ got \in Seq(0..MaxAttempts)
      /\ Len(got) = Len(deliveries) /\ MaxAttempts \in Nat \ {0}
  BY MaxRetriesAssumption DEF Inv, TypeOK, MaxAttempts
<1>3. \A h \in Hooks : first(h) \in Delivery /\ first(h).attempt = 1 /\ first(h).status = "retry"
  BY <1>2 DEF Delivery
<1>4. IsFiniteSet(S)
  <2>1. IsFiniteSet(HooksForEvent(e))
    BY HooksAssumption, FS_Subset DEF HooksForEvent
  <2> DEFINE f == [h \in HooksForEvent(e) |-> first(h)]
  <2>2. f \in Surjection(HooksForEvent(e), S)
    BY DEF Surjection
  <2>3. QED
    BY <2>1, <2>2, FS_Surjection DEF ExistsSurjection
<1>5. started \in Seq(S)
  BY <1>4, EnumerationType
<1>6. \A x \in S : x \in Delivery /\ x.attempt = 1 /\ x.status = "retry"
  BY <1>3 DEF HooksForEvent
<1> HIDE DEF S, started, first
<1>7. /\ started \in Seq(Delivery)
      /\ \A i \in DOMAIN started : started[i].attempt = 1 /\ started[i].status = "retry"
  BY <1>5, <1>6
<1>8. /\ none \in Seq(0..MaxAttempts) /\ Len(none) = Len(started)
      /\ \A i \in DOMAIN started : none[i] = 0
  BY <1>2, <1>7
<1> HIDE DEF none
<1>9. /\ deliveries' \in Seq(Delivery) /\ Len(deliveries') = Len(deliveries) + Len(started)
      /\ \A d \in DOMAIN deliveries : d \in DOMAIN deliveries' /\ deliveries'[d] = deliveries[d]
      /\ \A d \in DOMAIN deliveries' \ DOMAIN deliveries :
            d - Len(deliveries) \in DOMAIN started /\ deliveries'[d] = started[d - Len(deliveries)]
  BY <1>1, <1>2, <1>7
<1>10. /\ got' \in Seq(0..MaxAttempts) /\ Len(got') = Len(deliveries')
       /\ \A d \in DOMAIN deliveries : got'[d] = got[d]
       /\ \A d \in DOMAIN deliveries' \ DOMAIN deliveries :
            got'[d] = none[d - Len(deliveries)]
  <2>1. /\ got' \in Seq(0..MaxAttempts) /\ Len(got') = Len(got) + Len(none)
        /\ \A d \in 1..Len(got) : got'[d] = got[d]
        /\ \A d \in (1..Len(got')) \ (1..Len(got)) : got'[d] = none[d - Len(got)]
    <3>1. /\ got' \in Seq(0..MaxAttempts) /\ Len(got') = Len(got) + Len(none)
          /\ \A d \in 1..Len(got) + Len(none) :
                got'[d] = IF d <= Len(got) THEN got[d] ELSE none[d - Len(got)]
      BY <1>1, <1>2, <1>8, ConcatProperties
    <3>2. Len(got) \in Nat /\ Len(none) \in Nat
      BY <1>2, <1>8
    <3>3. QED
      BY <3>1, <3>2
  <2>2. DOMAIN deliveries = 1..Len(got) /\ Len(got') = Len(deliveries')
    BY <1>2, <1>8, <1>9, <2>1
  <2>3. DOMAIN deliveries' = 1..Len(got')
    BY <1>9, <2>2
  <2>4. QED
    BY <1>2, <2>1, <2>2, <2>3
<1>11. TypeOK'
  BY <1>1, <1>9, <1>10, <1>7 DEF Inv, TypeOK
<1>12. RecordsKnown'
  BY <1>1, <1>9 DEF Inv, RecordsKnown
<1>13. TellsTheEnd(history)'
  BY <1>1, <1>9, <1>10, SameTells
<1>14. \A d \in DOMAIN deliveries' : got'[d] <= Made(d)'
  <2>1. \A d \in DOMAIN deliveries : got'[d] <= Made(d)'
    BY <1>9, <1>10 DEF Inv, HistoryTellsTheEnd, Made, Waiting
  <2>2. \A d \in DOMAIN deliveries' \ DOMAIN deliveries : got'[d] = 0 /\ Made(d)' = 0
    BY <1>7, <1>8, <1>9, <1>10 DEF Made, Waiting
  <2>3. QED
    BY <2>1, <2>2
<1>15. QED
  BY <1>11, <1>12, <1>13, <1>14 DEF Inv, HistoryTellsTheEnd

LEMMA OthersKeepInv ==
    ASSUME Inv, UNCHANGED <<deliveries, history, got>>,
           hooks' \in [Hooks -> SUBSET Events], running' \in BOOLEAN
    PROVE  Inv'
<1>1. TypeOK' /\ RecordsKnown'
  BY DEF Inv, TypeOK, RecordsKnown
<1>2. TellsTheEnd(history)'
  BY SameTells
<1>3. \A d \in DOMAIN deliveries' : got'[d] <= Made(d)'
  BY DEF Inv, HistoryTellsTheEnd, Made, Waiting
<1>4. QED
  BY <1>1, <1>2, <1>3 DEF Inv, HistoryTellsTheEnd

LEMMA NextKeepsInv == Inv /\ [Next]_vars => Inv'
<1> SUFFICES ASSUME Inv, [Next]_vars PROVE Inv'
  OBVIOUS
<1>1. hooks \in [Hooks -> SUBSET Events] /\ running \in BOOLEAN
  BY DEF Inv, TypeOK
<1>2. CASE UNCHANGED vars
  BY <1>1, <1>2, OthersKeepInv DEF vars
<1>3. ASSUME NEW h \in Hooks, NEW E \in SUBSET Events, RegisterHook(h, E) PROVE Inv'
  BY <1>1, <1>3, OthersKeepInv DEF RegisterHook
<1>4. ASSUME NEW h \in Hooks, DeregisterHook(h) PROVE Inv'
  BY <1>1, <1>4, OthersKeepInv DEF DeregisterHook
<1>5. CASE Start \/ Stop
  BY <1>1, <1>5, OthersKeepInv DEF Start, Stop
<1>6. QED
  BY <1>2, <1>3, <1>4, <1>5, EmitKeepsInv, AttemptKeepsInv DEF Next

LEMMA InvHolds == Spec => []Inv
BY InitInv, NextKeepsInv, PTL DEF Spec

-----------------------------------------------------------------------------
(* The theorems.                                                           *)

\* Attempts and the history keep to their bounds (_max_retries, _max_history).
THEOREM HooksTypes == Spec => []TypeOK
BY InvHolds, PTL DEF Inv

\* The history (record_delivery) tells the end of every delivery that it still
\* has records of, for any number of deliveries and retries.
THEOREM HistoryFaithful == Spec => []HistoryTellsTheEnd
BY InvHolds, PTL DEF Inv

-----------------------------------------------------------------------------
(* What the history has not forgotten.                                     *)

\* As long as the history is not full it has a record of every attempt made.
Complete ==
    Len(history) < MaxHistory =>
        \A d \in DOMAIN deliveries : \A n \in 1..Made(d) :
            \E i \in DOMAIN history : history[i].of = d /\ history[i].attempt = n

LEMMA AttemptKeepsComplete ==
    ASSUME Inv, Complete, NEW d \in DOMAIN deliveries, Attempt(d)
    PROVE  Complete'
<1>1. PICK s \in Final \cup {"retry"} : Waiting(d) /\ Conclude(d, s)
  BY AttemptFacts
<1> DEFINE a == deliveries[d].attempt
           rec == [of |-> d, hook |-> deliveries[d].hook, status |-> s, attempt |-> a]
           new == [deliveries[d] EXCEPT !.status = s, !.attempt = IF s = "retry" THEN a + 1 ELSE a]
<1>2. /\ deliveries \in Seq(Delivery) /\ deliveries[d] \in Delivery /\ a \in Nat
      /\ history \in Seq(Record)
  <2>1. /\ deliveries \in Seq(Delivery) /\ deliveries[d] \in Delivery
        /\ history \in Seq(Record) /\ MaxAttempts \in Nat
    BY MaxRetriesAssumption DEF Inv, TypeOK, MaxAttempts
  <2>2. QED
    BY <2>1 DEF Delivery
<1>3. deliveries' = [deliveries EXCEPT ![d] = new] /\ RecordDelivery(rec)
  BY <1>1, <1>2 DEF Conclude
<1>4. new.status = s /\ new.attempt = (IF s = "retry" THEN a + 1 ELSE a)
  BY <1>2 DEF Delivery
<1>5. rec.of = d /\ rec.attempt = a
  OBVIOUS
<1> HIDE DEF new, rec
<1>6. /\ DOMAIN deliveries' = DOMAIN deliveries /\ deliveries'[d] = new
      /\ \A e \in DOMAIN deliveries \ {d} : deliveries'[e] = deliveries[e]
  BY <1>2, <1>3
<1>7. /\ Made(d) = a - 1 /\ Made(d)' = a
      /\ \A e \in DOMAIN deliveries \ {d} : Made(e)' = Made(e)
  <2>1. Made(d)' = (IF s = "retry" THEN a + 1 ELSE a) - (IF s = "retry" THEN 1 ELSE 0)
    BY <1>4, <1>6 DEF Made, Waiting
  <2>2. Made(d)' = a
    BY <1>2, <2>1
  <2>3. QED
    BY <1>1, <1>6, <2>2 DEF Made, Waiting
<1>8. SUFFICES ASSUME Len(history') < MaxHistory
               PROVE  \A e \in DOMAIN deliveries' : \A n \in 1..Made(e)' :
                         \E i \in DOMAIN history' : history'[i].of = e /\ history'[i].attempt = n
  BY DEF Complete
<1>9. /\ Len(history) < MaxHistory /\ history' = Append(history, rec)
  <2>1. history # <<>> => Len(Tail(history)) = Len(history) - 1
    BY <1>2
  <2>2. CASE Len(history) >= MaxHistory
    <3>1. history' = Append(Tail(history), rec) /\ history # <<>>
      BY <1>2, <1>3, <2>2, MaxHistoryAssumption DEF RecordDelivery
    <3>2. Len(history') = Len(history)
      BY <1>2, <2>1, <3>1
    <3>3. QED
      BY <1>8, <2>2, <3>2, <1>2, MaxHistoryAssumption
  <2>3. CASE ~(Len(history) >= MaxHistory)
    BY <1>2, <1>3, <2>3, MaxHistoryAssumption DEF RecordDelivery
  <2>4. QED
    BY <2>2, <2>3
<1>10. /\ Len(history) + 1 \in DOMAIN history' /\ history'[Len(history) + 1] = rec
       /\ \A i \in DOMAIN history : i \in DOMAIN history' /\ history'[i] = history[i]
  BY <1>2, <1>9
<1>11. ASSUME NEW e \in DOMAIN deliveries, NEW n \in 1..Made(e)'
       PROVE  \E i \in DOMAIN history' : history'[i].of = e /\ history'[i].attempt = n
  <2>1. CASE e = d /\ n = a
    BY <1>5, <1>10, <2>1
  <2>2. CASE ~(e = d /\ n = a)
    <3>1. n \in 1..Made(e)
      BY <1>2, <1>7, <1>11, <2>2
    <3>2. PICK i \in DOMAIN history : history[i].of = e /\ history[i].attempt = n
      BY <1>9, <3>1 DEF Complete
    <3>3. QED
      BY <1>10, <3>2
  <2>3. QED
    BY <2>1, <2>2
<1>12. QED
  BY <1>6, <1>11

\* A delivery that has just started has made no attempt.
LEMMA EmitKeepsComplete ==
    ASSUME Inv, Complete, NEW e \in Events, Emit(e)
    PROVE  Complete'
<1> DEFINE first(h) == [hook |-> h, attempt |-> 1, status |-> "retry"]
           S == {first(h) : h \in HooksForEvent(e)}
           started == SetToSeq(S)
<1>1. deliveries' = deliveries \o started /\ history' = history /\ deliveries \in Seq(Delivery)
  BY DEF Emit, Inv, TypeOK
<1>2. \A x \in S : x.attempt = 1 /\ x.status = "retry"
  OBVIOUS
<1>3. started \in Seq(S)
  <2>1. IsFiniteSet(HooksForEvent(e))
    BY HooksAssumption, FS_Subset DEF HooksForEvent
  <2> DEFINE f == [h \in HooksForEvent(e) |-> first(h)]
  <2>2. f \in Surjection(HooksForEvent(e), S)
    BY DEF Surjection
  <2>3. IsFiniteSet(S)
    BY <2>1, <2>2, FS_Surjection DEF ExistsSurjection
  <2>4. QED
    BY <2>3, EnumerationType
<1> HIDE DEF S, started, first
<1>4. \A i \in DOMAIN started : started[i].attempt = 1 /\ started[i].status = "retry"
  BY <1>2, <1>3
<1>5. \A d \in DOMAIN deliveries' :
          \/ d \in DOMAIN deliveries /\ deliveries'[d] = deliveries[d]
          \/ deliveries'[d].attempt = 1 /\ deliveries'[d].status = "retry"
  BY <1>1, <1>3, <1>4
<1>6. \A d \in DOMAIN deliveries' :
          \/ d \in DOMAIN deliveries /\ Made(d)' = Made(d)
          \/ Made(d)' = 0
  BY <1>5 DEF Made, Waiting
<1>7. ASSUME Len(history) < MaxHistory, NEW d \in DOMAIN deliveries', NEW n \in 1..Made(d)'
      PROVE  \E i \in DOMAIN history : history[i].of = d /\ history[i].attempt = n
  <2>1. d \in DOMAIN deliveries /\ n \in 1..Made(d)
    BY <1>6, <1>7
  <2>2. QED
    BY <1>7, <2>1 DEF Complete
<1>8. QED
  BY <1>1, <1>7 DEF Complete

\* Nothing is forgotten before the history is full: until then get_deliveries
\* has every attempt of every delivery, for webhooks that are gone as well.
THEOREM NothingForgotten == Spec => []Complete
<1>1. Init => Complete
  BY DEF Init, Complete
<1>2. ASSUME Inv, Complete, [Next]_vars PROVE Complete'
  <2>1. ASSUME UNCHANGED <<deliveries, history>> PROVE Complete'
    BY <1>2, <2>1 DEF Complete, Made, Waiting
  <2>2. CASE UNCHANGED vars
    BY <2>1, <2>2 DEF vars
  <2>3. ASSUME NEW h \in Hooks, NEW E \in SUBSET Events, RegisterHook(h, E) PROVE Complete'
    BY <2>1, <2>3 DEF RegisterHook
  <2>4. ASSUME NEW h \in Hooks, DeregisterHook(h) PROVE Complete'
    BY <2>1, <2>4 DEF DeregisterHook
  <2>5. CASE Start \/ Stop
    BY <2>1, <2>5 DEF Start, Stop
  <2>6. QED
    BY <1>2, <2>2, <2>3, <2>4, <2>5, EmitKeepsComplete, AttemptKeepsComplete DEF Next
<1>3. QED
  BY <1>1, <1>2, InvHolds, PTL DEF Spec
=============================================================================
