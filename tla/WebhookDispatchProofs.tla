----------------------- MODULE WebhookDispatchProofs -----------------------
(***************************************************************************)
(* What the webhook worker promises, for any number of deliveries and      *)
(* subscriptions, any batch limit, attempt limit and backoff, and any      *)
(* number of aborted cycles.                                               *)
(*                                                                         *)
(* The accounts balance only because the mark_* updates, which check       *)
(* nothing, find the row as the cycle listed it; so BatchIsFresh is part   *)
(* of the inductive invariant.  It holds because there is one worker, a    *)
(* due row stays due as time passes, and a batch names a row once.         *)
(***************************************************************************)
EXTENDS WebhookDispatch, SequenceTheorems, FiniteSetTheorems, TLAPS

IInv ==
    /\ TypeOK
    /\ BatchIsFresh
    /\ AttemptsAccounted
    /\ AcceptancesAccounted

Item == [id : Deliveries, attempt_count : 0 .. MaxAttempts]

-----------------------------------------------------------------------------
\* The backoff is an integer number of ticks (backoff_seconds).
LEMMA BackoffType == ASSUME NEW n \in Nat PROVE backoff_seconds(n) \in Int
<1>1. 2^n \in Int /\ BaseTicks \in Int /\ MaxTicks \in Int
  BY DispatchAssumption
<1>2. BaseTicks * 2^n \in Int
  BY <1>1
<1>. QED
  BY <1>1, <1>2 DEF backoff_seconds

\* A batch lists deliveries.
LEMMA BatchItems ==
    ASSUME TypeOK
    PROVE  /\ batch \in Seq(Item) /\ Len(batch) \in Nat /\ DOMAIN batch = 1 .. Len(batch)
           /\ \A i \in DOMAIN batch : batch[i] \in Item /\ batch[i].id \in Deliveries
<1>1. batch \in Seq(Item)
  BY DEF TypeOK, Item
<1>2. \A i \in DOMAIN batch : batch[i] \in Item
  BY <1>1, ElementOfSeq, LenProperties
<1>. QED
  BY <1>1, <1>2, LenProperties DEF Item

\* The delivery a cycle comes to next is pending and due, with the attempt count
\* the cycle has for it.
LEMMA HeadIsFresh ==
    ASSUME TypeOK, BatchIsFresh, batch # <<>>
    PROVE  /\ Head(batch) = batch[1] /\ 1 \in DOMAIN batch
           /\ Current \in Deliveries
           /\ row[Current].status = "pending"
           /\ row[Current].next_attempt_at <= 0
           /\ Head(batch).attempt_count = row[Current].attempt_count
           /\ row[Current] \in Delivery
<1>1. batch \in Seq(Item) /\ batch # <<>>
  BY DEF TypeOK, Item
<1>2. Head(batch) = batch[1] /\ 1 \in DOMAIN batch /\ batch[1] \in Item
  BY <1>1
<1>. QED
  BY <1>2 DEF TypeOK, BatchIsFresh, Due, Current, Item

\* Moving on to the rest of the batch keeps it fresh, as long as no row but the
\* one just handled has changed.
LEMMA TailIsFresh ==
    ASSUME TypeOK, BatchIsFresh, batch # <<>>, batch' = Tail(batch),
           \A d \in Deliveries : d # Current => row'[d] = row[d]
    PROVE  /\ BatchIsFresh'
           /\ batch' \in Seq(Item) /\ Len(batch') <= Limit
<1>1. batch \in Seq(Item) /\ batch # <<>> /\ Len(batch) \in Nat /\ Len(batch) <= Limit
      /\ DOMAIN batch = 1 .. Len(batch) /\ Limit \in Nat
  BY LenProperties, DispatchAssumption DEF TypeOK, Item
<1>2. /\ batch' \in Seq(Item) /\ Len(batch') = Len(batch) - 1
      /\ \A i \in 1 .. Len(batch') : batch'[i] = batch[i + 1]
      /\ DOMAIN batch' = 1 .. Len(batch) - 1
  BY <1>1
<1>3. Current = batch[1].id /\ 1 \in DOMAIN batch
  BY <1>1 DEF Current
<1>4. \A i \in DOMAIN batch' : /\ i + 1 \in DOMAIN batch /\ i + 1 # 1
                               /\ batch'[i] = batch[i + 1]
  BY <1>1, <1>2
<1>5. \A i \in DOMAIN batch' : batch'[i].id # Current /\ batch'[i].id \in Deliveries
  BY <1>1, <1>3, <1>4, BatchItems DEF BatchIsFresh
<1>6. \A i \in DOMAIN batch' : Due(batch'[i].id)
                               /\ row[batch'[i].id].attempt_count = batch'[i].attempt_count
  BY <1>4 DEF BatchIsFresh
<1>7. \A i, j \in DOMAIN batch' : batch'[i].id = batch'[j].id => i = j
  BY <1>1, <1>2, <1>4 DEF BatchIsFresh
<1>. QED
  BY <1>1, <1>2, <1>5, <1>6, <1>7 DEF BatchIsFresh, Due

\* The initial state satisfies the inductive invariant.
LEMMA InitIInv == Init => IInv
<1> SUFFICES ASSUME Init PROVE IInv
  OBVIOUS
<1>1. TypeOK
  <2>1. [status |-> "absent", attempt_count |-> 0, next_attempt_at |-> 0] \in Delivery
    BY DispatchAssumption DEF Delivery, DeliveryStatus
  <2>2. row \in [Deliveries -> Delivery]
    BY <2>1 DEF Init
  <2>3. Len(batch) <= Limit /\ 0 \in 0 .. MaxAborts
    BY DispatchAssumption DEF Init
  <2>4. \A f : f = [d \in Deliveries |-> 0] => f \in [Deliveries -> Nat]
    OBVIOUS
  <2>5. /\ sends \in [Deliveries -> Nat] /\ accepted \in [Deliveries -> Nat]
        /\ lost \in [Deliveries -> Nat] /\ aborted \in [Deliveries -> Nat]
    BY <2>4 DEF Init
  <2>6. batch \in Seq([id : Deliveries, attempt_count : 0 .. MaxAttempts])
    BY EmptySeq DEF Init
  <2>7. /\ active \in SUBSET Subscriptions /\ known \in SUBSET Subscriptions
        /\ pc \in CycleStage /\ pc # "mark" /\ aborts = 0
    BY DEF Init, CycleStage
  <2>8. success \in BOOLEAN
    BY DEF Init
  <2>. QED
    BY <2>2, <2>3, <2>5, <2>6, <2>7, <2>8 DEF TypeOK
<1>2. BatchIsFresh
  BY DEF Init, BatchIsFresh
<1>3. AttemptsAccounted /\ AcceptancesAccounted
  BY DispatchAssumption DEF Init, AttemptsAccounted, AcceptancesAccounted, Given, Marking
<1>. QED
  BY <1>1, <1>2, <1>3 DEF IInv

-----------------------------------------------------------------------------
(* The rows.                                                                *)

\* A new delivery is in no batch.
LEMMA EnqueueStep ==
    ASSUME IInv, NEW d \in Deliveries, EnqueueDelivery(d)
    PROVE  IInv'
<1>1. PICK began \in 0 .. MaxLag :
         row' = [row EXCEPT ![d] = [@ EXCEPT !.status = "pending", !.next_attempt_at = -began]]
  BY DEF EnqueueDelivery
<1>2. /\ row[d].status = "absent" /\ row \in [Deliveries -> Delivery] /\ began \in Int
      /\ UNCHANGED <<active, pc, batch, known, success, sends, accepted, lost, aborted, aborts>>
  BY DispatchAssumption DEF EnqueueDelivery, worker, log, IInv, TypeOK
<1>3. /\ row'[d].status = "pending" /\ row'[d].attempt_count = row[d].attempt_count
      /\ row'[d] \in Delivery
      /\ \A e \in Deliveries : e # d => row'[e] = row[e]
  <2> DEFINE new == [row[d] EXCEPT !.status = "pending", !.next_attempt_at = -began]
  <2>1. row[d] \in Delivery /\ -began \in Int /\ "pending" \in DeliveryStatus
    BY <1>2 DEF DeliveryStatus
  <2>2. /\ new \in Delivery /\ new.status = "pending"
        /\ new.attempt_count = row[d].attempt_count
    BY <2>1 DEF Delivery
  <2>3. row' = [row EXCEPT ![d] = new]
    BY <1>1
  <2> HIDE DEF new
  <2>. QED
    BY <1>2, <2>2, <2>3
<1>4. row' \in [Deliveries -> Delivery]
  BY <1>1, <1>2, <1>3
<1>5. \A i \in DOMAIN batch : batch[i].id # d /\ batch[i].id \in Deliveries
  BY <1>2, BatchItems DEF IInv, BatchIsFresh, Due
<1>6. pc = "mark" => Current # d
  BY <1>2, HeadIsFresh DEF IInv, TypeOK
<1>7. TypeOK'
  BY <1>2, <1>4 DEF IInv, TypeOK
<1>8. BatchIsFresh'
  BY <1>2, <1>3, <1>5 DEF IInv, BatchIsFresh, Due
<1>9. AttemptsAccounted'
  BY <1>2, <1>3, <1>6 DEF IInv, AttemptsAccounted, Given, Marking, Current
<1>10. AcceptancesAccounted'
  BY <1>2, <1>3, <1>6 DEF IInv, AcceptancesAccounted, Given, Marking, Current
<1>. QED
  BY <1>7, <1>8, <1>9, <1>10 DEF IInv

\* Time passes: a row that is due stays due.
LEMMA TickStep ==
    ASSUME IInv, Tick
    PROVE  IInv'
<1> DEFINE soon == {row[d].next_attempt_at : d \in {e \in Deliveries :
                       row[e].status = "pending" /\ row[e].next_attempt_at <= 1}}
           Later(t) == IF t > 1 THEN t - 1 ELSE -Cardinality({u \in soon : u > t})
<1>1. /\ row' = [d \in Deliveries |->
             IF row[d].status = "pending"
             THEN [row[d] EXCEPT !.next_attempt_at = Later(@)] ELSE row[d]]
      /\ UNCHANGED <<active, pc, batch, known, success, sends, accepted, lost, aborted, aborts>>
  BY DEF Tick, worker, log
<1>2. IsFiniteSet(soon)
  <2> DEFINE S == {e \in Deliveries : row[e].status = "pending" /\ row[e].next_attempt_at <= 1}
             f == [e \in S |-> row[e].next_attempt_at]
  <2>1. IsFiniteSet(S)
    BY DispatchAssumption, FS_Subset
  <2>2. soon = {f[e] : e \in S}
    OBVIOUS
  <2>3. f \in Surjection(S, soon)
    BY DEF Surjection
  <2>. QED
    BY <2>1, <2>3, FS_Surjection
<1>3. ASSUME NEW t \in Int
      PROVE  Later(t) \in Int /\ (t <= 0 => Later(t) <= 0)
  <2> DEFINE U == {u \in soon : u > t}
  <2>1. IsFiniteSet(U)
    BY <1>2, FS_Subset
  <2>2. Cardinality(U) \in Nat
    BY <2>1, FS_CardinalityType
  <2> HIDE DEF U
  <2>3. -Cardinality(U) \in Int /\ -Cardinality(U) <= 0
    BY <2>2
  <2>. QED
    BY <2>3 DEF U
<1> HIDE DEF Later
<1>4. row \in [Deliveries -> Delivery]
  BY DEF IInv, TypeOK
<1>5. ASSUME NEW d \in Deliveries
      PROVE  /\ row'[d].status = row[d].status
             /\ row'[d].attempt_count = row[d].attempt_count
             /\ row'[d] \in Delivery
             /\ Due(d) => Due(d)'
  <2>1. row[d] \in Delivery /\ row[d].next_attempt_at \in Int
    BY <1>4 DEF Delivery
  <2>2. row'[d] = IF row[d].status = "pending"
                  THEN [row[d] EXCEPT !.next_attempt_at = Later(row[d].next_attempt_at)]
                  ELSE row[d]
    BY <1>1
  <2>. QED
    BY <1>3, <2>1, <2>2 DEF Delivery, Due
<1>6. row' \in [Deliveries -> Delivery]
  BY <1>1, <1>5
<1>7. TypeOK'
  BY <1>1, <1>6 DEF IInv, TypeOK
<1>8. BatchIsFresh'
  <2>1. \A i \in DOMAIN batch : batch[i].id \in Deliveries
    BY BatchItems DEF IInv
  <2>. QED
    BY <1>1, <1>5, <2>1 DEF IInv, BatchIsFresh, Due
<1>9. AttemptsAccounted' /\ AcceptancesAccounted'
  BY <1>1, <1>5 DEF IInv, AttemptsAccounted, AcceptancesAccounted, Given, Marking, Current
<1>. QED
  BY <1>7, <1>8, <1>9 DEF IInv

-----------------------------------------------------------------------------
(* The cycle.                                                               *)

\* The rows a query lists are pending, due and listed once.
LEMMA ListStep ==
    ASSUME IInv, ListDue
    PROVE  IInv'
<1> DEFINE rows == {d \in Deliveries : Due(d)}
<1>1. PICK n \in 0 .. Limit : \E ids \in [1 .. n -> Deliveries] :
         /\ IsFirst(ids, rows)
         /\ batch' = [i \in 1 .. n |->
                        [id |-> ids[i], attempt_count |-> row[ids[i]].attempt_count]]
  BY DEF ListDue, List
<1>2. PICK ids \in [1 .. n -> Deliveries] :
         /\ IsFirst(ids, rows)
         /\ batch' = [i \in 1 .. n |->
                        [id |-> ids[i], attempt_count |-> row[ids[i]].attempt_count]]
  BY <1>1
<1>3. /\ pc = "idle" /\ pc' = "subscriptions" /\ n \in Nat /\ n <= Limit
      /\ UNCHANGED <<row, active, known, success, sends, accepted, lost, aborted, aborts>>
  BY <1>1, DispatchAssumption DEF ListDue, List, log
<1>4. \A i \in 1 .. n : /\ batch'[i] \in Item /\ batch'[i].id = ids[i]
                        /\ batch'[i].attempt_count = row[ids[i]].attempt_count
  <2> SUFFICES ASSUME NEW i \in 1 .. n
               PROVE  /\ batch'[i] \in Item /\ batch'[i].id = ids[i]
                      /\ batch'[i].attempt_count = row[ids[i]].attempt_count
    OBVIOUS
  <2>1. ids[i] \in Deliveries /\ row[ids[i]].attempt_count \in 0 .. MaxAttempts
    BY <1>2 DEF IInv, TypeOK, Delivery
  <2>2. batch'[i] = [id |-> ids[i], attempt_count |-> row[ids[i]].attempt_count]
    BY <1>2
  <2>. QED
    BY <2>1, <2>2 DEF Item
<1>5. batch' \in Seq(Item) /\ Len(batch') = n /\ DOMAIN batch' = 1 .. n
  <2>1. batch' \in [1 .. n -> Item]
    BY <1>2, <1>4
  <2>2. batch' \in Seq(Item)
    BY <1>3, <2>1, IsASeq
  <2>. QED
    BY <1>3, <2>1, <2>2, LenProperties
<1>6. TypeOK'
  BY <1>3, <1>5 DEF IInv, TypeOK, Item, CycleStage
<1>7. BatchIsFresh'
  <2>1. \A i \in 1 .. n : Due(ids[i])
    BY <1>2 DEF IsFirst
  <2>2. \A i, j \in 1 .. n : ids[i] = ids[j] => i = j
    <3> SUFFICES ASSUME NEW i \in 1 .. n, NEW j \in 1 .. n, i # j
                 PROVE  ids[i] # ids[j]
      OBVIOUS
    <3>1. DOMAIN ids = 1 .. n /\ (i < j \/ j < i)
      BY <1>2, <1>3
    <3>. QED
      BY <1>2, <3>1 DEF IsFirst
  <2>. QED
    BY <1>3, <1>4, <1>5, <2>1, <2>2 DEF BatchIsFresh, Due
<1>8. AttemptsAccounted' /\ AcceptancesAccounted'
  BY <1>3 DEF IInv, AttemptsAccounted, AcceptancesAccounted, Given, Marking
<1>. QED
  BY <1>6, <1>7, <1>8 DEF IInv

\* Steps of the loop that neither send nor record anything.
LEMMA LoopStep ==
    ASSUME IInv, ListSubscriptions \/ SkipInactive \/ EndCycle
    PROVE  IInv'
<1>1. /\ UNCHANGED <<row, active, success, sends, accepted, lost, aborted, aborts>>
      /\ pc # "mark" /\ pc' # "mark" /\ pc' \in CycleStage
      /\ known' = known \/ known' = active
  BY DEF ListSubscriptions, SkipInactive, EndCycle, log, CycleStage
<1>2. /\ batch' \in Seq(Item) /\ Len(batch') <= Limit
      /\ BatchIsFresh'
  <2>1. CASE SkipInactive
    <3>1. batch # <<>> /\ batch' = Tail(batch) /\ row' = row
      BY <2>1 DEF SkipInactive
    <3>. QED
      BY <3>1, TailIsFresh DEF IInv
  <2>2. CASE ListSubscriptions \/ EndCycle
    BY <1>1, <2>2 DEF ListSubscriptions, EndCycle, IInv, TypeOK, Item, BatchIsFresh, Due
  <2>. QED
    BY <2>1, <2>2
<1>3. TypeOK'
  BY <1>1, <1>2 DEF IInv, TypeOK, Item
<1>4. AttemptsAccounted' /\ AcceptancesAccounted'
  BY <1>1 DEF IInv, AttemptsAccounted, AcceptancesAccounted, Given, Marking
<1>. QED
  BY <1>2, <1>3, <1>4 DEF IInv

\* A POST is under way, counted in sends and, if it was, as accepted.
LEMMA SendStep ==
    ASSUME IInv, NEW accepts \in BOOLEAN, NEW answers \in BOOLEAN, Send(accepts, answers)
    PROVE  IInv'
<1>1. PICK d \in Deliveries : d = Current
  BY HeadIsFresh DEF IInv, Send
<1>2. /\ pc = "loop" /\ pc' = "mark" /\ batch # <<>>
      /\ (answers => accepts) /\ success' = answers
      /\ sends' = [sends EXCEPT ![d] = @ + 1]
      /\ accepted' = [accepted EXCEPT ![d] = IF accepts THEN @ + 1 ELSE @]
      /\ lost' = [lost EXCEPT ![d] = IF accepts /\ ~ answers THEN @ + 1 ELSE @]
      /\ UNCHANGED <<row, active, batch, known, aborted, aborts>>
  BY <1>1 DEF Send, Current
<1>3. row[d].status = "pending" /\ Current' = d
  BY <1>1, <1>2, HeadIsFresh DEF IInv, Current
<1>4. /\ sends \in [Deliveries -> Nat] /\ accepted \in [Deliveries -> Nat]
      /\ lost \in [Deliveries -> Nat]
  BY DEF IInv, TypeOK
<1>5. TypeOK'
  <2>1. sends' \in [Deliveries -> Nat]
    BY <1>2, <1>4
  <2>2. accepted' \in [Deliveries -> Nat]
    BY <1>2, <1>4
  <2>3. lost' \in [Deliveries -> Nat]
    BY <1>2, <1>4
  <2>4. success' \in BOOLEAN
    BY <1>2
  <2>. QED
    BY <1>2, <2>1, <2>2, <2>3, <2>4 DEF IInv, TypeOK, CycleStage
<1>6. BatchIsFresh'
  BY <1>2 DEF IInv, BatchIsFresh, Due
<1>7. AttemptsAccounted'
  <2> SUFFICES ASSUME NEW e \in Deliveries
               PROVE  sends'[e] = row[e].attempt_count + aborted[e]
                                    + Given(row[e].status = "delivered" \/ e = d)
    BY <1>2, <1>3 DEF IInv, AttemptsAccounted, Marking
  <2>1. sends[e] = row[e].attempt_count + aborted[e] + Given(row[e].status = "delivered")
    BY <1>2 DEF IInv, AttemptsAccounted, Marking
  <2>2. row[e].attempt_count \in Nat /\ aborted[e] \in Nat
    BY DispatchAssumption DEF IInv, TypeOK, Delivery
  <2>3. CASE e = d
    BY <1>2, <1>3, <1>4, <2>1, <2>2, <2>3 DEF Given
  <2>4. CASE e # d
    BY <1>2, <1>4, <2>1, <2>4 DEF Given
  <2>. QED
    BY <2>3, <2>4
<1>8. AcceptancesAccounted'
  <2> SUFFICES ASSUME NEW e \in Deliveries
               PROVE  accepted'[e] = lost'[e] + Given(row[e].status = "delivered"
                                                        \/ (e = d /\ answers))
    BY <1>2, <1>3 DEF AcceptancesAccounted, Marking
  <2>1. accepted[e] = lost[e] + Given(row[e].status = "delivered")
    BY <1>2 DEF IInv, AcceptancesAccounted, Marking
  <2>2. CASE e = d
    BY <1>2, <1>3, <1>4, <2>1, <2>2 DEF Given
  <2>3. CASE e # d
    BY <1>2, <1>4, <2>1, <2>3 DEF Given
  <2>. QED
    BY <2>2, <2>3
<1>. QED
  BY <1>5, <1>6, <1>7, <1>8 DEF IInv

\* Recording an outcome replaces the row of the delivery that was just sent, and
\* keeps the accounts provided that the new row counts the POST: as the delivery
\* or as one more failure, the last of which makes a dead letter.
LEMMA RecordStep ==
    ASSUME IInv, pc = "mark", NEW new \in Delivery, Record(new),
           \/ /\ success
              /\ new.status = "delivered"
              /\ new.attempt_count = row[Current].attempt_count
           \/ /\ ~ success
              /\ new.status \in {"pending", "dead_letter"}
              /\ new.attempt_count = row[Current].attempt_count + 1
              /\ new.status = "dead_letter" <=> new.attempt_count = MaxAttempts
    PROVE  IInv'
<1>0. batch # <<>>
  BY DEF IInv, TypeOK
<1>1. PICK d \in Deliveries : d = Current
  BY <1>0, HeadIsFresh DEF IInv
<1>2. /\ row[d].status = "pending" /\ row[d] \in Delivery
      /\ row \in [Deliveries -> Delivery]
  BY <1>0, <1>1, HeadIsFresh DEF IInv, TypeOK
<1>3. /\ row' = [row EXCEPT ![d] = new] /\ batch' = Tail(batch) /\ pc' = "loop"
      /\ UNCHANGED <<active, known, success, sends, accepted, lost, aborted, aborts>>
  BY <1>1 DEF Record, log
<1>4. row'[d] = new /\ \A e \in Deliveries : e # d => row'[e] = row[e]
  BY <1>2, <1>3
<1>5. batch' \in Seq(Item) /\ Len(batch') <= Limit /\ BatchIsFresh'
  BY <1>0, <1>1, <1>3, <1>4, TailIsFresh DEF IInv
<1>6. row' \in [Deliveries -> Delivery]
  BY <1>2, <1>3
<1>7. TypeOK'
  BY <1>3, <1>5, <1>6 DEF IInv, TypeOK, Item, CycleStage
<1>8. AttemptsAccounted'
  <2> SUFFICES ASSUME NEW e \in Deliveries
               PROVE  /\ sends[e] = row'[e].attempt_count + aborted[e]
                                      + Given(row'[e].status = "delivered")
                      /\ row'[e].status = "dead_letter" <=> row'[e].attempt_count = MaxAttempts
    BY <1>3 DEF AttemptsAccounted, Marking
  <2>1. /\ sends[e] = row[e].attempt_count + aborted[e]
                        + Given(row[e].status = "delivered" \/ e = d)
        /\ row[e].status = "dead_letter" <=> row[e].attempt_count = MaxAttempts
    BY <1>1 DEF IInv, AttemptsAccounted, Marking
  <2>2. row[e].attempt_count \in Nat /\ aborted[e] \in Nat
    BY DispatchAssumption DEF IInv, TypeOK, Delivery
  <2>3. CASE e = d
    BY <1>1, <1>2, <1>4, <2>1, <2>2, <2>3 DEF Given
  <2>4. CASE e # d
    BY <1>4, <2>1, <2>4
  <2>. QED
    BY <2>3, <2>4
<1>9. AcceptancesAccounted'
  <2> SUFFICES ASSUME NEW e \in Deliveries
               PROVE  accepted[e] = lost[e] + Given(row'[e].status = "delivered")
    BY <1>3 DEF AcceptancesAccounted, Marking
  <2>1. accepted[e] = lost[e] + Given(row[e].status = "delivered" \/ (e = d /\ success))
    BY <1>1 DEF IInv, AcceptancesAccounted, Marking
  <2>2. CASE e = d
    BY <1>2, <1>4, <2>1, <2>2 DEF Given
  <2>3. CASE e # d
    BY <1>4, <2>1, <2>3
  <2>. QED
    BY <2>2, <2>3
<1>. QED
  BY <1>5, <1>7, <1>8, <1>9 DEF IInv

\* The three updates record an outcome that way, because the row is pending at
\* the attempt count the cycle saw (mark_delivered, mark_retry,
\* mark_dead_letter).
LEMMA MarkStep ==
    ASSUME IInv, MarkDelivered \/ MarkDeadLetter \/ MarkRetry
    PROVE  IInv'
<1>0. pc = "mark" /\ batch # <<>>
  BY DEF MarkDelivered, MarkDeadLetter, MarkRetry, IInv, TypeOK
<1> DEFINE old == row[Current]
<1>1. /\ old \in Delivery /\ old.status = "pending" /\ Current \in Deliveries
      /\ Attempt = old.attempt_count + 1
  BY <1>0, HeadIsFresh DEF IInv, Attempt
<1>2. /\ old.attempt_count \in 0 .. MaxAttempts /\ old.attempt_count # MaxAttempts
      /\ MaxAttempts \in Nat
  BY <1>1, DispatchAssumption DEF IInv, AttemptsAccounted, Delivery
<1>3. /\ Attempt \in 1 .. MaxAttempts
      /\ Attempt - 1 \in Nat
  BY <1>1, <1>2
<1> HIDE DEF old
<1>4. CASE MarkDelivered
  <2> DEFINE new == [old EXCEPT !.status = "delivered"]
  <2>1. new \in Delivery /\ new.status = "delivered" /\ new.attempt_count = old.attempt_count
    BY <1>1 DEF Delivery, DeliveryStatus
  <2>2. success /\ Record(new)
    BY <1>4 DEF MarkDelivered, old
  <2> HIDE DEF new
  <2>. QED
    BY <1>0, <2>1, <2>2, RecordStep DEF old
<1>5. CASE MarkDeadLetter
  <2> DEFINE new == [old EXCEPT !.status = "dead_letter", !.attempt_count = Attempt]
  <2>1. ~ success /\ Attempt = MaxAttempts /\ Record(new)
    BY <1>2, <1>3, <1>5 DEF MarkDeadLetter, old
  <2>2. new \in Delivery /\ new.status = "dead_letter" /\ new.attempt_count = Attempt
    <3>1. Attempt \in 0 .. MaxAttempts
      BY <1>2, <1>3
    <3>. QED
      BY <1>1, <3>1 DEF Delivery, DeliveryStatus
  <2> HIDE DEF new
  <2>. QED
    BY <1>0, <1>1, <2>1, <2>2, RecordStep DEF old
<1>6. CASE MarkRetry
  <2> DEFINE wait == backoff_seconds(Attempt - 1)
             new == [old EXCEPT !.attempt_count = Attempt, !.next_attempt_at = wait]
  <2>1. ~ success /\ Attempt < MaxAttempts /\ Record(new)
    BY <1>6 DEF MarkRetry, old
  <2>2. wait \in Int /\ Attempt \in 0 .. MaxAttempts
    BY <1>2, <1>3, BackoffType
  <2> HIDE DEF wait
  <2>3. new \in Delivery /\ new.status = "pending" /\ new.attempt_count = Attempt
    BY <1>1, <2>2 DEF Delivery
  <2> HIDE DEF new
  <2>4. /\ new.attempt_count = old.attempt_count + 1
        /\ new.status # "dead_letter" /\ new.attempt_count # MaxAttempts
    BY <1>1, <1>2, <1>3, <2>1, <2>3
  <2>. QED
    BY <1>0, <2>1, <2>3, <2>4, RecordStep DEF old
<1>. QED
  BY <1>4, <1>5, <1>6

\* A cycle that dies forgets the outcome of the POST it was about to record.
LEMMA AbortStep ==
    ASSUME IInv, Abort
    PROVE  IInv'
<1>1. /\ batch' = <<>> /\ pc' = "idle" /\ aborts' = aborts + 1 /\ aborts < MaxAborts
      /\ UNCHANGED <<row, active, known, success, sends, accepted>>
  BY DEF Abort
<1>2. /\ lost \in [Deliveries -> Nat] /\ aborted \in [Deliveries -> Nat]
      /\ accepted \in [Deliveries -> Nat] /\ sends \in [Deliveries -> Nat]
  BY DEF IInv, TypeOK
<1>3. BatchIsFresh'
  BY <1>1 DEF BatchIsFresh
<1>4. ASSUME lost' \in [Deliveries -> Nat], aborted' \in [Deliveries -> Nat]
      PROVE  TypeOK'
  <2>1. /\ batch' \in Seq([id : Deliveries, attempt_count : 0 .. MaxAttempts])
        /\ Len(batch') = 0
    BY <1>1, EmptySeq
  <2>2. aborts' \in 0 .. MaxAborts /\ Len(batch') <= Limit
    BY <1>1, <2>1, DispatchAssumption DEF IInv, TypeOK
  <2>. QED
    BY <1>1, <1>4, <2>1, <2>2 DEF IInv, TypeOK, CycleStage
<1>5. CASE pc # "mark"
  <2>1. UNCHANGED <<aborted, lost>>
    BY <1>5 DEF Abort
  <2>2. AttemptsAccounted' /\ AcceptancesAccounted'
    BY <1>1, <1>5, <2>1 DEF IInv, AttemptsAccounted, AcceptancesAccounted, Given, Marking
  <2>. QED
    BY <1>2, <1>3, <1>4, <2>1, <2>2 DEF IInv
<1>6. CASE pc = "mark"
  <2>1. batch # <<>>
    BY <1>6 DEF IInv, TypeOK
  <2>2. PICK d \in Deliveries : d = Current /\ row[d].status = "pending"
    BY <2>1, HeadIsFresh DEF IInv
  <2>3. /\ aborted' = [aborted EXCEPT ![d] = @ + 1]
        /\ lost' = [lost EXCEPT ![d] = IF success THEN @ + 1 ELSE @]
    BY <1>6, <2>2 DEF Abort
  <2>4. lost' \in [Deliveries -> Nat] /\ aborted' \in [Deliveries -> Nat]
    BY <1>2, <2>3
  <2>5. AttemptsAccounted'
    <3> SUFFICES ASSUME NEW e \in Deliveries
                 PROVE  sends[e] = row[e].attempt_count + aborted'[e]
                                     + Given(row[e].status = "delivered")
      BY <1>1 DEF IInv, AttemptsAccounted, Marking
    <3>1. sends[e] = row[e].attempt_count + aborted[e]
                       + Given(row[e].status = "delivered" \/ e = d)
      BY <1>6, <2>2 DEF IInv, AttemptsAccounted, Marking
    <3>2. row[e].attempt_count \in Nat /\ aborted[e] \in Nat
      BY DispatchAssumption DEF IInv, TypeOK, Delivery
    <3>3. CASE e = d
      BY <1>2, <2>2, <2>3, <3>1, <3>2, <3>3 DEF Given
    <3>4. CASE e # d
      BY <1>2, <2>3, <3>1, <3>4
    <3>. QED
      BY <3>3, <3>4
  <2>6. AcceptancesAccounted'
    <3> SUFFICES ASSUME NEW e \in Deliveries
                 PROVE  accepted[e] = lost'[e] + Given(row[e].status = "delivered")
      BY <1>1 DEF AcceptancesAccounted, Marking
    <3>1. accepted[e] = lost[e] + Given(row[e].status = "delivered" \/ (e = d /\ success))
      BY <1>6, <2>2 DEF IInv, AcceptancesAccounted, Marking
    <3>2. CASE e = d
      BY <1>2, <2>2, <2>3, <3>1, <3>2 DEF Given
    <3>3. CASE e # d
      BY <1>2, <2>3, <3>1, <3>3
    <3>. QED
      BY <3>2, <3>3
  <2>. QED
    BY <1>3, <1>4, <2>4, <2>5, <2>6 DEF IInv
<1>. QED
  BY <1>5, <1>6

\* Every step preserves the inductive invariant.
LEMMA NextIInv == IInv /\ [Next]_vars => IInv'
<1> SUFFICES ASSUME IInv, [Next]_vars PROVE IInv'
  OBVIOUS
<1>1. CASE (\E s \in Subscriptions : Deactivate(s)) \/ UNCHANGED vars
  <2>1. /\ UNCHANGED <<row, pc, batch, known, success, sends, accepted, lost, aborted, aborts>>
        /\ active' \subseteq active
    BY <1>1 DEF Deactivate, worker, log, vars
  <2>2. TypeOK'
    BY <2>1 DEF IInv, TypeOK
  <2>3. BatchIsFresh'
    BY <2>1 DEF IInv, BatchIsFresh, Due
  <2>4. AttemptsAccounted' /\ AcceptancesAccounted'
    BY <2>1 DEF IInv, AttemptsAccounted, AcceptancesAccounted, Marking, Current
  <2>. QED
    BY <2>2, <2>3, <2>4 DEF IInv
<1>. QED
  BY <1>1, EnqueueStep, TickStep, ListStep, LoopStep, SendStep, MarkStep, AbortStep
     DEF Next, Cycle

\* The inductive invariant is an invariant.
THEOREM Inductive == Spec => []IInv
BY InitIInv, NextIInv, PTL DEF Spec

\* The variables of WebhookDispatch keep their types; attempt counts stay within
\* webhook_max_attempts.
THEOREM TypeCorrect == Spec => []TypeOK
<1>1. IInv => TypeOK
  BY DEF IInv
<1>. QED
  BY <1>1, Inductive, PTL

\* The rows of a batch are still pending, due and at the attempt count the cycle
\* saw when it gets to them, so the unchecked updates overwrite nothing
\* (dispatch_due_deliveries).
THEOREM BatchStaysFresh == Spec => []BatchIsFresh
<1>1. IInv => BatchIsFresh
  BY DEF IInv
<1>. QED
  BY <1>1, Inductive, PTL

\* Every POST is a counted failure, the delivery, one under way or one that an
\* aborted cycle forgot, and a dead letter has used up its attempts exactly
\* (mark_retry, mark_dead_letter).
THEOREM AttemptsAreAccounted == Spec => []AttemptsAccounted
<1>1. IInv => AttemptsAccounted
  BY DEF IInv
<1>. QED
  BY <1>1, Inductive, PTL

\* Every acceptance is recorded as the delivery or its answer was lost: nothing is
\* marked delivered that was not accepted (mark_delivered).
THEOREM AcceptancesAreAccounted == Spec => []AcceptancesAccounted
<1>1. IInv => AcceptancesAccounted
  BY DEF IInv
<1>. QED
  BY <1>1, Inductive, PTL

\* No step changes or sends a delivered row or a dead letter: a cycle only
\* touches rows that are pending when it does (list_due_deliveries).
THEOREM FinalStaysFinal == Spec => FinalIsFinal
<1> DEFINE Kept == \A d \in Deliveries : Final(d) => row'[d] = row[d] /\ sends'[d] = sends[d]
<1>1. IInv /\ [Next]_vars => [Kept]_vars
  <2> SUFFICES ASSUME IInv, [Next]_vars PROVE Kept
    OBVIOUS
  <2>0. row \in [Deliveries -> Delivery] /\ sends \in [Deliveries -> Nat]
    BY DEF IInv, TypeOK
  <2>1. CASE UNCHANGED <<row, sends>>
    BY <2>1
  <2>2. ASSUME NEW d \in Deliveries, EnqueueDelivery(d) PROVE Kept
    BY <2>0, <2>2 DEF EnqueueDelivery, log, Final
  <2>3. CASE Tick
    BY <2>0, <2>3 DEF Tick, log, Final
  <2>4. ASSUME NEW accepts, NEW answers, Send(accepts, answers) PROVE Kept
    <3>1. Current \in Deliveries /\ row[Current].status = "pending"
      BY <2>4, HeadIsFresh DEF IInv, Send
    <3>. QED
      BY <2>0, <2>4, <3>1 DEF Send, Final, Current
  <2>5. ASSUME NEW new, pc = "mark", Record(new) PROVE Kept
    <3>1. Current \in Deliveries /\ row[Current].status = "pending"
      BY <2>5, HeadIsFresh DEF IInv, TypeOK
    <3>. QED
      BY <2>0, <2>5, <3>1 DEF Record, log, Final
  <2>6. CASE MarkDelivered \/ MarkDeadLetter \/ MarkRetry
    BY <2>5, <2>6 DEF MarkDelivered, MarkDeadLetter, MarkRetry
  <2>7. CASE \/ ListDue \/ ListSubscriptions \/ SkipInactive \/ EndCycle \/ Abort
             \/ UNCHANGED vars \/ \E s \in Subscriptions : Deactivate(s)
    BY <2>1, <2>7 DEF ListDue, List, ListSubscriptions, SkipInactive, EndCycle, Abort,
                      Deactivate, vars, log
  <2>. QED
    BY <2>2, <2>3, <2>4, <2>6, <2>7 DEF Next, Cycle
<1>. QED
  BY <1>1, Inductive, PTL DEF Spec, FinalIsFinal
=============================================================================
