-------------------------- MODULE WebhookDispatch --------------------------
(***************************************************************************)
(* The worker that drains the webhook outbox: every few seconds a cycle    *)
(* lists the due rows of webhook_deliveries, POSTs each one to its         *)
(* subscriber, and records the outcome in a transaction of its own         *)
(* (app/domain/webhooks/dispatch.py, app/workers/scheduler.py).  The       *)
(* answer to a POST can be lost, and the cycle can die at any statement.   *)
(*                                                                         *)
(* There is one worker and its cycles do not overlap (max_instances=1).    *)
(* How rows get into the outbox is PaymentTransitions; here they appear.   *)
(*                                                                         *)
(* next_attempt_at is counted in ticks from the present: a row is due when *)
(* it is not positive.  Of overdue rows only the order matters, and Tick   *)
(* keeps no more than that.                                                *)
(*                                                                         *)
(* A definition F_Xxx placed before F is a mutant of F, a plausible bug    *)
(* that a property must catch; the specification uses none of them.        *)
(***************************************************************************)
EXTENDS Integers, Sequences, FiniteSets

CONSTANTS
    Deliveries,      \* ids of delivery rows, each queued at most once
    Subscriptions,
    SubscriptionOf,  \* SubscriptionOf[d]: the subscription d is for
    Deactivatable,   \* subscriptions whose active flag may be cleared
    Limit,           \* limit of dispatch_due_deliveries
    MaxAttempts,     \* webhook_max_attempts
    BaseTicks,       \* base_seconds of the backoff, in ticks
    MaxTicks,        \* max_seconds of the backoff, in ticks
    MaxLag,          \* bound on how long before its commit a row was stamped
    MaxAborts        \* bound on how often a cycle dies

ASSUME DispatchAssumption ==
    /\ IsFiniteSet(Deliveries)
    /\ SubscriptionOf \in [Deliveries -> Subscriptions]
    /\ Deactivatable \subseteq Subscriptions
    /\ Limit \in Nat \ {0}
    /\ MaxAttempts \in Nat \ {0}
    /\ BaseTicks \in Nat \ {0}
    /\ MaxTicks \in Nat \ {0}
    /\ MaxLag \in Nat
    /\ MaxAborts \in Nat

VARIABLES
    (* The database. *)
    row,       \* row[d]: status, attempt_count and next_attempt_at of d
    active,    \* the active subscriptions
    (* The worker. *)
    pc,        \* what the cycle does next
    batch,     \* the listed deliveries still to be dispatched
    known,     \* subscriptions_by_id of this cycle
    success,   \* whether the last POST was answered with a 2xx
    (* What happened, for the properties. *)
    sends,     \* sends[d]: how often d was POSTed
    accepted,  \* accepted[d]: how often its subscriber accepted it
    lost,      \* lost[d]: acceptances that were never recorded
    aborted,   \* aborted[d]: POSTs of d whose outcome was never recorded
    aborts     \* cycles that died

vars == <<row, active, pc, batch, known, success,
          sends, accepted, lost, aborted, aborts>>
worker == <<pc, batch, known, success>>
log == <<sends, accepted, lost, aborted, aborts>>

DeliveryStatus == {"absent", "pending", "delivered", "dead_letter"}
CycleStage == {"idle", "subscriptions", "loop", "mark"}

\* min(max_seconds, base_seconds * 2^attempt), attempt counting from 0.
backoff_seconds(attempt) ==
    LET delay == BaseTicks * 2^attempt
    IN  IF delay < MaxTicks THEN delay ELSE MaxTicks

Due(d) == row[d].status = "pending" /\ row[d].next_attempt_at <= 0

-----------------------------------------------------------------------------
(* The rows.                                                                *)

\* A payment transition commits with a delivery for an active subscription.
\* Its next_attempt_at is when that transaction began: rows that have been due
\* for a while may sort after it.
EnqueueDelivery(d) ==
    /\ row[d].status = "absent"
    /\ SubscriptionOf[d] \in active
    /\ \E began \in 0 .. MaxLag :
         row' = [row EXCEPT ![d] = [@ EXCEPT !.status = "pending", !.next_attempt_at = -began]]
    /\ UNCHANGED <<active, worker, log>>

\* Someone clears the active flag; nothing in the application does.
Deactivate(s) ==
    /\ s \in active \cap Deactivatable
    /\ active' = active \ {s}
    /\ UNCHANGED <<row, worker, log>>

\* Time passes.  The rows due after it are numbered 0, -1, -2... from the
\* latest next_attempt_at to the earliest.
Tick ==
    LET soon == {row[d].next_attempt_at : d \in {e \in Deliveries :
                    row[e].status = "pending" /\ row[e].next_attempt_at <= 1}}
        Later(t) == IF t > 1 THEN t - 1 ELSE -Cardinality({u \in soon : u > t})
    IN  /\ \E d \in Deliveries : row[d].status = "pending" /\ ~ Due(d)
        /\ row' = [d \in Deliveries |->
               IF row[d].status = "pending"
               THEN [row[d] EXCEPT !.next_attempt_at = Later(@)] ELSE row[d]]
        /\ UNCHANGED <<active, worker, log>>

-----------------------------------------------------------------------------
(* The cycle.                                                               *)

\* ids is what `ORDER BY next_attempt_at LIMIT ...' may return of the rows in
\* `rows'; the order of equal times is the database's choice.
IsFirst(ids, rows) ==
    /\ \A i \in DOMAIN ids : ids[i] \in rows
    /\ \A i, j \in DOMAIN ids : i < j =>
         ids[i] # ids[j] /\ row[ids[i]].next_attempt_at <= row[ids[j]].next_attempt_at
    /\ \A d \in rows : (\A i \in DOMAIN ids : ids[i] # d) =>
         /\ Len(ids) = Limit
         /\ \A i \in DOMAIN ids : row[ids[i]].next_attempt_at <= row[d].next_attempt_at

List(rows) ==
    /\ pc = "idle"
    /\ \E n \in 0 .. Limit : \E ids \in [1 .. n -> Deliveries] :
         /\ IsFirst(ids, rows)
         /\ batch' = [i \in 1 .. n |->
                        [id |-> ids[i], attempt_count |-> row[ids[i]].attempt_count]]
    /\ pc' = "subscriptions"
    /\ UNCHANGED <<row, active, known, success, log>>

\* Mutants: every pending row is listed, due or not; every due row is listed,
\* whatever its status.
ListDue_IgnoresBackoff == List({d \in Deliveries : row[d].status = "pending"})
ListDue_IgnoresStatus ==
    List({d \in Deliveries : row[d].status # "absent" /\ row[d].next_attempt_at <= 0})

\* list_due_deliveries: the first Limit due rows, as they are now.
ListDue == List({d \in Deliveries : Due(d)})

\* list_active_subscriptions, the second query of that transaction.
ListSubscriptions ==
    /\ pc = "subscriptions"
    /\ known' = active
    /\ pc' = "loop"
    /\ UNCHANGED <<row, active, batch, success, log>>

\* The loop comes to a delivery whose subscription is not active, or is done.
SkipInactive ==
    /\ pc = "loop"
    /\ batch # <<>>
    /\ SubscriptionOf[Head(batch).id] \notin known
    /\ batch' = Tail(batch)
    /\ UNCHANGED <<row, active, pc, known, success, log>>

EndCycle ==
    /\ pc = "loop"
    /\ batch = <<>>
    /\ pc' = "idle"
    /\ UNCHANGED <<row, active, batch, known, success, log>>

\* The POST: the subscriber accepts it or not, and a 2xx comes back only if it
\* did.  An acceptance that is answered too late, or by another status, looks
\* like a failure.
Send(accepts, answers) ==
    LET d == Head(batch).id
    IN  /\ pc = "loop"
        /\ batch # <<>>
        /\ SubscriptionOf[d] \in known
        /\ answers => accepts
        /\ success' = answers
        /\ pc' = "mark"
        /\ sends' = [sends EXCEPT ![d] = @ + 1]
        /\ accepted' = [accepted EXCEPT ![d] = IF accepts THEN @ + 1 ELSE @]
        /\ lost' = [lost EXCEPT ![d] = IF accepts /\ ~ answers THEN @ + 1 ELSE @]
        /\ UNCHANGED <<row, active, batch, known, aborted, aborts>>

(* The outcome, recorded in a transaction of its own: the row is fetched by  *)
(* its id and written without looking at what it has become.                *)

Current == Head(batch).id
Attempt == Head(batch).attempt_count + 1

Record(new) ==
    /\ row' = [row EXCEPT ![Current] = new]
    /\ batch' = Tail(batch)
    /\ pc' = "loop"
    /\ UNCHANGED <<active, known, success, log>>

\* Mutant: the row is marked whatever the answer was.
MarkDelivered_Unconditional ==
    /\ pc = "mark"
    /\ Record([row[Current] EXCEPT !.status = "delivered"])

MarkDelivered ==
    /\ pc = "mark"
    /\ success
    /\ Record([row[Current] EXCEPT !.status = "delivered"])

\* Mutant: the last failure is retried like the others.
MarkDeadLetter_StaysPending ==
    /\ pc = "mark"
    /\ ~ success
    /\ Attempt >= MaxAttempts
    /\ Record([row[Current] EXCEPT !.attempt_count = Attempt,
                                  !.next_attempt_at = backoff_seconds(Attempt - 1)])

MarkDeadLetter ==
    /\ pc = "mark"
    /\ ~ success
    /\ Attempt >= MaxAttempts
    /\ Record([row[Current] EXCEPT !.status = "dead_letter", !.attempt_count = Attempt])

\* Mutants: the attempt is not counted; the row gets a status of its own, which
\* list_due_deliveries does not select.
MarkRetry_NotCounted ==
    /\ pc = "mark"
    /\ ~ success
    /\ Attempt < MaxAttempts
    /\ Record([row[Current] EXCEPT !.next_attempt_at = backoff_seconds(Attempt - 1)])
MarkRetry_OtherStatus ==
    /\ pc = "mark"
    /\ ~ success
    /\ Attempt < MaxAttempts
    /\ Record([status |-> "failed", attempt_count |-> Attempt,
               next_attempt_at |-> backoff_seconds(Attempt - 1)])

MarkRetry ==
    /\ pc = "mark"
    /\ ~ success
    /\ Attempt < MaxAttempts
    /\ Record([row[Current] EXCEPT !.attempt_count = Attempt,
                                  !.next_attempt_at = backoff_seconds(Attempt - 1)])

\* The process dies, or a statement raises and the job logs it: the rest of
\* the cycle is dropped, and with it the outcome of a POST just made.
Abort ==
    /\ pc # "idle"
    /\ aborts < MaxAborts
    /\ aborts' = aborts + 1
    /\ pc' = "idle"
    /\ batch' = <<>>
    /\ IF pc = "mark"
       THEN /\ aborted' = [aborted EXCEPT ![Current] = @ + 1]
            /\ lost' = [lost EXCEPT ![Current] = IF success THEN @ + 1 ELSE @]
       ELSE UNCHANGED <<aborted, lost>>
    /\ UNCHANGED <<row, active, known, success, sends, accepted>>

-----------------------------------------------------------------------------
Init ==
    /\ row = [d \in Deliveries |-> [status |-> "absent", attempt_count |-> 0, next_attempt_at |-> 0]]
    /\ active = Subscriptions
    /\ pc = "idle"
    /\ batch = <<>>
    /\ known = {}
    /\ success = FALSE
    /\ sends = [d \in Deliveries |-> 0]
    /\ accepted = [d \in Deliveries |-> 0]
    /\ lost = [d \in Deliveries |-> 0]
    /\ aborted = [d \in Deliveries |-> 0]
    /\ aborts = 0

Cycle ==
    \/ ListDue \/ ListSubscriptions \/ SkipInactive \/ EndCycle
    \/ \E accepts, answers \in BOOLEAN : Send(accepts, answers)
    \/ MarkDelivered \/ MarkDeadLetter \/ MarkRetry

Next ==
    \/ \E d \in Deliveries : EnqueueDelivery(d)
    \/ \E s \in Subscriptions : Deactivate(s)
    \/ Tick
    \/ Cycle
    \/ Abort

Spec == Init /\ [][Next]_vars

\* Time passes, the scheduler keeps starting cycles, and a cycle keeps moving:
\* a POST ends by the client's timeout.
FairSpec == Spec /\ WF_vars(Tick) /\ WF_vars(Cycle)

-----------------------------------------------------------------------------
Delivery == [status : DeliveryStatus, attempt_count : 0 .. MaxAttempts, next_attempt_at : Int]

Final(d) == row[d].status \in {"delivered", "dead_letter"}

\* d has been POSTed and the outcome is about to be recorded.
Marking(d) == pc = "mark" /\ Current = d

Given(condition) == IF condition THEN 1 ELSE 0

\* The type invariant.
TypeOK ==
    /\ row \in [Deliveries -> Delivery]
    /\ active \in SUBSET Subscriptions
    /\ pc \in CycleStage
    /\ batch \in Seq([id : Deliveries, attempt_count : 0 .. MaxAttempts])
    /\ Len(batch) <= Limit
    /\ pc = "mark" => batch # <<>>
    /\ known \in SUBSET Subscriptions
    /\ success \in BOOLEAN
    /\ sends \in [Deliveries -> Nat]
    /\ accepted \in [Deliveries -> Nat]
    /\ lost \in [Deliveries -> Nat]
    /\ aborted \in [Deliveries -> Nat]
    /\ aborts \in 0 .. MaxAborts

\* The rows a cycle listed are still pending, due and at the attempt count it
\* saw when it gets to them, however long its POSTs took: this is why the
\* mark_* updates, which check nothing, overwrite nothing.
BatchIsFresh ==
    /\ \A i \in DOMAIN batch :
         Due(batch[i].id) /\ row[batch[i].id].attempt_count = batch[i].attempt_count
    /\ \A i, j \in DOMAIN batch : batch[i].id = batch[j].id => i = j

\* Every POST is accounted for, as a counted failure, the delivery, one under
\* way, or one an aborted cycle forgot; and a row is a dead letter exactly when
\* it has used up its attempts.  So a subscriber is called at most max_attempts
\* times, plus once per aborted cycle.
AttemptsAccounted ==
    \A d \in Deliveries :
        /\ sends[d] = row[d].attempt_count + aborted[d]
                        + Given(row[d].status = "delivered" \/ Marking(d))
        /\ row[d].status = "dead_letter" <=> row[d].attempt_count = MaxAttempts

\* Every acceptance by a subscriber is recorded as the delivery, or its answer
\* was lost, to a timeout or an aborted cycle: nothing is marked delivered
\* that was not accepted, and nothing is delivered twice, or ends as a dead
\* letter although it was accepted, unless an answer was lost.
AcceptancesAccounted ==
    \A d \in Deliveries :
        accepted[d] = lost[d] + Given(row[d].status = "delivered" \/ (Marking(d) /\ success))

\* A delivered row and a dead letter never change again and are never sent
\* again.
FinalIsFinal ==
    [][\A d \in Deliveries : Final(d) => row'[d] = row[d] /\ sends'[d] = sends[d]]_vars

\* A queued notification is delivered or becomes a dead letter, as long as its
\* subscription stays active.
NotifiedOrDeadLettered ==
    \A d \in Deliveries :
        row[d].status = "pending" ~> Final(d) \/ SubscriptionOf[d] \notin active
=============================================================================
