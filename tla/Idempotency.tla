---------------------------- MODULE Idempotency ----------------------------
(***************************************************************************)
(* POST /payments with an Idempotency-Key: initiate_payment_idempotent and *)
(* the idempotency_keys table.  One call is two transactions.  The first   *)
(* claims the key and commits; the second creates the payment and stores   *)
(* the response under the key, in one commit.  Calls with the same key     *)
(* overlap, crash between any two statements, and are retried by clients   *)
(* that never saw an answer.                                               *)
(*                                                                         *)
(* The lifecycle that a created payment then goes through is               *)
(* PaymentTransitions; here a payment is only its key and its body.        *)
(*                                                                         *)
(* A definition F_Xxx placed before F is a mutant of F, a plausible bug    *)
(* that a property must catch; the specification uses none of them.        *)
(***************************************************************************)
EXTENDS Integers, Sequences

CONSTANTS
    Keys,        \* Idempotency-Key header values
    Bodies,      \* request bodies, told apart by hash_request_body
    Calls,       \* slots for calls in flight; a finished one is reused
    Acceptable,  \* bodies that pass _validate_new_payment and whose debtor
                 \* account exists in the body's currency
    Insertable,  \* bodies the payments table accepts: the creditor account
                 \* exists, the amount is positive and in range once rounded
    None

ASSUME BodiesAssumption == Acceptable \subseteq Bodies /\ Insertable \subseteq Bodies

VARIABLES
    keys,      \* keys[k]: the committed row of key k
    created,   \* the committed payments, in commit order
    pc,        \* pc[c]: what call c does next
    call,      \* call[c]: the key and the body of call c
    answered,  \* the 201 answers given: key, body and payment returned
    lost       \* keys whose claim lost its owner to a crash or a failed connection

vars == <<keys, created, pc, call, answered, lost>>

CallStage == {"idle", "insert", "claim", "read", "create", "complete"}

AbsentKey == [status |-> "absent", hash |-> None, response |-> None]
NoCall == [key |-> None, body |-> None]

GoTo(c, stage) == pc' = [pc EXCEPT ![c] = stage]

\* Call c returns or raises.
End(c) ==
    /\ pc' = [pc EXCEPT ![c] = "idle"]
    /\ call' = [call EXCEPT ![c] = NoCall]

\* Call c returns 201 with payment n as its body.
Answer(c, n) ==
    /\ answered' = answered \cup {[key |-> call[c].key, body |-> call[c].body, payment |-> n]}
    /\ End(c)

\* Mutant: the key is claimed before the debtor's account is looked at.
Receive_ClaimsFirst(c, k, b) ==
    /\ pc[c] = "idle"
    /\ GoTo(c, "insert")
    /\ call' = [call EXCEPT ![c] = [key |-> k, body |-> b]]
    /\ UNCHANGED <<keys, created, answered, lost>>

\* A call arrives.  A body that fails validation, or whose debtor does not
\* exist or has another currency, is refused before the key is touched.
Receive(c, k, b) ==
    /\ pc[c] = "idle"
    /\ b \in Acceptable
    /\ GoTo(c, "insert")
    /\ call' = [call EXCEPT ![c] = [key |-> k, body |-> b]]
    /\ UNCHANGED <<keys, created, answered, lost>>

\* Mutants: an upsert that always claims; an insert that does not wait for
\* another's; one that waits until the key is no longer in progress.
InsertKey_Upsert(c) ==
    /\ pc[c] = "insert"
    /\ \A d \in Calls : ~ (pc[d] = "claim" /\ call[d].key = call[c].key)
    /\ GoTo(c, "claim")
    /\ UNCHANGED <<keys, created, call, answered, lost>>
InsertKey_NoWait(c) ==
    /\ pc[c] = "insert"
    /\ GoTo(c, IF keys[call[c].key].status = "absent" THEN "claim" ELSE "read")
    /\ UNCHANGED <<keys, created, call, answered, lost>>
InsertKey_WaitsForCompletion(c) ==
    /\ pc[c] = "insert"
    /\ keys[call[c].key].status # "in_progress"
    /\ GoTo(c, IF keys[call[c].key].status = "absent" THEN "claim" ELSE "read")
    /\ UNCHANGED <<keys, created, call, answered, lost>>

\* INSERT ... ON CONFLICT DO NOTHING.  A committed row is a conflict; a row
\* another transaction has inserted but not committed blocks the insert.
InsertKey(c) ==
    /\ pc[c] = "insert"
    /\ \A d \in Calls : ~ (pc[d] = "claim" /\ call[d].key = call[c].key)
    /\ \/ keys[call[c].key].status = "absent" /\ GoTo(c, "claim")
       \/ keys[call[c].key].status # "absent" /\ GoTo(c, "read")
    /\ UNCHANGED <<keys, created, call, answered, lost>>

\* Phase 1 commits: the claim becomes visible.
CommitClaim(c) ==
    /\ pc[c] = "claim"
    /\ keys' = [keys EXCEPT ![call[c].key] =
                  [status |-> "in_progress", hash |-> call[c].body, response |-> None]]
    /\ GoTo(c, "create")
    /\ UNCHANGED <<created, call, answered, lost>>

\* Mutants: a key in progress is replayed; the hash is not compared.
ReadExisting_ReplaysAnything(c) ==
    /\ pc[c] = "read"
    /\ Answer(c, keys[call[c].key].response)
    /\ UNCHANGED <<keys, created, lost>>
ReadExisting_IgnoresHash(c) ==
    LET row == keys[call[c].key]
    IN  /\ pc[c] = "read"
        /\ \/ row.status = "completed" /\ Answer(c, row.response)
           \/ row.status = "in_progress" /\ End(c) /\ UNCHANGED answered
        /\ UNCHANGED <<keys, created, lost>>

\* The row that caused the conflict, read by a second statement: in progress
\* (409), another body's (422), or the stored response to replay.
ReadExisting(c) ==
    LET row == keys[call[c].key]
    IN  /\ pc[c] = "read"
        /\ \/ /\ row.status = "completed"
              /\ row.hash = call[c].body
              /\ Answer(c, row.response)
           \/ /\ row.status = "completed"
              /\ row.hash # call[c].body
              /\ End(c)
              /\ UNCHANGED answered
           \/ /\ row.status = "in_progress"
              /\ End(c)
              /\ UNCHANGED answered
        /\ UNCHANGED answered
        /\ UNCHANGED <<keys, created, lost>>

\* Phase 2, in a transaction of its own: look at the debtor's account again and
\* INSERT the payment.  When the check or the table refuses it the error leaves
\* the transaction, which rolls back, and the call.
CreatePayment(c) ==
    /\ pc[c] = "create"
    /\ \/ /\ call[c].body \in Acceptable \cap Insertable
          /\ GoTo(c, "complete")
          /\ UNCHANGED call
       \/ /\ call[c].body \notin Acceptable \cap Insertable
          /\ End(c)
    /\ UNCHANGED <<keys, created, answered, lost>>

\* Mutant: the payment is committed, the key is not completed.
CompleteAttempt_KeyForgotten(c) ==
    /\ pc[c] = "complete"
    /\ created' = Append(created, call[c])
    /\ Answer(c, Len(created) + 1)
    /\ UNCHANGED <<keys, lost>>

\* complete_attempt and the commit of phase 2.
CompleteAttempt(c) ==
    LET n == Len(created) + 1
    IN  /\ pc[c] = "complete"
        /\ created' = Append(created, call[c])
        /\ keys' = [keys EXCEPT ![call[c].key] =
                      [@ EXCEPT !.status = "completed", !.response = n]]
        /\ Answer(c, n)
        /\ UNCHANGED lost

\* Call c ends without an answer: the open transaction rolls back, and a key
\* that c has claimed stays in progress.
Abandon(c) ==
    /\ pc[c] # "idle"
    /\ End(c)
    /\ lost' = IF pc[c] \in {"create", "complete"} THEN lost \cup {call[c].key} ELSE lost
    /\ UNCHANGED <<keys, created, answered>>

\* The process dies.
Crash(c) == Abandon(c)

\* The pool has no connection in time, for which each phase asks anew, or the
\* connection is lost at a statement or a commit; nothing catches the error.
Fail(c) == Abandon(c)

Init ==
    /\ keys = [k \in Keys |-> AbsentKey]
    /\ created = <<>>
    /\ pc = [c \in Calls |-> "idle"]
    /\ call = [c \in Calls |-> NoCall]
    /\ answered = {}
    /\ lost = {}

Advance(c) ==
    \/ InsertKey(c) \/ CommitClaim(c) \/ ReadExisting(c)
    \/ CreatePayment(c) \/ CompleteAttempt(c)

Next ==
    \E c \in Calls :
        \/ \E k \in Keys, b \in Bodies : Receive(c, k, b)
        \/ Advance(c)
        \/ Crash(c)
        \/ Fail(c)

Spec == Init /\ [][Next]_vars

\* Calls keep executing, and the queue for a key under insertion is served in
\* order.
FairSpec == Spec /\ \A c \in Calls : SF_vars(Advance(c))

-----------------------------------------------------------------------------
KeyRow == [status : {"absent", "in_progress", "completed"},
           hash : Bodies \cup {None}, response : Nat \cup {None}]

\* The type invariant.
TypeOK ==
    /\ keys \in [Keys -> KeyRow]
    /\ created \in Seq([key : Keys, body : Bodies])
    /\ pc \in [Calls -> CallStage]
    /\ \A c \in Calls : pc[c] # "idle" => call[c] \in [key : Keys, body : Bodies]
    /\ call \in [Calls -> [key : Keys \cup {None}, body : Bodies \cup {None}]]
    /\ answered \subseteq [key : Keys, body : Bodies, payment : Nat]
    /\ lost \subseteq Keys

\* However many calls carry a key, concurrently, after a crash or as retries,
\* at most one payment is created under it: the double charge the key prevents.
OnePaymentPerKey ==
    \A m, n \in DOMAIN created : created[m].key = created[n].key => m = n

\* A key is completed exactly when its payment exists, and its row then holds
\* that payment and the body that created it: never one without the other,
\* wherever a crash falls between the two commits.
CompletedMeansCreated ==
    \A k \in Keys :
        IF keys[k].status = "completed"
        THEN /\ keys[k].response \in DOMAIN created
             /\ created[keys[k].response] = [key |-> k, body |-> keys[k].hash]
        ELSE \A n \in DOMAIN created : created[n].key # k

\* Every 201 ever answered names a payment that exists and was created under
\* the caller's key from the caller's body: a replay is consistent, and a reused
\* key never returns somebody else's payment.
AnswersAreHonest ==
    \A a \in answered :
        /\ a.payment \in DOMAIN created
        /\ created[a.payment] = [key |-> a.key, body |-> a.body]

\* A claim is completed by the call that made it: two calls never both hold
\* the same key past the claim.
OneOwnerPerKey ==
    \A c, d \in Calls :
        (/\ pc[c] \in {"claim", "create", "complete"}
         /\ pc[d] \in {"claim", "create", "complete"}
         /\ call[c].key = call[d].key) => c = d

\* A key in progress that no call will ever complete.
Orphaned(k) ==
    /\ keys[k].status = "in_progress"
    /\ \A c \in Calls : ~ (call[c].key = k /\ pc[c] \in {"create", "complete"})

\* A key is orphaned "in progress" only by what cuts its owner short between the
\* two commits: a crash or, reading the claim generously, a lost connection.
OrphanedOnlyByCrash == \A k \in Keys : Orphaned(k) => k \in lost

\* Unless a crash, a pool timeout or a lost connection cut its owner short, an
\* orphaned key belongs to a body that passes every check made before the claim
\* and that only the payments table refuses.  A refusal the service itself can
\* tell, such as a debtor of another currency, never costs the client its key,
\* although the same check is made again after the claim
\* (_assert_debtor_currency_matches before begin_attempt).
OrphansExplained ==
    \A k \in Keys :
        Orphaned(k) => k \in lost \/ keys[k].hash \in Acceptable \ Insertable

\* Every call ends, and one that waits for another's insert is let through.
CallsEnd == \A c \in Calls : pc[c] # "idle" ~> pc[c] = "idle"
=============================================================================
