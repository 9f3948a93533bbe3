------------------------- MODULE IdempotencyProofs -------------------------
(***************************************************************************)
(* Idempotency's safety for any number of keys, bodies and calls.          *)
(*                                                                         *)
(* OnePaymentPerKey is not inductive: a step that creates a payment keeps  *)
(* it only because the key is not completed yet, which holds because the   *)
(* call that creates the payment is the only owner of a key in progress.   *)
(* IInv adds that ownership.                                               *)
(***************************************************************************)
EXTENDS Idempotency, TLAPS

\* A call with an uncommitted claim faces an absent key, one past its claim a
\* key in progress under its own body.
OwnersMatchKeys ==
    \A c \in Calls :
        /\ pc[c] = "claim" => keys[call[c].key].status = "absent"
        /\ pc[c] \in {"create", "complete"} =>
             /\ keys[call[c].key].status = "in_progress"
             /\ keys[call[c].key].hash = call[c].body
        /\ pc[c] = "read" => keys[call[c].key].status # "absent"

IInv ==
    /\ TypeOK
    /\ OwnersMatchKeys
    /\ OneOwnerPerKey
    /\ OnePaymentPerKey
    /\ CompletedMeansCreated
    /\ AnswersAreHonest

\* Completing a claim leaves a well-typed row (complete_attempt).
LEMMA CompletedRow ==
    ASSUME NEW row \in KeyRow, NEW n \in Nat
    PROVE  [row EXCEPT !.status = "completed", !.response = n] \in KeyRow
BY DEF KeyRow

\* The initial state satisfies the inductive invariant.
LEMMA InitIInv == Init => IInv
BY DEF Init, IInv, TypeOK, OwnersMatchKeys, OneOwnerPerKey, OnePaymentPerKey,
       CompletedMeansCreated, AnswersAreHonest, AbsentKey, NoCall, CallStage, KeyRow

\* Every step of every call preserves the inductive invariant.
LEMMA NextIInv == IInv /\ [Next]_vars => IInv'
<1> SUFFICES ASSUME IInv, [Next]_vars PROVE IInv'
  OBVIOUS
<1> USE DEF IInv, TypeOK, CallStage
<1>1. ASSUME NEW c \in Calls, NEW k \in Keys, NEW b \in Bodies, Receive(c, k, b)
      PROVE  IInv'
  BY <1>1 DEF Receive, GoTo, OwnersMatchKeys, OneOwnerPerKey, OnePaymentPerKey,
              CompletedMeansCreated, AnswersAreHonest
<1>2. ASSUME NEW c \in Calls, InsertKey(c)
      PROVE  IInv'
  <2> USE <1>2 DEF InsertKey, GoTo
  <2>1. TypeOK'
    OBVIOUS
  <2>2. OwnersMatchKeys'
    BY DEF OwnersMatchKeys, OneOwnerPerKey
  <2>3. OneOwnerPerKey'
    BY DEF OwnersMatchKeys, OneOwnerPerKey
  <2>4. OnePaymentPerKey'
    BY DEF OwnersMatchKeys, OnePaymentPerKey, CompletedMeansCreated
  <2>5. CompletedMeansCreated'
    BY DEF OwnersMatchKeys, CompletedMeansCreated
  <2>6. AnswersAreHonest'
    BY DEF AnswersAreHonest, CompletedMeansCreated
  <2>. QED
    BY <2>1, <2>2, <2>3, <2>4, <2>5, <2>6
<1>3. ASSUME NEW c \in Calls, CommitClaim(c)
      PROVE  IInv'
  <2> USE <1>3 DEF CommitClaim, GoTo
  <2>1. TypeOK'
    BY DEF KeyRow
  <2>2. OwnersMatchKeys'
    BY DEF OwnersMatchKeys, OneOwnerPerKey
  <2>3. OneOwnerPerKey'
    BY DEF OwnersMatchKeys, OneOwnerPerKey
  <2>4. OnePaymentPerKey'
    BY DEF OwnersMatchKeys, OnePaymentPerKey, CompletedMeansCreated
  <2>5. CompletedMeansCreated'
    BY DEF OwnersMatchKeys, CompletedMeansCreated
  <2>6. AnswersAreHonest'
    BY DEF AnswersAreHonest, CompletedMeansCreated
  <2>. QED
    BY <2>1, <2>2, <2>3, <2>4, <2>5, <2>6
<1>4. ASSUME NEW c \in Calls, ReadExisting(c)
      PROVE  IInv'
  <2> DEFINE row == keys[call[c].key]
             a == [key |-> call[c].key, body |-> call[c].body, payment |-> row.response]
  <2>0. /\ call[c].key \in Keys /\ call[c].body \in Bodies
        /\ pc' = [pc EXCEPT ![c] = "idle"]
        /\ call' = [call EXCEPT ![c] = NoCall]
        /\ \/ answered' = answered
           \/ /\ answered' = answered \cup {a}
              /\ row.response \in DOMAIN created
              /\ created[row.response] = [key |-> call[c].key, body |-> call[c].body]
        /\ UNCHANGED <<keys, created, lost>>
    BY <1>4 DEF ReadExisting, Answer, End, CompletedMeansCreated
  <2> HIDE DEF row
  <2> USE <2>0 DEF NoCall
  <2>1. TypeOK'
    <3>1. DOMAIN created \subseteq Nat
      OBVIOUS
    <3>2. answered' \subseteq [key : Keys, body : Bodies, payment : Nat]
      BY <3>1
    <3>3. call' \in [Calls -> [key : Keys \cup {None}, body : Bodies \cup {None}]]
      OBVIOUS
    <3>. QED
      BY <3>2, <3>3
  <2>2. OwnersMatchKeys'
    BY DEF OwnersMatchKeys, OneOwnerPerKey
  <2>3. OneOwnerPerKey'
    BY DEF OwnersMatchKeys, OneOwnerPerKey
  <2>4. OnePaymentPerKey'
    BY DEF OwnersMatchKeys, OnePaymentPerKey, CompletedMeansCreated
  <2>5. CompletedMeansCreated'
    BY DEF OwnersMatchKeys, CompletedMeansCreated
  <2>6. AnswersAreHonest'
    <3> SUFFICES ASSUME NEW x \in answered'
                 PROVE  /\ x.payment \in DOMAIN created
                        /\ created[x.payment] = [key |-> x.key, body |-> x.body]
      BY DEF AnswersAreHonest
    <3>1. CASE x \in answered
      BY <3>1 DEF AnswersAreHonest
    <3>2. CASE x \notin answered
      <4>1. x = a
        BY <3>2
      <4>. QED
        BY <3>2, <4>1
    <3>. QED
      BY <3>1, <3>2
  <2>. QED
    BY <2>1, <2>2, <2>3, <2>4, <2>5, <2>6
<1>5. ASSUME NEW c \in Calls, CreatePayment(c)
      PROVE  IInv'
  <2> USE <1>5 DEF CreatePayment, GoTo, End, NoCall
  <2>1. TypeOK'
    <3>1. CASE GoTo(c, "complete") /\ UNCHANGED call
      BY <3>1
    <3>2. CASE End(c)
      BY <3>2
    <3>. QED
      BY <3>1, <3>2
  <2>2. OwnersMatchKeys'
    BY DEF OwnersMatchKeys, OneOwnerPerKey
  <2>3. OneOwnerPerKey'
    BY DEF OwnersMatchKeys, OneOwnerPerKey
  <2>4. OnePaymentPerKey'
    BY DEF OwnersMatchKeys, OnePaymentPerKey, CompletedMeansCreated
  <2>5. CompletedMeansCreated'
    BY DEF OwnersMatchKeys, CompletedMeansCreated
  <2>6. AnswersAreHonest'
    BY DEF AnswersAreHonest, CompletedMeansCreated
  <2>. QED
    BY <2>1, <2>2, <2>3, <2>4, <2>5, <2>6
<1>6. ASSUME NEW c \in Calls, CompleteAttempt(c)
      PROVE  IInv'
  <2> DEFINE n == Len(created) + 1
  <2>0. /\ call[c] \in [key : Keys, body : Bodies]
        /\ call[c] = [key |-> call[c].key, body |-> call[c].body]
        /\ n \in Nat
        /\ DOMAIN created = 1 .. Len(created)
        /\ created' \in Seq([key : Keys, body : Bodies])
        /\ DOMAIN created' = 1 .. n
        /\ \A m \in DOMAIN created : created'[m] = created[m]
        /\ created'[n] = call[c]
        /\ answered' = answered \cup
             {[key |-> call[c].key, body |-> call[c].body, payment |-> n]}
    BY <1>6 DEF CompleteAttempt, Answer
  <2> HIDE DEF n
  <2> USE <1>6 DEF CompleteAttempt, Answer, End, NoCall
  <2>1. TypeOK'
    <3>1. answered' \subseteq [key : Keys, body : Bodies, payment : Nat]
      BY <2>0
    <3>2. keys' \in [Keys -> KeyRow]
      BY <2>0, CompletedRow DEF n
    <3>3. call' \in [Calls -> [key : Keys \cup {None}, body : Bodies \cup {None}]]
      OBVIOUS
    <3>. QED
      BY <2>0, <3>1, <3>2, <3>3
  <2>2. OwnersMatchKeys'
    BY DEF OwnersMatchKeys, OneOwnerPerKey
  <2>3. OneOwnerPerKey'
    BY DEF OwnersMatchKeys, OneOwnerPerKey
  <2>4. OnePaymentPerKey'
    BY SMTT(60) DEF OwnersMatchKeys, OnePaymentPerKey, CompletedMeansCreated
  <2>5. CompletedMeansCreated'
    BY DEF OwnersMatchKeys, CompletedMeansCreated
  <2>6. AnswersAreHonest'
    <3>1. /\ n \in DOMAIN created'
          /\ DOMAIN created \subseteq DOMAIN created'
      BY <2>0 DEF n
    <3> SUFFICES ASSUME NEW x \in answered'
                 PROVE  /\ x.payment \in DOMAIN created'
                        /\ created'[x.payment] = [key |-> x.key, body |-> x.body]
      BY DEF AnswersAreHonest
    <3>2. CASE x \in answered
      BY <2>0, <3>1, <3>2 DEF AnswersAreHonest
    <3>3. CASE x \notin answered
      <4>1. x = [key |-> call[c].key, body |-> call[c].body, payment |-> n]
        BY <2>0, <3>3
      <4>. QED
        BY <2>0, <3>1, <4>1
    <3>. QED
      BY <3>2, <3>3
  <2>. QED
    BY <2>1, <2>2, <2>3, <2>4, <2>5, <2>6
<1>7. ASSUME NEW c \in Calls, Crash(c)
      PROVE  IInv'
  BY <1>7 DEF Crash, Abandon, End, NoCall, OwnersMatchKeys, OneOwnerPerKey, OnePaymentPerKey,
              CompletedMeansCreated, AnswersAreHonest
<1>8. ASSUME NEW c \in Calls, Fail(c)
      PROVE  IInv'
  BY <1>8 DEF Fail, Abandon, End, NoCall, OwnersMatchKeys, OneOwnerPerKey, OnePaymentPerKey,
              CompletedMeansCreated, AnswersAreHonest
<1>9. CASE UNCHANGED vars
  BY <1>9 DEF vars, OwnersMatchKeys, OneOwnerPerKey, OnePaymentPerKey,
              CompletedMeansCreated, AnswersAreHonest
<1>. QED
  BY <1>1, <1>2, <1>3, <1>4, <1>5, <1>6, <1>7, <1>8, <1>9 DEF Next, Advance

\* Every call in flight carries a body that passed the checks before the claim.
OwnersPassed == \A c \in Calls : pc[c] # "idle" => call[c].body \in Acceptable

\* A call gets its body once, and only past the checks (Receive).
LEMMA NextOwnersPassed == IInv /\ OwnersPassed /\ [Next]_vars => OwnersPassed'
<1> SUFFICES ASSUME IInv, OwnersPassed, [Next]_vars PROVE OwnersPassed'
  OBVIOUS
<1> USE DEF IInv, TypeOK, OwnersPassed
<1>1. ASSUME NEW c \in Calls, NEW k \in Keys, NEW b \in Bodies, Receive(c, k, b)
      PROVE  OwnersPassed'
  BY <1>1 DEF Receive, GoTo
<1>2. ASSUME NEW c \in Calls, pc[c] # "idle", NEW stage, GoTo(c, stage), UNCHANGED call
      PROVE  OwnersPassed'
  BY <1>2 DEF GoTo
<1>3. ASSUME NEW c \in Calls, End(c)
      PROVE  OwnersPassed'
  BY <1>3 DEF End
<1>4. ASSUME NEW c \in Calls, Advance(c) \/ Crash(c) \/ Fail(c)
      PROVE  OwnersPassed'
  BY <1>2, <1>3, <1>4, Zenon
     DEF Advance, InsertKey, CommitClaim, ReadExisting, CreatePayment, CompleteAttempt,
         Answer, Crash, Fail, Abandon
<1>5. CASE UNCHANGED vars
  BY <1>5 DEF vars
<1>. QED
  BY <1>1, <1>4, <1>5 DEF Next

\* A claim loses its call only in a step that explains it: the table refuses
\* the body the row was claimed with, or the interruption is recorded.
LEMMA NextOrphans == IInv /\ OwnersPassed /\ OrphansExplained /\ [Next]_vars => OrphansExplained'
<1> SUFFICES ASSUME IInv, OwnersPassed, OrphansExplained, [Next]_vars,
                    NEW k \in Keys, Orphaned(k)'
             PROVE  (k \in lost \/ keys[k].hash \in Acceptable \ Insertable)'
  BY DEF OrphansExplained
<1> USE DEF IInv, TypeOK, CallStage, OrphansExplained, Orphaned
<1>1. ASSUME NEW c \in Calls, NEW x \in Keys, NEW b \in Bodies, Receive(c, x, b)
      PROVE  (k \in lost \/ keys[k].hash \in Acceptable \ Insertable)'
  BY <1>1 DEF Receive, GoTo
<1>2. ASSUME NEW c \in Calls, InsertKey(c)
      PROVE  (k \in lost \/ keys[k].hash \in Acceptable \ Insertable)'
  BY <1>2 DEF InsertKey, GoTo
<1>3. ASSUME NEW c \in Calls, CommitClaim(c)
      PROVE  (k \in lost \/ keys[k].hash \in Acceptable \ Insertable)'
  BY <1>3 DEF CommitClaim, GoTo
<1>4. ASSUME NEW c \in Calls, ReadExisting(c)
      PROVE  (k \in lost \/ keys[k].hash \in Acceptable \ Insertable)'
  BY <1>4 DEF ReadExisting, Answer, End
<1>5. ASSUME NEW c \in Calls, CreatePayment(c)
      PROVE  (k \in lost \/ keys[k].hash \in Acceptable \ Insertable)'
  <2> USE <1>5 DEF CreatePayment, GoTo, End
  <2>1. CASE call[c].key = k
    BY <2>1 DEF OwnersMatchKeys, OwnersPassed
  <2>2. CASE call[c].key # k
    BY <2>2
  <2>. QED
    BY <2>1, <2>2
<1>6. ASSUME NEW c \in Calls, CompleteAttempt(c)
      PROVE  (k \in lost \/ keys[k].hash \in Acceptable \ Insertable)'
  <2> USE <1>6 DEF CompleteAttempt, Answer, End
  <2>1. call[c].key # k
    BY DEF KeyRow
  <2>2. keys'[k] = keys[k]
    BY <2>1
  <2>. QED
    BY <2>1, <2>2
<1>7. ASSUME NEW c \in Calls, Crash(c)
      PROVE  (k \in lost \/ keys[k].hash \in Acceptable \ Insertable)'
  BY <1>7 DEF Crash, Abandon, End
<1>8. ASSUME NEW c \in Calls, Fail(c)
      PROVE  (k \in lost \/ keys[k].hash \in Acceptable \ Insertable)'
  BY <1>8 DEF Fail, Abandon, End
<1>9. CASE UNCHANGED vars
  BY <1>9 DEF vars
<1>. QED
  BY <1>1, <1>2, <1>3, <1>4, <1>5, <1>6, <1>7, <1>8, <1>9 DEF Next, Advance

\* The variables of Idempotency keep their types.
THEOREM TypeCorrect == Spec => []TypeOK
<1>1. IInv => TypeOK
  BY DEF IInv
<1>. QED
  BY InitIInv, NextIInv, <1>1, PTL DEF Spec

\* However calls overlap, crash and are retried, a key never creates two
\* payments (initiate_payment_idempotent).
THEOREM NeverTwoPayments == Spec => []OnePaymentPerKey
<1>1. IInv => OnePaymentPerKey
  BY DEF IInv
<1>. QED
  BY InitIInv, NextIInv, <1>1, PTL DEF Spec

\* A key is completed exactly when its payment exists, and names it
\* (complete_attempt and the commit of phase 2).
THEOREM CompletionIsCreation == Spec => []CompletedMeansCreated
<1>1. IInv => CompletedMeansCreated
  BY DEF IInv
<1>. QED
  BY InitIInv, NextIInv, <1>1, PTL DEF Spec

\* Every 201, fresh or replayed, names the payment created under the caller's
\* key from the caller's body (begin_attempt's replay).
THEOREM HonestAnswers == Spec => []AnswersAreHonest
<1>1. IInv => AnswersAreHonest
  BY DEF IInv
<1>. QED
  BY InitIInv, NextIInv, <1>1, PTL DEF Spec

\* Two calls never hold the same claim (begin_attempt's INSERT ... ON CONFLICT).
THEOREM SingleOwner == Spec => []OneOwnerPerKey
<1>1. IInv => OneOwnerPerKey
  BY DEF IInv
<1>. QED
  BY InitIInv, NextIInv, <1>1, PTL DEF Spec

\* A key is left "in progress" for ever only by what cuts its owner short (a
\* crash, a pool timeout, a lost connection) or by a body that every check before
\* the claim lets pass and the payments table refuses.  The debtor check that
\* phase 2 repeats never refuses a body after its claim: OwnersPassed.
THEOREM OrphansHaveACause == Spec => []OrphansExplained
<1>1. Init => OwnersPassed /\ OrphansExplained
  BY DEF Init, OwnersPassed, OrphansExplained, Orphaned, AbsentKey
<1>. QED
  BY InitIInv, NextIInv, <1>1, NextOwnersPassed, NextOrphans, PTL DEF Spec
=============================================================================
