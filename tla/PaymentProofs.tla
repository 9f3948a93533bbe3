--------------------------- MODULE PaymentProofs ---------------------------
(***************************************************************************)
(* PaymentTransitions posts to the ledger exactly what the payments' rows  *)
(* say, for any number of payments, accounts, requests and attempts.       *)
(*                                                                         *)
(* LedgerFollowsStatus is not inductive: a commit keeps it because the row *)
(* is still the one the transaction read, which holds because the version  *)
(* check compared the two while the row lock kept others out.  IInv says   *)
(* so for every stage of a request.                                        *)
(*                                                                         *)
(* The last part is about deadlocks.  A request whose accounts do not      *)
(* collide in its frozenset takes them from the lowest home slot up.  Were *)
(* all requests of a cycle such, and did they wait for accounts only, then *)
(* whoever holds what another waits for is itself about to take an account *)
(* of a higher slot, and the slots along the cycle would descend for ever. *)
(* What is left is an entry whose accounts collide, and a cross-currency   *)
(* settlement, which has locked its payment's row before any account       *)
(* (set_fx_details).                                                       *)
(***************************************************************************)
EXTENDS PaymentProperties, SequenceTheorems, WellFoundedInduction, TLAPS

Working == {"rate", "fx", "versions", "bump", "update"}
Holding == {"enqueue", "commit"}

\* A transaction t at some stage that has locked the row of its payment.
Locks(stage, t) ==
    \/ stage \in Holding
    \/ stage \in {"versions", "bump", "update"} /\ t.fx_rate # None

\* A transaction t at some stage that creates its payment.
Creates(stage, t) == stage \in Holding /\ t.to = "initiated"

\* What t read is what the row was at that version.
ReadEarlier(t) ==
    /\ payments[t.payment].status # "absent"
    /\ t.to \in ALLOWED_TRANSITIONS[t.snap.status]
    /\ t.snap.version <= payments[t.payment].version
    /\ t.snap.version = payments[t.payment].version => t.snap = payments[t.payment]

\* The version check has passed: the row is still the one t read.
RowIsSnap(t) ==
    /\ payments[t.payment].status # "absent"
    /\ t.to \in ALLOWED_TRANSITIONS[t.snap.status]
    /\ t.snap = payments[t.payment]

\* What is known of the FX fields of t at some stage.
FxOK(stage, t) ==
    /\ t.fx_rate # None => t.to = "settled" /\ IsFx(t.payment)
    /\ stage \in {"rate", "fx"} => t.to = "settled" /\ IsFx(t.payment)
    /\ stage \in {"fx", "versions", "bump", "update", "enqueue", "commit"} =>
         (t.to = "settled" /\ IsFx(t.payment) => t.fx_rate # None)
    /\ stage \in {"versions", "bump", "update", "enqueue", "commit"} =>
         (t.fx_rate # None => CreditorAmount(t.payment, t.fx_rate) <= MaxNumeric)
    /\ stage \in {"bump", "update", "enqueue", "commit"} =>
         (t.fx_rate # None => CreditorAmount(t.payment, t.fx_rate) > 0)

TxOK(stage, t) ==
    /\ t \in Transaction
    /\ stage \in Stage
    /\ stage # "idle" => t.payment \in Payments
    /\ FxOK(stage, t)
    /\ stage \in Working => ReadEarlier(t)
    /\ stage \in Holding /\ t.to # "initiated" => RowIsSnap(t)
    /\ Creates(stage, t) => payments[t.payment].status = "absent" /\ ValidTerms(t.payment)

\* No two transactions lock one payment, and no other request knows a payment
\* that is being created.
Exclusive ==
    \A r, q \in Requests : r # q =>
        /\ Locks(pc[r], tx[r]) /\ Locks(pc[q], tx[q]) => tx[r].payment # tx[q].payment
        /\ Creates(pc[r], tx[r]) => tx[q].payment # tx[r].payment

RowsOK ==
    \A p \in Payments : payments[p].status # "absent" => ValidTerms(p)

IInv ==
    /\ TypeOK
    /\ \A r \in Requests : TxOK(pc[r], tx[r])
    /\ Exclusive
    /\ RowsOK
    /\ FxDetailsAreTheBookedOnes
    /\ LedgerFollowsStatus

-----------------------------------------------------------------------------
\* Converting a positive amount at a rate of the feed gives a natural number
\* (convert_amount).
LEMMA CreditorAmountIsNat ==
    ASSUME NEW p \in Payments, NEW rate \in Rates, ValidTerms(p)
    PROVE  CreditorAmount(p, rate) \in Nat
<1> DEFINE amount == Terms[p].amount
<1>1. amount \in Nat /\ rate \in Nat /\ RateScale \in Nat \ {0}
  BY TermsAssumption, RatesAssumption DEF ValidTerms
<1>2. amount * rate \in Nat
  BY <1>1
<1> DEFINE product == amount * rate
<1>3. 2 * amount * rate = 2 * product
  BY <1>1
<1> HIDE DEF amount, product
<1>4. (2 * product + RateScale) \div (2 * RateScale) \in Nat
  BY <1>1, <1>2 DEF product
<1>. QED
  BY <1>3, <1>4 DEF CreditorAmount, convert_amount, amount

\* The row of a payment that does not exist, and a new transaction, are
\* well-typed.
LEMMA AbsentRowType == AbsentRow \in Row
BY DEF AbsentRow, NewRow, Row, Status

LEMMA NewTxType ==
    ASSUME NEW p \in Payments \cup {None}, NEW to \in Status,
           NEW attempt \in 0 .. MaxAttempts - 1, NEW snap \in Row
    PROVE  NewTx(p, to, attempt, snap) \in Transaction
<1>1. [a \in Accounts |-> None] \in [Accounts -> Nat \cup {None}]
  OBVIOUS
<1>. QED
  BY <1>1 DEF NewTx, Transaction

\* The transaction of an idle request is well-typed.
LEMMA NoTxType == NoTx \in Transaction
<1>1. 0 \in 0 .. MaxAttempts - 1 /\ "absent" \in Status
  BY AttemptsAssumption DEF Status
<1>. QED
  BY <1>1, NewTxType, AbsentRowType DEF NoTx

\* The initial state satisfies the inductive invariant.
LEMMA InitIInv == Init => IInv
<1> SUFFICES ASSUME Init PROVE IInv
  OBVIOUS
<1> USE DEF Init
<1>3. TypeOK
  BY AbsentRowType, NoTxType, RatesAssumption DEF TypeOK, Stage
<1>4. \A r \in Requests : TxOK(pc[r], tx[r])
  BY NoTxType DEF TxOK, FxOK, Creates, Working, Holding, Stage, NoTx, NewTx
<1>5. Exclusive
  BY DEF Exclusive, Locks, Creates, Holding
<1>6. RowsOK /\ FxDetailsAreTheBookedOnes /\ LedgerFollowsStatus
  BY DEF RowsOK, FxDetailsAreTheBookedOnes, LedgerFollowsStatus, Moved, AbsentRow, NewRow
<1>. QED
  BY <1>3, <1>4, <1>5, <1>6 DEF IInv

-----------------------------------------------------------------------------
(* Steps that leave the database alone.                                     *)

\* A step of request r that only moves r to a stage and a transaction that are
\* in order keeps the invariant, provided that r neither locks what another
\* request has locked nor learns of a payment that another one is creating.
LEMMA LocalStep ==
    ASSUME IInv, NEW r \in Requests, NEW stage, NEW t,
           GoTo(r, stage, t),
           UNCHANGED <<db, subscribed, latestRate>>,
           TxOK(stage, t),
           \A q \in Requests \ {r} :
              /\ Locks(stage, t) /\ Locks(pc[q], tx[q]) => tx[q].payment # t.payment
              /\ Creates(stage, t) => tx[q].payment # t.payment
              /\ Creates(pc[q], tx[q]) => tx[q].payment # t.payment
    PROVE  IInv'
<1> USE DEF IInv
<1>1. UNCHANGED <<payments, accountVersion, journal, history, deliveries>>
  BY DEF db
<1>2. pc' = [pc EXCEPT ![r] = stage] /\ tx' = [tx EXCEPT ![r] = t]
  BY DEF GoTo
<1>3. t \in Transaction /\ stage \in Stage /\ (stage # "idle" => t.payment \in Payments)
  BY DEF TxOK
<1>4. \A q \in Requests : IF q = r THEN pc'[q] = stage /\ tx'[q] = t
                                      ELSE pc'[q] = pc[q] /\ tx'[q] = tx[q]
  BY <1>2 DEF TypeOK
<1>5. TypeOK'
  <2>1. pc' \in [Requests -> Stage] /\ tx' \in [Requests -> Transaction]
    BY <1>2, <1>3 DEF TypeOK
  <2>2. \A q \in Requests : pc'[q] # "idle" => tx'[q].payment \in Payments
    BY <1>3, <1>4 DEF TypeOK
  <2>. QED
    BY <1>1, <2>1, <2>2 DEF TypeOK
<1>6. \A q \in Requests : TxOK(pc[q], tx[q])'
  <2> SUFFICES ASSUME NEW q \in Requests PROVE TxOK(pc[q], tx[q])'
    OBVIOUS
  <2>1. TxOK(pc'[q], tx'[q])
    BY <1>4
  <2>. QED
    BY <1>1, <2>1 DEF TxOK, FxOK, ReadEarlier, RowIsSnap, Creates
<1>7. Exclusive'
  BY <1>4 DEF Exclusive, Locks, Creates
<1>8. RowsOK' /\ FxDetailsAreTheBookedOnes' /\ LedgerFollowsStatus'
  BY <1>1 DEF RowsOK, FxDetailsAreTheBookedOnes, LedgerFollowsStatus, Moved
<1>. QED
  BY <1>5, <1>6, <1>7, <1>8

\* Ending a request, however it comes about, keeps the invariant.
LEMMA LeaveStep ==
    ASSUME IInv, NEW r \in Requests, Leave(r), UNCHANGED <<db, subscribed, latestRate>>
    PROVE  IInv'
<1>2. TxOK("idle", NoTx)
  BY NoTxType DEF TxOK, FxOK, Creates, Working, Holding, Stage, NoTx, NewTx
<1>3. ~ Locks("idle", NoTx) /\ ~ Creates("idle", NoTx)
  BY DEF Locks, Creates, Holding
<1>4. \A q \in Requests : Creates(pc[q], tx[q]) => tx[q].payment # NoTx.payment
  BY NoneAssumption DEF IInv, TxOK, Creates, Holding, NoTx, NewTx
<1>. QED
  BY <1>2, <1>3, <1>4, LocalStep DEF Leave

\* A lost version check keeps the invariant (rollback, backoff, giving up).
LEMMA ConflictStep ==
    ASSUME IInv, NEW r \in Requests, pc[r] \in Working, Conflict(r),
           UNCHANGED <<db, subscribed, latestRate>>
    PROVE  IInv'
<1> DEFINE t == NewTx(tx[r].payment, tx[r].to, tx[r].attempt + 1, AbsentRow)
<1>1. CASE Leave(r)
  BY <1>1, LeaveStep
<1>2. CASE tx[r].attempt < MaxAttempts - 1 /\ GoTo(r, "sleep", t)
  <2>1. tx[r] \in Transaction /\ tx[r].payment \in Payments
    BY DEF IInv, TxOK, Working
  <2>2. t \in Transaction
    <3>1. tx[r].attempt + 1 \in 0 .. MaxAttempts - 1
      BY <1>2, <2>1, AttemptsAssumption DEF Transaction
    <3>. QED
      BY <2>1, <3>1, NewTxType, AbsentRowType DEF Transaction
  <2>3. t.payment = tx[r].payment /\ t.fx_rate = None
    BY DEF NewTx
  <2> HIDE DEF t
  <2>4. TxOK("sleep", t)
    BY <2>1, <2>2, <2>3 DEF TxOK, FxOK, Creates, Working, Holding, Stage
  <2>5. ~ Locks("sleep", t) /\ ~ Creates("sleep", t)
    BY DEF Locks, Creates, Holding
  <2>6. \A q \in Requests \ {r} : Creates(pc[q], tx[q]) => tx[q].payment # t.payment
    BY <2>3 DEF IInv, Exclusive
  <2>. QED
    BY <1>2, <2>4, <2>5, <2>6, LocalStep
<1>. QED
  BY <1>1, <1>2 DEF Conflict

\* Creating a payment under a fresh id keeps the invariant.
LEMMA InitiateStep ==
    ASSUME IInv, NEW r \in Requests, NEW p \in Payments, InitiatePayment(r, p)
    PROVE  IInv'
<1> DEFINE t == NewTx(p, "initiated", 0, AbsentRow)
<1>1. 0 \in 0 .. MaxAttempts - 1 /\ "initiated" \in Status
  BY AttemptsAssumption DEF Status, PaymentStatus
<1>2. t \in Transaction
  BY <1>1, NewTxType, AbsentRowType
<1>3. t.payment = p /\ t.to = "initiated" /\ t.fx_rate = None
  BY DEF NewTx
<1>4. GoTo(r, "enqueue", t) /\ UNCHANGED <<db, subscribed, latestRate>>
  BY DEF InitiatePayment
<1> HIDE DEF t
<1>5. TxOK("enqueue", t)
  BY <1>2, <1>3 DEF InitiatePayment, TxOK, FxOK, Creates, Working, Holding, Stage
<1>6. \A q \in Requests : tx[q].payment # t.payment
  BY <1>3 DEF InitiatePayment
<1>. QED
  BY <1>4, <1>5, <1>6, LocalStep

\* Reading a payment and finding the transition allowed keeps the invariant.
LEMMA ReadStep ==
    ASSUME IInv, NEW r \in Requests, NEW p \in Payments, NEW to,
           NEW attempt \in 0 .. MaxAttempts - 1, ReadPayment(r, p, to, attempt),
           UNCHANGED <<db, subscribed, latestRate>>
    PROVE  IInv'
<1> DEFINE t == NewTx(p, to, attempt, payments[p])
           stage == FirstStage(p, to)
<1>1. payments[p] \in Row
  BY DEF IInv, TypeOK
<1>2. /\ to \in ALLOWED_TRANSITIONS[payments[p].status]
      /\ GoTo(r, stage, t)
  BY DEF ReadPayment
<1>3. payments[p].status # "absent" /\ to \in Status
  BY <1>1, <1>2 DEF ALLOWED_TRANSITIONS, Row, Status, PaymentStatus
<1>4. t \in Transaction
  BY <1>1, <1>3, NewTxType
<1>5. t.payment = p /\ t.to = to /\ t.fx_rate = None /\ t.snap = payments[p]
  BY DEF NewTx
<1>6. /\ stage \in {"update", "rate", "versions"}
      /\ stage = "rate" => to = "settled" /\ IsFx(p)
      /\ stage # "rate" => ~ (to = "settled" /\ IsFx(p))
  BY DEF FirstStage, MovesMoney
<1> HIDE DEF t, stage
<1>7. TxOK(stage, t)
  <2>1. payments[p].version \in Nat
    BY <1>1 DEF Row
  <2>2. ReadEarlier(t)
    BY <1>2, <1>3, <1>5, <2>1 DEF ReadEarlier
  <2>3. FxOK(stage, t)
    BY <1>5, <1>6 DEF FxOK
  <2>. QED
    BY <1>4, <1>5, <1>6, <2>2, <2>3 DEF TxOK, Creates, Working, Holding, Stage
<1>8. ~ Locks(stage, t) /\ ~ Creates(stage, t)
  BY <1>5, <1>6 DEF Locks, Creates, Holding
<1>9. \A q \in Requests : Creates(pc[q], tx[q]) => tx[q].payment # t.payment
  BY <1>3, <1>5 DEF IInv, TxOK
<1>. QED
  BY <1>2, <1>7, <1>8, <1>9, LocalStep

\* A step that stays within r's transaction: neither the payment nor the
\* transition changes, and a lock, if r takes one, was free.
LEMMA InnerStep ==
    ASSUME IInv, NEW r \in Requests, NEW stage, NEW t,
           pc[r] # "idle",
           GoTo(r, stage, t),
           UNCHANGED <<db, subscribed, latestRate>>,
           TxOK(stage, t),
           t.payment = tx[r].payment,
           Locks(stage, t) => Locks(pc[r], tx[r]) \/ PaymentFree(r),
           Creates(stage, t) => Creates(pc[r], tx[r])
    PROVE  IInv'
<1>1. \A q \in Requests \ {r} :
         Locks(stage, t) /\ Locks(pc[q], tx[q]) => tx[q].payment # t.payment
  BY DEF IInv, Exclusive, PaymentFree, HoldsPayment, Locks, Holding
<1>2. \A q \in Requests \ {r} :
         /\ Creates(stage, t) => tx[q].payment # t.payment
         /\ Creates(pc[q], tx[q]) => tx[q].payment # t.payment
  BY DEF IInv, Exclusive
<1>. QED
  BY <1>1, <1>2, LocalStep

\* Fetching the rate keeps the invariant.
LEMMA FetchRateStep ==
    ASSUME IInv, NEW r \in Requests, FetchRate(r)
    PROVE  IInv'
<1> DEFINE p == tx[r].payment
           rate == latestRate[<<AccountCurrency[Terms[p].debtor],
                                AccountCurrency[Terms[p].creditor]>>]
           t == [tx[r] EXCEPT !.fx_rate = rate]
<1>1. CASE Leave(r)
  BY <1>1, LeaveStep DEF FetchRate
<1>2. CASE rate # None /\ GoTo(r, "fx", t)
  <2>1. /\ pc[r] = "rate"
        /\ UNCHANGED <<db, subscribed, latestRate>>
        /\ TxOK(pc[r], tx[r])
    BY DEF FetchRate, IInv
  <2>2. tx[r] \in Transaction /\ p \in Payments /\ tx[r].to = "settled" /\ IsFx(p)
    BY <2>1, SMTT(60) DEF TxOK, FxOK
  <2>3. rate \in Rates
    <3>1. <<AccountCurrency[Terms[p].debtor], AccountCurrency[Terms[p].creditor]>>
             \in Currencies \X Currencies
      BY <2>2, TermsAssumption, SMTT(60) DEF Currencies
    <3>. QED
      BY <1>2, <3>1 DEF IInv, TypeOK
  <2>4. t \in Transaction
    BY <2>2, <2>3 DEF Transaction
  <2>5. /\ t.payment = p /\ t.to = tx[r].to /\ t.snap = tx[r].snap
        /\ t.fx_rate = rate
    BY <2>2 DEF Transaction
  <2> HIDE DEF t, rate
  <2>6. TxOK("fx", t)
    BY <1>2, <2>1, <2>2, <2>4, <2>5
       DEF TxOK, FxOK, ReadEarlier, Creates, Working, Holding, Stage
  <2>7. ~ Locks("fx", t) /\ ~ Creates("fx", t)
    BY DEF Locks, Creates, Holding
  <2>. QED
    BY <1>2, <2>1, <2>5, <2>6, <2>7, InnerStep
<1>. QED
  BY <1>1, <1>2 DEF FetchRate

\* Writing the FX details keeps the invariant.
LEMMA SetFxDetailsStep ==
    ASSUME IInv, NEW r \in Requests, SetFxDetails(r)
    PROVE  IInv'
<1>1. CASE Leave(r)
  BY <1>1, LeaveStep DEF SetFxDetails
<1>2. CASE /\ PaymentFree(r)
           /\ CreditorAmount(tx[r].payment, tx[r].fx_rate) <= MaxNumeric
           /\ GoTo(r, "versions", tx[r])
  <2>1. /\ pc[r] = "fx"
        /\ UNCHANGED <<db, subscribed, latestRate>>
        /\ TxOK(pc[r], tx[r])
    BY DEF SetFxDetails, IInv
  <2>2. TxOK("versions", tx[r])
    BY <1>2, <2>1 DEF TxOK, FxOK, Creates, Working, Holding, Stage
  <2>3. ~ Creates("versions", tx[r])
    BY DEF Creates, Holding
  <2>. QED
    BY <1>2, <2>1, <2>2, <2>3, InnerStep
<1>. QED
  BY <1>1, <1>2 DEF SetFxDetails

\* Validating the entry and reading the account versions keeps the invariant:
\* a validated conversion has a positive creditor amount.
LEMMA ReadVersionsStep ==
    ASSUME IInv, NEW r \in Requests, ReadVersions(r)
    PROVE  IInv'
<1> DEFINE lines == EntryOf(tx[r]).lines
           v == [a \in Accounts |-> IF a \in account_ids(lines) THEN accountVersion[a] ELSE None]
           t == [tx[r] EXCEPT !.versions = v]
<1>1. CASE Leave(r)
  BY <1>1, LeaveStep DEF ReadVersions
<1>2. CASE validate_journal_entry(lines) /\ GoTo(r, "bump", t)
  <2>1. /\ pc[r] = "versions"
        /\ UNCHANGED <<db, subscribed, latestRate>>
        /\ TxOK(pc[r], tx[r])
        /\ tx[r] \in Transaction
    BY DEF ReadVersions, IInv, TxOK
  <2>2. ASSUME tx[r].fx_rate # None
        PROVE  CreditorAmount(tx[r].payment, tx[r].fx_rate) > 0
    <3> DEFINE amount == CreditorAmount(tx[r].payment, tx[r].fx_rate)
    <3>1. tx[r].to = "settled" /\ IsFx(tx[r].payment)
      BY <2>1, <2>2 DEF TxOK, FxOK
    <3>2. Updated(tx[r]).creditor_amount = amount
      BY <2>2 DEF Updated
    <3>3. lines = SettlementLines(tx[r].payment, amount)
      BY <3>1, <3>2 DEF EntryOf, SettlementEntry, JournalEntry
    <3> HIDE DEF amount, lines
    <3>4. 3 \in DOMAIN lines /\ lines[3].amount = amount
      BY <3>1, <3>3 DEF SettlementLines, JournalLine
    <3>5. lines[3].amount > 0
      BY <1>2, <3>4 DEF validate_journal_entry
    <3>. QED
      BY <3>4, <3>5 DEF amount
  <2>3. v \in [Accounts -> Nat \cup {None}]
    BY DEF IInv, TypeOK
  <2> HIDE DEF v
  <2>4. t \in Transaction
    BY <2>1, <2>3 DEF Transaction
  <2>5. /\ t.payment = tx[r].payment /\ t.to = tx[r].to /\ t.snap = tx[r].snap
        /\ t.fx_rate = tx[r].fx_rate
    BY <2>1 DEF Transaction
  <2> HIDE DEF t
  <2>6. TxOK("bump", t)
    BY <2>1, <2>2, <2>4, <2>5
       DEF TxOK, FxOK, ReadEarlier, Creates, Working, Holding, Stage
  <2>7. ~ Creates("bump", t) /\ (Locks("bump", t) => Locks(pc[r], tx[r]))
    BY <2>1, <2>5 DEF Creates, Locks, Holding
  <2>. QED
    BY <1>2, <2>1, <2>5, <2>6, <2>7, InnerStep
<1>. QED
  BY <1>1, <1>2 DEF ReadVersions

\* Bumping an account's version, or losing the check, keeps the invariant.
LEMMA BumpAccountStep ==
    ASSUME IInv, NEW r \in Requests, NEW a \in Accounts, BumpAccount(r, a)
    PROVE  IInv'
<1> DEFINE t == [tx[r] EXCEPT !.bumped = @ \cup {a}]
           stage == IF Pending(r) = {a} THEN "update" ELSE "bump"
<1>1. CASE Conflict(r)
  BY <1>1, ConflictStep DEF BumpAccount, Working
<1>2. CASE GoTo(r, stage, t)
  <2>1. /\ pc[r] = "bump"
        /\ UNCHANGED <<db, subscribed, latestRate>>
        /\ TxOK(pc[r], tx[r])
        /\ tx[r] \in Transaction
    BY DEF BumpAccount, IInv, TxOK
  <2>2. t \in Transaction
    BY <2>1 DEF Transaction
  <2>3. /\ t.payment = tx[r].payment /\ t.to = tx[r].to /\ t.snap = tx[r].snap
        /\ t.fx_rate = tx[r].fx_rate
    BY <2>1 DEF Transaction
  <2>4. stage \in {"bump", "update"}
    OBVIOUS
  <2> HIDE DEF t, stage
  <2>5. TxOK(stage, t)
    BY <2>1, <2>2, <2>3, <2>4
       DEF TxOK, FxOK, ReadEarlier, Creates, Working, Holding, Stage
  <2>6. ~ Creates(stage, t) /\ (Locks(stage, t) => Locks(pc[r], tx[r]))
    BY <2>1, <2>3, <2>4 DEF Creates, Locks, Holding
  <2>. QED
    BY <1>2, <2>1, <2>3, <2>5, <2>6, InnerStep
<1>. QED
  BY <1>1, <1>2 DEF BumpAccount

\* Updating the payment's status keeps the invariant: with the versions equal,
\* the row is the one that was read.
LEMMA UpdatePaymentStatusStep ==
    ASSUME IInv, NEW r \in Requests, UpdatePaymentStatus(r)
    PROVE  IInv'
<1>1. CASE Conflict(r)
  BY <1>1, ConflictStep DEF UpdatePaymentStatus, Working
<1>2. CASE /\ payments[tx[r].payment].version = tx[r].snap.version
           /\ PaymentFree(r)
           /\ GoTo(r, "enqueue", tx[r])
  <2>1. /\ pc[r] = "update"
        /\ UNCHANGED <<db, subscribed, latestRate>>
        /\ TxOK(pc[r], tx[r])
    BY DEF UpdatePaymentStatus, IInv
  <2>2. RowIsSnap(tx[r])
    BY <1>2, <2>1 DEF TxOK, ReadEarlier, RowIsSnap, Working
  <2>3. tx[r].to # "initiated"
    BY <2>1 DEF TxOK, ReadEarlier, Working, ALLOWED_TRANSITIONS, Transaction, Row
  <2>4. TxOK("enqueue", tx[r])
    BY <2>1, <2>2, <2>3 DEF TxOK, FxOK, Creates, Working, Holding, Stage
  <2>5. ~ Creates("enqueue", tx[r])
    BY <2>3 DEF Creates
  <2>. QED
    BY <1>2, <2>1, <2>4, <2>5, InnerStep
<1>. QED
  BY <1>1, <1>2 DEF UpdatePaymentStatus

\* Queueing the webhook deliveries keeps the invariant.
LEMMA EnqueueWebhooksStep ==
    ASSUME IInv, NEW r \in Requests, EnqueueWebhooks(r)
    PROVE  IInv'
<1> DEFINE T == {s \in Subscriptions :
                  /\ subscribed[s] # None
                  /\ EventFilter[s] = {} \/ tx[r].to \in EventFilter[s]}
           t == [tx[r] EXCEPT !.targets = T]
<1>1. /\ pc[r] = "enqueue"
      /\ GoTo(r, "commit", t)
      /\ UNCHANGED <<db, subscribed, latestRate>>
      /\ TxOK(pc[r], tx[r])
      /\ tx[r] \in Transaction
  BY DEF EnqueueWebhooks, IInv, TxOK
<1>2. T \in SUBSET Subscriptions
  BY DEF IInv, TypeOK
<1> HIDE DEF T
<1>3. t \in Transaction
  BY <1>1, <1>2 DEF Transaction
<1>4. /\ t.payment = tx[r].payment /\ t.to = tx[r].to /\ t.snap = tx[r].snap
      /\ t.fx_rate = tx[r].fx_rate
  BY <1>1 DEF Transaction
<1> HIDE DEF t
<1>5. TxOK("commit", t)
  BY <1>1, <1>3, <1>4 DEF TxOK, FxOK, RowIsSnap, Creates, Working, Holding, Stage
<1>6. Locks(pc[r], tx[r]) /\ (Creates("commit", t) => Creates(pc[r], tx[r]))
  BY <1>1, <1>4 DEF Locks, Creates, Holding
<1>. QED
  BY <1>1, <1>4, <1>5, <1>6, InnerStep

-----------------------------------------------------------------------------
(* Commits.                                                                 *)

\* The row a committing transition leaves is the one its webhook announces,
\* and is well-typed.
LEMMA WrittenRowIsUpdated ==
    ASSUME IInv, NEW r \in Requests, pc[r] = "commit", tx[r].to # "initiated"
    PROVE  /\ WrittenRow(tx[r]) = Updated(tx[r])
           /\ Updated(tx[r]) \in Row
<1> DEFINE t == tx[r]
           p == t.payment
<1>1. /\ t \in Transaction /\ p \in Payments /\ RowIsSnap(t) /\ t.snap \in Row
      /\ payments[p] = t.snap
  BY DEF IInv, TxOK, Holding, RowIsSnap, Transaction
<1>2. ValidTerms(p)
  BY <1>1 DEF IInv, RowsOK, RowIsSnap
<1>3. t.fx_rate # None => CreditorAmount(p, t.fx_rate) \in Nat /\ t.fx_rate \in Nat
  BY <1>1, <1>2, CreditorAmountIsNat, RatesAssumption DEF Transaction
<1> DEFINE amount == CreditorAmount(p, t.fx_rate)
<1>4. amount = CreditorAmount(tx[r].payment, tx[r].fx_rate)
  OBVIOUS
<1> HIDE DEF amount
<1>5. Updated(t) \in Row
  <2>1. t.snap.version + 1 \in Nat /\ t.to \in Status
    BY <1>1 DEF Row, Transaction
  <2>. QED
    BY <1>1, <1>3, <1>4, <2>1 DEF Updated, Row
<1>6. WrittenRow(t) = Updated(t)
  BY <1>1 DEF WrittenRow, Updated, Row
<1>. QED
  BY <1>5, <1>6

\* The entry a committing transition posts is well-typed.
LEMMA EntryOfType ==
    ASSUME IInv, NEW r \in Requests, pc[r] = "commit", MovesMoney(tx[r].to)
    PROVE  EntryOf(tx[r]) \in Entry
<1> DEFINE t == tx[r]
           p == t.payment
<1>1. /\ t \in Transaction /\ p \in Payments /\ RowIsSnap(t) /\ FxOK("commit", t)
      /\ payments[p] = t.snap
  BY DEF IInv, TxOK, Holding, RowIsSnap, Transaction, MovesMoney
<1>2. /\ ValidTerms(p) /\ Terms[p].amount \in Nat /\ Terms[p].currency \in Currencies
      /\ Terms[p].debtor \in Accounts /\ Terms[p].creditor \in Accounts
      /\ AccountCurrency[Terms[p].debtor] \in Currencies
      /\ AccountCurrency[Terms[p].creditor] \in Currencies
      /\ Suspense \in Accounts
  BY <1>1, TermsAssumption DEF IInv, RowsOK, RowIsSnap, ValidTerms, Currencies
<1>3. \A a \in Accounts, d \in Direction, n \in Nat, c \in Currencies :
         JournalLine(a, d, n, c) \in Line
  BY DEF JournalLine, Line
<1>4. CASE t.to = "settled"
  <2>1. IsFx(p) => Updated(t).creditor_amount \in Nat
    BY <1>1, <1>2, <1>4, CreditorAmountIsNat DEF FxOK, Updated, Transaction
  <2>2. SettlementLines(p, Updated(t).creditor_amount) \in Seq(Line)
    BY <1>2, <1>3, <2>1 DEF SettlementLines, Direction
  <2>. QED
    BY <1>4, <2>2 DEF EntryOf, SettlementEntry, JournalEntry, Entry, EntryType
<1>5. CASE t.to = "reversed"
  <2>1. t.snap.creditor_amount # None => t.snap.creditor_amount \in Nat
    BY <1>1 DEF Transaction, Row
  <2>2. ReversalLines(p, t.snap.creditor_amount) \in Seq(Line)
    BY <1>2, <1>3, <2>1 DEF ReversalLines, Direction
  <2>. QED
    BY <1>5, <2>2 DEF EntryOf, ReversalEntry, JournalEntry, Entry, EntryType
<1>. QED
  BY <1>4, <1>5 DEF MovesMoney

\* Appending to the journals that LedgerFollowsStatus allows to grow.
LEMMA AppendShort ==
    ASSUME NEW x, NEW y
    PROVE  Append(<<>>, x) = <<x>> /\ Append(<<x>>, y) = <<x, y>>
<1> DEFINE S == {x, y}
<1>1. Append(<<>>, x) = <<x>>
  OBVIOUS
<1>2. <<x>> \in Seq(S) /\ <<x, y>> \in Seq(S) /\ y \in S
  OBVIOUS
<1>3. /\ Append(<<x>>, y) \in Seq(S) /\ Len(Append(<<x>>, y)) = 2
      /\ Append(<<x>>, y)[1] = x /\ Append(<<x>>, y)[2] = y
  BY <1>2
<1>4. Append(<<x>>, y) = <<x, y>>
  <2> DEFINE s == Append(<<x>>, y)
             u == <<x, y>>
  <2>1. Len(u) = 2 /\ u[1] = x /\ u[2] = y /\ u \in Seq(S)
    BY <1>2
  <2>2. Len(s) = 2 /\ s[1] = x /\ s[2] = y /\ s \in Seq(S)
    BY <1>3
  <2> HIDE DEF s, u, S
  <2>3. \A i \in 1 .. Len(s) : s[i] = u[i]
    BY <2>1, <2>2
  <2>4. s = u
    BY <2>1, <2>2, <2>3, SeqEqual
  <2>. QED
    BY <2>4 DEF s, u
<1>. QED
  BY <1>1, <1>4

\* What every commit by r changes outside the tables it writes: the state of r
\* alone, back to idle, while rows of other payments stay as they are.  The
\* other requests are still in order, because none of them has the row of r's
\* payment locked, or because none of them knows the payment yet.
LEMMA CommitRequests ==
    ASSUME IInv, NEW r \in Requests, pc[r] = "commit", Leave(r),
           NEW row \in Row,
           payments' = [payments EXCEPT ![tx[r].payment] = row],
           row.status # "absent",
           tx[r].to # "initiated" => row.version = payments[tx[r].payment].version + 1
    PROVE  /\ \A q \in Requests : TxOK(pc[q], tx[q])'
           /\ Exclusive'
           /\ pc' \in [Requests -> Stage]
           /\ tx' \in [Requests -> Transaction]
           /\ \A q \in Requests : pc'[q] # "idle" => tx'[q].payment \in Payments
<1> DEFINE p == tx[r].payment
<1>1. p \in Payments /\ payments \in [Payments -> Row]
  BY DEF IInv, TxOK, TypeOK
<1>2. \A q \in Requests : IF q = r THEN pc'[q] = "idle" /\ tx'[q] = NoTx
                                      ELSE pc'[q] = pc[q] /\ tx'[q] = tx[q]
  BY DEF Leave, GoTo, IInv, TypeOK
<1>3. NoTx.payment = None /\ NoTx.fx_rate = None
  BY DEF NoTx, NewTx
<1>4. ASSUME NEW q \in Requests PROVE TxOK(pc[q], tx[q])'
  <2>1. CASE q = r
    BY <1>2, <1>3, <2>1, NoTxType DEF TxOK, FxOK, Creates, Working, Holding, Stage
  <2>2. CASE q # r /\ tx[q].payment # p
    <3>1. TxOK(pc[q], tx[q]) /\ pc'[q] = pc[q] /\ tx'[q] = tx[q]
      BY <1>2, <2>2 DEF IInv
    <3>2. pc[q] # "idle" => payments'[tx[q].payment] = payments[tx[q].payment]
      BY <1>1, <2>2, <3>1 DEF TxOK
    <3>. QED
      BY <3>1, <3>2 DEF TxOK, FxOK, ReadEarlier, RowIsSnap, Creates, Working, Holding
  <2>3. CASE q # r /\ tx[q].payment = p
    <3>1. TxOK(pc[q], tx[q]) /\ pc'[q] = pc[q] /\ tx'[q] = tx[q]
      BY <1>2, <2>3 DEF IInv
    <3>2. pc[q] \notin Holding /\ tx[r].to # "initiated"
      BY <2>3 DEF IInv, Exclusive, Locks, Creates, Holding
    <3>3. payments'[p] = row
      BY <1>1
    <3>4. pc[q] \in Working => ReadEarlier(tx[q])'
      <4> SUFFICES ASSUME pc[q] \in Working PROVE ReadEarlier(tx[q])'
        OBVIOUS
      <4>1. tx[q].snap.version \in Nat /\ payments[p].version \in Nat
        BY <1>1, <3>1 DEF TxOK, Transaction, Row
      <4>. QED
        BY <2>3, <3>1, <3>2, <3>3, <4>1 DEF TxOK, ReadEarlier
    <3>. QED
      BY <3>1, <3>2, <3>4 DEF TxOK, FxOK, Creates
  <2>. QED
    BY <2>1, <2>2, <2>3
<1>5. Exclusive'
  <2>1. ~ Locks("idle", NoTx) /\ ~ Creates("idle", NoTx)
    BY DEF Locks, Creates, Holding
  <2>2. \A q \in Requests : Creates(pc[q], tx[q]) => tx[q].payment # NoTx.payment
    BY <1>3, NoneAssumption DEF IInv, TxOK, Creates, Holding
  <2>. QED
    BY <1>2, <2>1, <2>2 DEF IInv, Exclusive, Locks, Creates
<1>6. pc' \in [Requests -> Stage] /\ tx' \in [Requests -> Transaction]
  BY NoTxType DEF Leave, GoTo, IInv, TypeOK, Stage
<1>7. \A q \in Requests : pc'[q] # "idle" => tx'[q].payment \in Payments
  BY <1>2 DEF IInv, TypeOK
<1>. QED
  BY <1>4, <1>5, <1>6, <1>7

\* Committing a new payment keeps the invariant.
LEMMA CommitInitiationStep ==
    ASSUME IInv, NEW r \in Requests, CommitInitiation(r)
    PROVE  IInv'
<1> DEFINE t == tx[r]
           p == t.payment
           row == NewRow("initiated")
<1>1. /\ pc[r] = "commit" /\ t.to = "initiated" /\ Leave(r)
      /\ payments' = [payments EXCEPT ![p] = row]
      /\ history' = [history EXCEPT ![p] = Append(@, [from |-> None, to |-> "initiated"])]
      /\ deliveries' = [deliveries EXCEPT ![p] =
            [s \in Subscriptions |-> IF s \in t.targets THEN Append(@[s], row) ELSE @[s]]]
      /\ UNCHANGED <<accountVersion, journal, subscribed, latestRate>>
  BY DEF CommitInitiation, QueueDeliveries
<1>2. /\ p \in Payments /\ payments[p].status = "absent" /\ ValidTerms(p)
      /\ payments \in [Payments -> Row]
  BY <1>1 DEF IInv, TxOK, TypeOK, Creates, Holding
<1>3. /\ row \in Row /\ row.status = "initiated"
      /\ row.creditor_amount = None /\ row.fx_rate = None
  BY DEF NewRow, Row, Status, PaymentStatus
<1> HIDE DEF row
<1>4. /\ \A q \in Requests : TxOK(pc[q], tx[q])'
      /\ Exclusive'
      /\ pc' \in [Requests -> Stage] /\ tx' \in [Requests -> Transaction]
      /\ \A q \in Requests : pc'[q] # "idle" => tx'[q].payment \in Payments
  BY <1>1, <1>3, CommitRequests
<1>5. TypeOK'
  <2>1. payments' \in [Payments -> Row]
    BY <1>1, <1>2, <1>3
  <2>2. history' \in [Payments -> Seq(HistoryRow)]
    <3>1. [from |-> None, to |-> "initiated"] \in HistoryRow
      BY DEF HistoryRow, PaymentStatus
    <3>. QED
      BY <1>1, <1>2, <3>1 DEF IInv, TypeOK
  <2>3. deliveries' \in [Payments -> [Subscriptions -> Seq(Row)]]
    BY <1>1, <1>2, <1>3 DEF IInv, TypeOK
  <2>. QED
    BY <1>1, <1>4, <2>1, <2>2, <2>3 DEF IInv, TypeOK
<1>6. \A x \in Payments : payments'[x] = IF x = p THEN row ELSE payments[x]
  BY <1>1, <1>2
<1>7. RowsOK'
  BY <1>2, <1>6 DEF IInv, RowsOK
<1>8. FxDetailsAreTheBookedOnes'
  BY <1>3, <1>6 DEF IInv, FxDetailsAreTheBookedOnes, Moved
<1>9. LedgerFollowsStatus'
  BY <1>1, <1>2, <1>3, <1>6 DEF IInv, LedgerFollowsStatus
<1>. QED
  BY <1>4, <1>5, <1>7, <1>8, <1>9 DEF IInv

\* Committing a transition keeps the invariant.
LEMMA CommitTransitionStep ==
    ASSUME IInv, NEW r \in Requests, CommitTransition(r)
    PROVE  IInv'
<1> DEFINE t == tx[r]
           p == t.payment
           row == Updated(t)
<1>1. /\ pc[r] = "commit" /\ t.to # "initiated" /\ Leave(r)
      /\ payments' = [payments EXCEPT ![p] = WrittenRow(t)]
      /\ accountVersion' = [a \in Accounts |->
            IF a \in t.bumped THEN accountVersion[a] + 1 ELSE accountVersion[a]]
      /\ journal' = [journal EXCEPT ![p] =
            IF MovesMoney(t.to) THEN Append(@, EntryOf(t)) ELSE @]
      /\ history' = [history EXCEPT ![p] = Append(@, [from |-> t.snap.status, to |-> t.to])]
      /\ deliveries' = [deliveries EXCEPT ![p] =
            [s \in Subscriptions |-> IF s \in t.targets THEN Append(@[s], row) ELSE @[s]]]
      /\ UNCHANGED <<subscribed, latestRate>>
  BY DEF CommitTransition, QueueDeliveries
<1>2. /\ t \in Transaction /\ p \in Payments /\ payments[p] = t.snap
      /\ FxOK("commit", t)
      /\ t.to \in ALLOWED_TRANSITIONS[t.snap.status]
      /\ t.snap \in Row /\ payments \in [Payments -> Row]
      /\ payments[p].status # "absent"
  BY <1>1 DEF IInv, TxOK, TypeOK, Holding, RowIsSnap, Transaction
<1>3. WrittenRow(t) = row /\ row \in Row
  BY <1>1, WrittenRowIsUpdated
<1>4. /\ t.snap.status \in PaymentStatus
      /\ t.to \in {"authorised", "failed", "settled", "reversed"}
      /\ t.to = "settled" => t.snap.status = "authorised"
      /\ t.to = "reversed" => t.snap.status = "settled"
      /\ t.to \in {"authorised", "failed"} => t.snap.status \in {"initiated", "authorised"}
  BY <1>2 DEF ALLOWED_TRANSITIONS, Row, Status, PaymentStatus
<1>5. /\ row.status = t.to /\ row.version = t.snap.version + 1
      /\ t.fx_rate = None => row.creditor_amount = t.snap.creditor_amount
                           /\ row.fx_rate = t.snap.fx_rate
      /\ t.fx_rate # None => row.creditor_amount = CreditorAmount(p, t.fx_rate)
                           /\ row.fx_rate = t.fx_rate
  BY DEF Updated
<1>6. MovesMoney(t.to) => EntryOf(t) \in Entry
  BY <1>1, EntryOfType
<1>7. EntryOf(t) = IF t.to = "settled" THEN SettlementEntry(p, row.creditor_amount)
                   ELSE ReversalEntry(p, t.snap.creditor_amount)
  BY DEF EntryOf
<1> HIDE DEF row
<1>8. /\ \A q \in Requests : TxOK(pc[q], tx[q])'
      /\ Exclusive'
      /\ pc' \in [Requests -> Stage] /\ tx' \in [Requests -> Transaction]
      /\ \A q \in Requests : pc'[q] # "idle" => tx'[q].payment \in Payments
  <2>1. row.status # "absent" /\ row.version = payments[p].version + 1
    BY <1>2, <1>4, <1>5
  <2>. QED
    BY <1>1, <1>3, <2>1, CommitRequests
<1>9. TypeOK'
  <2>1. payments' \in [Payments -> Row]
    BY <1>1, <1>2, <1>3
  <2>2. accountVersion' \in [Accounts -> Nat]
    BY <1>1 DEF IInv, TypeOK
  <2>3. history' \in [Payments -> Seq(HistoryRow)]
    <3>1. [from |-> t.snap.status, to |-> t.to] \in HistoryRow
      BY <1>4 DEF HistoryRow, PaymentStatus
    <3>. QED
      BY <1>1, <1>2, <3>1 DEF IInv, TypeOK
  <2>4. deliveries' \in [Payments -> [Subscriptions -> Seq(Row)]]
    BY <1>1, <1>2, <1>3 DEF IInv, TypeOK
  <2>5. journal' \in [Payments -> Seq(Entry)]
    BY <1>1, <1>2, <1>6 DEF IInv, TypeOK
  <2>. QED
    BY <1>1, <1>8, <2>1, <2>2, <2>3, <2>4, <2>5 DEF IInv, TypeOK
<1>10. \A x \in Payments :
          /\ payments'[x] = IF x = p THEN row ELSE payments[x]
          /\ journal'[x] = IF x = p /\ MovesMoney(t.to) THEN Append(journal[x], EntryOf(t))
                           ELSE journal[x]
  BY <1>1, <1>2, <1>3 DEF IInv, TypeOK
<1>11. RowsOK'
  BY <1>2, <1>10 DEF IInv, RowsOK
<1>12. FxDetailsAreTheBookedOnes'
  <2> SUFFICES ASSUME NEW x \in Payments
               PROVE  IF Moved(x)' /\ IsFx(x)
                      THEN /\ payments'[x].fx_rate # None
                           /\ payments'[x].creditor_amount = CreditorAmount(x, payments'[x].fx_rate)
                           /\ payments'[x].creditor_amount \in 1 .. MaxNumeric
                      ELSE payments'[x].fx_rate = None /\ payments'[x].creditor_amount = None
    BY DEF FxDetailsAreTheBookedOnes
  <2>1. CASE x # p
    BY <1>10, <2>1 DEF IInv, FxDetailsAreTheBookedOnes, Moved
  <2>2. CASE x = p /\ t.fx_rate = None
    <3>1. t.to = "settled" => ~ IsFx(p)
      BY <1>2, <2>2 DEF FxOK
    <3>. QED
      BY <1>2, <1>4, <1>5, <1>10, <2>2, <3>1 DEF IInv, FxDetailsAreTheBookedOnes, Moved
  <2>3. CASE x = p /\ t.fx_rate # None
    <3>1. /\ t.to = "settled" /\ IsFx(p)
          /\ CreditorAmount(p, t.fx_rate) <= MaxNumeric
          /\ CreditorAmount(p, t.fx_rate) > 0
      BY <1>2, <2>3 DEF FxOK
    <3>2. CreditorAmount(p, t.fx_rate) \in Nat
      BY <1>2, <2>3, CreditorAmountIsNat DEF IInv, RowsOK, Transaction
    <3>3. CreditorAmount(p, t.fx_rate) \in 1 .. MaxNumeric
      BY <3>1, <3>2, RatesAssumption
    <3>. QED
      BY <1>5, <1>10, <2>3, <3>1, <3>3 DEF Moved
  <2>. QED
    BY <2>1, <2>2, <2>3
<1>13. LedgerFollowsStatus'
  <2> DEFINE Expected(x, status, amount) ==
               CASE status = "settled" -> <<SettlementEntry(x, amount)>>
                 [] status = "reversed" -> <<SettlementEntry(x, amount), ReversalEntry(x, amount)>>
                 [] OTHER -> <<>>
  <2>1. \A x \in Payments :
           journal[x] = Expected(x, payments[x].status, payments[x].creditor_amount)
    BY DEF IInv, LedgerFollowsStatus
  <2>2. ASSUME NEW x \in Payments
        PROVE  journal'[x] = Expected(x, payments'[x].status, payments'[x].creditor_amount)
    <3>1. CASE x # p
      BY <1>10, <2>1, <3>1
    <3>2. CASE x = p /\ t.to = "settled"
      <4>1. journal[x] = <<>>
        BY <1>2, <1>4, <2>1, <3>2
      <4>2. journal'[x] = <<SettlementEntry(p, row.creditor_amount)>>
        BY <1>7, <1>10, <3>2, <4>1, AppendShort DEF MovesMoney
      <4>. QED
        BY <1>5, <1>10, <3>2, <4>2
    <3>3. CASE x = p /\ t.to = "reversed"
      <4>1. t.fx_rate = None
        BY <1>2, <3>3 DEF FxOK
      <4>2. journal[x] = <<SettlementEntry(p, t.snap.creditor_amount)>>
        BY <1>2, <1>4, <2>1, <3>3
      <4>3. journal'[x] = <<SettlementEntry(p, t.snap.creditor_amount),
                            ReversalEntry(p, t.snap.creditor_amount)>>
        BY <1>7, <1>10, <3>3, <4>2, AppendShort, ZenonT(60) DEF MovesMoney
      <4>. QED
        BY <1>5, <1>10, <3>3, <4>1, <4>3
    <3>4. CASE x = p /\ t.to \in {"authorised", "failed"}
      <4>1. journal[x] = <<>>
        BY <1>2, <1>4, <2>1, <3>4
      <4>. QED
        BY <1>5, <1>10, <3>4, <4>1 DEF MovesMoney
    <3>. QED
      BY <1>4, <3>1, <3>2, <3>3, <3>4
  <2>. QED
    BY <2>2 DEF LedgerFollowsStatus
<1>. QED
  BY <1>8, <1>9, <1>11, <1>12, <1>13 DEF IInv

-----------------------------------------------------------------------------
\* Every step of every request and of the environment preserves the inductive
\* invariant.
LEMMA NextIInv == IInv /\ [Next]_vars => IInv'
<1> SUFFICES ASSUME IInv, [Next]_vars PROVE IInv'
  OBVIOUS
<1>1. ASSUME NEW r \in Requests, Start(r)
      PROVE  IInv'
  <2>1. ASSUME NEW p \in Payments, NEW to \in PaymentStatus, BeginTransition(r, p, to)
        PROVE  IInv'
    <3>1. 0 \in 0 .. MaxAttempts - 1
      BY AttemptsAssumption
    <3>. QED
      BY <2>1, <3>1, ReadStep DEF BeginTransition
  <2>. QED
    BY <1>1, <2>1, InitiateStep DEF Start
<1>2. ASSUME NEW r \in Requests, Retry(r)
      PROVE  IInv'
  <2>1. tx[r].payment \in Payments /\ tx[r].attempt \in 0 .. MaxAttempts - 1
    BY <1>2 DEF Retry, IInv, TxOK, Transaction
  <2>. QED
    BY <1>2, <2>1, ReadStep, LeaveStep DEF Retry
<1>3. ASSUME NEW r \in Requests, Advance(r)
      PROVE  IInv'
  BY <1>2, <1>3, FetchRateStep, SetFxDetailsStep, ReadVersionsStep, BumpAccountStep,
     UpdatePaymentStatusStep, EnqueueWebhooksStep, CommitInitiationStep,
     CommitTransitionStep DEF Advance
<1>4. ASSUME NEW r \in Requests, DeadlockAbort(r) \/ Crash(r)
      PROVE  IInv'
  BY <1>4, LeaveStep DEF DeadlockAbort, Crash
<1>5. CASE Environment \/ UNCHANGED vars
  <2>1. UNCHANGED <<payments, accountVersion, journal, history, deliveries, pc, tx>>
    BY <1>5 DEF Environment, CreateSubscription, BookRate, vars, db
  <2>2. /\ subscribed' \in [Subscriptions -> [Payments -> CreationPoint] \cup {None}]
        /\ latestRate' \in [Currencies \X Currencies -> Rates \cup {None}]
    <3>1. ASSUME NEW s \in Subscriptions, CreateSubscription(s)
          PROVE  <2>2!:
      <4>1. \A p \in Payments : Len(history[p]) \in Nat
        BY LenProperties DEF IInv, TypeOK
      <4>. QED
        BY <3>1, <4>1 DEF CreateSubscription, CreationPoint, IInv, TypeOK
    <3>2. ASSUME NEW pair \in QuotedPairs, NEW rate \in Rates, BookRate(pair, rate)
          PROVE  <2>2!:
      BY <3>2, RatesAssumption DEF BookRate, IInv, TypeOK
    <3>3. CASE UNCHANGED vars
      BY <3>3 DEF vars, IInv, TypeOK
    <3>. QED
      BY <1>5, <3>1, <3>2, <3>3 DEF Environment
  <2>3. TypeOK'
    BY <2>1, <2>2 DEF IInv, TypeOK
  <2>4. (\A r \in Requests : TxOK(pc[r], tx[r]))'
    BY <2>1 DEF IInv, TxOK, FxOK, ReadEarlier, RowIsSnap, Creates
  <2>5. Exclusive'
    BY <2>1 DEF IInv, Exclusive, Locks, Creates
  <2>6. RowsOK' /\ FxDetailsAreTheBookedOnes' /\ LedgerFollowsStatus'
    BY <2>1 DEF IInv, RowsOK, FxDetailsAreTheBookedOnes, LedgerFollowsStatus, Moved
  <2>. QED
    BY <2>3, <2>4, <2>5, <2>6 DEF IInv
<1>. QED
  BY <1>1, <1>3, <1>4, <1>5 DEF Next

\* The inductive invariant is an invariant.
THEOREM Inductive == Spec => []IInv
BY InitIInv, NextIInv, PTL DEF Spec

\* Every variable keeps its type, the journal lines and webhook payloads that
\* conversions and retries produce included.
THEOREM TypeCorrect == Spec => []TypeOK
<1>1. IInv => TypeOK
  BY DEF IInv
<1>. QED
  BY <1>1, Inductive, PTL

\* Whatever requests race on a payment, conflict, retry, deadlock or crash, its
\* journal holds exactly the entries that its status calls for, at the amount
\* its row says was booked (_transition_with_ledger_entry).
THEOREM LedgerCorrect == Spec => []LedgerFollowsStatus
<1>1. IInv => LedgerFollowsStatus
  BY DEF IInv
<1>. QED
  BY <1>1, Inductive, PTL

\* The FX columns of a row are those of the settlement that committed, although
\* set_fx_details checks no version.
THEOREM FxDetailsCorrect == Spec => []FxDetailsAreTheBookedOnes
<1>1. IInv => FxDetailsAreTheBookedOnes
  BY DEF IInv
<1>. QED
  BY <1>1, Inductive, PTL

\* Once a payment has settled no step changes the FX columns that its reversal
\* will use (set_fx_details, _reversal_lines).
THEOREM SettledFxStaysFrozen == Spec => SettledFxIsFrozen
<1> DEFINE Frozen == \A p \in Payments : Moved(p) =>
              /\ payments'[p].fx_rate = payments[p].fx_rate
              /\ payments'[p].creditor_amount = payments[p].creditor_amount
<1>1. IInv /\ [Next]_vars => [Frozen]_vars
  <2> SUFFICES ASSUME IInv, [Next]_vars PROVE Frozen
    OBVIOUS
  <2>1. CASE UNCHANGED payments
    BY <2>1
  <2>2. ASSUME NEW r \in Requests, CommitInitiation(r) PROVE Frozen
    <3>1. tx[r].payment \in Payments /\ payments[tx[r].payment].status = "absent"
      BY <2>2 DEF CommitInitiation, IInv, TxOK, Creates, Holding
    <3>. QED
      BY <2>2, <3>1 DEF CommitInitiation, IInv, TypeOK, Moved
  <2>3. ASSUME NEW r \in Requests, CommitTransition(r) PROVE Frozen
    <3> DEFINE t == tx[r]
               p == t.payment
    <3>1. /\ t \in Transaction /\ p \in Payments /\ t.snap = payments[p]
          /\ FxOK("commit", t) /\ t.to \in ALLOWED_TRANSITIONS[payments[p].status]
          /\ payments[p] \in Row
      BY <2>3 DEF CommitTransition, IInv, TypeOK, TxOK, RowIsSnap, Holding
    <3>2. Moved(p) => t.to # "settled"
      BY <3>1 DEF Moved, ALLOWED_TRANSITIONS, Row, Status, PaymentStatus
    <3>3. Moved(p) => t.fx_rate = None
      BY <3>1, <3>2 DEF FxOK
    <3>4. payments' = [payments EXCEPT ![p] = WrittenRow(t)]
      BY <2>3 DEF CommitTransition
    <3>5. Moved(p) => /\ WrittenRow(t).fx_rate = payments[p].fx_rate
                      /\ WrittenRow(t).creditor_amount = payments[p].creditor_amount
      BY <3>3 DEF WrittenRow
    <3>. QED
      BY <3>1, <3>4, <3>5 DEF IInv, TypeOK
  <2>. QED
    BY <2>1, <2>2, <2>3, ZenonT(60)
       DEF Next, Start, Advance, Environment, vars, db, InitiatePayment, BeginTransition,
           Retry, FetchRate, SetFxDetails, ReadVersions, BumpAccount, UpdatePaymentStatus,
           EnqueueWebhooks, DeadlockAbort, Crash, CreateSubscription, BookRate
<1>. QED
  BY <1>1, Inductive, PTL DEF Spec, SettledFxIsFrozen

-----------------------------------------------------------------------------
(* The loop over the accounts of an entry.                                  *)

\* The accounts of the entry that transaction t posts.
EntryAccounts(t) == account_ids(EntryOf(t).lines)

\* How far the loop over the accounts of t's entry has come.
BumpsOK(stage, t) ==
    /\ stage \in {"rate", "fx", "versions"} => MovesMoney(t.to) /\ t.bumped = {}
    /\ stage = "bump" =>
         /\ MovesMoney(t.to)
         /\ {a \in Accounts : t.versions[a] # None} = EntryAccounts(t)
         /\ t.bumped \subseteq EntryAccounts(t)
    /\ stage \in {"update", "enqueue", "commit"} =>
         t.bumped = IF MovesMoney(t.to) THEN EntryAccounts(t) ELSE {}

AllBumpsOK == \A r \in Requests : BumpsOK(pc[r], tx[r])

\* The accounts of an entry are accounts.
LEMMA EntryAccountsAreAccounts ==
    ASSUME NEW t, t.payment \in Payments
    PROVE  EntryAccounts(t) \subseteq Accounts
<1> DEFINE lines == EntryOf(t).lines
<1>1. \/ \E x : lines = SettlementLines(t.payment, x)
      \/ \E x : lines = ReversalLines(t.payment, x)
  BY DEF EntryOf, SettlementEntry, ReversalEntry, JournalEntry
<1>2. /\ Terms[t.payment].debtor \in Accounts /\ Terms[t.payment].creditor \in Accounts
      /\ Suspense \in Accounts
  BY TermsAssumption
<1> HIDE DEF lines
<1>3. \A i \in DOMAIN lines : lines[i].account_id \in Accounts
  <2>1. ASSUME NEW x, lines = SettlementLines(t.payment, x)
        PROVE  \A i \in DOMAIN lines : lines[i].account_id \in Accounts
    BY <1>2, <2>1 DEF SettlementLines, JournalLine
  <2>2. ASSUME NEW x, lines = ReversalLines(t.payment, x)
        PROVE  \A i \in DOMAIN lines : lines[i].account_id \in Accounts
    BY <1>2, <2>2, SMTT(60) DEF ReversalLines, JournalLine
  <2>. QED
    BY <1>1, <2>1, <2>2
<1>. QED
  BY <1>3 DEF EntryAccounts, account_ids, lines

\* An entry depends only on what a transaction read, its rate and its purpose.
LEMMA SameEntry ==
    ASSUME NEW t, NEW u, u.payment = t.payment, u.to = t.to, u.snap = t.snap,
           u.fx_rate = t.fx_rate
    PROVE  EntryAccounts(u) = EntryAccounts(t)
BY DEF EntryAccounts, EntryOf, Updated

\* Every step of a request keeps count of the accounts it has bumped.
LEMMA NextBumps ==
    ASSUME IInv, AllBumpsOK, [Next]_vars
    PROVE  AllBumpsOK'
<1>0. /\ pc \in [Requests -> Stage] /\ tx \in [Requests -> Transaction]
      /\ \A q \in Requests : TxOK(pc[q], tx[q]) /\ BumpsOK(pc[q], tx[q])
  BY DEF IInv, TypeOK, AllBumpsOK
<1>1. ASSUME NEW r \in Requests, NEW stage, NEW t, GoTo(r, stage, t), BumpsOK(stage, t)
      PROVE  AllBumpsOK'
  <2>1. \A q \in Requests : IF q = r THEN pc'[q] = stage /\ tx'[q] = t
                                      ELSE pc'[q] = pc[q] /\ tx'[q] = tx[q]
    BY <1>0, <1>1 DEF GoTo
  <2>2. \A q \in Requests : BumpsOK(pc'[q], tx'[q])
    BY <1>0, <1>1, <2>1
  <2>. QED
    BY <2>2 DEF AllBumpsOK, BumpsOK, EntryAccounts, EntryOf, Updated
<1>2. ASSUME NEW r \in Requests, Leave(r)
      PROVE  AllBumpsOK'
  <2>1. BumpsOK("idle", NoTx)
    BY DEF BumpsOK
  <2>. QED
    BY <1>1, <1>2, <2>1 DEF Leave
<1>3. ASSUME NEW r \in Requests, Conflict(r)
      PROVE  AllBumpsOK'
  <2>1. \A t : BumpsOK("sleep", t)
    BY DEF BumpsOK
  <2>. QED
    BY <1>1, <1>2, <1>3, <2>1 DEF Conflict
<1>4. ASSUME NEW r \in Requests, NEW p, NEW to, NEW attempt, ReadPayment(r, p, to, attempt)
      PROVE  AllBumpsOK'
  <2> DEFINE t == NewTx(p, to, attempt, payments[p])
  <2>1. t.to = to /\ t.bumped = {}
    BY DEF NewTx
  <2>2. GoTo(r, FirstStage(p, to), t)
    BY <1>4 DEF ReadPayment
  <2> HIDE DEF t
  <2>3. BumpsOK(FirstStage(p, to), t)
    BY <2>1 DEF BumpsOK, FirstStage
  <2>. QED
    BY <1>1, <2>2, <2>3
<1>5. ASSUME NEW r \in Requests, NEW p \in Payments, InitiatePayment(r, p)
      PROVE  AllBumpsOK'
  <2> DEFINE t == NewTx(p, "initiated", 0, AbsentRow)
  <2>1. t.to = "initiated" /\ t.bumped = {} /\ GoTo(r, "enqueue", t)
    BY <1>5 DEF NewTx, InitiatePayment
  <2> HIDE DEF t
  <2>2. BumpsOK("enqueue", t)
    BY <2>1 DEF BumpsOK, MovesMoney
  <2>. QED
    BY <1>1, <2>1, <2>2
<1>6. ASSUME NEW r \in Requests, FetchRate(r)
      PROVE  AllBumpsOK'
  <2>1. ASSUME NEW rate, pc[r] = "rate", GoTo(r, "fx", [tx[r] EXCEPT !.fx_rate = rate])
        PROVE  AllBumpsOK'
    <3> DEFINE t == [tx[r] EXCEPT !.fx_rate = rate]
    <3>1. t.to = tx[r].to /\ t.bumped = tx[r].bumped
      BY <1>0 DEF Transaction
    <3>2. BumpsOK("fx", t)
      BY <1>0, <2>1, <3>1 DEF BumpsOK
    <3>. QED
      BY <1>1, <2>1, <3>2
  <2>. QED
    BY <1>2, <1>6, <2>1 DEF FetchRate
<1>7. ASSUME NEW r \in Requests, SetFxDetails(r)
      PROVE  AllBumpsOK'
  <2>1. pc[r] = "fx" => BumpsOK("versions", tx[r])
    BY <1>0 DEF BumpsOK
  <2>. QED
    BY <1>1, <1>2, <1>7, <2>1 DEF SetFxDetails
<1>8. ASSUME NEW r \in Requests, ReadVersions(r)
      PROVE  AllBumpsOK'
  <2> DEFINE v == [a \in Accounts |->
                     IF a \in EntryAccounts(tx[r]) THEN accountVersion[a] ELSE None]
             t == [tx[r] EXCEPT !.versions = v]
  <2>1. CASE Leave(r)
    BY <1>2, <2>1
  <2>2. CASE pc[r] = "versions" /\ GoTo(r, "bump", t)
    <3>1. /\ MovesMoney(tx[r].to) /\ tx[r].bumped = {} /\ tx[r].payment \in Payments
          /\ accountVersion \in [Accounts -> Nat]
      BY <1>0, <2>2 DEF BumpsOK, TxOK, IInv, TypeOK
    <3>2. /\ t.to = tx[r].to /\ t.bumped = {} /\ t.versions = v
          /\ t.payment = tx[r].payment /\ t.snap = tx[r].snap /\ t.fx_rate = tx[r].fx_rate
      BY <1>0, <3>1 DEF Transaction
    <3>3. {a \in Accounts : v[a] # None} = EntryAccounts(tx[r])
      BY <3>1, EntryAccountsAreAccounts, NoneAssumption
    <3>4. EntryAccounts(t) = EntryAccounts(tx[r])
      BY <3>2, SameEntry
    <3> HIDE DEF t, v
    <3>5. BumpsOK("bump", t)
      BY <3>1, <3>2, <3>3, <3>4 DEF BumpsOK
    <3>. QED
      BY <1>1, <2>2, <3>5
  <2>. QED
    BY <1>8, <2>1, <2>2 DEF ReadVersions, EntryAccounts
<1>9. ASSUME NEW r \in Requests, NEW a \in Accounts, BumpAccount(r, a)
      PROVE  AllBumpsOK'
  <2> DEFINE t == [tx[r] EXCEPT !.bumped = @ \cup {a}]
             stage == IF Pending(r) = {a} THEN "update" ELSE "bump"
  <2>1. CASE Conflict(r)
    BY <1>3, <2>1
  <2>2. CASE GoTo(r, stage, t)
    <3>1. /\ pc[r] = "bump" /\ a \in Pending(r) /\ MovesMoney(tx[r].to)
          /\ {b \in Accounts : tx[r].versions[b] # None} = EntryAccounts(tx[r])
          /\ tx[r].bumped \subseteq EntryAccounts(tx[r])
      BY <1>0, <1>9 DEF BumpAccount, BumpsOK
    <3>2. /\ t.to = tx[r].to /\ t.bumped = tx[r].bumped \cup {a}
          /\ t.versions = tx[r].versions
          /\ t.payment = tx[r].payment /\ t.snap = tx[r].snap /\ t.fx_rate = tx[r].fx_rate
      BY <1>0 DEF Transaction
    <3>3. EntryAccounts(t) = EntryAccounts(tx[r])
      BY <3>2, SameEntry
    <3>4. Pending(r) = EntryAccounts(tx[r]) \ tx[r].bumped
      BY <3>1 DEF Pending
    <3> HIDE DEF t
    <3>5. BumpsOK(stage, t)
      BY <3>1, <3>2, <3>3, <3>4 DEF BumpsOK
    <3>. QED
      BY <1>1, <2>2, <3>5
  <2>. QED
    BY <1>9, <2>1, <2>2 DEF BumpAccount
<1>10. ASSUME NEW r \in Requests, UpdatePaymentStatus(r)
       PROVE  AllBumpsOK'
  <2>1. pc[r] = "update" => BumpsOK("enqueue", tx[r])
    BY <1>0 DEF BumpsOK
  <2>. QED
    BY <1>1, <1>3, <1>10, <2>1 DEF UpdatePaymentStatus
<1>11. ASSUME NEW r \in Requests, EnqueueWebhooks(r)
       PROVE  AllBumpsOK'
  <2> DEFINE T == {s \in Subscriptions :
                   /\ subscribed[s] # None
                   /\ EventFilter[s] = {} \/ tx[r].to \in EventFilter[s]}
             t == [tx[r] EXCEPT !.targets = T]
  <2>1. /\ t.to = tx[r].to /\ t.bumped = tx[r].bumped
        /\ t.payment = tx[r].payment /\ t.snap = tx[r].snap /\ t.fx_rate = tx[r].fx_rate
    BY <1>0 DEF Transaction
  <2>2. pc[r] = "enqueue" /\ GoTo(r, "commit", t)
    BY <1>11 DEF EnqueueWebhooks
  <2>3. EntryAccounts(t) = EntryAccounts(tx[r])
    BY <2>1, SameEntry
  <2> HIDE DEF t
  <2>4. BumpsOK("commit", t)
    BY <1>0, <2>1, <2>2, <2>3 DEF BumpsOK
  <2>. QED
    BY <1>1, <2>2, <2>4
<1>12. CASE UNCHANGED <<pc, tx>>
  BY <1>12 DEF AllBumpsOK, BumpsOK, EntryAccounts, EntryOf, Updated
<1>. QED
  BY <1>2, <1>4, <1>5, <1>6, <1>7, <1>8, <1>9, <1>10, <1>11, <1>12
     DEF Next, Start, Advance, BeginTransition, Retry, CommitInitiation, CommitTransition,
         DeadlockAbort, Crash, Environment, CreateSubscription, BookRate, vars

\* No request has bumped anything at first.
LEMMA InitBumps == Init => AllBumpsOK
BY DEF Init, AllBumpsOK, BumpsOK

-----------------------------------------------------------------------------
(* Deadlocks.                                                               *)

\* Transaction t at some stage has bumped accounts that do not collide from the
\* lowest home slot up.
BumpsInOrder(stage, t) ==
    stage = "bump" /\ ~ Collision(EntryAccounts(t)) =>
        \A a \in t.bumped, b \in Accounts \ t.bumped :
            t.versions[b] # None => HomeSlot[a] < HomeSlot[b]

LocksInOrder == \A r \in Requests : BumpsInOrder(pc[r], tx[r])

\* The lines of an entry name two or four accounts (_settlement_lines,
\* _reversal_lines).
LEMMA EntryLineAccounts ==
    ASSUME NEW t, t.payment \in Payments
    PROVE  [i \in DOMAIN EntryOf(t).lines |-> EntryOf(t).lines[i].account_id] \in LineAccounts
<1>1. PICK lines : lines = EntryOf(t).lines
  OBVIOUS
<1>2. PICK p \in Payments : p = t.payment
  OBVIOUS
<1>3. Suspense \in Accounts /\ Terms[p].debtor \in Accounts /\ Terms[p].creditor \in Accounts
  BY TermsAssumption
<1>4. \E c : lines = SettlementLines(p, c) \/ lines = ReversalLines(p, c)
  BY <1>1, <1>2 DEF EntryOf, SettlementEntry, ReversalEntry, JournalEntry
<1>5. PICK c : lines = SettlementLines(p, c) \/ lines = ReversalLines(p, c)
  BY <1>4
<1>6. /\ DOMAIN lines = 1 .. 2 \/ DOMAIN lines = 1 .. 4
      /\ \A i \in DOMAIN lines : lines[i].account_id \in Accounts
  BY <1>3, <1>5 DEF SettlementLines, ReversalLines, JournalLine
<1>7. [i \in DOMAIN lines |-> lines[i].account_id] \in LineAccounts
  BY <1>6 DEF LineAccounts
<1>. QED
  BY <1>1, <1>7

\* Of accounts that do not collide, a bump loop comes next to the one with the
\* lowest home slot of those left.
LEMMA NextIsLowest ==
    ASSUME NEW r \in Requests, NEW a \in Pending(r), tx[r].payment \in Payments,
           Pending(r) \subseteq EntryAccounts(tx[r]),
           ~ Collision(EntryAccounts(tx[r])), IsNext(r, a)
    PROVE  \A b \in Pending(r) : HomeSlot[a] <= HomeSlot[b]
<1> DEFINE lines == EntryOf(tx[r]).lines
<1>1. PICK s \in LineAccounts : s = [i \in DOMAIN lines |-> lines[i].account_id]
  BY EntryLineAccounts
<1>2. Range(s) = EntryAccounts(tx[r])
  BY <1>1 DEF Range, EntryAccounts, account_ids
<1>3. \A b \in Pending(r) : TableSlot[s][a] <= TableSlot[s][b]
  BY <1>1 DEF IsNext
<1> HIDE DEF lines
<1>4. \A b \in Pending(r) : TableSlot[s][b] = HomeSlot[b]
  BY <1>2, TableAssumption
<1>. QED
  BY <1>3, <1>4

-----------------------------------------------------------------------------
\* A step of request r to a stage and a transaction in order keeps the order.
LEMMA OrderStep ==
    ASSUME IInv, LocksInOrder, NEW r \in Requests, NEW stage, NEW t,
           GoTo(r, stage, t), BumpsInOrder(stage, t)
    PROVE  LocksInOrder'
<1>1. pc' = [pc EXCEPT ![r] = stage] /\ tx' = [tx EXCEPT ![r] = t]
  BY DEF GoTo
<1>2. \A q \in Requests : IF q = r THEN pc'[q] = stage /\ tx'[q] = t
                                   ELSE pc'[q] = pc[q] /\ tx'[q] = tx[q]
  BY <1>1 DEF IInv, TypeOK
<1> SUFFICES ASSUME NEW q \in Requests PROVE BumpsInOrder(pc[q], tx[q])'
  BY DEF LocksInOrder
<1>3. BumpsInOrder(pc'[q], tx'[q])
  BY <1>2 DEF LocksInOrder
<1>. QED
  BY <1>3 DEF BumpsInOrder, EntryAccounts, EntryOf, Updated

\* A step of request r to a stage that is not the bump loop keeps the order.
LEMMA FreshStep ==
    ASSUME IInv, LocksInOrder, NEW r \in Requests, NEW stage, NEW t,
           stage # "bump", GoTo(r, stage, t)
    PROVE  LocksInOrder'
<1>1. BumpsInOrder(stage, t)
  BY DEF BumpsInOrder
<1>. QED
  BY <1>1, OrderStep

\* The ways in which an attempt ends or begins keep the order.
LEMMA LeaveInOrder ==
    ASSUME IInv, LocksInOrder, NEW r \in Requests, Leave(r) PROVE LocksInOrder'
BY FreshStep DEF Leave, NoTx

LEMMA ConflictInOrder ==
    ASSUME IInv, LocksInOrder, NEW r \in Requests, Conflict(r) PROVE LocksInOrder'
<1>1. CASE GoTo(r, "sleep", NewTx(tx[r].payment, tx[r].to, tx[r].attempt + 1, AbsentRow))
  BY <1>1, FreshStep
<1>. QED
  BY <1>1, LeaveInOrder DEF Conflict

LEMMA ReadInOrder ==
    ASSUME IInv, LocksInOrder, NEW r \in Requests, NEW p, NEW to, NEW attempt,
           ReadPayment(r, p, to, attempt)
    PROVE  LocksInOrder'
<1>1. FirstStage(p, to) # "bump"
  BY DEF FirstStage
<1>. QED
  BY <1>1, FreshStep DEF ReadPayment

\* Each account that is bumped has a higher home slot than those before it, when
\* the accounts do not collide (bump_account_version).
LEMMA BumpInOrder ==
    ASSUME IInv, AllBumpsOK, LocksInOrder, NEW r \in Requests, NEW a \in Accounts,
           BumpAccount(r, a)
    PROVE  LocksInOrder'
<1> DEFINE t == [tx[r] EXCEPT !.bumped = @ \cup {a}]
           stage == IF Pending(r) = {a} THEN "update" ELSE "bump"
<1>1. CASE GoTo(r, stage, t)
  <2>1. pc[r] = "bump" /\ a \in Pending(r) /\ IsNext(r, a)
    BY DEF BumpAccount
  <2>2. /\ tx[r] \in Transaction /\ tx[r].payment \in Payments
        /\ BumpsInOrder("bump", tx[r]) /\ BumpsOK("bump", tx[r])
    BY <2>1 DEF IInv, TxOK, LocksInOrder, AllBumpsOK
  <2>3. /\ t.bumped = tx[r].bumped \cup {a} /\ t.versions = tx[r].versions
        /\ t.payment = tx[r].payment /\ t.to = tx[r].to /\ t.snap = tx[r].snap
        /\ t.fx_rate = tx[r].fx_rate
    BY <2>2 DEF Transaction
  <2>4. EntryAccounts(t) = EntryAccounts(tx[r])
    BY <2>3, SameEntry
  <2>5. Pending(r) \subseteq EntryAccounts(tx[r]) /\ Pending(r) \subseteq Accounts
    BY <2>2 DEF BumpsOK, Pending
  <2> HIDE DEF t, stage
  <2>6. ASSUME ~ Collision(EntryAccounts(t)),
               NEW x \in t.bumped, NEW b \in Accounts \ t.bumped, t.versions[b] # None
        PROVE  HomeSlot[x] < HomeSlot[b]
    <3>1. b \in Pending(r) /\ b # a /\ b \in Accounts \ tx[r].bumped
      BY <2>3, <2>6 DEF Pending
    <3>2. CASE x = a
      <4>1. HomeSlot[a] <= HomeSlot[b]
        BY <2>1, <2>2, <2>4, <2>5, <2>6, <3>1, NextIsLowest
      <4>2. HomeSlot[a] # HomeSlot[b]
        BY <2>1, <2>4, <2>5, <2>6, <3>1 DEF Collision, Collide
      <4>. QED
        BY <2>5, <3>1, <3>2, <4>1, <4>2, TableAssumption
    <3>3. CASE x \in tx[r].bumped
      BY <2>2, <2>3, <2>4, <2>6, <3>1, <3>3 DEF BumpsInOrder
    <3>. QED
      BY <2>3, <3>2, <3>3
  <2>7. BumpsInOrder(stage, t)
    BY <2>6 DEF BumpsInOrder
  <2>. QED
    BY <1>1, <2>7, OrderStep
<1>. QED
  BY <1>1, ConflictInOrder DEF BumpAccount

\* Every step keeps the order.
LEMMA NextInOrder == IInv /\ AllBumpsOK /\ LocksInOrder /\ [Next]_vars => LocksInOrder'
<1> SUFFICES ASSUME IInv, AllBumpsOK, LocksInOrder, [Next]_vars PROVE LocksInOrder'
  OBVIOUS
<1>1. ASSUME NEW r \in Requests, Start(r) PROVE LocksInOrder'
  BY <1>1, FreshStep, ReadInOrder DEF Start, InitiatePayment, BeginTransition
<1>2. ASSUME NEW r \in Requests, Advance(r) PROVE LocksInOrder'
  <2>1. CASE ReadVersions(r)
    <3>1. ASSUME NEW v, GoTo(r, "bump", [tx[r] EXCEPT !.versions = v]) PROVE LocksInOrder'
      <4>1. tx[r] \in Transaction /\ tx[r].bumped = {}
        BY <2>1 DEF ReadVersions, IInv, TxOK, AllBumpsOK, BumpsOK
      <4>2. BumpsInOrder("bump", [tx[r] EXCEPT !.versions = v])
        BY <4>1 DEF BumpsInOrder, Transaction
      <4>. QED
        BY <3>1, <4>2, OrderStep
    <3>. QED
      BY <2>1, <3>1, LeaveInOrder DEF ReadVersions
  <2>2. CASE \E a \in Accounts : BumpAccount(r, a)
    BY <2>2, BumpInOrder
  <2>3. CASE Retry(r)
    BY <2>3, ReadInOrder, LeaveInOrder DEF Retry
  <2>4. CASE FetchRate(r) \/ SetFxDetails(r)
    BY <2>4, FreshStep, LeaveInOrder DEF FetchRate, SetFxDetails
  <2>5. CASE UpdatePaymentStatus(r) \/ EnqueueWebhooks(r)
    BY <2>5, FreshStep, ConflictInOrder DEF UpdatePaymentStatus, EnqueueWebhooks
  <2>6. CASE CommitInitiation(r) \/ CommitTransition(r)
    BY <2>6, LeaveInOrder DEF CommitInitiation, CommitTransition
  <2>. QED
    BY <1>2, <2>1, <2>2, <2>3, <2>4, <2>5, <2>6 DEF Advance
<1>3. ASSUME NEW r \in Requests, DeadlockAbort(r) \/ Crash(r) PROVE LocksInOrder'
  BY <1>3, LeaveInOrder DEF DeadlockAbort, Crash
<1>4. CASE Environment \/ UNCHANGED vars
  <2>1. UNCHANGED <<pc, tx>>
    BY <1>4 DEF Environment, CreateSubscription, BookRate, vars
  <2>. QED
    BY <2>1 DEF LocksInOrder, BumpsInOrder, EntryAccounts, EntryOf, Updated
<1>. QED
  BY <1>1, <1>2, <1>3, <1>4 DEF Next

-----------------------------------------------------------------------------
\* A set of natural numbers in which each member has a smaller one is empty.
LEMMA NoDescent ==
    ASSUME NEW T, T \subseteq Nat, \A n \in T : \E m \in T : m < n
    PROVE  T = {}
<1> SUFFICES ASSUME T # {} PROVE FALSE
  OBVIOUS
<1>1. PICK n \in T : \A m \in T : ~ (<<m, n>> \in OpToRel(<, Nat))
  BY NatLessThanWellFounded, WFMin, ZenonT(60)
<1>2. PICK m \in T : m < n
  OBVIOUS
<1>3. <<m, n>> \in OpToRel(<, Nat)
  BY <1>2 DEF OpToRel
<1>. QED
  BY <1>1, <1>3, ZenonT(60)

\* Without one of the two causes, the home slots of the accounts that the
\* requests of a cycle wait for would descend for ever.
LEMMA CycleHasCause ==
    ASSUME IInv, AllBumpsOK, LocksInOrder, NEW S \in SUBSET Waiting, IsCycle(S)
    PROVE  \E q \in S : LocksPaymentFirst(q) \/ Collision(EntryAccounts(tx[q]))
<1> SUFFICES ASSUME \A q \in S : ~ LocksPaymentFirst(q) /\ ~ Collision(EntryAccounts(tx[q]))
             PROVE  FALSE
  OBVIOUS
<1>1. \A q \in S : /\ q \in Requests /\ pc[q] \in {"fx", "bump", "update"}
                   /\ TxOK(pc[q], tx[q]) /\ BumpsInOrder(pc[q], tx[q])
  BY DEF Waiting, IInv, LocksInOrder
<1>2. \A q \in S : \A p : ~ HoldsPayment(q, p)
  BY <1>1 DEF HoldsPayment, TxOK, FxOK, LocksPaymentFirst
<1>3. \A q, q2 \in S : WaitsFor(q, q2) =>
        /\ pc[q] = "bump"
        /\ \E a \in Pending(q) : IsNext(q, a) /\ a \in tx[q2].bumped
  BY <1>2 DEF WaitsFor, HoldsAccount
<1>4. \A q \in S : pc[q] = "bump"
  BY <1>3 DEF IsCycle
<1> DEFINE Awaited(q) == {a \in Pending(q) : IsNext(q, a)}
           T == {HomeSlot[a] : a \in UNION {Awaited(q) : q \in S}}
<1>5. \A q \in S : \A a \in Awaited(q) : a \in Accounts
  BY DEF Pending
<1>6. T \subseteq Nat
  BY <1>5, TableAssumption
<1>7. ASSUME NEW q \in S, NEW a \in Awaited(q)
      PROVE  \E q2 \in S : \E b \in Awaited(q2) : HomeSlot[b] < HomeSlot[a]
  <2>1. PICK q2 \in S : WaitsFor(q2, q)
    BY DEF IsCycle
  <2>2. PICK b \in Awaited(q2) : b \in tx[q].bumped
    BY <1>3, <2>1
  <2>3. a \in Accounts \ tx[q].bumped /\ tx[q].versions[a] # None
    BY <1>7 DEF Pending
  <2>4. HomeSlot[b] < HomeSlot[a]
    BY <1>1, <1>4, <2>2, <2>3 DEF BumpsInOrder
  <2>. QED
    BY <2>4
<1>8. \A n \in T : \E m \in T : m < n
  <2> SUFFICES ASSUME NEW q \in S, NEW a \in Awaited(q) PROVE \E m \in T : m < HomeSlot[a]
    OBVIOUS
  <2>1. PICK q2 \in S : \E b \in Awaited(q2) : HomeSlot[b] < HomeSlot[a]
    BY <1>7
  <2>. QED
    BY <2>1
<1>9. T # {}
  <2>1. PICK q \in S : TRUE
    BY DEF IsCycle
  <2>2. PICK a \in Awaited(q) : TRUE
    BY <1>3, <2>1 DEF IsCycle
  <2>. QED
    BY <2>2
<1> HIDE DEF T
<1>. QED
  BY <1>6, <1>8, <1>9, NoDescent

\* Whatever the hashes of the account ids, requests deadlock only when one of
\* them settles across currencies, which locks the payment before the accounts
\* (set_fx_details), or goes through accounts that collide in its frozenset
\* (_transition_with_ledger_entry).
THEOREM DeadlocksHaveACause == Spec => []DeadlockExplained
<1>1. Init => AllBumpsOK /\ LocksInOrder
  BY InitBumps DEF Init, LocksInOrder, BumpsInOrder
<1>2. IInv /\ AllBumpsOK /\ LocksInOrder /\ [Next]_vars => (AllBumpsOK /\ LocksInOrder)'
  BY NextBumps, NextInOrder
<1>3. IInv /\ AllBumpsOK /\ LocksInOrder => DeadlockExplained
  BY CycleHasCause DEF DeadlockExplained, EntryAccounts
<1>. QED
  BY <1>1, <1>2, <1>3, Inductive, PTL DEF Spec
=============================================================================
