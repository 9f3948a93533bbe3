------------------------ MODULE PaymentTransitions ------------------------
(***************************************************************************)
(* The payment lifecycle of the instant payment ledger: HTTP requests that *)
(* run concurrently, each one a sequence of READ COMMITTED PostgreSQL      *)
(* transactions guarded by optimistic version checks and retried on a      *)
(* conflict (app/domain/payments/services.py and the repositories).        *)
(*                                                                         *)
(* Every SQL statement that reads or locks shared rows is a step of its    *)
(* own, so requests interleave between any two of them.  What a            *)
(* transaction writes stays private to it, in tx[r], until Commit applies  *)
(* it at once; the row locks its UPDATEs take are derived from how far it  *)
(* got (HoldsPayment, HoldsAccount).                                       *)
(*                                                                         *)
(* A definition F_Xxx placed before F is a mutant of F, a plausible bug    *)
(* that a property must catch; the specification uses none of them.        *)
(***************************************************************************)
EXTENDS JournalEntries

CONSTANTS
    Payments,        \* payment ids, each one given to at most one payment
    Accounts,        \* account ids
    Requests,        \* slots for requests in flight; a finished one is reused
    Subscriptions,   \* webhook subscriptions that may be created
    None,            \* NULL
    Terms,           \* Terms[p]: debtor, creditor, amount, currency of p
    AccountCurrency, \* AccountCurrency[a]: the currency column of account a
    Suspense,        \* the FX-SUSPENSE account
    Rates,           \* rates the feed may book, times RateScale
    RateScale,
    QuotedPairs,     \* currency pairs the feed books rates for
    InitialRate,     \* the seeded rate of each currency pair, or None
    MaxNumeric,      \* the largest amount of a Numeric(18,2) column
    MaxAttempts,     \* max_attempts of the optimistic retry loop
    HomeSlot,        \* HomeSlot[a]: hash(a) & 7, the slot that a frozenset of
                     \* up to four ids, a table of eight slots, tries first
    TableSlot,       \* TableSlot[s][a]: the slot that holds account a when the
                     \* accounts of s were inserted in that order
    EventFilter      \* EventFilter[s]: event types s asked for, {} for all

Currencies == {AccountCurrency[a] : a \in Accounts}

ASSUME TermsAssumption ==
    /\ Suspense \in Accounts
    /\ \A p \in Payments :
         /\ Terms[p].debtor \in Accounts
         /\ Terms[p].creditor \in Accounts
         /\ Terms[p].amount \in Int
ASSUME RatesAssumption ==
    /\ Rates \subseteq Nat
    /\ RateScale \in Nat \ {0}
    /\ MaxNumeric \in Nat
    /\ QuotedPairs \subseteq Currencies \X Currencies
    /\ InitialRate \in [Currencies \X Currencies -> Rates \cup {None}]
ASSUME AttemptsAssumption == MaxAttempts \in Nat \ {0}

\* The point in p's history at which a subscription is created: the rows that
\* are there, and whether a transition is committing that has already listed
\* the subscriptions.  It stands for the created_at column.
CreationPoint == [rows : Nat, racing : BOOLEAN]

ASSUME NoneAssumption ==
    /\ None \notin Int
    /\ None \notin Payments
    /\ None \notin [Payments -> CreationPoint]

\* The accounts that the lines of an entry name: two lines, or four with FX.
LineAccounts == [1 .. 2 -> Accounts] \cup [1 .. 4 -> Accounts]

\* Two accounts that want the same slot: the one inserted later is moved to
\* another, so which of them a loop over the set meets first depends on the
\* order in which the lines name them.
Collide(a, b) == a # b /\ HomeSlot[a] = HomeSlot[b]

Collision(S) == \E a, b \in S : Collide(a, b)

\* What a hash table does: ids have slots of their own, and an id is moved from
\* its home only by a collision.
ASSUME TableAssumption ==
    /\ \A a \in Accounts : HomeSlot[a] \in 0 .. 7
    /\ \A s \in LineAccounts :
         /\ \A a \in Range(s) : TableSlot[s][a] \in 0 .. 7
         /\ \A a, b \in Range(s) : TableSlot[s][a] = TableSlot[s][b] => a = b
         /\ ~ Collision(Range(s)) => \A a \in Range(s) : TableSlot[s][a] = HomeSlot[a]

\* The statuses of a payment; "absent" stands for one whose row does not exist.
PaymentStatus == {"initiated", "authorised", "settled", "reversed", "failed"}
Status == PaymentStatus \cup {"absent"}

ALLOWED_TRANSITIONS ==
    [s \in Status |->
        CASE s = "initiated"  -> {"authorised", "failed"}
          [] s = "authorised" -> {"settled", "failed"}
          [] s = "settled"    -> {"reversed"}
          [] OTHER            -> {}]

VARIABLES
    (* The committed contents of the database. *)
    payments,        \* payments[p]: the mutable columns of p's row
    accountVersion,  \* accountVersion[a]: the version column of account a
    journal,         \* journal[p]: the entries posted for p, in commit order
    history,         \* history[p]: p's status history rows
    deliveries,      \* deliveries[p][s]: webhook rows queued for s about p
    subscribed,      \* subscribed[s]: when s was created, or None
    latestRate,      \* latestRate[pair]: what get_latest_rate returns
    (* The requests in flight. *)
    pc,              \* pc[r]: the statement request r executes next
    tx               \* tx[r]: what r has read and written so far

db == <<payments, accountVersion, journal, history, deliveries>>
vars == <<payments, accountVersion, journal, history, deliveries,
          subscribed, latestRate, pc, tx>>

Stage == {"idle", "sleep", "rate", "fx", "versions", "bump", "update",
          "enqueue", "commit"}

NewRow(status) ==
    [status |-> status, version |-> 0, creditor_amount |-> None, fx_rate |-> None]

AbsentRow == NewRow("absent")

\* A transaction that has read `snap' and done nothing else yet, and the state
\* of a request that has none.
NewTx(p, to, attempt, snap) ==
    [payment |-> p, to |-> to, attempt |-> attempt, snap |-> snap,
     fx_rate |-> None, versions |-> [a \in Accounts |-> None], bumped |-> {}, targets |-> {}]

NoTx == NewTx(None, "absent", 0, AbsentRow)

-----------------------------------------------------------------------------
(* What a transition writes, computed from what its transaction has read.   *)

IsFx(p) == AccountCurrency[Terms[p].debtor] # AccountCurrency[Terms[p].creditor]

\* The creditor amount that a rate gives for p.
CreditorAmount(p, rate) == convert_amount(Terms[p].amount, rate, RateScale)

\* Debtor to creditor directly, or two balanced pairs bridged by the suspense
\* account when the currencies differ.
SettlementLines(p, creditor_amount) ==
    LET t == Terms[p]
        debtorCcy == AccountCurrency[t.debtor]
        creditorCcy == AccountCurrency[t.creditor]
    IN  IF ~ IsFx(p)
        THEN << JournalLine(t.debtor, "debit", t.amount, t.currency),
                JournalLine(t.creditor, "credit", t.amount, t.currency) >>
        ELSE << JournalLine(t.debtor, "debit", t.amount, debtorCcy),
                JournalLine(Suspense, "credit", t.amount, debtorCcy),
                JournalLine(Suspense, "debit", creditor_amount, creditorCcy),
                JournalLine(t.creditor, "credit", creditor_amount, creditorCcy) >>

\* Mutant: a reversal that repeats the settlement instead of mirroring it.
ReversalLines_NotMirrored(p, creditor_amount) == SettlementLines(p, creditor_amount)

\* The mirror image, at the creditor amount that was booked at settlement.
ReversalLines(p, creditor_amount) ==
    LET t == Terms[p]
        debtorCcy == AccountCurrency[t.debtor]
        creditorCcy == AccountCurrency[t.creditor]
    IN  IF creditor_amount = None
        THEN << JournalLine(t.creditor, "debit", t.amount, t.currency),
                JournalLine(t.debtor, "credit", t.amount, t.currency) >>
        ELSE << JournalLine(Suspense, "debit", t.amount, debtorCcy),
                JournalLine(t.debtor, "credit", t.amount, debtorCcy),
                JournalLine(t.creditor, "debit", creditor_amount, creditorCcy),
                JournalLine(Suspense, "credit", creditor_amount, creditorCcy) >>

SettlementEntry(p, creditor_amount) ==
    JournalEntry(IF IsFx(p) THEN "fx_conversion" ELSE "transfer",
                 SettlementLines(p, creditor_amount))

ReversalEntry(p, creditor_amount) ==
    JournalEntry(IF creditor_amount = None THEN "reversal" ELSE "fx_conversion_reversal",
                 ReversalLines(p, creditor_amount))

\* The payment as transaction t will leave it: `replace(payment, ...)' of the
\* row it read, with the FX fields it booked, if any.
Updated(t) ==
    [status |-> t.to,
     version |-> t.snap.version + 1,
     creditor_amount |-> IF t.fx_rate = None THEN t.snap.creditor_amount
                         ELSE CreditorAmount(t.payment, t.fx_rate),
     fx_rate |-> IF t.fx_rate = None THEN t.snap.fx_rate ELSE t.fx_rate]

\* Mutant: a reversal priced at the rate of the day.
EntryOf_RepricedReversal(t) ==
    LET pair == <<AccountCurrency[Terms[t.payment].debtor],
                  AccountCurrency[Terms[t.payment].creditor]>>
    IN  IF t.to = "settled"
        THEN SettlementEntry(t.payment, Updated(t).creditor_amount)
        ELSE ReversalEntry(t.payment, CreditorAmount(t.payment, latestRate[pair]))

\* The journal entry that transaction t posts.
EntryOf(t) ==
    IF t.to = "settled"
    THEN SettlementEntry(t.payment, Updated(t).creditor_amount)
    ELSE ReversalEntry(t.payment, t.snap.creditor_amount)

MovesMoney(to) == to \in {"settled", "reversed"}

-----------------------------------------------------------------------------
(* Row locks.  An UPDATE holds its row until the transaction ends.          *)

HoldsPayment(r, p) ==
    /\ tx[r].payment = p
    /\ \/ pc[r] \in {"enqueue", "commit"}
       \/ pc[r] \in {"versions", "bump", "update"} /\ tx[r].fx_rate # None

HoldsAccount(r, a) == a \in tx[r].bumped

PaymentFree(r) == \A q \in Requests \ {r} : ~ HoldsPayment(q, tx[r].payment)
AccountFree(r, a) == \A q \in Requests \ {r} : ~ HoldsAccount(q, a)

\* The accounts of r's entry still to be bumped, and the one its loop over the
\* frozenset of account ids comes to next.
Pending(r) == {a \in Accounts : tx[r].versions[a] # None} \ tx[r].bumped

\* Mutant: the accounts in the order of the entry's lines.
IsNext_LineOrder(r, a) ==
    LET lines == EntryOf(tx[r]).lines
        Line(b) == Min({i \in DOMAIN lines : lines[i].account_id = b})
    IN  \A b \in Pending(r) : Line(a) <= Line(b)

IsNext(r, a) ==
    LET lines == EntryOf(tx[r]).lines
        slot == TableSlot[[i \in DOMAIN lines |-> lines[i].account_id]]
    IN  \A b \in Pending(r) : slot[a] <= slot[b]

-----------------------------------------------------------------------------
(* The steps of a request.                                                  *)

GoTo(r, stage, t) ==
    /\ pc' = [pc EXCEPT ![r] = stage]
    /\ tx' = [tx EXCEPT ![r] = t]

\* The request ends, with a response or an error; its transaction, if one is
\* open, rolls back.
Leave(r) == GoTo(r, "idle", NoTx)

\* Mutants: one attempt too many; a conflict retried inside its transaction.
Conflict_OneTooMany(r) ==
    \/ /\ tx[r].attempt < MaxAttempts
       /\ GoTo(r, "sleep", NewTx(tx[r].payment, tx[r].to, tx[r].attempt + 1, AbsentRow))
    \/ /\ tx[r].attempt = MaxAttempts
       /\ Leave(r)
Conflict_RetriesInPlace(r) == GoTo(r, pc[r], tx[r])

\* A version check failed: roll back, then back off and try again, or give up
\* after max_attempts.
Conflict(r) ==
    \/ /\ tx[r].attempt < MaxAttempts - 1
       /\ GoTo(r, "sleep", NewTx(tx[r].payment, tx[r].to, tx[r].attempt + 1, AbsentRow))
    \/ /\ tx[r].attempt = MaxAttempts - 1
       /\ Leave(r)

\* _validate_new_payment, _assert_debtor_currency_matches and the column's range.
ValidTerms(p) ==
    /\ Terms[p].amount \in 1 .. MaxNumeric
    /\ Terms[p].debtor # Terms[p].creditor
    /\ AccountCurrency[Terms[p].debtor] = Terms[p].currency

\* create_payment: a new row under a fresh id, invisible until the commit.
\* A request that fails validation leaves no trace.
InitiatePayment(r, p) ==
    /\ pc[r] = "idle"
    /\ payments[p].status = "absent"
    /\ \A q \in Requests : tx[q].payment # p
    /\ ValidTerms(p)
    /\ GoTo(r, "enqueue", NewTx(p, "initiated", 0, AbsentRow))
    /\ UNCHANGED <<db, subscribed, latestRate>>

\* Mutant: a reversal fetches and books a rate too.
FirstStage_ReversalBooksRate(p, to) ==
    IF ~ MovesMoney(to) THEN "update"
    ELSE IF IsFx(p) THEN "rate"
    ELSE "versions"

\* Where an attempt goes once the payment is read and the transition allowed.
FirstStage(p, to) ==
    IF ~ MovesMoney(to) THEN "update"
    ELSE IF to = "settled" /\ IsFx(p) THEN "rate"
    ELSE "versions"

\* Mutant: assert_transition_allowed left out.
ReadPayment_Unchecked(r, p, to, attempt) ==
    /\ payments[p].status # "absent"
    /\ GoTo(r, FirstStage(p, to), NewTx(p, to, attempt, payments[p]))

\* get_payment and assert_transition_allowed, the start of every attempt.
ReadPayment(r, p, to, attempt) ==
    /\ to \in ALLOWED_TRANSITIONS[payments[p].status]
    /\ GoTo(r, FirstStage(p, to), NewTx(p, to, attempt, payments[p]))

BeginTransition(r, p, to) ==
    /\ pc[r] = "idle"
    /\ ReadPayment(r, p, to, 0)
    /\ UNCHANGED <<db, subscribed, latestRate>>

\* The backoff is over: a new transaction reads the payment afresh, and the
\* transition may no longer be allowed.
Retry(r) ==
    /\ pc[r] = "sleep"
    /\ \/ ReadPayment(r, tx[r].payment, tx[r].to, tx[r].attempt)
       \/ /\ tx[r].to \notin ALLOWED_TRANSITIONS[payments[tx[r].payment].status]
          /\ Leave(r)
    /\ UNCHANGED <<db, subscribed, latestRate>>

\* get_latest_rate; FxRateNotFoundError when the pair has no rate.
FetchRate(r) ==
    LET t == Terms[tx[r].payment]
        rate == latestRate[<<AccountCurrency[t.debtor], AccountCurrency[t.creditor]>>]
    IN  /\ pc[r] = "rate"
        /\ \/ /\ rate # None
              /\ GoTo(r, "fx", [tx[r] EXCEPT !.fx_rate = rate])
           \/ /\ rate = None
              /\ Leave(r)
        /\ UNCHANGED <<db, subscribed, latestRate>>

\* set_fx_details: an UPDATE with no version check, which locks the payment's
\* row, and fails when the amount does not fit the column.
SetFxDetails(r) ==
    /\ pc[r] = "fx"
    /\ \/ /\ PaymentFree(r)
          /\ CreditorAmount(tx[r].payment, tx[r].fx_rate) <= MaxNumeric
          /\ GoTo(r, "versions", tx[r])
       \/ /\ CreditorAmount(tx[r].payment, tx[r].fx_rate) > MaxNumeric
          /\ Leave(r)
    /\ UNCHANGED <<db, subscribed, latestRate>>

\* validate_journal_entry, get_account_versions and insert_journal_entry.
ReadVersions(r) ==
    /\ pc[r] = "versions"
    /\ \/ /\ validate_journal_entry(EntryOf(tx[r]).lines)
          /\ GoTo(r, "bump",
                  [tx[r] EXCEPT !.versions = [a \in Accounts |->
                      IF a \in account_ids(EntryOf(tx[r]).lines)
                      THEN accountVersion[a] ELSE None]])
       \/ /\ ~ validate_journal_entry(EntryOf(tx[r]).lines)
          /\ Leave(r)
    /\ UNCHANGED <<db, subscribed, latestRate>>

\* Mutant: the loop ends after its first account.
BumpAccount_FirstOnly(r, a) ==
    /\ pc[r] = "bump"
    /\ a \in Pending(r)
    /\ IsNext(r, a)
    /\ \/ /\ accountVersion[a] = tx[r].versions[a]
          /\ AccountFree(r, a)
          /\ GoTo(r, "update", [tx[r] EXCEPT !.bumped = @ \cup {a}])
       \/ /\ accountVersion[a] # tx[r].versions[a]
          /\ Conflict(r)
    /\ UNCHANGED <<db, subscribed, latestRate>>

\* bump_account_version on the next account.  The UPDATE matches only the
\* version that was read: a committed version that differs is a conflict at
\* once, a matching row that another transaction has updated blocks.
BumpAccount(r, a) ==
    /\ pc[r] = "bump"
    /\ a \in Pending(r)
    /\ IsNext(r, a)
    /\ \/ /\ accountVersion[a] = tx[r].versions[a]
          /\ AccountFree(r, a)
          /\ GoTo(r, IF Pending(r) = {a} THEN "update" ELSE "bump",
                  [tx[r] EXCEPT !.bumped = @ \cup {a}])
       \/ /\ accountVersion[a] # tx[r].versions[a]
          /\ Conflict(r)
    /\ UNCHANGED <<db, subscribed, latestRate>>

\* Mutant: the UPDATE does not compare the version.
UpdatePaymentStatus_NoVersionCheck(r) ==
    /\ pc[r] = "update"
    /\ PaymentFree(r)
    /\ GoTo(r, "enqueue", tx[r])
    /\ UNCHANGED <<db, subscribed, latestRate>>

\* update_payment_status, guarded the same way by the payment's version.
UpdatePaymentStatus(r) ==
    /\ pc[r] = "update"
    /\ \/ /\ payments[tx[r].payment].version = tx[r].snap.version
          /\ PaymentFree(r)
          /\ GoTo(r, "enqueue", tx[r])
       \/ /\ payments[tx[r].payment].version # tx[r].snap.version
          /\ Conflict(r)
    /\ UNCHANGED <<db, subscribed, latestRate>>

\* Mutant: a subscription without a filter is taken to want nothing.
EnqueueWebhooks_NoFilterNoEvents(r) ==
    /\ pc[r] = "enqueue"
    /\ GoTo(r, "commit",
            [tx[r] EXCEPT !.targets = {s \in Subscriptions :
                subscribed[s] # None /\ tx[r].to \in EventFilter[s]}])
    /\ UNCHANGED <<db, subscribed, latestRate>>

\* enqueue_payment_webhook_event: one delivery per active subscription that
\* wants the event.
EnqueueWebhooks(r) ==
    /\ pc[r] = "enqueue"
    /\ GoTo(r, "commit",
            [tx[r] EXCEPT !.targets = {s \in Subscriptions :
                /\ subscribed[s] # None
                /\ EventFilter[s] = {} \/ tx[r].to \in EventFilter[s]}])
    /\ UNCHANGED <<db, subscribed, latestRate>>

\* The delivery rows of transaction t, carrying `row' as their payload.
QueueDeliveries(t, row) ==
    deliveries' = [deliveries EXCEPT ![t.payment] =
        [s \in Subscriptions |-> IF s \in t.targets THEN Append(@[s], row) ELSE @[s]]]

CommitInitiation(r) ==
    LET t == tx[r]
        row == NewRow("initiated")
    IN  /\ pc[r] = "commit"
        /\ t.to = "initiated"
        /\ payments' = [payments EXCEPT ![t.payment] = row]
        /\ history' = [history EXCEPT ![t.payment] =
                          Append(@, [from |-> None, to |-> "initiated"])]
        /\ QueueDeliveries(t, row)
        /\ Leave(r)
        /\ UNCHANGED <<accountVersion, journal, subscribed, latestRate>>

\* Mutant: the FX columns are not written.
WrittenRow_NoFxDetails(t) ==
    [payments[t.payment] EXCEPT !.status = t.to, !.version = @ + 1]

\* What the UPDATEs of transaction t make of the row as it is in the table.
WrittenRow(t) ==
    LET row == payments[t.payment]
    IN  [status |-> t.to,
         version |-> row.version + 1,
         creditor_amount |-> IF t.fx_rate = None THEN row.creditor_amount
                             ELSE CreditorAmount(t.payment, t.fx_rate),
         fx_rate |-> IF t.fx_rate = None THEN row.fx_rate ELSE t.fx_rate]

CommitTransition(r) ==
    LET t == tx[r]
    IN  /\ pc[r] = "commit"
        /\ t.to # "initiated"
        /\ payments' = [payments EXCEPT ![t.payment] = WrittenRow(t)]
        /\ accountVersion' = [a \in Accounts |->
              IF a \in t.bumped THEN accountVersion[a] + 1 ELSE accountVersion[a]]
        /\ journal' = [journal EXCEPT ![t.payment] =
              IF MovesMoney(t.to) THEN Append(@, EntryOf(t)) ELSE @]
        /\ history' = [history EXCEPT ![t.payment] =
              Append(@, [from |-> t.snap.status, to |-> t.to])]
        /\ QueueDeliveries(t, Updated(t))
        /\ Leave(r)
        /\ UNCHANGED <<subscribed, latestRate>>

-----------------------------------------------------------------------------
(* What goes wrong.                                                         *)

\* r's UPDATE waits for the row that q has updated.
WaitsFor(r, q) ==
    /\ q # r
    /\ \/ /\ pc[r] = "fx"
          /\ HoldsPayment(q, tx[r].payment)
       \/ /\ pc[r] = "update"
          /\ payments[tx[r].payment].version = tx[r].snap.version
          /\ HoldsPayment(q, tx[r].payment)
       \/ /\ pc[r] = "bump"
          /\ \E a \in Pending(r) :
               /\ IsNext(r, a)
               /\ accountVersion[a] = tx[r].versions[a]
               /\ HoldsAccount(q, a)

\* A cycle of waiting requests: each member waits for a member and is waited
\* for by one (a row has one holder, so nobody waits for two).
IsCycle(S) ==
    /\ S # {}
    /\ \A q \in S : \E q2 \in S : WaitsFor(q, q2)
    /\ \A q \in S : \E q2 \in S : WaitsFor(q2, q)

Waiting == {q \in Requests : pc[q] \in {"fx", "bump", "update"}}

Deadlocked(r) == \E S \in SUBSET Waiting : r \in S /\ IsCycle(S)

\* PostgreSQL cancels a transaction of a deadlock; no handler catches the
\* error, so the request ends with a 500 and is not retried.
DeadlockAbort(r) ==
    /\ Deadlocked(r)
    /\ Leave(r)
    /\ UNCHANGED <<db, subscribed, latestRate>>

\* The process dies, or the client's connection does, at any point of a
\* request: an open transaction rolls back.
Crash(r) ==
    /\ pc[r] # "idle"
    /\ Leave(r)
    /\ UNCHANGED <<db, subscribed, latestRate>>

-----------------------------------------------------------------------------
(* The environment.                                                         *)

CreateSubscription(s) ==
    /\ subscribed[s] = None
    /\ subscribed' = [subscribed EXCEPT ![s] = [p \in Payments |->
          [rows |-> Len(history[p]),
           racing |-> \E r \in Requests : pc[r] = "commit" /\ tx[r].payment = p]]]
    /\ UNCHANGED <<db, latestRate, pc, tx>>

\* Something outside this code books a new rate.
BookRate(pair, rate) ==
    /\ latestRate' = [latestRate EXCEPT ![pair] = rate]
    /\ UNCHANGED <<db, subscribed, pc, tx>>

Init ==
    /\ payments = [p \in Payments |-> AbsentRow]
    /\ accountVersion = [a \in Accounts |-> 0]
    /\ journal = [p \in Payments |-> <<>>]
    /\ history = [p \in Payments |-> <<>>]
    /\ deliveries = [p \in Payments |-> [s \in Subscriptions |-> <<>>]]
    /\ subscribed = [s \in Subscriptions |-> None]
    /\ latestRate = InitialRate
    /\ pc = [r \in Requests |-> "idle"]
    /\ tx = [r \in Requests |-> NoTx]

\* A step of request r that takes it further.
Advance(r) ==
    \/ Retry(r)
    \/ FetchRate(r)
    \/ SetFxDetails(r)
    \/ ReadVersions(r)
    \/ \E a \in Accounts : BumpAccount(r, a)
    \/ UpdatePaymentStatus(r)
    \/ EnqueueWebhooks(r)
    \/ CommitInitiation(r)
    \/ CommitTransition(r)

Start(r) ==
    \E p \in Payments :
        \/ InitiatePayment(r, p)
        \/ \E to \in PaymentStatus : BeginTransition(r, p, to)

Environment ==
    \/ \E s \in Subscriptions : CreateSubscription(s)
    \/ \E pair \in QuotedPairs, rate \in Rates : BookRate(pair, rate)

Next ==
    \/ \E r \in Requests : Start(r) \/ Advance(r) \/ DeadlockAbort(r) \/ Crash(r)
    \/ Environment

Spec == Init /\ [][Next]_vars

\* A request keeps executing, the lock queue of a row is served in order, so a
\* waiter is not overtaken for ever, and the deadlock detector does run.
Fairness ==
    \A r \in Requests : SF_vars(Advance(r)) /\ WF_vars(DeadlockAbort(r))

FairSpec == Spec /\ Fairness
=============================================================================
