# Formal models of the instant payment ledger

TLA+ models of the payment ledger under `src/`, the TLC configurations that
check them on small instances, and TLAPS proofs of the most important results
for every instance. `PROJECT.json` lists the components, runs, mutants, the
map from definitions to source lines, findings, hazards and theorems.

## 1. The system

An HTTP API (FastAPI) over PostgreSQL, a worker process, and a batch job. All
shared state is in the database; in memory there is only the pool of database
connections. Every request opens one or more units of work, each a READ COMMITTED transaction; statements of
different requests interleave freely.

| Component | State it keeps | Operations | What makes it correct |
|---|---|---|---|
| Payment lifecycle (`domain/payments`) | `payments`, `payment_status_history` | initiate, authorise, fail, settle, reverse; optimistic version check, bounded retry | status and money move together, once, along the state machine |
| Ledger journal (`domain/ledger`) | `accounts.version`, `journal_entries`, `journal_lines` | validate, read versions, insert entry, bump versions, balance | double entry per currency; the version of an account sees every posting |
| FX (`domain/fx`) | `fx_rates`, `payments.fx_rate_id`, `creditor_amount` | latest rate, convert, book | a reversal undoes the booked amount, whatever the rate is now |
| Idempotent initiation | `idempotency_keys` | claim, replay, conflict, mismatch, complete | one payment per key, honest replays |
| Webhook outbox (`domain/webhooks/services.py`) | `webhook_subscriptions`, `webhook_deliveries` | subscribe, enqueue in the transition's transaction | exactly the committed transitions are announced |
| Webhook dispatch (`domain/webhooks/dispatch.py`, `workers/scheduler.py`) | status, attempt count and due time of deliveries | poll, POST, mark delivered / retry / dead letter | at-least-once, bounded attempts, nothing waits for ever |
| Reconciliation (`domain/reconciliation`) | settlement records, runs, breaks | parse file, list settled payments of a window, match, record | every difference is reported, each payment in one window |
| Unit of work, sessions, pool (`infra/db`) | open transactions, connections in use | connect, commit, rollback on error, pool timeout | atomicity of the above; a full pool recovers |
| Accounts API (`api/v1/accounts.py`) | `accounts` | create, read | one account per number; what was confirmed is found |
| ISO 20022 (`api/v1/iso20022.py`, `infra/iso20022`) | `payments`, through initiation | ingest pain.001, emit pacs.008 | answers match effects; what is announced reconciles |
| SGQR (`infra/qr`, `api/v1/qr.py`) | none | encode, decode, checksum | a code carries what was asked for; misreadings are detected |
| Schemas, config, shell, migrations | none | | not modelled, see section 8 |

Interaction: the payment services call the ledger, FX, idempotency and webhook
repositories inside their own transaction; the worker and the reconciliation
job only share tables with them. The pain.001 endpoint calls the payment services
while its own session is open. The reference of a pacs.008 message comes back in
the network's settlement file and meets the listing of the reconciliation there.

What is hard here: races between transitions of one payment and between
postings to one account; row locks taken by UPDATEs in different orders; an
FX update without a version check; a claim that commits before the work it
stands for; crashes between any two statements; POSTs whose answer is lost;
a listing limit; time stamps taken before the commit that makes them visible;
requests that hold one pooled connection and wait for another; clients that send
a message again; errors that no handler catches; one reference that is computed
in two places and normalised on one side.
The list with source lines is "hazards" in `PROJECT.json`.

## 2. Modules

| Module | Models |
|---|---|
| `JournalEntries` | pure operators: lines, entries, the double-entry rule, balances, conversion |
| `PaymentTransitions` | the requests that create payments and move them, statement by statement |
| `PaymentProperties` | the properties of `PaymentTransitions` |
| `PaymentLifecycle` | abstract specification: atomic lifecycle steps, the amount that settling books |
| `PaymentBalances` | `PaymentLifecycle` with the balances of all accounts |
| `PaymentRefinement`, `PaymentBalanceRefinement` | the refinement mappings from `PaymentTransitions` to these two |
| `PaymentProofs`, `PaymentHistoryProofs`, `PaymentRefinementProofs` | theorems about `PaymentTransitions`: ledger, FX and deadlocks; history, versions and outbox; the two refinements and the conservation of money |
| `Idempotency`, `IdempotencyProofs` | the two-phase claim of a key; theorems about it |
| `WebhookDispatch`, `WebhookDispatchProofs` | the worker's polling cycle; theorems about it |
| `Reconciliation`, `ReconciliationProofs` | runs over windows while payments settle, are announced and reversed; the file's normalisation; the matcher; theorems about them |
| `ApiRequests`, `ApiRequestsProofs` | account creation and pain.001 ingestion over the connection pool, with client retries; theorems about them |
| `Sgqr`, `SgqrProofs` | QR payloads: TLV encoding and decoding, the checksum, a scanner that misreads; theorems about them |
| `MC*` | constants for TLC |

The abstract specification is in two parts: `PaymentLifecycle` has the statuses and
the booked amounts, which the rows of `payments` give directly; `PaymentBalances` adds
the balances, which are sums over the journal. `PaymentBalanceRefinement` also states
what follows for the accounts together (`BooksBalance`).

Definitions named `F_Xxx` are mutants of the definition `F` that follows them:
plausible bugs. For each property of each passing run a mutant is listed under
which TLC finds the property violated.

### PaymentTransitions

A request `r` has a stage `pc[r]` (the statement it executes next) and `tx[r]`
(what its transaction has read and will write). The stages of a money-moving
attempt follow `_transition_with_ledger_entry`:

| Action | Code |
|---|---|
| `BeginTransition`, `Retry` | `get_payment`, `assert_transition_allowed`; `Retry` after the backoff sleep |
| `FetchRate` | `get_latest_rate` in `_settlement_lines`; ends the request when there is none |
| `SetFxDetails` | the unchecked UPDATE at the end of `_settlement_lines`; locks the payment row |
| `ReadVersions` | `validate_journal_entry`, `get_account_versions`, `insert_journal_entry` |
| `BumpAccount` | one iteration of the bump loop |
| `UpdatePaymentStatus` | the compare-and-set on the payment's version |
| `EnqueueWebhooks` | the SELECT of active subscriptions in `enqueue_payment_webhook_event` |
| `CommitTransition`, `CommitInitiation` | the commit: all writes of `tx[r]` appear at once, the trailing history and delivery rows included |
| `Conflict` | rollback, then sleep or give up after `max_attempts` |
| `DeadlockAbort` | PostgreSQL cancels a member of a lock cycle; nothing catches the error |
| `Crash` | the process or connection dies; the transaction rolls back |

`_transition_status_only` (authorise, fail) is the same with the ledger stages
left out (`FirstStage`). An UPDATE locks its row until the transaction ends;
the locks are derived from the stage (`HoldsPayment`, `HoldsAccount`). An UPDATE
whose WHERE clause does not match the committed version returns at once; one
that matches a row another transaction has updated waits.

The bump loop iterates over a `frozenset` of account ids. CPython iterates a set
in the order of its hash table, which has eight slots for up to four members.
`HomeSlot[a]` is the slot that account `a` hashes to, `TableSlot[s]` the table that
results when the accounts of the lines `s` are inserted in that order.
`TableAssumption` says what a hash table does: members have slots of their own, and
one is moved from its home only by a collision. Where accounts do not collide, the
order is that of their homes; where they do, it depends on who came first.

`subscribed[s]` is the point of each payment's history at which `s` was created,
and whether a transition was committing then that had already listed the
subscriptions; it stands for `created_at`.

Abstractions: amounts count cents and rates are integers over `RateScale`;
`fx_rate` stands for `fx_rate_id`; free text (reason, details, end-to-end id) and
response bodies are left out; a payment id belongs to at most one payment, and
its terms are a constant `Terms[p]`. A request that is refused by validation has
no effect and no action.

### Idempotency

`Receive` is everything before `begin_attempt`, `InsertKey` its INSERT ... ON
CONFLICT (which waits for an uncommitted row), `ReadExisting` its second SELECT
and the three outcomes (replay, 422 for another body, 409 while in progress),
`CommitClaim` the commit of phase 1, `CreatePayment` the debtor check and the
INSERT of phase 2, `CompleteAttempt` the UPDATE of the key and the commit.
`Crash` ends a call anywhere, and so does `Fail`: each phase takes a connection of
its own, the pool may have none in time, and a connection may be lost at any
statement. `Acceptable` and `Insertable` separate what the code checks before the
claim from what the tables refuse after it. `answered` and `lost` (the keys whose
owner ended by `Crash` or `Fail`) record what happened. A commit whose answer is
lost is not told from one that did not happen.

### WebhookDispatch

One cycle: `ListDue` and `ListSubscriptions` (two SELECTs), then for each listed
row `SkipInactive`, or `Send` and one of `MarkDelivered`, `MarkRetry`,
`MarkDeadLetter`; `EndCycle`. `Abort` is an exception or a crash anywhere in it.
Time is relative: `next_attempt_at` counts ticks from now; of overdue rows only
the order is kept, which is all the query uses. `sends`, `accepted`, `lost` and
`aborted` count what happened, for the properties.

### Reconciliation

`BeginSettle` stamps the history row (`now()` is the start of the transaction),
`CommitSettle` makes it visible, `ReversePayment` leaves it in place. `EmitPacs008`
gives out the message of a payment that is settled at that moment; its reference
is the client's end-to-end id or else the payment's id (`Pacs008`), a choice that
`list_settled_payments` makes once more (`LedgerPayment`).

A run starts on an uploaded file (`StartUploaded`) or on the file that the network
makes of the messages it has (`StartReported`, external). `StartRun` computes the
window, `ListSettled` runs the query, in any row order, `RecordRun` parses, matches
and commits. `SettlementRecord` is the normalisation of a row: references lose
the spaces around them, currencies become upper case. `ByRef` is the dict
comprehension of `match`: the last entry of a reference wins.

### ApiRequests

A request takes a connection from the pool at the first statement of a session
(`Connect`) and returns it when the transaction ends. It has up to two: `"session"`,
the one FastAPI injects, and `"uow"`, that of the unit of work. `held` says which;
`PoolTimeout` is the pool's refusal when it has none for 30 s.

| Action | Code |
|---|---|
| `ReceiveCreateAccount`, `InsertAccount`, `CommitAccount` | `create_account`: the INSERT, which waits for an uncommitted one of the same number, and the commit |
| `ReceivePain001` | `parse_pain001`, 400 if it raises; a client repeats its message while it has no answer, or a 500 |
| `LookupDebtor`, `LookupCreditor` | `get_account_by_number`; the second ends with `_validate_new_payment` |
| `CreatePayment`, `CommitPayment` | `_create_payment_within` and the commit of `initiate_payment` |
| `ReceiveOther`, `Serve` | any endpoint with one session, reads included |
| `Respond` | the answer; closing the sessions rolls back what is open |
| `Crash` | the API process dies; the pool starts empty |

Abstractions: a message is a record of the fields `parse_pain001` reads, absent or
blank ones `None`; amounts count tenths of a cent, so that the column's rounding
to cents can be seen. The history row and deliveries that come with a new payment
are in `PaymentTransitions`. Each status code stands where the code raises it,
500 for every error that no handler catches.

### Sgqr

Texts are sequences of character codes, and the checksum's register is the set of
its bits. `FieldsRead` is `parse_tlv`'s loop, field by field, and `Registers` the outer loop
of `_crc16_ccitt`, byte by byte; both are recursive functions, so that they can be
proved about. `Generate` is the endpoint: the schema's checks, `build_sgqr`'s errors
(422), a character outside ASCII (the checksum's `encode("ascii")` raises and
nothing catches it: 500), or the payload. `Scan` reads the payload as written,
with one character replaced, or with two neighbours exchanged, and verifies it, as
the integration test of the endpoint does. The account exists; the 404 for an
unknown one changes nothing. The image itself is left out.

## 3. Runs

| Run | Instance | Result |
|---|---|---|
| `transfers` | 2 payments with an account in common, the accounts of one collide and those of the other do not, 2 requests, 2 attempts, fairness | the journal, versions and history follow the statuses; statuses implement `PaymentLifecycle` and balances `PaymentBalances`; only requests on colliding accounts deadlock; every request ends, deadlocks happen and are broken |
| `cross_currency` | 1 FX payment, 2 requests, colliding accounts, rates converting to 0, 2, 3 and an overflow, no rate at first, a subscription created at any moment, unfiltered or for settled and failed | types, FX columns, frozen after settlement, balances that implement `PaymentBalances` (which contains `PaymentLifecycle`) and add up to zero; the outbox has the wanted transitions since its subscription's creation |
| `deadlock_transfers` | 2 opposite payments between colliding accounts, 2 requests | violation: opposite transfers deadlock |
| `idempotency` | 3 calls, 2 keys, 3 bodies, fairness | safety of keys and answers; every call ends |
| `orphaned_key` | 2 calls, a body the table refuses | violation: a key orphaned without a crash |
| `dispatch` | 2 deliveries, limit 2, 3 attempts, capped backoff, 1 aborted cycle, fairness | accounting, freshness of the listing, finality, eventual outcome |
| `starved_queue` | limit 1, one subscription deactivated | violation: an active subscription is never served |
| `reconciliation` | 3 payments: an end-to-end id, none, one with a space; 2 runs, 8 uploaded files and those made of pacs.008 messages, window 1, clock to 2 | differences reported, false alarms only of the spaced reference, announced payments reconcile, windows exact |
| `shared_reference` | 2 payments with one end-to-end id | violation: a wrong amount goes unreported |
| `api_requests` | 3 requests, 2 connections, 3 numbers, 2 creations, 9 messages, fairness | answers match effects, payments valid, confirmed accounts found, the pool stalls only on pain.001 and recovers |
| `pain001_retry` | 2 requests, 1 message | violation: a repeated message pays twice |
| `sgqr` | 4 accounts, 3 cities, 5 amounts, every single misreading by 3 characters, every exchange of neighbours | codes read back, misreadings are detected, the checksum is the EMVCo remainder |

Bounds and why they suffice. The two payments of `transfers` meet on an account, and
a settle and a reversal of either go through its accounts in opposite orders
of its lines, so every pair of transitions collides, on a payment or on an account. Two
request slots, which are reused, let any number of requests act between the read
and the write of a slow one; cycles of three and more are left to
`DeadlocksHaveACause`, as all that `transfers` checks but liveness is proved for any
number of requests. `MaxAttempts` = 2 reaches retry and giving up. `cross_currency` has
the state constraint `OneSubscription`: what one subscription is sent does not depend
on another, so it is enough that one is created, with a filter or without. The FX rates
cover a conversion to zero (refused by the double-entry rule), two conversions that
round up, one of them a half, and one above `MaxNumeric`. Two keys and three calls give a claim, its
concurrent duplicate and a later replay. Three delivery attempts reach the cap of
the backoff and the dead letter; `MaxLag` and `MaxAborts` bound the age of a new row
and the number of aborted cycles. The clock of `reconciliation`
runs to 2 with windows of length 1, so two windows touch. Its state constraint
`FewAtATime` lets two payments meet one run, as two records or two payments are what
a matcher can mix up, and one payment two runs, as the windows need; what a run
finds does not depend on another. Two of the three requests of
`ApiRequests` exhaust its two connections, by two pain.001 requests that wait for
their second one or otherwise, while the third waits outside; account creation,
its duplicate and a payment to the new account fit as well. `MaxNumeric` = 9 cents lets
one message overflow the column. The accounts and amounts of `Sgqr` have an
empty city, a name that is cut at 25, an amount of 100 digits and both directions of
every refusal. Symmetry is used for interchangeable request slots and runs, in safety
runs only.

`CHECK_DEADLOCK FALSE` is set where the system may come to rest: all payments in
a final state with nothing left to ask for, the clock or the number of requests
at its bound.

## 4. Fairness

`PaymentTransitions`: SF on `Advance(r)` - a request keeps executing, and since the
queue for a row lock is served in order a waiter is not overtaken for ever - and WF
on `DeadlockAbort(r)`, PostgreSQL's detector, which runs after `deadlock_timeout`.
New requests, crashes and rate bookings are not fair. `Idempotency`: SF on
`Advance(c)` for the same reason. `WebhookDispatch`: WF on time and on the cycle
(the scheduler starts it every 5 seconds, a POST ends by the client's 10 second
timeout); aborted cycles are finitely many. `ApiRequests`: WF on `Advance(r)` -
handlers keep running, and whoever waits at the pool is served or, after
SQLAlchemy's default `pool_timeout`, which `session.py` leaves in place, refused.

## 5. Findings

* `deadlock_transfers`: ADR-0003 says there is "no deadlock risk between concurrent
  transfers". There is: about one pair of account ids in eight collides in the
  set's table, and a transfer between two such accounts and one back lock them in
  opposite orders. A deadlocked request is answered by a 500 and not retried. Safety is
  not affected, as `transfers`, `cross_currency` and the theorems show. Across currencies
  no collision is needed: a late settle attempt locks the payment by
  `set_fx_details` before the accounts, a reversal of it the accounts before the
  payment. `DeadlockExplained`, which `transfers` checks and `DeadlocksHaveACause`
  proves, says that there is no third reason.
* `orphaned_key`: ADR-0002 says a key is orphaned only by a crash, "not by any normal
  failure mode". A creditor that does not exist also does it: the first answer is
  404 and every retry 409. So does a pool timeout or a lost connection in phase 2,
  which the run's property lets pass as a crash; `OrphansExplained` lists them all.
* `starved_queue`: ADR-0005 promises eventual notification. Rows of deactivated
  subscriptions keep their place at the head of the queue and use up the limit.
* `shared_reference`: payments that share an end-to-end id hide each other from
  the matcher.
* `pain001_retry`: the README says a client's retry "can never double-post a
  transfer". `POST /payments` requires a key for that; pain.001 takes none.

Not runs, but seen while modelling:

* An end-to-end id with spaces around it, which `POST /payments` accepts, never
  reconciles: the file's references are stripped (`csv_loader.py:30`) and the
  ledger's (`reconciliation_repository.py:51`) are not. A payment that the file reports
  as it was announced is missing on both sides, although `entities.py:9-10` says
  of these breaks "absent from the file" and "no matching settled payment". pain.001
  strips its own. `BreaksAreReal` states this exception and that no other break is
  false; `reconciliation` has such a payment.
* `transitioned_at` is the start of the settling transaction, so a settlement under
  way at the boundary of two consecutive windows is listed by neither run.
  `WholeInWindowIsListed` states what does hold.
* A subscription that is created while a transition commits may miss that one
  transition; `OutboxMatchesHistory` allows this and no other omission.
* A pain.001 amount below half a cent is answered by 404 "account does not exist"
  (the table's check raises the IntegrityError that stands for a missing account),
  and a currency other than the debtor's, or in lower case, by 500, where
  `POST /payments` answers 422 and converts the case.
* As many concurrent pain.001 requests as the pool has connections stall every
  request of the process until the pool's timeout (`PoolStallsOnlyOnPain001` says
  that nothing less does).
* The QR code of an account whose owner's first 25 characters are not ASCII is a 500.

## 6. Proofs

Every theorem holds for all values of the constants that satisfy the assumptions
named in the model's module; TLC evaluates these on each run. Each module has one
inductive invariant `IInv`, a lemma per action that the action keeps it, and the
theorem `Inductive`, `Spec => []IInv`; the other theorems follow from that. The
new invariants were checked by TLC on the instances of section 3 before they were
proved.

| Module | Theorem: property |
|---|---|
| `PaymentProofs` | `TypeCorrect`: `TypeOK`; `LedgerCorrect`: `LedgerFollowsStatus`; `FxDetailsCorrect`: `FxDetailsAreTheBookedOnes`; `SettledFxStaysFrozen`: `SettledFxIsFrozen`; `DeadlocksHaveACause`: `DeadlockExplained` |
| `PaymentHistoryProofs` | `HistoryCorrect`: `HistoryIsLifecycle`; `VersionsCorrect`: `VersionCountsPostings`; `OutboxCorrect`: `OutboxMatchesHistory` |
| `PaymentRefinementProofs` | `Refinement`: `ImplementsLifecycle`; `BalanceRefinement`: `ImplementsBalances`; `MoneyIsConserved`: `BooksBalance` |
| `IdempotencyProofs` | `TypeCorrect`: `TypeOK`; `NeverTwoPayments`: `OnePaymentPerKey`; `CompletionIsCreation`: `CompletedMeansCreated`; `HonestAnswers`: `AnswersAreHonest`; `SingleOwner`: `OneOwnerPerKey`; `OrphansHaveACause`: `OrphansExplained` |
| `WebhookDispatchProofs` | `TypeCorrect`: `TypeOK`; `BatchStaysFresh`: `BatchIsFresh`; `AttemptsAreAccounted`: `AttemptsAccounted`; `AcceptancesAreAccounted`: `AcceptancesAccounted`; `FinalStaysFinal`: `FinalIsFinal` |
| `ApiRequestsProofs` | `TypeCorrect`: `TypeOK`; `AnswersAreTrue`: `AnswersMatchEffects`; `OnlyValidPayments`: `PaymentsAreValid`; `KnownAccountsAreFound`: `ConfirmedAccountsAreFound`; `OnlyPain001Stalls`: `PoolStallsOnlyOnPain001` |
| `ReconciliationProofs` | `EachPaymentCountedOnce`: `CountedOnce`; `WholeWindowListed`: `WholeInWindowIsListed`; under `UniqueReferences`, `AllDifferencesReported`: `DifferencesAreReported`; `FalseAlarmsAreSpaced`: `BreaksAreReal`; `AnnouncementsReconcile`: `AnnouncedReconciles` |
| `SgqrProofs` | `MisreadingDetected`: `MisreadingIsDetected`; `ChecksumCorrect`: `ChecksumIsRemainder`; `CodesReadBack`: `ReadsBack` |

### The arguments

**`PaymentProofs`** (terms name existing accounts, rates are naturals, `MaxAttempts`
> 0, `None` is none of the values beside it, sets are hash tables). `IInv` adds what the code relies on:
`TxOK`, what a transaction knows at each stage (its transition was allowed in the
row it read; a settlement carries a rate from the moment it fetched one; past the
version check the row it read is the row in the table); `Exclusive`, that at most
one transaction has passed the check for a payment, and none besides the creator
knows a payment that does not exist; and `RowsOK`, that every existing payment
passed validation. The argument that matters is that two transactions past the
version check of one payment would both hold its row lock, so a commit always
writes over the very row it read.

Its last part is about deadlocks, with no hypothesis on how accounts hash. A bump
loop whose own accounts do not collide takes them from the lowest home slot up,
which is one order for all such loops (`LocksInOrder`; `AllBumpsOK` says besides which
accounts a loop has behind and before it). Suppose a cycle had only such requests
and none that locked its payment first. Then all wait for accounts, and the holder
of what another waits for is itself about to take a higher slot, so along the cycle
the slots would descend for ever. Both causes are real: section 5.

**`PaymentHistoryProofs`**. Only commits write; a committing transition appends a
history row that starts where the last one ended, because its row is the one it
read. The versions need besides that a transaction past its bump loop has bumped
exactly the accounts of its entry; the outbox, that a subscription which a
transaction left out of its targets although it wants the event does not exist or
was created since the targets were chosen, after the last row of the payment's
history: the row lock keeps every other transition of the payment out since. What
it is served begins with the next transition or, if this one commits, with the one
after.

**`PaymentRefinementProofs`**. The commit of a request is the abstract step of its
name and everything before it is a stutter; the amount `Settle` books is positive
because validation refused a conversion to zero.

For the balances (finitely many payments and accounts, since they are sums over
both) the module first proves what `SumFunctionOnSet` of the community modules does:
it is expanded to the recursive choice it stands for, whose value is shown not to
depend on the order by an induction over finite sets (a least counterexample by
cardinality), and from that follow the sum of a changed function, of two functions
and of a table by rows and by columns. Then a payment's lines come to its effect on
each account and currency when it settles (`SettlementNet`) and to minus that when it
is reversed (`ReversalNet`), so that its `Share` of a balance is its effect while it is
settled and nothing otherwise (`BalanceOfPayment`, from `LedgerFollowsStatus`). A balance
is the sum of the shares; the one payment that a commit changes moves it by its
effect, which is `BalanceRefinement`. The effects of one payment on all accounts cancel
in every currency (`SharesCancel`), which is `MoneyIsConserved`.

**`IdempotencyProofs`** (acceptable and insertable bodies are bodies). A key has at most
one call past its claim, that call's body is the stored hash and passed the checks
before the claim, and it exists only while the key is in progress. A key that loses
its owner other than by completion therefore lost it to a `Crash`, a `Fail` or the
INSERT of such a body.

**`WebhookDispatchProofs`** (finitely many rows, positive limits; `MaxLag`, `MaxAborts`
any naturals). The counts balance because the mark updates, which check nothing,
find the row as the cycle listed it: one worker, rows that stay due as time passes,
a batch that names a row once.

**`ApiRequestsProofs`** (markers are none of the values beside them; what `Parses`
accepts has numbers, a currency and a number or NaN as the amount, as the fields'
types say). What an answer says is settled steps before it is given: `IInv` says at
every stage which rows a request has found, which it has left and which connections
it holds. Found rows stay because an account is only inserted under a number nobody
has; two inserts of one number exclude each other by the unique index.

**`ReconciliationProofs`** (finitely many payments, files are sequences, a payment's
currency is in upper case, as that of its debtor's account is). A completed run
speaks of a past state; `IInv` says what of it still holds: a listed payment keeps its
stamp, one that committed since did so after the window's end, one the file was made
from had committed before. What `match` returns for two sequences is a matter of
lemmas without state. Three theorems have the hypothesis `UniqueReferences`: no two
payments, and no two rows of an uploaded file, share a reference, spaces aside. The
code does not enforce it; `shared_reference` shows that `DifferencesAreReported` is
false without it, and the instance of `reconciliation` satisfies it.

**`SgqrProofs`** (`TextAssumption`: texts are sequences of character codes, an account
number has at most the 34 characters of its column, a scanner reads ASCII). What a
loop computes for a text of any length needs an induction; `InductionUpTo` does it for
a set of indices by its least exception, and the recursive functions are shown to
satisfy their equations once.

* `MisreadingDetected`. One round of the register is linear and injective, hence so are
  eight (`EightFacts`): texts that differ in one character have different registers
  after it and ever after. Eight rounds also take no byte but zero to a register whose
  low byte is zero (`ShiftBack`: a result without low bits was only shifted). The
  registers after two exchanged neighbours would agree only if eight rounds kept the
  bits by which the two differ, and those are all high. Where the last character is
  exchanged with the first digit of the checksum, the register changes in its low
  byte and the digits that say so stay. The four digits determine the register, so a
  misread checksum is not that of the text.
* `ChecksumCorrect`. After i bytes, what the division has left is the register, shifted
  to its place, and the bytes still to come; one round of the loop is one step of the
  division, and starting from 0xFFFF is inverting the first two bytes.
* `CodesReadBack`. If what `parse_tlv` has read is a start of the payload, it reads the
  next field as it was written: two digits give back the tag and the length, and the
  length is below 100. The tags of a payload are distinct, so no field hides another.

### Only model-checked

* Liveness: `RequestsEnd`, `CallsEnd`, `NotifiedOrDeadLettered`, `EveryRequestEnds`. The
  prover does not support fairness.
* `NoDeadlock`, which is false: see section 5.

## 7. Plan

Done: the modules above; every component that changes state has one, except direct
ledger posting, which nothing but tests calls. Every safety property, action
property and refinement of a passing run is proved. What could come next is a second
dispatch worker, should the deployment ever run one.

## 8. Not modelled

* Direct ledger posting (`domain/ledger/services.py`): only tests call it, and its
  loop of reading versions, bumping and retrying is the one of
  `_transition_with_ledger_entry`.
* XML and CSV syntax, the QR image, HMAC signing, JSON: pure conversions whose
  result no property here depends on. What they keep or lose of a value
  (stripping, case, rounding, truncation) is modelled.
* Request schemas (their checks appear in `Refused`, `ValidTerms` and the constants of
  `ApiRequests`), routing, configuration, migrations.
* Two dispatch workers: the deployment runs one, and ADR-0005 names this limit.
* `webhook_backoff_base_seconds` and `webhook_backoff_max_seconds`: settings that no
  code reads.
