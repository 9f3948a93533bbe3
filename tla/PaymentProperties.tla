------------------------- MODULE PaymentProperties -------------------------
(***************************************************************************)
(* What makes PaymentTransitions correct.                                  *)
(***************************************************************************)
EXTENDS PaymentTransitions

Row == [status : Status, version : Nat,
        creditor_amount : Nat \cup {None}, fx_rate : Nat \cup {None}]

Transaction ==
    [payment : Payments \cup {None}, to : Status, attempt : 0 .. MaxAttempts - 1,
     snap : Row, fx_rate : Rates \cup {None},
     versions : [Accounts -> Nat \cup {None}],
     bumped : SUBSET Accounts, targets : SUBSET Subscriptions]

HistoryRow == [from : PaymentStatus \cup {None}, to : PaymentStatus]

EntryType == {"transfer", "reversal", "fx_conversion", "fx_conversion_reversal"}

Line == [account_id : Accounts, direction : Direction, amount : Nat, currency : Currencies]

Entry == [entry_type : EntryType, lines : Seq(Line)]

\* The type invariant.
TypeOK ==
    /\ payments \in [Payments -> Row]
    /\ accountVersion \in [Accounts -> Nat]
    /\ journal \in [Payments -> Seq(Entry)]
    /\ history \in [Payments -> Seq(HistoryRow)]
    /\ deliveries \in [Payments -> [Subscriptions -> Seq(Row)]]
    /\ subscribed \in [Subscriptions -> [Payments -> CreationPoint] \cup {None}]
    /\ latestRate \in [Currencies \X Currencies -> Rates \cup {None}]
    /\ pc \in [Requests -> Stage]
    /\ tx \in [Requests -> Transaction]
    /\ \A r \in Requests : pc[r] # "idle" => tx[r].payment \in Payments

Moved(p) == payments[p].status \in {"settled", "reversed"}

\* The journal of a payment is exactly what its row says was done to it: no
\* entry before it settles, one settlement entry at the booked amount once it
\* has, and after a reversal one more, undoing that amount.  No interleaving of
\* settle, fail and reverse requests posts twice, posts without the status
\* change, or changes the status without posting
\* (_transition_with_ledger_entry).
LedgerFollowsStatus ==
    \A p \in Payments :
        LET amount == payments[p].creditor_amount
        IN  journal[p] =
              CASE payments[p].status = "settled" -> <<SettlementEntry(p, amount)>>
                [] payments[p].status = "reversed" ->
                     <<SettlementEntry(p, amount), ReversalEntry(p, amount)>>
                [] OTHER -> <<>>

\* The row's FX columns are those of the settlement that won: set when a cross
\* currency payment settles, by the rate that converted its amount, and never
\* by an attempt that lost (set_fx_details has no version check).
FxDetailsAreTheBookedOnes ==
    \A p \in Payments :
        LET row == payments[p]
        IN  IF Moved(p) /\ IsFx(p)
            THEN /\ row.fx_rate # None
                 /\ row.creditor_amount = CreditorAmount(p, row.fx_rate)
                 /\ row.creditor_amount \in 1 .. MaxNumeric
            ELSE row.fx_rate = None /\ row.creditor_amount = None

\* Once a payment has settled, later bookings of rates and late settle attempts
\* do not touch the FX columns a reversal relies on (_reversal_lines).
SettledFxIsFrozen ==
    [][\A p \in Payments : Moved(p) =>
          /\ payments'[p].fx_rate = payments[p].fx_rate
          /\ payments'[p].creditor_amount = payments[p].creditor_amount]_vars

\* The journal entries that touch account a, each named by its payment and its
\* place in that payment's journal.
Postings(a) ==
    UNION {{p} \X {i \in DOMAIN journal[p] : a \in account_ids(journal[p][i].lines)} :
           p \in Payments}

\* The version of an account counts the entries that touch it: no posting slips
\* past the version check that concurrent postings rely on, and no attempt that
\* rolled back leaves a bump behind (bump_account_version).
VersionCountsPostings == \A a \in Accounts : accountVersion[a] = Cardinality(Postings(a))

\* The status history of a payment is one connected path of the state machine
\* from its creation to its present status, one row per version: racing
\* requests never record a transition twice, out of order or from a status
\* that was no longer the current one (record_status_transition).
HistoryIsLifecycle ==
    \A p \in Payments :
        LET h == history[p]
        IN  IF payments[p].status = "absent" THEN h = <<>>
            ELSE /\ Len(h) = payments[p].version + 1
                 /\ h[1] = [from |-> None, to |-> "initiated"]
                 /\ h[Len(h)].to = payments[p].status
                 /\ \A i \in 2 .. Len(h) :
                      /\ h[i].from = h[i - 1].to
                      /\ h[i].to \in ALLOWED_TRANSITIONS[h[i].from]

\* The payload that announces the i-th transition of p: the row as that
\* transition left it.
Announcement(p, i) ==
    LET moved == history[p][i].to \in {"settled", "reversed"}
    IN  [status |-> history[p][i].to, version |-> i - 1,
         creditor_amount |-> IF moved THEN payments[p].creditor_amount ELSE None,
         fx_rate |-> IF moved THEN payments[p].fx_rate ELSE None]

Wants(s, status) == EventFilter[s] = {} \/ status \in EventFilter[s]

\* The outbox of s for p holds the transitions of p from the k-th on that s asked
\* for, and nothing else, each once and in order.
AnnouncesFrom(k, p, s) ==
    LET box == deliveries[p][s]
        wanted == {i \in k .. Len(history[p]) : Wants(s, history[p][i].to)}
    IN  /\ \A j \in DOMAIN box : \E i \in wanted : box[j] = Announcement(p, i)
        /\ \A i \in wanted : \E j \in DOMAIN box : box[j] = Announcement(p, i)
        /\ \A j, l \in DOMAIN box : j < l => box[j].version < box[l].version

\* The outbox of a subscription: it holds every transition of the payment that
\* it asked for and that committed after it was created, once, in order, and
\* with the payment as that transition left it.  Nothing is announced to a
\* subscription that does not exist, no transition that rolled back is
\* announced, and none that committed is skipped, but for the one that had
\* listed the subscriptions and not yet committed when this one was created
\* (enqueue_payment_webhook_event).
OutboxMatchesHistory ==
    \A p \in Payments, s \in Subscriptions :
        IF subscribed[s] = None THEN deliveries[p][s] = <<>>
        ELSE LET created == subscribed[s][p]
             IN  \/ AnnouncesFrom(created.rows + 1, p, s)
                 \/ created.racing /\ AnnouncesFrom(created.rows + 2, p, s)

\* No two requests ever wait for each other's row locks.
NoDeadlock == \A r \in Requests : ~ Deadlocked(r)

\* q settles across currencies and holds the row of its payment, which
\* set_fx_details locks before the accounts.
LocksPaymentFirst(q) ==
    pc[q] \in {"bump", "update"} /\ tx[q].to = "settled" /\ IsFx(tx[q].payment)

\* Requests deadlock for two reasons only: one of them locked its payment before
\* its accounts, or goes through accounts that collide in the frozenset, which
\* then has no order that all requests share.  In particular transfers in
\* opposite directions between accounts that do not collide never deadlock,
\* whichever account their lines name first (bump_account_version).
DeadlockExplained ==
    \A S \in SUBSET Waiting : IsCycle(S) =>
        \E q \in S : \/ LocksPaymentFirst(q)
                     \/ Collision(account_ids(EntryOf(tx[q]).lines))

\* Every request ends: its attempts are bounded, a row lock is always released,
\* and a deadlock is broken.
RequestsEnd == \A r \in Requests : pc[r] # "idle" ~> pc[r] = "idle"
=============================================================================
