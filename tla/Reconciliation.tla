--------------------------- MODULE Reconciliation ---------------------------
(***************************************************************************)
(* End-of-day reconciliation: a run takes a settlement file, lists the     *)
(* payments whose "settled" history row is stamped within its window,      *)
(* matches the two by reference and records matches and breaks             *)
(* (app/domain/reconciliation, its repository, the CLI job and the         *)
(* endpoint).  Payments keep settling while a run is under way, may be     *)
(* reversed, and are announced to the network by pacs.008 messages, from   *)
(* which the network makes its file.                                       *)
(*                                                                         *)
(* The stamp of a history row is the column's default now(), the time the  *)
(* settling transaction began; the row is visible once it has committed.   *)
(* A reversal leaves it in place.  What else a transition does is          *)
(* PaymentTransitions.  Texts are sequences of characters.                 *)
(*                                                                         *)
(* A definition F_Xxx placed before F is a mutant of F, a plausible bug    *)
(* that a property must catch; the specification uses none of them.        *)
(***************************************************************************)
EXTENDS Integers, Sequences, SequencesExt

CONSTANTS
    Payments,    \* payment ids
    EndToEndId,  \* EndToEndId[p]: the client's reference of p, a text, or None
    Amount,      \* Amount[p], Currency[p]: those columns of p
    Currency,
    Files,       \* uploaded files, as the sequences of rows in them
    Upper,       \* Upper[c]: the currency code c in upper case
    Space,       \* the character that strip() removes
    Runs,        \* reconciliation runs
    Window,      \* window_hours
    MaxTime,     \* bound on the clock
    None

IsText(text) == text \in Seq({text[i] : i \in DOMAIN text})

ASSUME ReconciliationAssumption ==
    /\ Window \in Nat \ {0}
    /\ MaxTime \in Nat
    /\ IsFiniteSet(Payments)
    /\ None \notin Int /\ None \notin Payments
    /\ \A file \in Files : Len(file) \in Nat /\ DOMAIN file = 1 .. Len(file)
    /\ \A file \in Files : \A i \in DOMAIN file : IsText(file[i].external_ref)
    /\ \A p \in Payments : EndToEndId[p] # None => IsText(EndToEndId[p])
\* A payment has the currency of its debtor's account, whose code is in upper case.
ASSUME CurrencyAssumption == \A p \in Payments : Upper[Currency[p]] = Currency[p]

VARIABLES
    now,        \* the clock
    stamp,      \* stamp[p]: when the transaction settling p began, or None
    committed,  \* committed[p]: when it committed, or None
    reversed,   \* the payments whose reversal has committed
    emitted,    \* the payments whose pacs.008 message was given out
    run         \* run[r]: the state of run r

vars == <<now, stamp, committed, reversed, emitted, run>>

\* "reported" are the payments whose messages the file was made from.
NewRun == [stage |-> "new", window_start |-> None, window_end |-> None,
           file |-> <<>>, reported |-> {}, ledger |-> <<>>, result |-> None]

-----------------------------------------------------------------------------
(* The matcher.                                                             *)

Refs(seq) == {seq[i].external_ref : i \in DOMAIN seq}

\* {x.external_ref: x for x in seq}: of several with one reference, the last.
ByRef(seq) ==
    [ref \in Refs(seq) |-> seq[Max({i \in DOMAIN seq : seq[i].external_ref = ref})]]

ReconciliationBreak(type, ref, payment_id, ledger_amount, settlement_amount) ==
    [break_type |-> type, external_ref |-> ref, payment_id |-> payment_id,
     ledger_amount |-> ledger_amount, settlement_amount |-> settlement_amount]

\* The outcome of matching, given the references on which both sides agree.
MatchResult(ledger, settled, agreed) ==
    [matched_count |-> Cardinality(agreed),
     breaks |->
        {ReconciliationBreak("missing_in_settlement", ref,
             ledger[ref].payment_id, ledger[ref].amount, None)
             : ref \in DOMAIN ledger \ DOMAIN settled}
        \cup
        {ReconciliationBreak("missing_in_ledger", ref, None, None, settled[ref].amount)
             : ref \in DOMAIN settled \ DOMAIN ledger}
        \cup
        {ReconciliationBreak("amount_mismatch", ref,
             ledger[ref].payment_id, ledger[ref].amount, settled[ref].amount)
             : ref \in (DOMAIN ledger \cap DOMAIN settled) \ agreed}]

\* Mutant: the currencies are not compared.
match_IgnoresCurrency(ledger_payments, settlement_records) ==
    LET ledger == ByRef(ledger_payments)
        settled == ByRef(settlement_records)
    IN  MatchResult(ledger, settled, {ref \in DOMAIN ledger \cap DOMAIN settled :
                                        ledger[ref].amount = settled[ref].amount})

match(ledger_payments, settlement_records) ==
    LET ledger == ByRef(ledger_payments)
        settled == ByRef(settlement_records)
    IN  MatchResult(ledger, settled, {ref \in DOMAIN ledger \cap DOMAIN settled :
                                        /\ ledger[ref].amount = settled[ref].amount
                                        /\ ledger[ref].currency = settled[ref].currency})

-----------------------------------------------------------------------------
(* Payments settle.                                                         *)

BeginSettle(p) ==
    /\ stamp[p] = None
    /\ stamp' = [stamp EXCEPT ![p] = now]
    /\ UNCHANGED <<now, committed, reversed, emitted, run>>

CommitSettle(p) ==
    /\ stamp[p] # None
    /\ committed[p] = None
    /\ committed' = [committed EXCEPT ![p] = now]
    /\ UNCHANGED <<now, stamp, reversed, emitted, run>>

\* The transaction rolls back, on a conflict or a crash; a retry is stamped anew.
RollbackSettle(p) ==
    /\ stamp[p] # None
    /\ committed[p] = None
    /\ stamp' = [stamp EXCEPT ![p] = None]
    /\ UNCHANGED <<now, committed, reversed, emitted, run>>

\* The reversal of a settled payment commits.
ReversePayment(p) ==
    /\ committed[p] # None
    /\ p \notin reversed
    /\ reversed' = reversed \cup {p}
    /\ UNCHANGED <<now, stamp, committed, emitted, run>>

\* Mutant: the reference is the payment's id only.
Pacs008_IdOnly(p) == [external_ref |-> <<p>>, amount |-> Amount[p], currency |-> Currency[p]]

\* The pacs.008 message of p: its EndToEndId and IntrBkSttlmAmt.
Pacs008(p) ==
    [external_ref |-> IF EndToEndId[p] \in {None, <<>>} THEN <<p>> ELSE EndToEndId[p],
     amount |-> Amount[p],
     currency |-> Currency[p]]

\* emit_pacs008, which renders the payment as it was read: settled, or else 409.
EmitPacs008(p) ==
    /\ committed[p] # None
    /\ p \notin reversed
    /\ emitted' = emitted \cup {p}
    /\ UNCHANGED <<now, stamp, committed, reversed, run>>

Tick ==
    /\ now < MaxTime
    /\ now' = now + 1
    /\ UNCHANGED <<stamp, committed, reversed, emitted, run>>

-----------------------------------------------------------------------------
(* A run.                                                                   *)

\* text.strip()
Strip(text) ==
    LET kept == {i \in DOMAIN text : text[i] # Space}
    IN  IF kept = {} THEN <<>> ELSE SubSeq(text, Min(kept), Max(kept))

\* Mutant: references are taken as they are.
SettlementRecord_NotStripped(row) ==
    [external_ref |-> row.external_ref, amount |-> row.amount, currency |-> Upper[row.currency]]

\* A row of the file, normalised.
SettlementRecord(row) ==
    [external_ref |-> Strip(row.external_ref), amount |-> row.amount,
     currency |-> Upper[row.currency]]

\* parse_settlement_csv accepts a file that has at least one row.
Parses(file) == file # <<>>
parse_settlement_csv(file) == [i \in DOMAIN file |-> SettlementRecord(file[i])]

\* A run on these rows whose window is the last Window hours.
Opened(file, reported) ==
    [NewRun EXCEPT !.stage = "list", !.file = file, !.reported = reported,
                   !.window_start = now - Window, !.window_end = now]

StartRun(r, file, reported) ==
    /\ run[r].stage = "new"
    /\ Parses(file)
    /\ run' = [run EXCEPT ![r] = Opened(file, reported)]
    /\ UNCHANGED <<now, stamp, committed, reversed, emitted>>

\* A run on some file, and on the file that the network made of the messages.
StartUploaded(r) == \E file \in Files : StartRun(r, file, {})
StartReported(r) ==
    \E rows \in SetToSeqs(emitted) :
        StartRun(r, [i \in DOMAIN rows |-> Pacs008(rows[i])], emitted)

\* A row of list_settled_payments.
LedgerPayment(p) ==
    [payment_id |-> p,
     external_ref |-> IF EndToEndId[p] \in {None, <<>>} THEN <<p>> ELSE EndToEndId[p],
     amount |-> Amount[p],
     currency |-> Currency[p]]

\* Mutants: a window closed at its end, and one open at its start.
InWindow_Closed(r, p) == run[r].window_start <= stamp[p] /\ stamp[p] <= run[r].window_end
InWindow_Open(r, p) == run[r].window_start < stamp[p] /\ stamp[p] < run[r].window_end

InWindow(r, p) == run[r].window_start <= stamp[p] /\ stamp[p] < run[r].window_end

\* list_settled_payments, in whatever order the database returns the rows.
ListSettled(r) ==
    /\ run[r].stage = "list"
    /\ \E rows \in SetToSeqs({p \in Payments : committed[p] # None /\ InWindow(r, p)}) :
         run' = [run EXCEPT ![r] = [@ EXCEPT
                    !.stage = "record",
                    !.ledger = [i \in DOMAIN rows |-> LedgerPayment(rows[i])]]]
    /\ UNCHANGED <<now, stamp, committed, reversed, emitted>>

\* match, record_run and the commit, of the file's records too.
RecordRun(r) ==
    /\ run[r].stage = "record"
    /\ run' = [run EXCEPT ![r] = [@ EXCEPT
                  !.stage = "completed",
                  !.result = match(run[r].ledger, parse_settlement_csv(run[r].file))]]
    /\ UNCHANGED <<now, stamp, committed, reversed, emitted>>

\* The run dies and leaves nothing behind; someone may start it again.
Crash(r) ==
    /\ run[r].stage \in {"list", "record"}
    /\ run' = [run EXCEPT ![r] = NewRun]
    /\ UNCHANGED <<now, stamp, committed, reversed, emitted>>

Init ==
    /\ now = 0
    /\ stamp = [p \in Payments |-> None]
    /\ committed = [p \in Payments |-> None]
    /\ reversed = {}
    /\ emitted = {}
    /\ run = [r \in Runs |-> NewRun]

Next ==
    \/ \E p \in Payments :
         \/ BeginSettle(p) \/ CommitSettle(p) \/ RollbackSettle(p) \/ ReversePayment(p)
         \/ EmitPacs008(p)
    \/ Tick
    \/ \E r \in Runs :
         StartUploaded(r) \/ StartReported(r) \/ ListSettled(r) \/ RecordRun(r) \/ Crash(r)

Spec == Init /\ [][Next]_vars

-----------------------------------------------------------------------------
Completed == {r \in Runs : run[r].stage = "completed"}

Listed(r) == {run[r].ledger[i].payment_id : i \in DOMAIN run[r].ledger}

\* What the rows of the file say, spaces and case aside.
Records(r) ==
    {[external_ref |-> Strip(run[r].file[i].external_ref), amount |-> run[r].file[i].amount,
      currency |-> Upper[run[r].file[i].currency]] : i \in DOMAIN run[r].file}

\* The reference by which p goes, and whether it has spaces around it.
Reference(p) == IF EndToEndId[p] \in {None, <<>>} THEN <<p>> ELSE EndToEndId[p]
Spaced(p) == Strip(Reference(p)) # Reference(p)

\* A settlement record is about payment p, spaces aside on both sides, and says
\* what the ledger says.
About(record, p) == record.external_ref = Strip(Reference(p))
Agrees(record, p) ==
    About(record, p) /\ record.amount = Amount[p] /\ record.currency = Currency[p]

\* Whatever the file and the ledger disagree on is reported: a listed payment
\* has an agreeing record, or a break names it, of the right type, where a
\* reference with spaces around it is always taken to be missing from the file;
\* a record has an agreeing payment, or a break carries its reference (match).
DifferencesAreReported ==
    \A r \in Completed :
        /\ \A p \in Listed(r) :
             \/ \E s \in Records(r) : Agrees(s, p)
             \/ \E b \in run[r].result.breaks :
                  /\ b.payment_id = p
                  /\ b.ledger_amount = Amount[p]
                  /\ b.break_type = IF ~ Spaced(p) /\ \E s \in Records(r) : About(s, p)
                                    THEN "amount_mismatch" ELSE "missing_in_settlement"
        /\ \A s \in Records(r) :
             \/ \E p \in Listed(r) : Agrees(s, p)
             \/ \E b \in run[r].result.breaks :
                  b.external_ref = s.external_ref /\ b.settlement_amount = s.amount

\* A break is a false alarm only about a payment whose reference has spaces
\* around it, which the ledger keeps and the parser of the file takes off.  Of
\* any other payment it is true: the payment is settled and the file says
\* nothing of it or something else, or the reference is of no listed payment;
\* and every agreeing record counts as one match (match).
BreaksAreReal ==
    \A r \in Completed :
        /\ \A b \in run[r].result.breaks :
             IF b.payment_id = None
             THEN \A p \in Listed(r), s \in Records(r) :
                    s.external_ref = b.external_ref /\ About(s, p) => Spaced(p)
             ELSE /\ committed[b.payment_id] # None
                  /\ \A s \in Records(r) :
                       Agrees(s, b.payment_id) => Spaced(b.payment_id)
        /\ run[r].result.matched_count =
             Cardinality({s \in Records(r) : \E p \in Listed(r) : Agrees(s, p) /\ ~ Spaced(p)})

\* Consecutive windows share no payment: it is reconciled by one of them only
\* (the window is closed at its start and open at its end).
CountedOnce ==
    \A r, q \in Completed :
        run[r].window_end <= run[q].window_start => Listed(r) \cap Listed(q) = {}

\* A run lists every payment whose settling transaction began and committed
\* within its window.
WholeInWindowIsListed ==
    \A r \in Completed, p \in Payments :
        (/\ committed[p] # None
         /\ run[r].window_start <= stamp[p]
         /\ committed[p] < run[r].window_end) => p \in Listed(r)

\* What was announced to the network reconciles.  A payment whose message is in
\* the network's file has settled, and if that was within the window the run
\* lists it and finds no break about it, reversed since or not, unless its
\* reference has spaces around it.
AnnouncedReconciles ==
    \A r \in Completed : \A p \in run[r].reported :
        /\ committed[p] # None
        /\ (InWindow(r, p) /\ ~ Spaced(p)) =>
             /\ p \in Listed(r)
             /\ \A b \in run[r].result.breaks :
                  b.payment_id # p /\ b.external_ref # Reference(p)
=============================================================================
