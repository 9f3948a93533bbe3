--------------------------- MODULE JournalEntries ---------------------------
(***************************************************************************)
(* The pure part of the ledger: journal lines, the double-entry rule every *)
(* entry must satisfy before it is inserted, balances, and the currency    *)
(* conversion.  Nothing here has state.                                    *)
(*                                                                         *)
(* Amounts are integers counting cents (the columns are Numeric(18,2)); an *)
(* exchange rate is an integer too, the rate times RateScale.              *)
(*                                                                         *)
(* A definition F_Xxx placed before F is a mutant of F, a plausible bug    *)
(* that a property must catch; the specification uses none of them.        *)
(***************************************************************************)
EXTENDS Integers, Sequences, FiniteSetsExt, Functions

\* The two directions of a journal line.
Direction == {"debit", "credit"}

\* A journal line, and an entry: its type and its lines in insertion order.
JournalLine(account, direction, amount, currency) ==
    [account_id |-> account, direction |-> direction,
     amount |-> amount, currency |-> currency]

JournalEntry(entry_type, lines) == [entry_type |-> entry_type, lines |-> lines]

\* A credit counts positive, a debit negative.
signed_amount(line) ==
    IF line.direction = "credit" THEN line.amount ELSE -line.amount

\* The accounts an entry touches.
account_ids(lines) == {lines[i].account_id : i \in DOMAIN lines}

\* The currencies an entry's lines are in, and the entry's net in one of them.
currencies(lines) == {lines[i].currency : i \in DOMAIN lines}

net_by_currency(lines, currency) ==
    SumFunctionOnSet([i \in DOMAIN lines |-> signed_amount(lines[i])],
                     {i \in DOMAIN lines : lines[i].currency = currency})

\* The double-entry rule: some line, positive amounts, net zero per currency.
validate_journal_entry(lines) ==
    /\ lines # <<>>
    /\ \A i \in DOMAIN lines : lines[i].amount > 0
    /\ \A c \in currencies(lines) : net_by_currency(lines, c) = 0

\* Mutant: a debit counts like a credit.
AccountNet_Unsigned(lines, account, currency) ==
    SumFunctionOnSet([i \in DOMAIN lines |-> lines[i].amount],
                     {i \in DOMAIN lines : /\ lines[i].account_id = account
                                           /\ lines[i].currency = currency})

\* What an entry's lines add to an account in one currency, and its balance over
\* a sequence of entries: the sum of the signed amounts of its lines.
AccountNet(lines, account, currency) ==
    SumFunctionOnSet([i \in DOMAIN lines |-> signed_amount(lines[i])],
                     {i \in DOMAIN lines : /\ lines[i].account_id = account
                                           /\ lines[i].currency = currency})

get_balance(entries, account, currency) ==
    SumFunction([e \in DOMAIN entries |-> AccountNet(entries[e].lines, account, currency)])

\* amount * rate rounded half up to the cent, rate being scaled by `scale'.
convert_amount(amount, rate, scale) ==
    (2 * amount * rate + scale) \div (2 * scale)
=============================================================================
