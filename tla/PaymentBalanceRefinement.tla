---------------------- MODULE PaymentBalanceRefinement ----------------------
(***************************************************************************)
(* PaymentTransitions implements PaymentBalances.  The refinement mapping  *)
(* takes the balances to be what get_balance computes from the committed   *)
(* journal lines.                                                          *)
(***************************************************************************)
EXTENDS PaymentRefinement

\* Sums over all payments and over all accounts.
ASSUME PaymentsAssumption == IsFiniteSet(Payments)
ASSUME AccountsAssumption == IsFiniteSet(Accounts)

Balance ==
    [a \in Accounts |-> [c \in Currencies |->
        SumFunction([p \in Payments |-> get_balance(journal[p], a, c)])]]

Balances == INSTANCE PaymentBalances WITH
    status <- Statuses, booked <- Booked, balance <- Balance

\* The balances of all accounts move in the same instant as the status of a
\* payment, by the amount booked, and move back by that amount on a reversal
\* (_transition_with_ledger_entry, _settlement_lines and _reversal_lines).
ImplementsBalances == Balances!BalanceSpec

\* Money is neither made nor lost: in every currency the balances of all accounts,
\* the suspense account among them, add up to zero at all times, whatever
\* rates were booked between a settlement and its reversal (get_balance over what
\* _settlement_lines and _reversal_lines post).
BooksBalance ==
    \A c \in Currencies : SumFunction([a \in Accounts |-> Balance[a][c]]) = 0
=============================================================================
