-------------------------- MODULE PaymentBalances --------------------------
(***************************************************************************)
(* PaymentLifecycle with the money: the balances move in the very steps    *)
(* that settle a payment and reverse it.                                   *)
(***************************************************************************)
EXTENDS PaymentLifecycle

CONSTANTS Accounts, Currencies, Suspense

VARIABLE balance   \* balance[a][c]: the balance of account a in currency c

Given(condition, n) == IF condition THEN n ELSE 0

\* What settling p for `credited' adds to account a in currency c: the debtor
\* pays the amount, the creditor receives `credited', and the suspense account
\* takes the other side of both when the currencies differ.
Effect(p, credited, a, c) ==
    LET t == Terms[p]
        paid == c = AccountCurrency[t.debtor]
        received == c = AccountCurrency[t.creditor]
        bridged == a = Suspense /\ ~ SameCurrency(p)
    IN  Given(received /\ a = t.creditor, credited) - Given(paid /\ a = t.debtor, t.amount)
          + Given(paid /\ bridged, t.amount) - Given(received /\ bridged, credited)

\* Apply the effect of p forwards (sign = 1) or backwards (sign = -1).
MoveMoney(p, credited, sign) ==
    balance' = [a \in Accounts |-> [c \in Currencies |->
                   balance[a][c] + sign * Effect(p, credited, a, c)]]

BalanceInit == AbsInit /\ balance = [a \in Accounts |-> [c \in Currencies |-> 0]]

\* A reversal gives back exactly what was booked.
BalanceNext ==
    \E p \in Payments :
        \/ (Initiate(p) \/ Authorise(p) \/ Fail(p)) /\ UNCHANGED balance
        \/ Settle(p, booked'[p]) /\ MoveMoney(p, booked'[p], 1)
        \/ Reverse(p) /\ MoveMoney(p, booked[p], -1)

BalanceSpec == BalanceInit /\ [][BalanceNext]_<<absVars, balance>>
=============================================================================
