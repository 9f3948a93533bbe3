------------------------- MODULE PaymentLifecycle -------------------------
(***************************************************************************)
(* What the payment service promises its clients about payments, with no   *)
(* requests, transactions, versions, retries or locks: a payment moves     *)
(* along its lifecycle one atomic step at a time, what it credits is       *)
(* decided in the step that settles it, and a reversal gives that back.    *)
(* PaymentTransitions implements this.                                     *)
(***************************************************************************)
EXTENDS Integers

CONSTANTS Payments, None, Terms, AccountCurrency

VARIABLES
    status,   \* status[p]: where p is in its lifecycle
    booked    \* booked[p]: what the creditor was credited, None if nothing

absVars == <<status, booked>>

SameCurrency(p) == AccountCurrency[Terms[p].debtor] = AccountCurrency[Terms[p].creditor]

Step(p, from, to) ==
    /\ status[p] = from
    /\ status' = [status EXCEPT ![p] = to]

Initiate(p) == Step(p, "absent", "initiated") /\ UNCHANGED booked

Authorise(p) == Step(p, "initiated", "authorised") /\ UNCHANGED booked

Fail(p) ==
    /\ Step(p, "initiated", "failed") \/ Step(p, "authorised", "failed")
    /\ UNCHANGED booked

Settle(p, credited) ==
    /\ Step(p, "authorised", "settled")
    /\ credited > 0
    /\ SameCurrency(p) => credited = Terms[p].amount
    /\ booked' = [booked EXCEPT ![p] = credited]

Reverse(p) == Step(p, "settled", "reversed") /\ UNCHANGED booked

AbsInit ==
    /\ status = [p \in Payments |-> "absent"]
    /\ booked = [p \in Payments |-> None]

\* Settle is bounded by the amount that ends up booked, so that TLC need not
\* enumerate the amounts.
AbsNext ==
    \E p \in Payments :
        \/ Initiate(p) \/ Authorise(p) \/ Fail(p) \/ Reverse(p)
        \/ Settle(p, booked'[p])

AbsSpec == AbsInit /\ [][AbsNext]_absVars
=============================================================================
