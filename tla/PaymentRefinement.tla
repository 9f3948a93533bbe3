------------------------- MODULE PaymentRefinement -------------------------
(***************************************************************************)
(* PaymentTransitions implements PaymentLifecycle.                         *)
(***************************************************************************)
EXTENDS PaymentProperties

\* The refinement mapping: the status of each payment, and what its creditor was
\* credited, as the committed rows tell them.
Statuses == [p \in Payments |-> payments[p].status]

Booked ==
    [p \in Payments |->
        IF payments[p].status \notin {"settled", "reversed"} THEN None
        ELSE IF payments[p].creditor_amount = None THEN Terms[p].amount
        ELSE payments[p].creditor_amount]

Lifecycle == INSTANCE PaymentLifecycle WITH status <- Statuses, booked <- Booked

\* Under every interleaving, conflict, retry, deadlock and crash, clients see
\* each payment take the steps of its lifecycle one at a time, each from the
\* status it then has, with the credited amount fixed by the one that settles it
\* (_transition_status_only and _transition_with_ledger_entry).
ImplementsLifecycle == Lifecycle!AbsSpec
=============================================================================
