----------------------- MODULE MCPaymentTransitions -----------------------
(***************************************************************************)
(* Small instances of PaymentTransitions for TLC.                          *)
(***************************************************************************)
EXTENDS PaymentBalanceRefinement, TLC

CONSTANTS p1, p2, a1, a2, a3, fx, r1, r2, s1, s2

Symmetry == Permutations(Requests)

T(debtor, creditor, amount, currency) ==
    [debtor |-> debtor, creditor |-> creditor, amount |-> amount, currency |-> currency]

\* Two transfers of one currency with an account in common.
TransferTerms == (p1 :> T(a1, a2, 2, "SGD")) @@ (p2 :> T(a3, a1, 3, "SGD"))
\* Two between the same accounts, in opposite directions.
OppositeTerms == (p1 :> T(a1, a3, 2, "SGD")) @@ (p2 :> T(a3, a1, 3, "SGD"))
OneCurrency == [a \in Accounts |-> "SGD"]
NoRates == {}
NoInitialRate == [pair \in {"SGD"} \X {"SGD"} |-> None]

\* One transfer between currencies, over the SGD suspense account.
FxTerms == p1 :> T(a1, a2, 3, "SGD")
TwoCurrencies == (a1 :> "SGD") @@ (a2 :> "USD") @@ (fx :> "SGD")
\* Rates 0.1, 0.5, 0.9 and 1.5 convert 3 cents to 0, 2 (half up), 3 and 5.
FxRates == {1, 5, 9, 15}
FxPairs == {<<"SGD", "USD">>}
NoFxRate == [pair \in {"SGD", "USD"} \X {"SGD", "USD"} |-> None]

\* The accounts of the first transfer do not collide, those of the second do;
\* all do.
PairHomes == (a1 :> 1) @@ (a2 :> 0) @@ (a3 :> 1)
OneHome == [a \in Accounts |-> 0]

\* The table that the accounts of s are inserted into in that order: each goes to
\* its home or, when that is taken, behind it.
SlotsFrom(home) ==
    [s \in LineAccounts |-> [a \in Accounts |->
        home[a] + Cardinality({s[i] : i \in {i \in DOMAIN s :
            home[s[i]] = home[a] /\ \A j \in 1 .. i : s[j] # a}})]]
PairSlots == SlotsFrom(PairHomes)
OneHomeSlots == SlotsFrom(OneHome)

SomeEvents == (s1 :> {}) @@ (s2 :> {"settled", "failed"})
NoFilter == <<>>
\* Bound: one subscription, with a filter or without.
OneSubscription == Cardinality({s \in Subscriptions : subscribed[s] # None}) <= 1
=============================================================================
