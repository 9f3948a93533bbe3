-------------------------- MODULE MCReconciliation --------------------------
(***************************************************************************)
(* Small instances of Reconciliation for TLC.                              *)
(***************************************************************************)
EXTENDS Reconciliation, TLC

CONSTANTS p1, p2, p3, r1, r2

Symmetry == Permutations(Runs)

e1 == <<"e">>

Settled(ref, amount, currency) ==
    [external_ref |-> ref, amount |-> amount, currency |-> currency]

\* p1 carries a client's reference, p2 has none and goes by its id, and p3's has
\* a space before it, which nothing forbids; or all carry the same one, which
\* nothing forbids either.
VariousReferences == (p1 :> e1) @@ (p2 :> None) @@ (p3 :> <<" ", "f">>)
SharedReference == [p \in Payments |-> e1]

Amounts == (p1 :> 1) @@ (p2 :> 2) @@ (p3 :> 1)
AllSGD == [p \in Payments |-> "SGD"]
UpperCase == [c \in {"SGD", "sgd", "USD"} |-> IF c = "sgd" THEN "SGD" ELSE c]

\* An empty file; one that is right once its row is normalised; ones with a
\* wrong amount, a wrong currency and a reference of no payment; one that goes
\* by p1's id and not by the client's reference; one about p1 and p2, wrong about
\* p1; and one that has p3's reference as it is, with another amount.
VariousFiles ==
    { <<>>, <<Settled(<<" ", "e", " ">>, 1, "sgd")>>, <<Settled(e1, 2, "SGD")>>,
      <<Settled(e1, 1, "USD")>>, <<Settled(<<"x">>, 1, "SGD")>>, <<Settled(<<p1>>, 1, "SGD")>>,
      <<Settled(<<p2>>, 2, "SGD"), Settled(e1, 2, "SGD")>>, <<Settled(<<" ", "f">>, 2, "SGD")>> }
OneFile == {<<Settled(e1, 1, "SGD")>>}
\* Bound: three payments and runs between them, one payment and two runs or two
\* payments and a run at most.
FewAtATime ==
    Cardinality({p \in Payments : stamp[p] # None})
      + Cardinality({r \in Runs : run[r].stage # "new"}) <= 3
=============================================================================
