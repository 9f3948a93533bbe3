--------------------------- MODULE MCApiRequests ---------------------------
(***************************************************************************)
(* Small instances of ApiRequests for TLC.                                 *)
(***************************************************************************)
EXTENDS ApiRequests

UpperCase == [c \in Currencies |-> IF c = "sgd" THEN "SGD" ELSE c]

\* "d" exists from the start, "c" is yet to be created, "x" never is.
OneSeeded == [n \in Numbers |-> IF n = "d" THEN "SGD" ELSE None]
BothSeeded == [n \in Numbers |-> IF n \in {"d", "c"} THEN "SGD" ELSE None]

\* The creditor's account, in either spelling of its currency.
SomeCreations == {[number |-> "c", currency |-> "sgd"], [number |-> "c", currency |-> "USD"]}

Good == [xml |-> "wellformed", MsgId |-> 1, EndToEndId |-> 1,
         debtor |-> "d", creditor |-> "c", amount |-> 14, currency |-> "SGD"]

\* A good message and what can be wrong with one: a missing field, an unknown
\* creditor, one account twice, a currency in lower case, an amount that is
\* zero, NaN, rounds to zero or overflows.
SomeMessages ==
    { Good, [Good EXCEPT !.EndToEndId = None], [Good EXCEPT !.creditor = "x"],
      [Good EXCEPT !.creditor = "d"], [Good EXCEPT !.currency = "sgd"],
      [Good EXCEPT !.amount = 0], [Good EXCEPT !.amount = NaN],
      [Good EXCEPT !.amount = 4], [Good EXCEPT !.amount = 95] }
OneMessage == {Good}
=============================================================================
