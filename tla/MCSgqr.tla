------------------------------- MODULE MCSgqr -------------------------------
(***************************************************************************)
(* A small instance of Sgqr for TLC.                                       *)
(***************************************************************************)
EXTENDS Sgqr

Row(number, owner_name, currency) ==
    [number |-> number, owner_name |-> owner_name, currency |-> currency]

\* Accounts "S-7" of "Al", "12" of a name that is cut, "S-7" of a name outside
\* ASCII, and one in a currency without a code.
SomeAccounts ==
    { Row(<<83, 45, 55>>, <<65, 108>>, "SGD"),
      Row(<<49, 50>>, [i \in 1 .. 26 |-> 64 + i], "USD"),
      Row(<<83, 45, 55>>, <<65, 233>>, "EUR"),
      Row(<<83, 45, 55>>, <<65, 108>>, "JPY") }

\* "", "B" and a city that is too long.
SomeCities == {<<>>, <<66>>, [i \in 1 .. 16 |-> 66]}

\* No amount, 4.50, 0.0, -1 and one of 100 digits.
SomeAmounts ==
    {None, <<52, 46, 53, 48>>, <<48, 46, 48>>, <<45, 49>>, [i \in 1 .. 100 |-> 49]}
=============================================================================
