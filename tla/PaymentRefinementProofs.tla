---------------------- MODULE PaymentRefinementProofs ----------------------
(***************************************************************************)
(* PaymentTransitions implements PaymentLifecycle, for any number of       *)
(* payments, accounts, requests and attempts: the commit of a request is   *)
(* the abstract step, and everything before it is a stutter.  It           *)
(* implements PaymentBalances as well: a balance is the sum of what each   *)
(* payment has done to it, and only the payment that moves does anything.  *)
(***************************************************************************)
EXTENDS PaymentBalanceRefinement, PaymentHistoryProofs

\* The initial state maps to the initial state.
LEMMA InitRefines == Init => Lifecycle!AbsInit
BY DEF Init, Lifecycle!AbsInit, Statuses, Booked, Moved, AbsentRow, NewRow

\* A commit that writes one row changes one status, and at most one booked amount.
LEMMA OneRowMaps ==
    ASSUME IInv, NEW x \in Payments, NEW row,
           payments' = [payments EXCEPT ![x] = row]
    PROVE  /\ Statuses' = [Statuses EXCEPT ![x] = row.status]
           /\ Booked' = [Booked EXCEPT ![x] = Booked'[x]]
           /\ Booked[x] = Booked'[x] => UNCHANGED Booked
<1>1. payments \in [Payments -> Row]
  BY DEF IInv, TypeOK
<1>2. payments'[x] = row /\ \A p \in Payments : p # x => payments'[p] = payments[p]
  BY <1>1
<1>3. \A p \in Payments : p # x => Booked'[p] = Booked[p]
  BY <1>2 DEF Booked, Moved
<1>4. Statuses' = [Statuses EXCEPT ![x] = row.status]
  <2>1. \A p \in Payments : Statuses'[p] = IF p = x THEN row.status ELSE Statuses[p]
    BY <1>2 DEF Statuses
  <2>2. /\ Statuses = [p \in Payments |-> Statuses[p]]
        /\ Statuses' = [p \in Payments |-> Statuses'[p]]
    BY DEF Statuses
  <2>. QED
    BY <2>1, <2>2
<1>5. Booked = [p \in Payments |-> Booked[p]] /\ Booked' = [p \in Payments |-> Booked'[p]]
  BY DEF Booked
<1>. QED
  BY <1>3, <1>4, <1>5

\* The commit of a new payment is Initiate.
LEMMA InitiationRefines ==
    ASSUME IInv, NEW r \in Requests, CommitInitiation(r)
    PROVE  Lifecycle!AbsNext
<1> DEFINE row == NewRow("initiated")
<1>1. PICK x \in Payments : x = tx[r].payment
  BY InitiationFacts
<1>2. payments[x].status = "absent" /\ payments' = [payments EXCEPT ![x] = row]
  BY <1>1, InitiationFacts
<1>3. payments'[x] = row
  BY <1>2 DEF IInv, TypeOK
<1>4. Booked[x] = None /\ Booked'[x] = None
  BY <1>2, <1>3 DEF Booked, Moved, NewRow
<1>5. Statuses' = [Statuses EXCEPT ![x] = "initiated"] /\ UNCHANGED Booked
  <2>1. row.status = "initiated"
    BY DEF NewRow
  <2>2. /\ Statuses' = [Statuses EXCEPT ![x] = row.status]
        /\ Booked[x] = Booked'[x] => UNCHANGED Booked
    BY <1>2, OneRowMaps
  <2>. QED
    BY <1>4, <2>1, <2>2
<1>6. Lifecycle!Initiate(x)
  BY <1>2, <1>5 DEF Lifecycle!Initiate, Lifecycle!Step, Statuses, Booked
<1>. QED
  BY <1>6 DEF Lifecycle!AbsNext

\* The commit of a transition is the lifecycle step that the transition is named for.
LEMMA TransitionRefines ==
    ASSUME IInv, IInv', NEW r \in Requests, CommitTransition(r)
    PROVE  Lifecycle!AbsNext
<1> DEFINE row == Updated(tx[r])
<1>1. PICK x \in Payments : x = tx[r].payment
  BY TransitionFacts
<1>2. PICK to \in PaymentStatus : to = tx[r].to
  BY TransitionFacts
<1>3. /\ payments' = [payments EXCEPT ![x] = row] /\ row.status = to
      /\ payments[x] = tx[r].snap /\ payments[x] \in Row
      /\ to \in ALLOWED_TRANSITIONS[payments[x].status]
      /\ FxOK("commit", tx[r])
  BY <1>1, <1>2, TransitionFacts DEF Updated
<1>4. payments'[x] = row
  BY <1>3 DEF IInv, TypeOK
<1>5. /\ Statuses' = [Statuses EXCEPT ![x] = to]
      /\ Booked' = [Booked EXCEPT ![x] = Booked'[x]]
      /\ Booked[x] = Booked'[x] => UNCHANGED Booked
      /\ Statuses[x] = payments[x].status
  BY <1>3, OneRowMaps DEF Statuses
<1>6. \/ payments[x].status = "initiated" /\ to \in {"authorised", "failed"}
      \/ payments[x].status = "authorised" /\ to \in {"settled", "failed"}
      \/ payments[x].status = "settled" /\ to = "reversed"
  BY <1>3 DEF ALLOWED_TRANSITIONS, Row, Status, PaymentStatus
<1>7. CASE to \in {"authorised", "failed"}
  <2>1. Booked[x] = None /\ Booked'[x] = None
    BY <1>3, <1>4, <1>6, <1>7 DEF Booked, Moved
  <2>2. Lifecycle!Authorise(x) \/ Lifecycle!Fail(x)
    BY <1>5, <1>6, <1>7, <2>1
       DEF Lifecycle!Authorise, Lifecycle!Fail, Lifecycle!Step, Statuses, Booked
  <2>. QED
    BY <2>2 DEF Lifecycle!AbsNext
<1>8. CASE to = "reversed"
  <2>1. payments'[x].creditor_amount = payments[x].creditor_amount
    BY <1>2, <1>3, <1>4, <1>8 DEF Updated, FxOK
  <2>2. Booked'[x] = Booked[x]
    BY <1>3, <1>4, <1>6, <1>8, <2>1 DEF Booked, Moved
  <2>3. Lifecycle!Reverse(x)
    BY <1>5, <1>6, <1>8, <2>2 DEF Lifecycle!Reverse, Lifecycle!Step, Statuses, Booked
  <2>. QED
    BY <2>3 DEF Lifecycle!AbsNext
<1>9. CASE to = "settled"
  <2>1. Moved(x)' /\ payments'[x].status # "absent"
    BY <1>3, <1>4, <1>9 DEF Moved
  <2>2. ValidTerms(x)
    BY <2>1 DEF IInv, RowsOK, ValidTerms
  <2>3. IF IsFx(x) THEN Booked'[x] \in 1 .. MaxNumeric ELSE Booked'[x] = Terms[x].amount
    <3>1. IF IsFx(x) THEN payments'[x].creditor_amount \in 1 .. MaxNumeric
          ELSE payments'[x].creditor_amount = None
      BY <2>1 DEF IInv, FxDetailsAreTheBookedOnes, IsFx
    <3>. QED
      BY <2>1, <3>1, NoneAssumption, RatesAssumption DEF Booked, Moved
  <2>4. /\ Booked'[x] > 0
        /\ AccountCurrency[Terms[x].debtor] = AccountCurrency[Terms[x].creditor]
             => Booked'[x] = Terms[x].amount
    BY <2>2, <2>3, RatesAssumption DEF IsFx, ValidTerms
  <2>5. Lifecycle!Settle(x, Booked'[x])
    BY <1>5, <1>6, <1>9, <2>4
       DEF Lifecycle!Settle, Lifecycle!Step, Lifecycle!SameCurrency, Statuses, Booked
  <2>. QED
    BY <2>5 DEF Lifecycle!AbsNext
<1>. QED
  BY <1>6, <1>7, <1>8, <1>9

\* Every step maps to a step of the lifecycle or to a stutter.
LEMMA NextRefines ==
    ASSUME IInv, IInv', [Next]_vars
    PROVE  [Lifecycle!AbsNext]_(Lifecycle!absVars)
<1>1. CASE UNCHANGED payments
  <2>1. UNCHANGED <<Statuses, Booked>>
    BY <1>1 DEF Statuses, Booked, Moved
  <2>. QED
    BY <2>1 DEF Lifecycle!absVars, Statuses, Booked
<1>. QED
  BY <1>1, OnlyCommitsWrite, InitiationRefines, TransitionRefines

\* Clients see each payment take the atomic steps of its lifecycle, whatever
\* conflicts, retries, deadlocks and crashes lie behind them, and the amount
\* credited is fixed in the step that settles it (_transition_status_only and
\* _transition_with_ledger_entry).
THEOREM Refinement == Spec => ImplementsLifecycle
<1>1. Init => Lifecycle!AbsInit
  BY InitRefines
<1>2. IInv /\ IInv' /\ [Next]_vars => [Lifecycle!AbsNext]_(Lifecycle!absVars)
  BY NextRefines
<1>. QED
  BY <1>1, <1>2, Inductive, PTL DEF Spec, ImplementsLifecycle, Lifecycle!AbsSpec

-----------------------------------------------------------------------------
(* Sums over finite sets.                                                   *)

\* What holds of a set if it holds of the set without any one of its elements,
\* holds of every subset of a finite set.
LEMMA SetInduction ==
    ASSUME NEW S, IsFiniteSet(S), NEW T,
           \A s \in SUBSET S : (\A x \in s : s \ {x} \in T) => s \in T
    PROVE  SUBSET S \subseteq T
<1> DEFINE bad == (SUBSET S) \ T
           sizes == {Cardinality(s) : s \in bad}
<1>1. \A s \in SUBSET S : IsFiniteSet(s) /\ Cardinality(s) \in Nat
  BY FS_Subset, FS_CardinalityType
<1>2. sizes \subseteq Nat
  BY <1>1
<1>3. ASSUME NEW n \in sizes PROVE \E m \in sizes : m < n
  <2>1. PICK s \in bad : n = Cardinality(s)
    OBVIOUS
  <2>2. PICK x \in s : s \ {x} \notin T
    <3>1. s \in SUBSET S /\ s \notin T
      OBVIOUS
    <3> HIDE DEF bad
    <3>. QED
      BY <3>1, Zenon
  <2>3. s \ {x} \in bad
    BY <2>2
  <2>4. Cardinality(s \ {x}) = Cardinality(s) - 1
    BY <1>1, FS_RemoveElement
  <2>5. Cardinality(s \ {x}) \in sizes
    BY <2>3
  <2>6. Cardinality(s \ {x}) < n
    <3>1. Cardinality(s) \in Nat
      BY <1>1
    <3>. QED
      BY <2>1, <2>4, <3>1
  <2>. QED
    BY <2>5, <2>6, Zenon
<1>4. sizes = {}
  <2> HIDE DEF sizes
  <2>. QED
    BY <1>2, <1>3, NoDescent
<1>5. bad = {}
  <2>1. \A s \in bad : Cardinality(s) \in sizes
    OBVIOUS
  <2>. QED
    BY <1>4, <2>1, Zenon
<1>. QED
  BY <1>5

\* The iteration by which SumFunctionOnSet adds up f, over the sets of D.
Any(s) == CHOOSE x \in s : TRUE

IsIteration(it, f, D) ==
    it = [s \in D |-> IF s = {} THEN 0 ELSE f[Any(s)] + it[s \ {Any(s)}]]

LEMMA IterationExists ==
    ASSUME NEW S, IsFiniteSet(S), NEW f
    PROVE  \E it : IsIteration(it, f, SUBSET S)
<1> DEFINE D(m) == {s \in SUBSET S : Cardinality(s) <= m}
           bad == {m \in Nat : ~ \E it : IsIteration(it, f, D(m))}
<1>1. \A s \in SUBSET S : IsFiniteSet(s) /\ Cardinality(s) \in Nat
  BY FS_Subset, FS_CardinalityType
<1>2. \A s \in SUBSET S : s # {} =>
         Any(s) \in s /\ s \ {Any(s)} \in SUBSET S /\ Cardinality(s \ {Any(s)}) = Cardinality(s) - 1
  BY <1>1, FS_RemoveElement DEF Any
<1>3. \A s \in SUBSET S : Cardinality(s) = 0 <=> s = {}
  BY <1>1, FS_EmptySet
<1>4. ASSUME NEW m \in bad PROVE \E k \in bad : k < m
  <2>1. m # 0
    <3>1. SUFFICES ASSUME m = 0 PROVE FALSE
      OBVIOUS
    <3> DEFINE g == [s \in D(0) |-> 0]
    <3>2. \A s \in D(0) : s = {}
      BY <1>1, <1>3
    <3>3. IsIteration(g, f, D(0))
      BY <3>2 DEF IsIteration
    <3>. QED
      BY <3>1, <3>3
  <2>2. m - 1 \in Nat /\ m \in Nat
    BY <2>1
  <2>3. SUFFICES ASSUME m - 1 \notin bad PROVE FALSE
    <3>1. m - 1 < m
      BY <2>2
    <3>. QED
      BY <3>1, Zenon
  <2>4. PICK g : IsIteration(g, f, D(m - 1))
    <3> HIDE DEF D
    <3>. QED
      BY <2>2, <2>3
  <2> DEFINE h == [s \in D(m) |-> IF s = {} THEN 0 ELSE f[Any(s)] + g[s \ {Any(s)}]]
  <2>5. \A s \in D(m) : s # {} => s \ {Any(s)} \in D(m - 1) /\ s \ {Any(s)} \in D(m)
    BY <1>1, <1>2, <2>2
  <2>6. \A s \in D(m - 1) : s \in D(m) /\ g[s] = h[s]
    <3>1. \A s \in D(m - 1) : s \in D(m)
      BY <1>1, <2>2
    <3>2. \A s \in D(m - 1) : g[s] = IF s = {} THEN 0 ELSE f[Any(s)] + g[s \ {Any(s)}]
      <4> HIDE DEF D
      <4>. QED
        BY <2>4 DEF IsIteration
    <3> HIDE DEF D
    <3>. QED
      BY <3>1, <3>2
  <2>7. \A s \in D(m) : h[s] = IF s = {} THEN 0 ELSE f[Any(s)] + h[s \ {Any(s)}]
    <3>1. \A s \in D(m) : h[s] = IF s = {} THEN 0 ELSE f[Any(s)] + g[s \ {Any(s)}]
      OBVIOUS
    <3>2. \A s \in D(m) : s # {} => g[s \ {Any(s)}] = h[s \ {Any(s)}]
      <4> HIDE DEF D, h
      <4>. QED
        BY <2>5, <2>6
    <3> HIDE DEF D, h
    <3>. QED
      BY <3>1, <3>2
  <2>8. h = [s \in D(m) |-> h[s]]
    OBVIOUS
  <2>9. IsIteration(h, f, D(m))
    <3> HIDE DEF D, h
    <3>. QED
      BY <2>7, <2>8 DEF IsIteration
  <2>. QED
    BY <2>9
<1>5. bad = {}
  <2> HIDE DEF bad
  <2>1. bad \subseteq Nat
    BY DEF bad
  <2>. QED
    BY <1>4, <2>1, NoDescent
<1>6. D(Cardinality(S)) = SUBSET S
  BY FS_Subset, FS_CardinalityType
<1>. QED
  BY <1>1, <1>5, <1>6

\* it adds up f over every subset of S, in whatever order.
AddsUp(it, f, S) ==
    /\ it \in [SUBSET S -> Int]
    /\ it[{}] = 0
    /\ \A s \in SUBSET S : \A x \in s : it[s] = f[x] + it[s \ {x}]

LEMMA SumAddsUp ==
    ASSUME NEW S, IsFiniteSet(S), NEW f, \A x \in S : f[x] \in Int
    PROVE  \E it : AddsUp(it, f, S) /\ SumFunctionOnSet(f, S) = it[S]
<1> DEFINE next(s) == s \ {Any(s)}
<1>1. SumFunctionOnSet(f, S) = (CHOOSE it : IsIteration(it, f, SUBSET S))[S]
  BY DEF SumFunctionOnSet, FoldFunctionOnSet, MapThenFoldSet, IsIteration, Any
<1>2. PICK it : IsIteration(it, f, SUBSET S) /\ SumFunctionOnSet(f, S) = it[S]
  BY <1>1, IterationExists
<1>3. \A s \in SUBSET S : it[s] = IF s = {} THEN 0 ELSE f[Any(s)] + it[next(s)]
  BY <1>2 DEF IsIteration
<1>4. \A s \in SUBSET S : s # {} => Any(s) \in s
  BY DEF Any
<1>5. it = [s \in SUBSET S |-> it[s]]
  BY <1>2 DEF IsIteration
<1>6. it[{}] = 0
  BY <1>3
<1> DEFINE T == {s \in SUBSET S : it[s] \in Int}
<1>7. \A s \in SUBSET S : (\A x \in s : s \ {x} \in T) => s \in T
  <2> TAKE s \in SUBSET S
  <2> HAVE \A x \in s : s \ {x} \in T
  <2>1. CASE s = {}
    BY <1>6, <2>1
  <2>2. CASE s # {}
    <3>1. it[s] = f[Any(s)] + it[next(s)] /\ Any(s) \in s
      BY <1>3, <1>4, <2>2
    <3>2. it[next(s)] \in Int
      BY <3>1
    <3>3. f[Any(s)] \in Int
      BY <3>1
    <3>. QED
      BY <3>1, <3>2, <3>3
  <2>. QED
    BY <2>1, <2>2
<1>8. SUBSET S \subseteq T
  <2> HIDE DEF T
  <2>. QED
    BY <1>7, SetInduction
<1>9. \A s \in SUBSET S : it[s] \in Int
  BY <1>8
<1> DEFINE U == {s \in SUBSET S : \A x \in s : it[s] = f[x] + it[s \ {x}]}
<1>10. ASSUME NEW s \in SUBSET S, \A x \in s : s \ {x} \in U, NEW x \in s
       PROVE  it[s] = f[x] + it[s \ {x}]
  <2>1. PICK y \in s : y = Any(s) /\ it[s] = f[y] + it[s \ {y}]
    BY <1>3, <1>4
  <2>2. CASE x = y
    BY <2>1, <2>2
  <2>3. CASE x # y
    <3>1. it[s \ {y}] = f[x] + it[(s \ {y}) \ {x}]
      <4>1. s \ {y} \in U /\ x \in s \ {y}
        BY <1>10, <2>3
      <4>. QED
        BY <4>1
    <3>2. it[s \ {x}] = f[y] + it[(s \ {x}) \ {y}]
      <4>1. s \ {x} \in U /\ y \in s \ {x}
        BY <1>10, <2>3
      <4>. QED
        BY <4>1
    <3>3. (s \ {x}) \ {y} = (s \ {y}) \ {x}
      OBVIOUS
    <3>4. PICK rest \in Int : rest = it[(s \ {x}) \ {y}]
      BY <1>9
    <3>5. f[x] \in Int /\ f[y] \in Int
      OBVIOUS
    <3>6. it[s] = f[y] + (f[x] + rest) /\ it[s \ {x}] = f[y] + rest
      BY <2>1, <3>1, <3>2, <3>3, <3>4, Zenon
    <3>. QED
      BY <3>5, <3>6
  <2>. QED
    BY <2>2, <2>3
<1>11. \A s \in SUBSET S : (\A x \in s : s \ {x} \in U) => s \in U
  BY <1>10
<1>12. SUBSET S \subseteq U
  <2> HIDE DEF U
  <2>. QED
    BY <1>11, SetInduction
<1>13. it \in [SUBSET S -> Int]
  BY <1>5, <1>9
<1>14. AddsUp(it, f, S)
  BY <1>6, <1>12, <1>13 DEF AddsUp
<1>. QED
  BY <1>2, <1>14

\* One element may be taken out of a sum.
LEMMA SumRemove ==
    ASSUME NEW S, IsFiniteSet(S), NEW f, \A x \in S : f[x] \in Int
    PROVE  /\ SumFunctionOnSet(f, S) \in Int
           /\ S = {} => SumFunctionOnSet(f, S) = 0
           /\ \A x \in S : SumFunctionOnSet(f, S) = f[x] + SumFunctionOnSet(f, S \ {x})
<1>1. PICK it : AddsUp(it, f, S) /\ SumFunctionOnSet(f, S) = it[S]
  BY SumAddsUp
<1>2. S \in SUBSET S
  OBVIOUS
<1>3. SumFunctionOnSet(f, S) \in Int /\ (S = {} => SumFunctionOnSet(f, S) = 0)
  BY <1>1, <1>2 DEF AddsUp
<1>4. ASSUME NEW x \in S PROVE SumFunctionOnSet(f, S \ {x}) = it[S \ {x}]
  <2>1. PICK R : R = S \ {x}
    OBVIOUS
  <2>2. IsFiniteSet(R) /\ \A y \in R : f[y] \in Int
    BY <2>1, FS_Subset
  <2>3. PICK jt : AddsUp(jt, f, R) /\ SumFunctionOnSet(f, R) = jt[R]
    BY <2>2, SumAddsUp
  <2> DEFINE T == {s \in SUBSET R : jt[s] = it[s]}
  <2>4. ASSUME NEW s \in SUBSET R, \A y \in s : s \ {y} \in T PROVE s \in T
    <3>1. s \in SUBSET S
      BY <2>1
    <3>2. CASE s = {}
      BY <1>1, <2>3, <3>2 DEF AddsUp
    <3>3. CASE s # {}
      <4>1. PICK y : y \in s
        BY <3>3
      <4>2. jt[s \ {y}] = it[s \ {y}]
        BY <2>4, <4>1
      <4>3. jt[s] = f[y] + jt[s \ {y}] /\ it[s] = f[y] + it[s \ {y}]
        BY <1>1, <2>3, <3>1, <4>1 DEF AddsUp
      <4>. QED
        BY <4>2, <4>3
    <3>. QED
      BY <3>2, <3>3
  <2>5. \A s \in SUBSET R : (\A y \in s : s \ {y} \in T) => s \in T
    BY <2>4
  <2>6. SUBSET R \subseteq T
    <3> HIDE DEF T
    <3>. QED
      BY <2>2, <2>5, SetInduction
  <2>. QED
    BY <2>1, <2>3, <2>6
<1>5. \A x \in S : it[S] = f[x] + it[S \ {x}]
  BY <1>1, <1>2 DEF AddsUp
<1>. QED
  BY <1>1, <1>3, <1>4, <1>5

\* The sums of two functions with the same values are the same,
LEMMA SumSame ==
    ASSUME NEW S, IsFiniteSet(S), NEW f, NEW g, \A x \in S : f[x] \in Int /\ g[x] = f[x]
    PROVE  SumFunctionOnSet(f, S) = SumFunctionOnSet(g, S)
<1> DEFINE T == {s \in SUBSET S : SumFunctionOnSet(f, s) = SumFunctionOnSet(g, s)}
<1>1. ASSUME NEW s \in SUBSET S, \A x \in s : s \ {x} \in T PROVE s \in T
  <2>1. /\ IsFiniteSet(s)
        /\ \A x \in s : f[x] \in Int
        /\ \A x \in s : g[x] \in Int
        /\ \A x \in s : g[x] = f[x]
    BY FS_Subset
  <2>2. /\ s = {} => SumFunctionOnSet(f, s) = 0
        /\ \A x \in s : SumFunctionOnSet(f, s) = f[x] + SumFunctionOnSet(f, s \ {x})
    BY <2>1, SumRemove
  <2>3. /\ s = {} => SumFunctionOnSet(g, s) = 0
        /\ \A x \in s : SumFunctionOnSet(g, s) = g[x] + SumFunctionOnSet(g, s \ {x})
    BY <2>1, SumRemove
  <2>4. CASE s = {}
    BY <2>2, <2>3, <2>4
  <2>5. CASE s # {}
    <3>1. PICK x : x \in s
      BY <2>5
    <3>2. SumFunctionOnSet(f, s \ {x}) = SumFunctionOnSet(g, s \ {x})
      BY <1>1, <3>1
    <3>. QED
      BY <2>1, <2>2, <2>3, <3>1, <3>2
  <2>. QED
    BY <2>4, <2>5
<1>2. \A s \in SUBSET S : (\A x \in s : s \ {x} \in T) => s \in T
  BY <1>1
<1>3. SUBSET S \subseteq T
  <2> HIDE DEF T
  <2>. QED
    BY <1>2, SetInduction
<1>. QED
  BY <1>3

\* and those of two that differ in one value differ by as much.
LEMMA SumChange ==
    ASSUME NEW S, IsFiniteSet(S), NEW f, NEW g, NEW x \in S,
           \A y \in S : f[y] \in Int, \A y \in S : g[y] \in Int,
           \A y \in S \ {x} : g[y] = f[y]
    PROVE  /\ SumFunctionOnSet(f, S) \in Int
           /\ SumFunctionOnSet(g, S) = SumFunctionOnSet(f, S) + (g[x] - f[x])
<1>1. /\ SumFunctionOnSet(f, S) \in Int
      /\ SumFunctionOnSet(f, S) = f[x] + SumFunctionOnSet(f, S \ {x})
  BY SumRemove
<1>2. SumFunctionOnSet(g, S) = g[x] + SumFunctionOnSet(g, S \ {x})
  BY SumRemove
<1>3. PICK R : R = S \ {x}
  OBVIOUS
<1>4. IsFiniteSet(R) /\ (\A y \in R : f[y] \in Int /\ g[y] = f[y])
  BY <1>3, FS_Subset
<1>5. SumFunctionOnSet(f, R) = SumFunctionOnSet(g, R)
  BY <1>4, SumSame
<1>6. SumFunctionOnSet(f, R) \in Int
  BY <1>4, SumRemove
<1>7. PICK n \in Int : n = SumFunctionOnSet(f, R)
  BY <1>6
<1>8. SumFunctionOnSet(f, S) = f[x] + n /\ SumFunctionOnSet(g, S) = g[x] + n
  BY <1>1, <1>2, <1>3, <1>5, <1>7
<1>9. f[x] \in Int /\ g[x] \in Int
  OBVIOUS
<1>. QED
  BY <1>1, <1>8, <1>9

\* The term of x in the sum of f over S, and the sum without it.
Term(f, S, x) == IF x \in S THEN f[x] ELSE 0

LEMMA SumTakeOut ==
    ASSUME NEW S, IsFiniteSet(S), NEW f, \A y \in S : f[y] \in Int, NEW x
    PROVE  /\ SumFunctionOnSet(f, S) = Term(f, S, x) + SumFunctionOnSet(f, S \ {x})
           /\ IsFiniteSet(S \ {x}) /\ \A y \in S \ {x} : f[y] \in Int
<1>1. IsFiniteSet(S \ {x})
  BY FS_Subset
<1>2. CASE x \in S
  BY <1>1, <1>2, SumRemove DEF Term
<1>3. CASE x \notin S
  <2>1. S \ {x} = S
    BY <1>3
  <2>2. PICK n \in Int : n = SumFunctionOnSet(f, S)
    BY SumRemove
  <2>3. Term(f, S, x) = 0 /\ 0 + n = n
    BY <1>3 DEF Term
  <2>4. SumFunctionOnSet(f, S) = Term(f, S, x) + SumFunctionOnSet(f, S \ {x})
    BY <2>1, <2>2, <2>3, Zenon
  <2>. QED
    BY <1>1, <2>4
<1>. QED
  BY <1>2, <1>3

\* The sum over at most four lines or entries, term by term.
LEMMA FourTerms ==
    ASSUME NEW S \in SUBSET (1 .. 4), NEW f, \A i \in S : f[i] \in Int
    PROVE  SumFunctionOnSet(f, S) =
           Term(f, S, 1) + Term(f, S, 2) + Term(f, S, 3) + Term(f, S, 4)
<1>1. IsFiniteSet(S)
  <2>1. \A a, b \in Int : IsFiniteSet(a .. b)
    BY FS_Interval
  <2>2. 1 \in Int /\ 4 \in Int
    OBVIOUS
  <2>3. IsFiniteSet(1 .. 4)
    BY <2>1, <2>2, Zenon
  <2>. QED
    BY <2>3, FS_Subset
<1>2. PICK R : R = S \ {1}
  OBVIOUS
<1>3. PICK Q : Q = R \ {2}
  OBVIOUS
<1>4. PICK P : P = Q \ {3}
  OBVIOUS
<1>5. P \ {4} = {}
  BY <1>2, <1>3, <1>4
<1>6. /\ SumFunctionOnSet(f, S) = Term(f, S, 1) + SumFunctionOnSet(f, R)
      /\ IsFiniteSet(R) /\ \A y \in R : f[y] \in Int
  BY <1>1, <1>2, SumTakeOut, ZenonT(60)
<1>7. /\ SumFunctionOnSet(f, R) = Term(f, R, 2) + SumFunctionOnSet(f, Q)
      /\ IsFiniteSet(Q) /\ \A y \in Q : f[y] \in Int
  BY <1>3, <1>6, SumTakeOut
<1>8. /\ SumFunctionOnSet(f, Q) = Term(f, Q, 3) + SumFunctionOnSet(f, P)
      /\ IsFiniteSet(P) /\ \A y \in P : f[y] \in Int
  BY <1>4, <1>7, SumTakeOut
<1>9. SumFunctionOnSet(f, P) = Term(f, P, 4) + SumFunctionOnSet(f, {})
  BY <1>5, <1>8, SumTakeOut
<1>10. SumFunctionOnSet(f, {}) = 0
  BY FS_EmptySet, SumRemove
<1>11. Term(f, R, 2) = Term(f, S, 2) /\ Term(f, Q, 3) = Term(f, S, 3) /\ Term(f, P, 4) = Term(f, S, 4)
  BY <1>2, <1>3, <1>4 DEF Term
<1>12. \A i \in 1 .. 4 : Term(f, S, i) \in Int
  BY DEF Term
<1>. QED
  BY <1>6, <1>7, <1>8, <1>9, <1>10, <1>11, <1>12

\* A sum of zeros.
LEMMA SumZero ==
    ASSUME NEW S, IsFiniteSet(S), NEW f, \A x \in S : f[x] = 0
    PROVE  SumFunctionOnSet(f, S) = 0
<1> DEFINE T == {s \in SUBSET S : SumFunctionOnSet(f, s) = 0}
<1>1. ASSUME NEW s \in SUBSET S, \A x \in s : s \ {x} \in T PROVE s \in T
  <2>1. IsFiniteSet(s) /\ \A x \in s : f[x] = 0
    BY FS_Subset
  <2>2. \A x \in s : f[x] \in Int
    BY <2>1
  <2>3. /\ s = {} => SumFunctionOnSet(f, s) = 0
        /\ \A x \in s : SumFunctionOnSet(f, s) = f[x] + SumFunctionOnSet(f, s \ {x})
    BY <2>1, <2>2, SumRemove
  <2>4. CASE s # {}
    <3>1. PICK x : x \in s
      BY <2>4
    <3>2. SumFunctionOnSet(f, s \ {x}) = 0
      BY <1>1, <3>1
    <3>. QED
      BY <2>1, <2>3, <3>1, <3>2
  <2>. QED
    BY <2>3, <2>4
<1>2. \A s \in SUBSET S : (\A x \in s : s \ {x} \in T) => s \in T
  BY <1>1
<1>3. SUBSET S \subseteq T
  <2> HIDE DEF T
  <2>. QED
    BY <1>2, SetInduction
<1>. QED
  BY <1>3

-----------------------------------------------------------------------------
(* The balances.                                                            *)

\* What one line adds to account a in currency c.
LineNet(line, a, c) ==
    IF line.account_id = a /\ line.currency = c THEN signed_amount(line) ELSE 0

\* An entry of two lines or of four adds what its lines add.
LEMMA TwoLinesNet ==
    ASSUME NEW l1, NEW l2, signed_amount(l1) \in Int, signed_amount(l2) \in Int, NEW a, NEW c
    PROVE  AccountNet(<<l1, l2>>, a, c) = LineNet(l1, a, c) + LineNet(l2, a, c)
<1>1. PICK lines : lines = <<l1, l2>>
  OBVIOUS
<1>2. DOMAIN lines = 1 .. 2 /\ lines[1] = l1 /\ lines[2] = l2
  BY <1>1
<1>3. PICK f : f = [i \in DOMAIN lines |-> signed_amount(lines[i])]
  OBVIOUS
<1>4. PICK S : S = {i \in DOMAIN lines : lines[i].account_id = a /\ lines[i].currency = c}
  OBVIOUS
<1>5. f[1] = signed_amount(l1) /\ f[2] = signed_amount(l2)
  BY <1>2, <1>3
<1>6. /\ 1 \in S <=> l1.account_id = a /\ l1.currency = c
      /\ 2 \in S <=> l2.account_id = a /\ l2.currency = c
      /\ S \in SUBSET (1 .. 2)
  BY <1>2, <1>4
<1>7. S \in SUBSET (1 .. 4) /\ 3 \notin S /\ 4 \notin S /\ \A i \in S : f[i] \in Int
  BY <1>5, <1>6
<1>8. SumFunctionOnSet(f, S) = Term(f, S, 1) + Term(f, S, 2) + Term(f, S, 3) + Term(f, S, 4)
  BY <1>7, FourTerms
<1>9. /\ Term(f, S, 1) = LineNet(l1, a, c) /\ Term(f, S, 2) = LineNet(l2, a, c)
      /\ Term(f, S, 3) = 0 /\ Term(f, S, 4) = 0
  BY <1>5, <1>6, <1>7 DEF Term, LineNet
<1>10. LineNet(l1, a, c) \in Int /\ LineNet(l2, a, c) \in Int
  BY DEF LineNet
<1>11. AccountNet(lines, a, c) = SumFunctionOnSet(f, S)
  BY <1>3, <1>4 DEF AccountNet
<1>. QED
  BY <1>1, <1>8, <1>9, <1>10, <1>11

LEMMA FourLinesNet ==
    ASSUME NEW l1, NEW l2, NEW l3, NEW l4,
           signed_amount(l1) \in Int, signed_amount(l2) \in Int,
           signed_amount(l3) \in Int, signed_amount(l4) \in Int, NEW a, NEW c
    PROVE  AccountNet(<<l1, l2, l3, l4>>, a, c) =
           LineNet(l1, a, c) + LineNet(l2, a, c) + LineNet(l3, a, c) + LineNet(l4, a, c)
<1>1. PICK lines : lines = <<l1, l2, l3, l4>>
  OBVIOUS
<1>2. DOMAIN lines = 1 .. 4 /\ lines[1] = l1 /\ lines[2] = l2 /\ lines[3] = l3 /\ lines[4] = l4
  BY <1>1
<1>3. PICK f : f = [i \in DOMAIN lines |-> signed_amount(lines[i])]
  OBVIOUS
<1>4. PICK S : S = {i \in DOMAIN lines : lines[i].account_id = a /\ lines[i].currency = c}
  OBVIOUS
<1>5. /\ f[1] = signed_amount(l1) /\ f[2] = signed_amount(l2)
      /\ f[3] = signed_amount(l3) /\ f[4] = signed_amount(l4)
  BY <1>2, <1>3
<1>6. /\ 1 \in S <=> l1.account_id = a /\ l1.currency = c
      /\ 2 \in S <=> l2.account_id = a /\ l2.currency = c
      /\ 3 \in S <=> l3.account_id = a /\ l3.currency = c
      /\ 4 \in S <=> l4.account_id = a /\ l4.currency = c
      /\ S \in SUBSET (1 .. 4)
  BY <1>2, <1>4
<1>7. \A i \in S : f[i] \in Int
  BY <1>5, <1>6
<1>8. SumFunctionOnSet(f, S) = Term(f, S, 1) + Term(f, S, 2) + Term(f, S, 3) + Term(f, S, 4)
  BY <1>6, <1>7, FourTerms
<1>9. /\ Term(f, S, 1) = LineNet(l1, a, c) /\ Term(f, S, 2) = LineNet(l2, a, c)
      /\ Term(f, S, 3) = LineNet(l3, a, c) /\ Term(f, S, 4) = LineNet(l4, a, c)
  BY <1>5, <1>6 DEF Term, LineNet
<1>10. AccountNet(lines, a, c) = SumFunctionOnSet(f, S)
  BY <1>3, <1>4 DEF AccountNet
<1>. QED
  BY <1>1, <1>8, <1>9, <1>10

\* The balance over no entry, one, or two.
LEMMA BalanceOfFew ==
    ASSUME NEW a, NEW c
    PROVE  /\ get_balance(<<>>, a, c) = 0
           /\ \A e : AccountNet(e.lines, a, c) \in Int =>
                get_balance(<<e>>, a, c) = AccountNet(e.lines, a, c)
           /\ \A d, e : AccountNet(d.lines, a, c) \in Int /\ AccountNet(e.lines, a, c) \in Int =>
                get_balance(<<d, e>>, a, c) = AccountNet(d.lines, a, c) + AccountNet(e.lines, a, c)
<1> DEFINE Nets(entries) == [i \in DOMAIN entries |-> AccountNet(entries[i].lines, a, c)]
<1>1. ASSUME NEW entries PROVE get_balance(entries, a, c) = SumFunctionOnSet(Nets(entries), DOMAIN entries)
  BY DEF get_balance, SumFunction
<1>2. get_balance(<<>>, a, c) = 0
  <2>1. DOMAIN <<>> = {}
    OBVIOUS
  <2>2. PICK f : f = Nets(<<>>)
    OBVIOUS
  <2>3. SumFunctionOnSet(f, {}) = 0
    BY FS_EmptySet, SumRemove
  <2>. QED
    BY <1>1, <2>1, <2>2, <2>3
<1>3. ASSUME NEW e, AccountNet(e.lines, a, c) \in Int
      PROVE  get_balance(<<e>>, a, c) = AccountNet(e.lines, a, c)
  <2>1. PICK f : f = Nets(<<e>>)
    OBVIOUS
  <2>2. DOMAIN <<e>> = {1} /\ f[1] = AccountNet(e.lines, a, c)
    BY <2>1
  <2>3. {1} \in SUBSET (1 .. 4) /\ \A i \in {1} : f[i] \in Int
    BY <1>3, <2>2
  <2>4. SumFunctionOnSet(f, {1}) = Term(f, {1}, 1) + Term(f, {1}, 2) + Term(f, {1}, 3) + Term(f, {1}, 4)
    BY <2>3, FourTerms
  <2>5. Term(f, {1}, 1) = f[1] /\ Term(f, {1}, 2) = 0 /\ Term(f, {1}, 3) = 0 /\ Term(f, {1}, 4) = 0
    BY DEF Term
  <2>6. SumFunctionOnSet(f, {1}) = f[1]
    BY <2>3, <2>4, <2>5
  <2>. QED
    BY <1>1, <2>1, <2>2, <2>6
<1>4. ASSUME NEW d, NEW e, AccountNet(d.lines, a, c) \in Int, AccountNet(e.lines, a, c) \in Int
      PROVE  get_balance(<<d, e>>, a, c) = AccountNet(d.lines, a, c) + AccountNet(e.lines, a, c)
  <2>1. PICK f : f = Nets(<<d, e>>)
    OBVIOUS
  <2>2. /\ DOMAIN <<d, e>> = {1, 2}
        /\ f[1] = AccountNet(d.lines, a, c) /\ f[2] = AccountNet(e.lines, a, c)
    BY <2>1
  <2>3. PICK S : S = {1, 2}
    OBVIOUS
  <2>4. S \in SUBSET (1 .. 4) /\ \A i \in S : f[i] \in Int
    BY <1>4, <2>2, <2>3
  <2>5. SumFunctionOnSet(f, S) = Term(f, S, 1) + Term(f, S, 2) + Term(f, S, 3) + Term(f, S, 4)
    BY <2>4, FourTerms
  <2>6. Term(f, S, 1) = f[1] /\ Term(f, S, 2) = f[2] /\ Term(f, S, 3) = 0 /\ Term(f, S, 4) = 0
    BY <2>3 DEF Term
  <2>7. SumFunctionOnSet(f, S) = f[1] + f[2]
    BY <2>3, <2>4, <2>5, <2>6
  <2>. QED
    BY <1>1, <2>1, <2>2, <2>3, <2>7
<1>. QED
  BY <1>2, <1>3, <1>4

LEMMA LineNetFacts ==
    ASSUME NEW account, NEW amount \in Int, NEW currency, NEW a, NEW c
    PROVE  LET credit == JournalLine(account, "credit", amount, currency)
               debit == JournalLine(account, "debit", amount, currency)
               mine == account = a /\ currency = c
           IN  /\ signed_amount(credit) \in Int /\ signed_amount(debit) \in Int
               /\ LineNet(credit, a, c) = Balances!Given(mine, amount)
               /\ LineNet(debit, a, c) = - Balances!Given(mine, amount)
BY DEF JournalLine, signed_amount, LineNet, Balances!Given

\* What a payment credits, from the creditor amount in its row.
Credited(p, creditor_amount) == IF IsFx(p) THEN creditor_amount ELSE Terms[p].amount

\* A settlement entry moves what the abstract step says,
LEMMA SettlementNet ==
    ASSUME NEW p \in Payments, ValidTerms(p), NEW n, IsFx(p) => n \in Int, NEW a, NEW c
    PROVE  /\ Balances!Effect(p, Credited(p, n), a, c) \in Int
           /\ AccountNet(SettlementLines(p, n), a, c) = Balances!Effect(p, Credited(p, n), a, c)
<1> DEFINE t == Terms[p]
           dc == AccountCurrency[t.debtor]
           cc == AccountCurrency[t.creditor]
<1>1. t.amount \in Int /\ dc = t.currency
  BY TermsAssumption DEF ValidTerms
<1>2. CASE IsFx(p)
  <2>1. PICK l1, l2, l3, l4 :
          /\ l1 = JournalLine(t.debtor, "debit", t.amount, dc)
          /\ l2 = JournalLine(Suspense, "credit", t.amount, dc)
          /\ l3 = JournalLine(Suspense, "debit", n, cc)
          /\ l4 = JournalLine(t.creditor, "credit", n, cc)
    OBVIOUS
  <2>2. SettlementLines(p, n) = <<l1, l2, l3, l4>>
    BY <1>2, <2>1 DEF SettlementLines
  <2>3. n \in Int
    BY <1>2
  <2>4. /\ signed_amount(l1) \in Int /\ signed_amount(l2) \in Int
        /\ signed_amount(l3) \in Int /\ signed_amount(l4) \in Int
    BY <1>1, <2>1, <2>3, LineNetFacts
  <2>5. AccountNet(<<l1, l2, l3, l4>>, a, c) =
        LineNet(l1, a, c) + LineNet(l2, a, c) + LineNet(l3, a, c) + LineNet(l4, a, c)
    BY <2>4, FourLinesNet
  <2>6. /\ LineNet(l1, a, c) = - Balances!Given(t.debtor = a /\ dc = c, t.amount)
        /\ LineNet(l2, a, c) = Balances!Given(Suspense = a /\ dc = c, t.amount)
        /\ LineNet(l3, a, c) = - Balances!Given(Suspense = a /\ cc = c, n)
        /\ LineNet(l4, a, c) = Balances!Given(t.creditor = a /\ cc = c, n)
    BY <1>1, <2>1, <2>3, LineNetFacts
  <2>7. ~ Balances!SameCurrency(p) /\ Credited(p, n) = n
    BY <1>2 DEF Balances!SameCurrency, Credited, IsFx
  <2>8. Balances!Effect(p, n, a, c) =
          Balances!Given(cc = c /\ t.creditor = a, n) - Balances!Given(dc = c /\ t.debtor = a, t.amount)
          + Balances!Given(dc = c /\ Suspense = a, t.amount)
          - Balances!Given(cc = c /\ Suspense = a, n)
    BY <2>7 DEF Balances!Effect, Balances!Given
  <2>9. PICK x1, x2, x3, x4 \in Int :
          /\ x1 = Balances!Given(t.debtor = a /\ dc = c, t.amount)
          /\ x2 = Balances!Given(Suspense = a /\ dc = c, t.amount)
          /\ x3 = Balances!Given(Suspense = a /\ cc = c, n)
          /\ x4 = Balances!Given(t.creditor = a /\ cc = c, n)
    BY <1>1, <2>3 DEF Balances!Given
  <2>10. Balances!Effect(p, n, a, c) = x4 - x1 + x2 - x3
    BY <2>8, <2>9 DEF Balances!Given
  <2>11. AccountNet(<<l1, l2, l3, l4>>, a, c) = - x1 + x2 + (- x3) + x4
    BY <2>5, <2>6, <2>9
  <2>. QED
    BY <2>2, <2>7, <2>10, <2>11
<1>3. CASE ~ IsFx(p)
  <2>1. PICK l1, l2 :
          /\ l1 = JournalLine(t.debtor, "debit", t.amount, t.currency)
          /\ l2 = JournalLine(t.creditor, "credit", t.amount, t.currency)
    OBVIOUS
  <2>2. SettlementLines(p, n) = <<l1, l2>>
    BY <1>3, <2>1 DEF SettlementLines
  <2>3. signed_amount(l1) \in Int /\ signed_amount(l2) \in Int
    BY <1>1, <2>1, LineNetFacts
  <2>4. AccountNet(<<l1, l2>>, a, c) = LineNet(l1, a, c) + LineNet(l2, a, c)
    BY <2>3, TwoLinesNet
  <2>5. /\ LineNet(l1, a, c) = - Balances!Given(t.debtor = a /\ dc = c, t.amount)
        /\ LineNet(l2, a, c) = Balances!Given(t.creditor = a /\ dc = c, t.amount)
    BY <1>1, <2>1, LineNetFacts
  <2>6. Balances!SameCurrency(p) /\ dc = cc /\ Credited(p, n) = t.amount
    BY <1>3 DEF Balances!SameCurrency, Credited, IsFx
  <2>7. Balances!Effect(p, t.amount, a, c) =
          Balances!Given(cc = c /\ t.creditor = a, t.amount)
          - Balances!Given(dc = c /\ t.debtor = a, t.amount)
    BY <1>1, <2>6 DEF Balances!Effect, Balances!Given
  <2>. QED
    BY <1>1, <2>2, <2>4, <2>5, <2>6, <2>7 DEF Balances!Given
<1>. QED
  BY <1>2, <1>3

\* and a reversal entry moves it back.
LEMMA ReversalNet ==
    ASSUME NEW p \in Payments, ValidTerms(p), NEW n, IF IsFx(p) THEN n \in Int ELSE n = None,
           NEW a, NEW c
    PROVE  AccountNet(ReversalLines(p, n), a, c) = - Balances!Effect(p, Credited(p, n), a, c)
<1> DEFINE t == Terms[p]
           dc == AccountCurrency[t.debtor]
           cc == AccountCurrency[t.creditor]
<1>1. t.amount \in Int /\ dc = t.currency
  BY TermsAssumption DEF ValidTerms
<1>2. CASE IsFx(p)
  <2>1. PICK l1, l2, l3, l4 :
          /\ l1 = JournalLine(Suspense, "debit", t.amount, dc)
          /\ l2 = JournalLine(t.debtor, "credit", t.amount, dc)
          /\ l3 = JournalLine(t.creditor, "debit", n, cc)
          /\ l4 = JournalLine(Suspense, "credit", n, cc)
    OBVIOUS
  <2>2. n \in Int
    BY <1>2
  <2>3. ReversalLines(p, n) = <<l1, l2, l3, l4>>
    BY <2>1, <2>2, NoneAssumption DEF ReversalLines
  <2>4. /\ signed_amount(l1) \in Int /\ signed_amount(l2) \in Int
        /\ signed_amount(l3) \in Int /\ signed_amount(l4) \in Int
    BY <1>1, <2>1, <2>2, LineNetFacts
  <2>5. AccountNet(<<l1, l2, l3, l4>>, a, c) =
        LineNet(l1, a, c) + LineNet(l2, a, c) + LineNet(l3, a, c) + LineNet(l4, a, c)
    BY <2>4, FourLinesNet
  <2>6. /\ LineNet(l1, a, c) = - Balances!Given(Suspense = a /\ dc = c, t.amount)
        /\ LineNet(l2, a, c) = Balances!Given(t.debtor = a /\ dc = c, t.amount)
        /\ LineNet(l3, a, c) = - Balances!Given(t.creditor = a /\ cc = c, n)
        /\ LineNet(l4, a, c) = Balances!Given(Suspense = a /\ cc = c, n)
    BY <1>1, <2>1, <2>2, LineNetFacts
  <2>7. ~ Balances!SameCurrency(p) /\ Credited(p, n) = n
    BY <1>2 DEF Balances!SameCurrency, Credited, IsFx
  <2>8. Balances!Effect(p, n, a, c) =
          Balances!Given(cc = c /\ t.creditor = a, n) - Balances!Given(dc = c /\ t.debtor = a, t.amount)
          + Balances!Given(dc = c /\ Suspense = a, t.amount)
          - Balances!Given(cc = c /\ Suspense = a, n)
    BY <2>7 DEF Balances!Effect, Balances!Given
  <2>9. PICK x1, x2, x3, x4 \in Int :
          /\ x1 = Balances!Given(Suspense = a /\ dc = c, t.amount)
          /\ x2 = Balances!Given(t.debtor = a /\ dc = c, t.amount)
          /\ x3 = Balances!Given(t.creditor = a /\ cc = c, n)
          /\ x4 = Balances!Given(Suspense = a /\ cc = c, n)
    BY <1>1, <2>2 DEF Balances!Given
  <2>10. Balances!Effect(p, n, a, c) = x3 - x2 + x1 - x4
    BY <2>8, <2>9 DEF Balances!Given
  <2>11. AccountNet(<<l1, l2, l3, l4>>, a, c) = - x1 + x2 + (- x3) + x4
    BY <2>5, <2>6, <2>9
  <2>. QED
    BY <2>3, <2>7, <2>10, <2>11
<1>3. CASE ~ IsFx(p)
  <2>1. PICK l1, l2 :
          /\ l1 = JournalLine(t.creditor, "debit", t.amount, t.currency)
          /\ l2 = JournalLine(t.debtor, "credit", t.amount, t.currency)
    OBVIOUS
  <2>2. ReversalLines(p, n) = <<l1, l2>>
    BY <1>3, <2>1 DEF ReversalLines
  <2>3. signed_amount(l1) \in Int /\ signed_amount(l2) \in Int
    BY <1>1, <2>1, LineNetFacts
  <2>4. AccountNet(<<l1, l2>>, a, c) = LineNet(l1, a, c) + LineNet(l2, a, c)
    BY <2>3, TwoLinesNet
  <2>5. /\ LineNet(l1, a, c) = - Balances!Given(t.creditor = a /\ dc = c, t.amount)
        /\ LineNet(l2, a, c) = Balances!Given(t.debtor = a /\ dc = c, t.amount)
    BY <1>1, <2>1, LineNetFacts
  <2>6. Balances!SameCurrency(p) /\ dc = cc /\ Credited(p, n) = t.amount
    BY <1>3 DEF Balances!SameCurrency, Credited, IsFx
  <2>7. Balances!Effect(p, t.amount, a, c) =
          Balances!Given(cc = c /\ t.creditor = a, t.amount)
          - Balances!Given(dc = c /\ t.debtor = a, t.amount)
    BY <1>1, <2>6 DEF Balances!Effect, Balances!Given
  <2>. QED
    BY <1>1, <2>2, <2>4, <2>5, <2>6, <2>7 DEF Balances!Given
<1>. QED
  BY <1>2, <1>3

\* What a payment has done to a balance: its effect while it is settled, and
\* nothing before that or once it is reversed.
Share(p, a, c) ==
    IF Statuses[p] = "settled" THEN Balances!Effect(p, Booked[p], a, c) ELSE 0

LEMMA BalanceOfPayment ==
    ASSUME IInv, NEW p \in Payments, NEW a \in Accounts, NEW c \in Currencies
    PROVE  /\ get_balance(journal[p], a, c) = Share(p, a, c)
           /\ Share(p, a, c) \in Int
           /\ Moved(p) => Balances!Effect(p, Booked[p], a, c) \in Int
<1>1. PICK n : n = payments[p].creditor_amount
  OBVIOUS
<1>2. CASE ~ Moved(p)
  <2>1. journal[p] = <<>>
    BY <1>2 DEF IInv, LedgerFollowsStatus, Moved
  <2>2. get_balance(journal[p], a, c) = 0
    BY <2>1, BalanceOfFew
  <2>. QED
    BY <1>2, <2>2 DEF Share, Moved, Statuses
<1>3. CASE Moved(p)
  <2>1. ValidTerms(p)
    BY <1>3 DEF IInv, RowsOK, Moved
  <2>2. IF IsFx(p) THEN n \in 1 .. MaxNumeric ELSE n = None
    BY <1>1, <1>3 DEF IInv, FxDetailsAreTheBookedOnes
  <2>3. IF IsFx(p) THEN n \in Int ELSE n = None
    BY <2>2, RatesAssumption
  <2>4. Booked[p] = Credited(p, n)
    BY <1>1, <1>3, <2>3, NoneAssumption DEF Booked, Moved, Credited
  <2>5. PICK e : e = Balances!Effect(p, Booked[p], a, c)
    OBVIOUS
  <2>6. e \in Int /\ AccountNet(SettlementLines(p, n), a, c) = e
    BY <2>1, <2>3, <2>4, <2>5, SettlementNet
  <2>7. AccountNet(ReversalLines(p, n), a, c) = - e
    BY <2>1, <2>3, <2>4, <2>5, ReversalNet
  <2>8. PICK s : s = SettlementEntry(p, n)
    OBVIOUS
  <2>9. PICK v : v = ReversalEntry(p, n)
    OBVIOUS
  <2>10. AccountNet(s.lines, a, c) = e /\ AccountNet(v.lines, a, c) = - e /\ - e \in Int
    <3>1. s.lines = SettlementLines(p, n) /\ v.lines = ReversalLines(p, n)
      BY <2>8, <2>9 DEF SettlementEntry, ReversalEntry, JournalEntry
    <3>. QED
      BY <2>6, <2>7, <3>1
  <2>11. CASE payments[p].status = "settled"
    <3>1. journal[p] = <<s>>
      BY <1>1, <2>8, <2>11 DEF IInv, LedgerFollowsStatus
    <3>2. get_balance(<<s>>, a, c) = e
      BY <2>6, <2>10, BalanceOfFew
    <3>. QED
      BY <2>5, <2>6, <2>11, <3>1, <3>2 DEF Share, Statuses
  <2>12. CASE payments[p].status = "reversed"
    <3>1. journal[p] = <<s, v>>
      BY <1>1, <2>8, <2>9, <2>12 DEF IInv, LedgerFollowsStatus
    <3>2. get_balance(<<s, v>>, a, c) = e + (- e)
      BY <2>6, <2>10, BalanceOfFew, ZenonT(60)
    <3>3. e + (- e) = 0
      BY <2>6
    <3>. QED
      BY <2>5, <2>6, <2>12, <3>1, <3>2, <3>3 DEF Share, Statuses
  <2>. QED
    BY <1>3, <2>11, <2>12 DEF Moved
<1>. QED
  BY <1>2, <1>3

\* A balance is the sum of the shares of the payments.
SharesAddUp ==
    \A a \in Accounts, c \in Currencies :
        /\ Balance[a][c] = SumFunctionOnSet([p \in Payments |-> Share(p, a, c)], Payments)
        /\ \A p \in Payments : Share(p, a, c) \in Int

LEMMA AlwaysAddUp == IInv => SharesAddUp
<1> SUFFICES ASSUME IInv, NEW a \in Accounts, NEW c \in Currencies
             PROVE  /\ Balance[a][c] =
                       SumFunctionOnSet([p \in Payments |-> Share(p, a, c)], Payments)
                    /\ \A p \in Payments : Share(p, a, c) \in Int
  BY DEF SharesAddUp
<1>1. PICK f : f = [p \in Payments |-> get_balance(journal[p], a, c)]
  OBVIOUS
<1>2. PICK g : g = [p \in Payments |-> Share(p, a, c)]
  OBVIOUS
<1>3. f = g
  BY <1>1, <1>2, BalanceOfPayment
<1>4. Balance[a][c] = SumFunction(f)
  BY <1>1 DEF Balance
<1>5. SumFunction(f) = SumFunctionOnSet(f, Payments)
  <2>1. DOMAIN f = Payments
    BY <1>1
  <2>. QED
    BY <2>1 DEF SumFunction
<1>. QED
  BY <1>2, <1>3, <1>4, <1>5, BalanceOfPayment

\* A balance changes as the share of the one payment that changes.
LEMMA BalanceMoves ==
    ASSUME SharesAddUp, SharesAddUp', NEW x \in Payments,
           \A p \in Payments \ {x} : Statuses'[p] = Statuses[p] /\ Booked'[p] = Booked[p],
           NEW a \in Accounts, NEW c \in Currencies
    PROVE  /\ Balance[a][c] \in Int /\ Share(x, a, c) \in Int /\ Share(x, a, c)' \in Int
           /\ Balance'[a][c] = Balance[a][c] + (Share(x, a, c)' - Share(x, a, c))
<1>1. PICK f : f = [p \in Payments |-> Share(p, a, c)]
  OBVIOUS
<1>2. PICK g : g = [p \in Payments |-> Share(p, a, c)']
  OBVIOUS
<1>3. /\ Balance[a][c] = SumFunctionOnSet(f, Payments)
      /\ \A p \in Payments : Share(p, a, c) \in Int
  BY <1>1 DEF SharesAddUp
<1>4. /\ Balance'[a][c] = SumFunctionOnSet(g, Payments)
      /\ \A p \in Payments : Share(p, a, c)' \in Int
  BY <1>2 DEF SharesAddUp
<1>5. /\ \A p \in Payments : f[p] \in Int
      /\ \A p \in Payments : g[p] \in Int
      /\ f[x] = Share(x, a, c) /\ g[x] = Share(x, a, c)'
  BY <1>1, <1>2, <1>3, <1>4
<1>6. \A p \in Payments \ {x} : g[p] = f[p]
  BY <1>1, <1>2 DEF Share
<1>7. /\ SumFunctionOnSet(f, Payments) \in Int
      /\ SumFunctionOnSet(g, Payments) = SumFunctionOnSet(f, Payments) + (g[x] - f[x])
  BY <1>5, <1>6, PaymentsAssumption, SumChange
<1>. QED
  BY <1>3, <1>4, <1>5, <1>7

\* A step of the lifecycle of x moves the money as the abstract step does.
LEMMA StepMovesMoney ==
    ASSUME IInv, IInv', NEW x \in Payments, NEW from, NEW to, Lifecycle!Step(x, from, to),
           Booked' = [Booked EXCEPT ![x] = Booked'[x]], NEW credited, NEW sign \in {0, 1, -1},
           \A a \in Accounts, c \in Currencies :
             Share(x, a, c)' - Share(x, a, c) = sign * Balances!Effect(x, credited, a, c)
    PROVE  Balances!MoveMoney(x, credited, sign)
<1>1. SharesAddUp
  BY AlwaysAddUp
<1>2. SharesAddUp'
  BY AlwaysAddUp, PTL
<1>3. \A p \in Payments \ {x} : Statuses'[p] = Statuses[p] /\ Booked'[p] = Booked[p]
  <2>1. Statuses' = [Statuses EXCEPT ![x] = to]
    BY DEF Lifecycle!Step
  <2>2. DOMAIN Statuses = Payments /\ DOMAIN Booked = Payments
    BY DEF Statuses, Booked
  <2>. QED
    BY <2>1, <2>2
<1>4. \A a \in Accounts, c \in Currencies :
        Balance'[a][c] = Balance[a][c] + sign * Balances!Effect(x, credited, a, c)
  BY <1>1, <1>2, <1>3, BalanceMoves
<1>5. Balance' = [a \in Accounts |-> [c \in Currencies |-> Balance'[a][c]]]
  BY DEF Balance
<1>. QED
  BY <1>4, <1>5 DEF Balances!MoveMoney

\* While no share changes no balance does.
LEMMA BalancesRest ==
    ASSUME IInv, IInv',
           \A p \in Payments, a \in Accounts, c \in Currencies : Share(p, a, c)' = Share(p, a, c)
    PROVE  Balance' = Balance
<1>1. SharesAddUp
  BY AlwaysAddUp
<1>2. SharesAddUp'
  BY AlwaysAddUp, PTL
<1>3. ASSUME NEW a \in Accounts, NEW c \in Currencies
      PROVE  Balance'[a][c] = Balance[a][c]
  <2>1. PICK f : f = [p \in Payments |-> Share(p, a, c)]
    OBVIOUS
  <2>2. f = [p \in Payments |-> Share(p, a, c)']
    BY <2>1
  <2>3. Balance[a][c] = SumFunctionOnSet(f, Payments)
    BY <1>1, <2>1 DEF SharesAddUp
  <2>4. Balance'[a][c] = SumFunctionOnSet(f, Payments)
    BY <1>2, <2>2 DEF SharesAddUp
  <2>. QED
    BY <2>3, <2>4
<1>4. /\ Balance = [a \in Accounts |-> [c \in Currencies |-> Balance[a][c]]]
      /\ Balance' = [a \in Accounts |-> [c \in Currencies |-> Balance'[a][c]]]
  BY DEF Balance
<1>. QED
  BY <1>3, <1>4

\* A step from a status that is not settled to another moves no money.
LEMMA StepMovesNoMoney ==
    ASSUME IInv, IInv', NEW x \in Payments, NEW from \in {"absent", "initiated", "authorised"},
           NEW to \in {"initiated", "authorised", "failed"},
           Lifecycle!Step(x, from, to), UNCHANGED Booked
    PROVE  Balance' = Balance
<1>1. /\ Statuses[x] # "settled" /\ Statuses'[x] # "settled"
      /\ \A p \in Payments \ {x} : Statuses'[p] = Statuses[p]
  BY DEF Lifecycle!Step, Statuses
<1>2. \A p \in Payments, a \in Accounts, c \in Currencies : Share(p, a, c)' = Share(p, a, c)
  BY <1>1 DEF Share
<1>. QED
  BY <1>2, BalancesRest

\* The money follows every step of the lifecycle.
LEMMA MoneyFollows ==
    ASSUME IInv, IInv', Lifecycle!AbsNext
    PROVE  Balances!BalanceNext
<1>1. PICK x \in Payments :
        \/ Lifecycle!Initiate(x) \/ Lifecycle!Authorise(x) \/ Lifecycle!Fail(x)
        \/ Lifecycle!Reverse(x) \/ Lifecycle!Settle(x, Booked'[x])
  BY DEF Lifecycle!AbsNext
<1>2. CASE Lifecycle!Initiate(x) \/ Lifecycle!Authorise(x) \/ Lifecycle!Fail(x)
  <2>1. Balance' = Balance
    BY <1>2, StepMovesNoMoney DEF Lifecycle!Initiate, Lifecycle!Authorise, Lifecycle!Fail
  <2>2. Balances!Initiate(x) \/ Balances!Authorise(x) \/ Balances!Fail(x)
    BY <1>2 DEF Lifecycle!Initiate, Lifecycle!Authorise, Lifecycle!Fail, Lifecycle!Step,
                Balances!Initiate, Balances!Authorise, Balances!Fail, Balances!Step
  <2>. QED
    BY <2>1, <2>2 DEF Balances!BalanceNext
<1>3. CASE Lifecycle!Settle(x, Booked'[x])
  <2>1. Lifecycle!Step(x, "authorised", "settled") /\ Booked' = [Booked EXCEPT ![x] = Booked'[x]]
    BY <1>3 DEF Lifecycle!Settle
  <2>2. Statuses[x] = "authorised" /\ Statuses'[x] = "settled" /\ payments'[x].status = "settled"
    BY <2>1 DEF Lifecycle!Step, Statuses
  <2>3. PICK n : n = Booked'[x]
    OBVIOUS
  <2>4. ASSUME NEW a \in Accounts, NEW c \in Currencies
        PROVE  Share(x, a, c)' - Share(x, a, c) = 1 * Balances!Effect(x, n, a, c)
    <3>1. Share(x, a, c) = 0 /\ Share(x, a, c)' = Balances!Effect(x, n, a, c)
      BY <2>2, <2>3 DEF Share
    <3>2. SharesAddUp'
      BY AlwaysAddUp, PTL
    <3>3. Share(x, a, c)' \in Int
      BY <3>2 DEF SharesAddUp
    <3>. QED
      BY <3>1, <3>3
  <2>5. Balances!MoveMoney(x, n, 1)
    BY <2>1, <2>4, StepMovesMoney
  <2>6. Balances!Settle(x, Booked'[x])
    BY <1>3 DEF Lifecycle!Settle, Lifecycle!Step, Lifecycle!SameCurrency,
                Balances!Settle, Balances!Step, Balances!SameCurrency
  <2>. QED
    BY <2>3, <2>5, <2>6 DEF Balances!BalanceNext
<1>4. CASE Lifecycle!Reverse(x)
  <2>1. Lifecycle!Step(x, "settled", "reversed") /\ Booked' = Booked
    BY <1>4 DEF Lifecycle!Reverse
  <2>2. Statuses[x] = "settled" /\ Statuses'[x] = "reversed" /\ Moved(x)
    BY <2>1 DEF Lifecycle!Step, Statuses, Moved
  <2>3. Booked' = [Booked EXCEPT ![x] = Booked'[x]]
    BY <2>1 DEF Booked
  <2>4. PICK n : n = Booked[x]
    OBVIOUS
  <2>5. ASSUME NEW a \in Accounts, NEW c \in Currencies
        PROVE  Share(x, a, c)' - Share(x, a, c) = (-1) * Balances!Effect(x, n, a, c)
    <3>1. Share(x, a, c) = Balances!Effect(x, n, a, c) /\ Share(x, a, c)' = 0
      BY <2>2, <2>4 DEF Share
    <3>2. Balances!Effect(x, n, a, c) \in Int
      BY <2>2, <2>4, BalanceOfPayment
    <3>. QED
      BY <3>1, <3>2
  <2>6. Balances!MoveMoney(x, n, -1)
    BY <2>1, <2>3, <2>5, StepMovesMoney
  <2>7. Balances!Reverse(x)
    BY <1>4 DEF Lifecycle!Reverse, Lifecycle!Step, Balances!Reverse, Balances!Step
  <2>. QED
    BY <2>4, <2>6, <2>7 DEF Balances!BalanceNext
<1>. QED
  BY <1>1, <1>2, <1>3, <1>4

\* Nothing is booked at first.
LEMMA InitBalances == Init => Balances!BalanceInit
<1> SUFFICES ASSUME Init
             PROVE  Balances!BalanceInit
  OBVIOUS
<1>1. Balances!AbsInit
  BY InitRefines DEF Lifecycle!AbsInit, Balances!AbsInit
<1>2. ASSUME NEW a \in Accounts, NEW c \in Currencies
      PROVE  Balance[a][c] = 0
  <2>1. PICK f : f = [p \in Payments |-> get_balance(journal[p], a, c)]
    OBVIOUS
  <2>2. ASSUME NEW p \in Payments
        PROVE  f[p] = 0
    <3>1. journal[p] = <<>>
      BY DEF Init
    <3>. QED
      BY <2>1, <3>1, BalanceOfFew
  <2>3. SumFunctionOnSet(f, Payments) = 0
    BY <2>2, PaymentsAssumption, SumZero
  <2>4. SumFunction(f) = SumFunctionOnSet(f, Payments)
    <3>1. DOMAIN f = Payments
      BY <2>1
    <3>. QED
      BY <3>1 DEF SumFunction
  <2>5. Balance[a][c] = SumFunction(f)
    BY <2>1 DEF Balance
  <2>. QED
    BY <2>3, <2>4, <2>5
<1>3. Balance = [a \in Accounts |-> [c \in Currencies |-> Balance[a][c]]]
  BY DEF Balance
<1>. QED
  BY <1>1, <1>2, <1>3 DEF Balances!BalanceInit

\* Every step is a step of the balances or a stutter.
LEMMA NextBalances ==
    ASSUME IInv, IInv', [Next]_vars
    PROVE  [Balances!BalanceNext]_<<Balances!absVars, Balance>>
<1>1. [Lifecycle!AbsNext]_(Lifecycle!absVars)
  BY NextRefines
<1>2. CASE Lifecycle!AbsNext
  BY <1>2, MoneyFollows
<1>3. CASE UNCHANGED Lifecycle!absVars
  <2>1. Statuses' = Statuses /\ Booked' = Booked
    BY <1>3 DEF Lifecycle!absVars
  <2>2. \A p \in Payments, a \in Accounts, c \in Currencies : Share(p, a, c)' = Share(p, a, c)
    BY <2>1 DEF Share
  <2>3. Balance' = Balance
    BY <2>2, BalancesRest
  <2>. QED
    BY <2>1, <2>3 DEF Balances!absVars
<1>. QED
  BY <1>1, <1>2, <1>3

\* For any finite set of payments, and any accounts, currencies, requests and
\* attempts: the balances get_balance computes move in the very commit that settles
\* a payment or reverses it, by what was booked, and in no other step
\* (_transition_with_ledger_entry, _settlement_lines and _reversal_lines).
THEOREM BalanceRefinement == Spec => ImplementsBalances
<1>1. Init => Balances!BalanceInit
  BY InitBalances
<1>2. IInv /\ IInv' /\ [Next]_vars => [Balances!BalanceNext]_<<Balances!absVars, Balance>>
  BY NextBalances
<1>. QED
  BY <1>1, <1>2, Inductive, PTL DEF Spec, ImplementsBalances, Balances!BalanceSpec

-----------------------------------------------------------------------------
(* The books balance.                                                       *)

\* The sum of two functions adds up to their sums,
LEMMA SumOfSums ==
    ASSUME NEW S, IsFiniteSet(S), NEW f, NEW g, NEW h,
           \A x \in S : f[x] \in Int, \A x \in S : g[x] \in Int,
           \A x \in S : h[x] = f[x] + g[x]
    PROVE  SumFunctionOnSet(h, S) = SumFunctionOnSet(f, S) + SumFunctionOnSet(g, S)
<1> DEFINE T == {s \in SUBSET S :
                   SumFunctionOnSet(h, s) = SumFunctionOnSet(f, s) + SumFunctionOnSet(g, s)}
<1>1. ASSUME NEW s \in SUBSET S, \A x \in s : s \ {x} \in T PROVE s \in T
  <2>1. /\ IsFiniteSet(s)
        /\ \A x \in s : f[x] \in Int
        /\ \A x \in s : g[x] \in Int
        /\ \A x \in s : h[x] \in Int
    BY FS_Subset
  <2>2. /\ s = {} => SumFunctionOnSet(f, s) = 0
        /\ \A x \in s : SumFunctionOnSet(f, s) = f[x] + SumFunctionOnSet(f, s \ {x})
    BY <2>1, SumRemove
  <2>3. /\ s = {} => SumFunctionOnSet(g, s) = 0
        /\ \A x \in s : SumFunctionOnSet(g, s) = g[x] + SumFunctionOnSet(g, s \ {x})
    BY <2>1, SumRemove
  <2>4. /\ s = {} => SumFunctionOnSet(h, s) = 0
        /\ \A x \in s : SumFunctionOnSet(h, s) = h[x] + SumFunctionOnSet(h, s \ {x})
    BY <2>1, SumRemove
  <2>5. CASE s = {}
    BY <2>2, <2>3, <2>4, <2>5
  <2>6. CASE s # {}
    <3>1. PICK x : x \in s
      BY <2>6
    <3>2. PICK r : r = s \ {x}
      OBVIOUS
    <3>3. /\ IsFiniteSet(r)
          /\ \A y \in r : f[y] \in Int
          /\ \A y \in r : g[y] \in Int
      BY <2>1, <3>2, FS_Subset
    <3>4. PICK i \in Int : i = SumFunctionOnSet(f, r)
      BY <3>3, SumRemove
    <3>5. PICK j \in Int : j = SumFunctionOnSet(g, r)
      BY <3>3, SumRemove
    <3>6. SumFunctionOnSet(h, r) = i + j
      BY <1>1, <3>1, <3>2, <3>4, <3>5
    <3>7. /\ SumFunctionOnSet(f, s) = f[x] + i
          /\ SumFunctionOnSet(g, s) = g[x] + j
          /\ SumFunctionOnSet(h, s) = h[x] + (i + j)
      BY <2>2, <2>3, <2>4, <3>1, <3>2, <3>4, <3>5, <3>6
    <3>8. h[x] = f[x] + g[x] /\ f[x] \in Int /\ g[x] \in Int
      BY <3>1
    <3>. QED
      BY <3>7, <3>8
  <2>. QED
    BY <2>5, <2>6
<1>2. \A s \in SUBSET S : (\A x \in s : s \ {x} \in T) => s \in T
  BY <1>1
<1>3. SUBSET S \subseteq T
  <2> HIDE DEF T
  <2>. QED
    BY <1>2, SetInduction
<1>. QED
  BY <1>3

\* and one that is zero but for one argument to its value there.
LEMMA SumOfOne ==
    ASSUME NEW S, IsFiniteSet(S), NEW b \in S, NEW v \in Int, NEW f,
           \A x \in S : f[x] = IF x = b THEN v ELSE 0
    PROVE  SumFunctionOnSet(f, S) = v
<1>1. PICK z : z = [x \in S |-> 0]
  OBVIOUS
<1>2. \A x \in S : z[x] = 0
  BY <1>1
<1>3. SumFunctionOnSet(z, S) = 0
  BY <1>2, SumZero
<1>4. /\ \A x \in S : z[x] \in Int
      /\ \A x \in S : f[x] \in Int
      /\ \A x \in S \ {b} : f[x] = z[x]
  BY <1>2
<1>5. SumFunctionOnSet(f, S) = SumFunctionOnSet(z, S) + (f[b] - z[b])
  BY <1>4, SumChange
<1>6. f[b] = v /\ z[b] = 0
  BY <1>2
<1>. QED
  BY <1>3, <1>5, <1>6

\* If every row of a table adds up to zero then so do its columns together.
LEMMA SumsCancel ==
    ASSUME NEW P, IsFiniteSet(P), NEW A, IsFiniteSet(A), NEW m,
           \A p \in P, a \in A : m[p][a] \in Int,
           \A p \in P : SumFunctionOnSet(m[p], A) = 0
    PROVE  SumFunctionOnSet([a \in A |-> SumFunctionOnSet([p \in P |-> m[p][a]], P)], A) = 0
<1> DEFINE column(a) == [p \in P |-> m[p][a]]
           total(s) == [a \in A |-> SumFunctionOnSet(column(a), s)]
           T == {s \in SUBSET P : SumFunctionOnSet(total(s), A) = 0}
<1>1. \A a \in A, p \in P : column(a)[p] = m[p][a] /\ column(a)[p] \in Int
  OBVIOUS
<1>2. \A s, a : a \in A => total(s)[a] = SumFunctionOnSet(column(a), s)
  OBVIOUS
<1> HIDE DEF column, total
<1>3. ASSUME NEW s \in SUBSET P, NEW a \in A
      PROVE  /\ total(s)[a] \in Int
             /\ s = {} => total(s)[a] = 0
             /\ \A x \in s : total(s)[a] = m[x][a] + total(s \ {x})[a]
  <2>1. PICK f : f = column(a)
    OBVIOUS
  <2>2. IsFiniteSet(s) /\ \A x \in s : f[x] \in Int
    BY <1>1, <2>1, FS_Subset
  <2>3. /\ SumFunctionOnSet(f, s) \in Int
        /\ s = {} => SumFunctionOnSet(f, s) = 0
        /\ \A x \in s : SumFunctionOnSet(f, s) = f[x] + SumFunctionOnSet(f, s \ {x})
    BY <2>2, SumRemove
  <2>4. \A x \in s : f[x] = m[x][a]
    BY <1>1, <2>1
  <2>5. /\ total(s)[a] = SumFunctionOnSet(f, s)
        /\ \A x \in s : total(s \ {x})[a] = SumFunctionOnSet(f, s \ {x})
    BY <1>2, <2>1
  <2>. QED
    BY <2>3, <2>4, <2>5
<1>4. ASSUME NEW s \in SUBSET P, \A x \in s : s \ {x} \in T PROVE s \in T
  <2>1. CASE s = {}
    <3>1. \A a \in A : total(s)[a] = 0
      BY <1>3, <2>1
    <3>. QED
      BY <3>1, SumZero
  <2>2. CASE s # {}
    <3>1. PICK x : x \in s
      BY <2>2
    <3>2. PICK r : r = s \ {x} /\ r \in SUBSET P
      OBVIOUS
    <3>3. PICK f : f = m[x]
      OBVIOUS
    <3>4. PICK g : g = total(r)
      OBVIOUS
    <3>5. PICK h : h = total(s)
      OBVIOUS
    <3>6. /\ \A a \in A : f[a] \in Int
          /\ \A a \in A : g[a] \in Int
          /\ \A a \in A : h[a] = f[a] + g[a]
      BY <1>3, <3>1, <3>2, <3>3, <3>4, <3>5
    <3>7. SumFunctionOnSet(h, A) = SumFunctionOnSet(f, A) + SumFunctionOnSet(g, A)
      BY <3>6, SumOfSums
    <3>8. SumFunctionOnSet(f, A) = 0 /\ SumFunctionOnSet(g, A) = 0
      BY <1>4, <3>1, <3>2, <3>3, <3>4
    <3>9. SumFunctionOnSet(h, A) = 0
      BY <3>7, <3>8
    <3>. QED
      BY <3>5, <3>9
  <2>. QED
    BY <2>1, <2>2
<1>5. \A s \in SUBSET P : (\A x \in s : s \ {x} \in T) => s \in T
  BY <1>4
<1>6. SUBSET P \subseteq T
  <2> HIDE DEF T
  <2>. QED
    BY <1>5, SetInduction
<1>7. SumFunctionOnSet(total(P), A) = 0
  BY <1>6
<1>. QED
  BY <1>7 DEF total, column

\* What a payment has done to the balances in one currency cancels out.
LEMMA SharesCancel ==
    ASSUME IInv, NEW p \in Payments, NEW c \in Currencies
    PROVE  SumFunctionOnSet([a \in Accounts |-> Share(p, a, c)], Accounts) = 0
<1>1. PICK h : h = [a \in Accounts |-> Share(p, a, c)]
  OBVIOUS
<1>2. CASE Statuses[p] # "settled"
  <2>1. \A a \in Accounts : h[a] = 0
    BY <1>1, <1>2 DEF Share
  <2>2. SumFunctionOnSet(h, Accounts) = 0
    BY <2>1, AccountsAssumption, SumZero
  <2>. QED
    BY <1>1, <2>2
<1>3. CASE Statuses[p] = "settled"
  <2>1. PICK n : n = Booked[p]
    OBVIOUS
  <2>2. PICK t : t = Terms[p]
    OBVIOUS
  <2>3. payments[p].status = "settled"
    BY <1>3 DEF Statuses
  <2>4. n \in Int /\ (Balances!SameCurrency(p) => n = t.amount)
    <3>1. IF IsFx(p) THEN payments[p].creditor_amount \in 1 .. MaxNumeric
          ELSE payments[p].creditor_amount = None
      BY <2>3 DEF IInv, FxDetailsAreTheBookedOnes, Moved
    <3>. QED
      BY <2>1, <2>2, <2>3, <3>1, RatesAssumption, NoneAssumption, TermsAssumption
         DEF Booked, Balances!SameCurrency, IsFx
  <2>5. t.debtor \in Accounts /\ t.creditor \in Accounts /\ Suspense \in Accounts /\ t.amount \in Int
    BY <2>2, TermsAssumption
  <2>6. PICK u \in Int : u = Balances!Given(c = AccountCurrency[t.creditor], n)
    BY <2>4 DEF Balances!Given
  <2>7. PICK w \in Int : w = Balances!Given(c = AccountCurrency[t.debtor], t.amount)
    BY <2>5 DEF Balances!Given
  <2>8. PICK v \in Int : v = IF Balances!SameCurrency(p) THEN 0 ELSE w - u
    BY <2>6, <2>7
  <2>9. \A a \in Accounts :
          h[a] = ((IF a = t.creditor THEN u ELSE 0) + (IF a = t.debtor THEN - w ELSE 0))
                 + (IF a = Suspense THEN v ELSE 0)
    <3> TAKE a \in Accounts
    <3>1. h[a] = Balances!Effect(p, n, a, c)
      BY <1>1, <1>3, <2>1 DEF Share
    <3>. QED
      BY <2>2, <2>4, <2>5, <2>6, <2>7, <2>8, <3>1 DEF Balances!Effect, Balances!Given
  <2>10. PICK f : f = [a \in Accounts |-> IF a = t.creditor THEN u ELSE 0]
    OBVIOUS
  <2>11. PICK g : g = [a \in Accounts |-> IF a = t.debtor THEN - w ELSE 0]
    OBVIOUS
  <2>12. PICK k : k = [a \in Accounts |-> IF a = Suspense THEN v ELSE 0]
    OBVIOUS
  <2>13. PICK fg : fg = [a \in Accounts |-> f[a] + g[a]]
    OBVIOUS
  <2>14. - w \in Int
    BY <2>7
  <2>15. SumFunctionOnSet(f, Accounts) = u
    <3>1. \A a \in Accounts : f[a] = IF a = t.creditor THEN u ELSE 0
      BY <2>10
    <3>. QED
      BY <2>5, <3>1, AccountsAssumption, SumOfOne
  <2>16. SumFunctionOnSet(g, Accounts) = - w
    <3>1. \A a \in Accounts : g[a] = IF a = t.debtor THEN - w ELSE 0
      BY <2>11
    <3>. QED
      BY <2>5, <2>14, <3>1, AccountsAssumption, SumOfOne
  <2>17. SumFunctionOnSet(k, Accounts) = v
    <3>1. \A a \in Accounts : k[a] = IF a = Suspense THEN v ELSE 0
      BY <2>12
    <3>. QED
      BY <2>5, <3>1, AccountsAssumption, SumOfOne
  <2>18. /\ \A a \in Accounts : f[a] \in Int
         /\ \A a \in Accounts : g[a] \in Int
         /\ \A a \in Accounts : k[a] \in Int
         /\ \A a \in Accounts : fg[a] = f[a] + g[a]
    BY <2>10, <2>11, <2>12, <2>13, <2>14
  <2>19. \A a \in Accounts : fg[a] \in Int
    BY <2>18
  <2>20. \A a \in Accounts : h[a] = fg[a] + k[a]
    BY <2>9, <2>10, <2>11, <2>12, <2>13
  <2>21. SumFunctionOnSet(fg, Accounts) = SumFunctionOnSet(f, Accounts) + SumFunctionOnSet(g, Accounts)
    BY <2>18, AccountsAssumption, SumOfSums
  <2>22. SumFunctionOnSet(h, Accounts) = SumFunctionOnSet(fg, Accounts) + SumFunctionOnSet(k, Accounts)
    BY <2>18, <2>19, <2>20, AccountsAssumption, SumOfSums
  <2>23. (u + (- w)) + v = 0
    <3>1. Balances!SameCurrency(p) => u = w
      BY <2>2, <2>4, <2>6, <2>7 DEF Balances!SameCurrency
    <3>. QED
      BY <2>6, <2>7, <2>8, <3>1
  <2>. QED
    BY <1>1, <2>15, <2>16, <2>17, <2>21, <2>22, <2>23
<1>. QED
  BY <1>2, <1>3

\* In every currency the balances of all accounts add up to zero at all times, for
\* any payments, rates, retries and crashes (get_balance, _settlement_lines and
\* _reversal_lines).
THEOREM MoneyIsConserved == Spec => []BooksBalance
<1>1. IInv => BooksBalance
  <2> SUFFICES ASSUME IInv, NEW c \in Currencies
               PROVE  SumFunction([a \in Accounts |-> Balance[a][c]]) = 0
    BY DEF BooksBalance
  <2>1. PICK m : m = [p \in Payments |-> [a \in Accounts |-> Share(p, a, c)]]
    OBVIOUS
  <2>2. SharesAddUp
    BY AlwaysAddUp
  <2>3. \A p \in Payments, a \in Accounts : m[p][a] = Share(p, a, c) /\ m[p][a] \in Int
    BY <2>1, <2>2 DEF SharesAddUp
  <2>4. \A p \in Payments : SumFunctionOnSet(m[p], Accounts) = 0
    BY <2>1, SharesCancel
  <2>5. PICK total :
          total = [a \in Accounts |-> SumFunctionOnSet([p \in Payments |-> m[p][a]], Payments)]
    OBVIOUS
  <2>6. SumFunctionOnSet(total, Accounts) = 0
    BY <2>3, <2>4, <2>5, PaymentsAssumption, AccountsAssumption, SumsCancel
  <2>7. ASSUME NEW a \in Accounts
        PROVE  total[a] = Balance[a][c]
    <3>1. [p \in Payments |-> m[p][a]] = [p \in Payments |-> Share(p, a, c)]
      BY <2>3
    <3>2. Balance[a][c] = SumFunctionOnSet([p \in Payments |-> Share(p, a, c)], Payments)
      BY <2>2 DEF SharesAddUp
    <3>. QED
      BY <2>5, <3>1, <3>2
  <2>8. total = [a \in Accounts |-> Balance[a][c]]
    BY <2>5, <2>7
  <2>9. SumFunction(total) = SumFunctionOnSet(total, Accounts)
    <3>1. DOMAIN total = Accounts
      BY <2>5
    <3>. QED
      BY <3>1 DEF SumFunction
  <2>. QED
    BY <2>6, <2>8, <2>9
<1>. QED
  BY <1>1, Inductive, PTL
=============================================================================
