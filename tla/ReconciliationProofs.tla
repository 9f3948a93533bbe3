------------------------ MODULE ReconciliationProofs ------------------------
(***************************************************************************)
(* A reconciliation run reports what differs, for any number of payments,  *)
(* runs and files, any window and any references that are unique.          *)
(*                                                                         *)
(* A completed run speaks of a past state.  IInv says what of it is still  *)
(* so: a payment it listed has kept its stamp, one that has committed      *)
(* since did so after the window's end, and one the file was made from had *)
(* committed by then.  What the matcher makes of two sequences is a matter *)
(* of lemmas that do not speak of the state.                               *)
(***************************************************************************)
EXTENDS Reconciliation, FiniteSetTheorems, WellFoundedInduction, TLAPS

\* No two payments go by one reference, spaces aside, and no file has two rows
\* with one.  The code requires neither; without it a record can hide another.
UniqueReferences ==
    /\ \A p, q \in Payments : Strip(Reference(p)) = Strip(Reference(q)) => p = q
    /\ \A file \in Files : \A i, j \in DOMAIN file :
         Strip(file[i].external_ref) = Strip(file[j].external_ref) => i = j

Indexed(seq) == \E n \in Nat : DOMAIN seq = 1 .. n

StampsOK ==
    \A p \in Payments :
        /\ stamp[p] # None => stamp[p] \in Int /\ stamp[p] <= now
        /\ committed[p] # None =>
             /\ stamp[p] # None
             /\ committed[p] \in Int /\ stamp[p] <= committed[p] /\ committed[p] <= now

\* The file of r and the payments it was made from.
FileOK(r) ==
    LET file == run[r].file
    IN  /\ Indexed(file)
        /\ \A i \in DOMAIN file : IsText(file[i].external_ref)
        /\ \A p \in run[r].reported : p \in Payments /\ committed[p] # None
        /\ \A p \in run[r].reported : \E i \in DOMAIN file : file[i] = Pacs008(p)
        /\ UniqueReferences => \A i, j \in DOMAIN file :
             Strip(file[i].external_ref) = Strip(file[j].external_ref) => i = j

\* What r has listed.
ListOK(r) ==
    LET ledger == run[r].ledger
    IN  /\ Indexed(ledger)
        /\ \A i \in DOMAIN ledger :
             LET p == ledger[i].payment_id
             IN  /\ p \in Payments /\ ledger[i] = LedgerPayment(p)
                 /\ committed[p] # None /\ InWindow(r, p)
        /\ \A i, j \in DOMAIN ledger : ledger[i].payment_id = ledger[j].payment_id => i = j
        /\ \A p \in run[r].reported : InWindow(r, p) => p \in Listed(r)
        /\ \A p \in Payments :
             (/\ committed[p] # None
              /\ run[r].window_start <= stamp[p]
              /\ committed[p] < run[r].window_end) => p \in Listed(r)

RunOK(r) ==
    /\ run[r].stage \in {"new", "list", "record", "completed"}
    /\ run[r].stage # "new" =>
         /\ run[r].window_start \in Int /\ run[r].window_end \in Int
         /\ run[r].window_end <= now
         /\ FileOK(r)
    /\ run[r].stage \in {"record", "completed"} => ListOK(r)
    /\ run[r].stage = "completed" =>
         run[r].result = match(run[r].ledger, parse_settlement_csv(run[r].file))

\* x has the fields of a run.
IsRun(x) ==
    x = [stage |-> x.stage, window_start |-> x.window_start, window_end |-> x.window_end,
         file |-> x.file, reported |-> x.reported, ledger |-> x.ledger, result |-> x.result]

IInv ==
    /\ now \in Nat
    /\ stamp \in [Payments -> Int \cup {None}]
    /\ committed \in [Payments -> Int \cup {None}]
    /\ emitted \subseteq {p \in Payments : committed[p] # None}
    /\ run = [r \in Runs |-> run[r]]
    /\ \A r \in Runs : IsRun(run[r])
    /\ StampsOK
    /\ \A r \in Runs : RunOK(r)

-----------------------------------------------------------------------------
(* Spaces.                                                                  *)

LEMMA HasMin ==
    ASSUME NEW T \in SUBSET Nat, T # {}
    PROVE  Min(T) \in T /\ \A y \in T : Min(T) <= y
<1>1. PICK x \in T : \A y \in T : ~ (<<y, x>> \in OpToRel(<, Nat))
  BY NatLessThanWellFounded, WFMin, Zenon
<1>2. ASSUME NEW y \in T PROVE x <= y
  <2>1. x \in Nat /\ y \in Nat
    OBVIOUS
  <2>2. ~ (y < x)
    <3>1. SUFFICES ASSUME y < x PROVE <<y, x>> \in OpToRel(<, Nat)
      BY <1>1
    <3>2. <<y, x>> \in Nat \X Nat /\ <<y, x>>[1] = y /\ <<y, x>>[2] = x
      BY <2>1
    <3>. QED
      BY <3>1, <3>2, Zenon DEF OpToRel
  <2>. QED
    BY <2>1, <2>2
<1>. QED
  BY <1>2 DEF Min

LEMMA HasMax ==
    ASSUME NEW n \in Nat, NEW T \in SUBSET (1 .. n), T # {}
    PROVE  Max(T) \in T /\ \A y \in T : Max(T) >= y
<1> DEFINE U == {n - x : x \in T}
<1>0. \A x \in T : x \in Int /\ x <= n
  OBVIOUS
<1>1. U \in SUBSET Nat /\ U # {}
  <2>1. \A x \in T : n - x \in Nat
    BY <1>0
  <2>. QED
    BY <2>1
<1>2. PICK u : u \in U /\ \A v \in U : u <= v
  <2> HIDE DEF U
  <2>. QED
    BY <1>1, HasMin
<1>3. PICK x \in T : u = n - x
  BY <1>2
<1>4. ASSUME NEW y \in T PROVE x >= y
  <2>1. n - y \in U
    OBVIOUS
  <2>2. n - x <= n - y
    BY <1>2, <1>3, <2>1
  <2>. QED
    BY <1>0, <2>2
<1>. QED
  BY <1>4 DEF Max

\* Stripping once is enough (strip).
LEMMA StripTwice == ASSUME NEW text, IsText(text) PROVE Strip(Strip(text)) = Strip(text)
<1> DEFINE kept == {i \in DOMAIN text : text[i] # Space}
           y == Strip(text)
           K == {i \in DOMAIN y : y[i] # Space}
<1>0. text \in Seq({text[i] : i \in DOMAIN text}) /\ Len(text) \in Nat /\ DOMAIN text = 1 .. Len(text)
  BY DEF IsText
<1>1. CASE kept = {}
  <2>1. y = <<>>
    BY <1>1 DEF Strip
  <2>2. K = {}
    BY <2>1
  <2>. QED
    BY <2>1, <2>2 DEF Strip
<1>2. CASE kept # {}
  <2>1. PICK m : m = Min(kept)
    OBVIOUS
  <2>2. PICK n : n = Max(kept)
    OBVIOUS
  <2>3. /\ m \in 1 .. Len(text) /\ n \in 1 .. Len(text) /\ m <= n
        /\ text[m] # Space /\ text[n] # Space
    <3>1. kept \in SUBSET Nat /\ kept \in SUBSET (1 .. Len(text))
      BY <1>0
    <3>2. m \in kept /\ n \in kept /\ m <= n
      <4> HIDE DEF kept
      <4>. QED
        BY <1>0, <1>2, <2>1, <2>2, <3>1, HasMin, HasMax
    <3>. QED
      BY <1>0, <3>2
  <2>4. y = SubSeq(text, m, n)
    BY <1>2, <2>1, <2>2 DEF Strip
  <2> DEFINE l == n - m + 1
  <2>5. /\ y \in Seq({text[i] : i \in DOMAIN text}) /\ Len(y) = l /\ DOMAIN y = 1 .. l
        /\ y[1] = text[m] /\ y[l] = text[n] /\ l \in Nat \ {0}
    BY <1>0, <2>3, <2>4, SMTT(60)
  <2> HIDE DEF y, l
  <2>6. K \in SUBSET Nat /\ K \in SUBSET (1 .. l) /\ 1 \in K /\ l \in K
    BY <2>3, <2>5
  <2>7. Min(K) = 1 /\ Max(K) = l
    <3> HIDE DEF K
    <3>1. Min(K) \in 1 .. l /\ Min(K) <= 1
      BY <2>6, HasMin
    <3>2. Max(K) \in 1 .. l /\ Max(K) >= l
      BY <2>5, <2>6, HasMax
    <3>3. l \in Nat
      BY <2>5
    <3>. QED
      BY <3>1, <3>2, <3>3
  <2>8. Strip(y) = SubSeq(y, 1, l)
    BY <2>6, <2>7 DEF Strip
  <2>9. SubSeq(y, 1, l) = y
    BY <2>5
  <2>. QED
    BY <2>8, <2>9 DEF y
<1>. QED
  BY <1>1, <1>2

-----------------------------------------------------------------------------
(* The matcher.                                                             *)

Distinct(seq) == \A i, j \in DOMAIN seq : seq[i].external_ref = seq[j].external_ref => i = j

\* Where references are distinct, the dictionary holds every element.
LEMMA ByRefHoldsAll ==
    ASSUME NEW seq, Indexed(seq), Distinct(seq)
    PROVE  /\ DOMAIN ByRef(seq) = Refs(seq)
           /\ \A i \in DOMAIN seq : ByRef(seq)[seq[i].external_ref] = seq[i]
<1>1. DOMAIN ByRef(seq) = Refs(seq)
  BY DEF ByRef
<1>2. ASSUME NEW i \in DOMAIN seq PROVE ByRef(seq)[seq[i].external_ref] = seq[i]
  <2>1. i \in Int
    BY DEF Indexed
  <2>2. {k \in DOMAIN seq : seq[k].external_ref = seq[i].external_ref} = {i}
    BY DEF Distinct
  <2>3. Max({i}) = i
    BY <2>1 DEF Max
  <2>4. seq[i].external_ref \in Refs(seq)
    BY DEF Refs
  <2>. QED
    BY <2>2, <2>3, <2>4 DEF ByRef
<1>. QED
  BY <1>1, <1>2

\* The parts of a break.
LEMMA BreakFields ==
    ASSUME NEW type, NEW ref, NEW p, NEW la, NEW sa
    PROVE  /\ ReconciliationBreak(type, ref, p, la, sa).break_type = type
           /\ ReconciliationBreak(type, ref, p, la, sa).external_ref = ref
           /\ ReconciliationBreak(type, ref, p, la, sa).payment_id = p
           /\ ReconciliationBreak(type, ref, p, la, sa).ledger_amount = la
           /\ ReconciliationBreak(type, ref, p, la, sa).settlement_amount = sa
BY DEF ReconciliationBreak

Equal(x, y) == x.amount = y.amount /\ x.currency = y.currency

\* The references on which two sequences agree.
AgreedRefs(L, S) ==
    {ref \in Refs(L) \cap Refs(S) : Equal(ByRef(L)[ref], ByRef(S)[ref])}

LEMMA MatchUnfolds ==
    ASSUME NEW L, NEW S
    PROVE  match(L, S) = MatchResult(ByRef(L), ByRef(S), AgreedRefs(L, S))
<1>1. DOMAIN ByRef(L) = Refs(L) /\ DOMAIN ByRef(S) = Refs(S)
  BY DEF ByRef
<1>. QED
  BY <1>1 DEF match, AgreedRefs, Equal

\* What a break found by match stands for.
LEMMA BreakMeaning ==
    ASSUME NEW L, NEW S, Indexed(L), Indexed(S), Distinct(L), Distinct(S),
           NEW b \in match(L, S).breaks
    PROVE  \/ \E i \in DOMAIN L :
                /\ b = ReconciliationBreak("missing_in_settlement", L[i].external_ref,
                                           L[i].payment_id, L[i].amount, None)
                /\ \A j \in DOMAIN S : S[j].external_ref # L[i].external_ref
           \/ \E j \in DOMAIN S :
                /\ b = ReconciliationBreak("missing_in_ledger", S[j].external_ref,
                                           None, None, S[j].amount)
                /\ \A i \in DOMAIN L : S[j].external_ref # L[i].external_ref
           \/ \E i \in DOMAIN L, j \in DOMAIN S :
                /\ b = ReconciliationBreak("amount_mismatch", L[i].external_ref,
                                           L[i].payment_id, L[i].amount, S[j].amount)
                /\ S[j].external_ref = L[i].external_ref
                /\ ~ Equal(L[i], S[j])
<1> DEFINE ledger == ByRef(L)
           settled == ByRef(S)
<1>1. /\ DOMAIN ledger = Refs(L) /\ \A i \in DOMAIN L : ledger[L[i].external_ref] = L[i]
      /\ DOMAIN settled = Refs(S) /\ \A j \in DOMAIN S : settled[S[j].external_ref] = S[j]
  BY ByRefHoldsAll
<1>2. b \in MatchResult(ledger, settled, AgreedRefs(L, S)).breaks
  BY MatchUnfolds
<1> HIDE DEF ledger, settled
<1>3. CASE \E ref \in Refs(L) \ Refs(S) :
             b = ReconciliationBreak("missing_in_settlement", ref,
                                     ledger[ref].payment_id, ledger[ref].amount, None)
  BY <1>1, <1>3 DEF Refs
<1>4. CASE \E ref \in Refs(S) \ Refs(L) :
             b = ReconciliationBreak("missing_in_ledger", ref, None, None, settled[ref].amount)
  BY <1>1, <1>4 DEF Refs
<1>5. CASE \E ref \in (Refs(L) \cap Refs(S)) \ AgreedRefs(L, S) :
             b = ReconciliationBreak("amount_mismatch", ref,
                     ledger[ref].payment_id, ledger[ref].amount, settled[ref].amount)
  <2>1. PICK ref \in (Refs(L) \cap Refs(S)) \ AgreedRefs(L, S) :
             b = ReconciliationBreak("amount_mismatch", ref,
                     ledger[ref].payment_id, ledger[ref].amount, settled[ref].amount)
    BY <1>5
  <2>2. ~ Equal(ledger[ref], settled[ref])
    BY DEF AgreedRefs, ledger, settled
  <2>3. PICK i \in DOMAIN L, j \in DOMAIN S : L[i].external_ref = ref /\ S[j].external_ref = ref
    BY DEF Refs
  <2>4. ledger[ref] = L[i] /\ settled[ref] = S[j]
    BY <1>1, <2>3
  <2>. QED
    BY <2>1, <2>2, <2>3, <2>4
<1>. QED
  BY <1>1, <1>2, <1>3, <1>4, <1>5 DEF MatchResult

\* A break of some type names the listed payment x.
Reports(b, x, type) ==
    b.payment_id = x.payment_id /\ b.ledger_amount = x.amount /\ b.break_type = type

\* What match says of the listed payment at i: nothing if some record equals it,
\* else the break of the type that fits.
LedgerSide(L, S, i) ==
    \/ \E j \in DOMAIN S : S[j].external_ref = L[i].external_ref /\ Equal(L[i], S[j])
    \/ /\ \E j \in DOMAIN S : S[j].external_ref = L[i].external_ref
       /\ \E b \in match(L, S).breaks : Reports(b, L[i], "amount_mismatch")
    \/ /\ ~ \E j \in DOMAIN S : S[j].external_ref = L[i].external_ref
       /\ \E b \in match(L, S).breaks : Reports(b, L[i], "missing_in_settlement")

\* match reports every listed payment that has no equal record.
LEMMA LedgerSideReported ==
    ASSUME NEW L, NEW S, Indexed(L), Indexed(S), Distinct(L), Distinct(S), NEW i \in DOMAIN L
    PROVE  LedgerSide(L, S, i)
<1> DEFINE ref == L[i].external_ref
<1>1. /\ DOMAIN ByRef(L) = Refs(L) /\ ByRef(L)[ref] = L[i]
      /\ DOMAIN ByRef(S) = Refs(S) /\ \A j \in DOMAIN S : ByRef(S)[S[j].external_ref] = S[j]
      /\ ref \in Refs(L)
  BY ByRefHoldsAll DEF Refs
<1>2. match(L, S) = MatchResult(ByRef(L), ByRef(S), AgreedRefs(L, S))
  BY MatchUnfolds
<1>3. CASE ref \notin Refs(S)
  <2> DEFINE b == ReconciliationBreak("missing_in_settlement", ref, L[i].payment_id, L[i].amount, None)
  <2>1. b \in match(L, S).breaks
    BY <1>1, <1>2, <1>3 DEF MatchResult
  <2>2. /\ b.payment_id = L[i].payment_id /\ b.ledger_amount = L[i].amount
        /\ b.break_type = "missing_in_settlement"
    BY BreakFields
  <2>3. ~ \E j \in DOMAIN S : S[j].external_ref = ref
    BY <1>3 DEF Refs
  <2> HIDE DEF b
  <2>. QED
    BY <2>1, <2>2, <2>3 DEF Reports, LedgerSide
<1>4. CASE ref \in Refs(S)
  <2>1. PICK j \in DOMAIN S : S[j].external_ref = ref
    BY <1>4 DEF Refs
  <2>2. CASE Equal(L[i], S[j])
    BY <2>1, <2>2 DEF LedgerSide
  <2>3. CASE ~ Equal(L[i], S[j])
    <3> DEFINE b == ReconciliationBreak("amount_mismatch", ref, L[i].payment_id, L[i].amount, S[j].amount)
    <3>1. ref \in (Refs(L) \cap Refs(S)) \ AgreedRefs(L, S)
      BY <1>1, <1>4, <2>1, <2>3 DEF AgreedRefs
    <3>2. b \in match(L, S).breaks
      BY <1>1, <1>2, <2>1, <3>1 DEF MatchResult
    <3>3. /\ b.payment_id = L[i].payment_id /\ b.ledger_amount = L[i].amount
          /\ b.break_type = "amount_mismatch"
      BY BreakFields
    <3> HIDE DEF b
    <3>. QED
      BY <2>1, <3>2, <3>3 DEF Reports, LedgerSide
  <2>. QED
    BY <2>2, <2>3
<1>. QED
  BY <1>3, <1>4

\* match reports every record that has no equal listed payment.
LEMMA SettlementSideReported ==
    ASSUME NEW L, NEW S, Indexed(L), Indexed(S), Distinct(L), Distinct(S), NEW j \in DOMAIN S
    PROVE  \/ \E i \in DOMAIN L : S[j].external_ref = L[i].external_ref /\ Equal(L[i], S[j])
           \/ \E b \in match(L, S).breaks :
                b.external_ref = S[j].external_ref /\ b.settlement_amount = S[j].amount
<1> DEFINE ref == S[j].external_ref
<1>1. /\ DOMAIN ByRef(L) = Refs(L) /\ \A i \in DOMAIN L : ByRef(L)[L[i].external_ref] = L[i]
      /\ DOMAIN ByRef(S) = Refs(S) /\ ByRef(S)[ref] = S[j]
      /\ ref \in Refs(S)
  BY ByRefHoldsAll DEF Refs
<1>2. match(L, S) = MatchResult(ByRef(L), ByRef(S), AgreedRefs(L, S))
  BY MatchUnfolds
<1>3. CASE ref \notin Refs(L)
  <2> DEFINE b == ReconciliationBreak("missing_in_ledger", ref, None, None, S[j].amount)
  <2>1. b \in match(L, S).breaks
    BY <1>1, <1>2, <1>3 DEF MatchResult
  <2>2. b.external_ref = ref /\ b.settlement_amount = S[j].amount
    BY BreakFields
  <2> HIDE DEF b
  <2>. QED
    BY <2>1, <2>2
<1>4. CASE ref \in Refs(L)
  <2>1. PICK i \in DOMAIN L : L[i].external_ref = ref
    BY <1>4 DEF Refs
  <2>2. CASE Equal(L[i], S[j])
    BY <2>1, <2>2
  <2>3. CASE ~ Equal(L[i], S[j])
    <3> DEFINE b == ReconciliationBreak("amount_mismatch", ref, L[i].payment_id, L[i].amount, S[j].amount)
    <3>1. ref \in (Refs(L) \cap Refs(S)) \ AgreedRefs(L, S) /\ ByRef(L)[ref] = L[i]
      BY <1>1, <1>4, <2>1, <2>3 DEF AgreedRefs
    <3>2. b \in match(L, S).breaks
      BY <1>1, <1>2, <2>1, <3>1 DEF MatchResult
    <3>3. b.external_ref = ref /\ b.settlement_amount = S[j].amount
      BY BreakFields
    <3> HIDE DEF b
    <3>. QED
      BY <3>2, <3>3
  <2>. QED
    BY <2>2, <2>3
<1>. QED
  BY <1>3, <1>4

\* match counts the records that have an equal listed payment.
LEMMA MatchesCounted ==
    ASSUME NEW L, NEW S, Indexed(L), Indexed(S), Distinct(L), Distinct(S)
    PROVE  match(L, S).matched_count =
             Cardinality({S[j] : j \in {k \in DOMAIN S : \E i \in DOMAIN L :
                             S[k].external_ref = L[i].external_ref /\ Equal(L[i], S[k])}})
<1> DEFINE J == {k \in DOMAIN S : \E i \in DOMAIN L :
                     S[k].external_ref = L[i].external_ref /\ Equal(L[i], S[k])}
           M == {S[j] : j \in J}
           A == AgreedRefs(L, S)
           f == [s \in M |-> s.external_ref]
<1>1. /\ DOMAIN ByRef(L) = Refs(L) /\ \A i \in DOMAIN L : ByRef(L)[L[i].external_ref] = L[i]
      /\ DOMAIN ByRef(S) = Refs(S) /\ \A j \in DOMAIN S : ByRef(S)[S[j].external_ref] = S[j]
  BY ByRefHoldsAll
<1>2. \A j \in J : S[j].external_ref \in A
  <2> SUFFICES ASSUME NEW j \in J PROVE S[j].external_ref \in A
    OBVIOUS
  <2>1. PICK i \in DOMAIN L : S[j].external_ref = L[i].external_ref /\ Equal(L[i], S[j])
    OBVIOUS
  <2>. QED
    BY <1>1, <2>1 DEF AgreedRefs, Refs
<1>3. \A ref \in A : \E j \in J : S[j].external_ref = ref
  <2> SUFFICES ASSUME NEW ref \in A PROVE \E j \in J : S[j].external_ref = ref
    OBVIOUS
  <2>1. PICK i \in DOMAIN L, j \in DOMAIN S : L[i].external_ref = ref /\ S[j].external_ref = ref
    BY DEF AgreedRefs, Refs
  <2>2. Equal(L[i], S[j])
    BY <1>1, <2>1 DEF AgreedRefs
  <2>. QED
    BY <2>1, <2>2
<1>4. \A j \in J : j \in DOMAIN S
  OBVIOUS
<1> HIDE DEF J
<1>5. f \in Bijection(M, A)
  <2>1. f \in [M -> A]
    BY <1>2
  <2>2. \A s, t \in M : f[s] = f[t] => s = t
    BY <1>4 DEF Distinct
  <2>3. \A ref \in A : \E s \in M : f[s] = ref
    BY <1>3
  <2>. QED
    BY <2>1, <2>2, <2>3 DEF Bijection, Injection, Surjection, IsInjective
<1>6. IsFiniteSet(M)
  <2>1. PICK n \in Nat : DOMAIN S = 1 .. n
    BY DEF Indexed
  <2>2. IsFiniteSet(J)
    BY <1>4, <2>1, FS_Interval, FS_Subset
  <2> DEFINE g == [j \in J |-> S[j]]
  <2>3. g \in Surjection(J, M)
    BY DEF Surjection
  <2>. QED
    BY <2>2, <2>3, FS_Surjection
<1>7. Cardinality(A) = Cardinality(M)
  BY <1>5, <1>6, FS_Bijection DEF ExistsBijection
<1>. QED
  BY <1>7, MatchUnfolds DEF MatchResult, J

-----------------------------------------------------------------------------
(* The inductive invariant.                                                 *)

\* The sequences of SetToSeqs name every element once.
LEMMA SetToSeqsEnumerates ==
    ASSUME NEW T, IsFiniteSet(T), NEW rows \in SetToSeqs(T)
    PROVE  /\ Cardinality(T) \in Nat
           /\ DOMAIN rows = 1 .. Cardinality(T)
           /\ \A i \in DOMAIN rows : rows[i] \in T
           /\ \A i, j \in DOMAIN rows : rows[i] = rows[j] => i = j
           /\ \A x \in T : \E i \in DOMAIN rows : rows[i] = x
<1> DEFINE D == 1 .. Cardinality(T)
<1>1. Cardinality(T) \in Nat
  BY FS_CardinalityType
<1>2. rows \in [D -> T] /\ \A i, j \in D : i # j => rows[i] # rows[j]
  BY DEF SetToSeqs
<1>3. rows \in Injection(D, T)
  BY <1>2 DEF Injection, IsInjective
<1>4. IsFiniteSet(D) /\ Cardinality(D) = Cardinality(T)
  BY <1>1, FS_Interval
<1>5. rows \in Surjection(D, T)
  BY <1>3, <1>4, FS_Injection
<1>. QED
  BY <1>1, <1>2, <1>5 DEF Surjection

\* The initial state satisfies the inductive invariant.
LEMMA InitIInv == Init => IInv
<1> SUFFICES ASSUME Init PROVE IInv
  OBVIOUS
<1>1. \A r \in Runs : run[r] = NewRun /\ run[r].stage = "new"
  BY DEF Init, NewRun
<1>2. \A r \in Runs : RunOK(r)
  BY <1>1 DEF RunOK
<1>3. StampsOK
  BY DEF Init, StampsOK
<1>. QED
  BY <1>1, <1>2, <1>3 DEF Init, IInv, IsRun, NewRun

\* Steps of payments and of the clock leave the runs in order: what has
\* committed keeps its stamp, and what commits now does so after every window.
LEMMA RunsStay ==
    ASSUME IInv, UNCHANGED run, now' \in Nat, now <= now',
           \A p \in Payments : committed[p] # None =>
               committed'[p] = committed[p] /\ stamp'[p] = stamp[p],
           \A p \in Payments : committed[p] = None => committed'[p] \in {None, now}
    PROVE  \A r \in Runs : RunOK(r)'
<1> SUFFICES ASSUME NEW r \in Runs PROVE RunOK(r)'
  OBVIOUS
<1>1. RunOK(r) /\ now \in Nat
  BY DEF IInv
<1>2. ASSUME FileOK(r) PROVE FileOK(r)'
  BY <1>2, ReconciliationAssumption DEF FileOK
<1>3. ASSUME FileOK(r), ListOK(r), run[r].window_end \in Int, run[r].window_end <= now
      PROVE  ListOK(r)'
  <2> DEFINE ledger == run[r].ledger
  <2>1. \A p \in Payments : committed[p] # None =>
          committed'[p] # None /\ (InWindow(r, p)' <=> InWindow(r, p))
    BY DEF InWindow
  <2>2. Listed(r)' = Listed(r)
    BY DEF Listed
  <2>3. \A p \in run[r].reported : InWindow(r, p)' => p \in Listed(r)'
    BY <1>3, <2>1, <2>2 DEF FileOK, ListOK
  <2>4. ASSUME NEW p \in Payments, committed'[p] # None,
               run[r].window_start <= stamp'[p], committed'[p] < run[r].window_end
        PROVE  p \in Listed(r)'
    <3>1. committed[p] # None
      BY <1>1, <1>3, <2>4
    <3>. QED
      BY <1>3, <2>2, <2>4, <3>1 DEF ListOK
  <2>5. \A i \in DOMAIN ledger :
          /\ ledger[i].payment_id \in Payments /\ ledger[i] = LedgerPayment(ledger[i].payment_id)
          /\ committed'[ledger[i].payment_id] # None /\ InWindow(r, ledger[i].payment_id)'
    BY <1>3, <2>1 DEF ListOK, InWindow
  <2>. QED
    BY <1>3, <2>3, <2>4, <2>5 DEF ListOK
<1>4. run[r].window_end \in Int /\ run[r].window_end <= now => run[r].window_end <= now'
  BY <1>1
<1>5. match(run[r].ledger, parse_settlement_csv(run[r].file))'
        = match(run[r].ledger, parse_settlement_csv(run[r].file))
  OBVIOUS
<1>. QED
  BY <1>1, <1>2, <1>3, <1>4, <1>5 DEF RunOK

\* The steps of a payment, and the clock.
LEMMA PaymentStep ==
    ASSUME IInv,
           \/ \E p \in Payments : \/ BeginSettle(p) \/ CommitSettle(p) \/ RollbackSettle(p)
                                  \/ ReversePayment(p) \/ EmitPacs008(p)
           \/ Tick
    PROVE  IInv'
<1>0. /\ now \in Nat /\ StampsOK /\ None \notin Int
      /\ stamp \in [Payments -> Int \cup {None}] /\ committed \in [Payments -> Int \cup {None}]
      /\ emitted \subseteq {p \in Payments : committed[p] # None}
  BY ReconciliationAssumption DEF IInv
<1>1. UNCHANGED run
  BY DEF BeginSettle, CommitSettle, RollbackSettle, ReversePayment, EmitPacs008, Tick
<1>2. now' \in Nat /\ now <= now'
  BY <1>0 DEF BeginSettle, CommitSettle, RollbackSettle, ReversePayment, EmitPacs008, Tick
<1>3. /\ stamp' \in [Payments -> Int \cup {None}] /\ committed' \in [Payments -> Int \cup {None}]
      /\ \A p \in Payments : committed[p] # None =>
           committed'[p] = committed[p] /\ stamp'[p] = stamp[p]
      /\ \A p \in Payments : committed[p] = None => committed'[p] \in {None, now}
      /\ StampsOK'
  <2>1. CASE \E p \in Payments : BeginSettle(p)
    BY <1>0, <2>1 DEF BeginSettle, StampsOK
  <2>2. CASE \E p \in Payments : CommitSettle(p)
    BY <1>0, <2>2 DEF CommitSettle, StampsOK
  <2>3. CASE \E p \in Payments : RollbackSettle(p)
    BY <1>0, <2>3 DEF RollbackSettle, StampsOK
  <2>4. CASE \E p \in Payments : ReversePayment(p) \/ EmitPacs008(p)
    BY <1>0, <2>4 DEF ReversePayment, EmitPacs008, StampsOK
  <2>5. CASE Tick
    BY <1>0, <2>5 DEF Tick, StampsOK
  <2>. QED
    BY <2>1, <2>2, <2>3, <2>4, <2>5
<1>4. emitted' \subseteq {p \in Payments : committed'[p] # None}
  BY <1>0, <1>3 DEF BeginSettle, CommitSettle, RollbackSettle, ReversePayment, EmitPacs008, Tick
<1>. QED
  BY <1>1, <1>2, <1>3, <1>4, RunsStay DEF IInv

\* A step of run r keeps the invariant if it leaves r in order.
LEMMA RunStep ==
    ASSUME IInv, NEW r \in Runs, NEW new, IsRun(new),
           run' = [run EXCEPT ![r] = new],
           UNCHANGED <<now, stamp, committed, emitted>>,
           RunOK(r)'
    PROVE  IInv'
<1>1. run = [q \in Runs |-> run[q]] /\ \A q \in Runs : IsRun(run[q]) /\ RunOK(q)
  BY DEF IInv
<1>2. /\ run'[r] = new /\ \A q \in Runs : q # r => run'[q] = run[q]
      /\ run' = [q \in Runs |-> run'[q]]
  BY <1>1
<1>3. ASSUME NEW q \in Runs, q # r PROVE RunOK(q)'
  <2>1. match(run'[q].ledger, parse_settlement_csv(run'[q].file))
          = match(run[q].ledger, parse_settlement_csv(run[q].file))
    BY <1>2, <1>3
  <2>2. RunOK(q) /\ run'[q] = run[q]
    BY <1>1, <1>2, <1>3
  <2>3. Listed(q)' = Listed(q) /\ \A p : InWindow(q, p)' <=> InWindow(q, p)
    BY <2>2 DEF Listed, InWindow
  <2>4. FileOK(q)' <=> FileOK(q)
    BY <2>2 DEF FileOK
  <2>5. ListOK(q)' <=> ListOK(q)
    BY <2>2, <2>3 DEF ListOK
  <2>. QED
    BY <2>1, <2>2, <2>4, <2>5 DEF RunOK
<1>4. \A q \in Runs : IsRun(run'[q])
  BY <1>1, <1>2
<1>5. StampsOK'
  BY DEF IInv, StampsOK
<1>. QED
  BY <1>2, <1>3, <1>4, <1>5 DEF IInv

\* A run opens on a file that is in order.
LEMMA StartRunStep ==
    ASSUME IInv, NEW r \in Runs, NEW file, NEW reported, StartRun(r, file, reported),
           Indexed(file), \A i \in DOMAIN file : IsText(file[i].external_ref),
           \A p \in reported : p \in Payments /\ committed[p] # None,
           \A p \in reported : \E i \in DOMAIN file : file[i] = Pacs008(p),
           UniqueReferences => \A i, j \in DOMAIN file :
               Strip(file[i].external_ref) = Strip(file[j].external_ref) => i = j
    PROVE  IInv'
<1>1. PICK new : new = Opened(file, reported)
  OBVIOUS
<1>2. /\ IsRun(new) /\ new.stage = "list" /\ new.file = file /\ new.reported = reported
      /\ new.window_start = now - Window /\ new.window_end = now
  BY <1>1 DEF Opened, NewRun, IsRun
<1>3. run' = [run EXCEPT ![r] = new] /\ UNCHANGED <<now, stamp, committed, emitted>>
  BY <1>1 DEF StartRun
<1>4. run'[r] = new
  BY <1>3 DEF IInv
<1>5. now - Window \in Int /\ now \in Int /\ now <= now
  BY ReconciliationAssumption DEF IInv
<1>6. FileOK(r)'
  BY <1>2, <1>3, <1>4 DEF FileOK
<1>7. RunOK(r)'
  BY <1>2, <1>3, <1>4, <1>5, <1>6 DEF RunOK
<1>. QED
  BY <1>2, <1>3, <1>7, RunStep

\* A run on some file.
LEMMA StartUploadedStep == ASSUME IInv, NEW r \in Runs, StartUploaded(r) PROVE IInv'
<1>1. PICK file \in Files : StartRun(r, file, {})
  BY DEF StartUploaded
<1>2. Indexed(file) /\ \A i \in DOMAIN file : IsText(file[i].external_ref)
  BY ReconciliationAssumption DEF Indexed
<1>3. UniqueReferences => \A i, j \in DOMAIN file :
          Strip(file[i].external_ref) = Strip(file[j].external_ref) => i = j
  BY DEF UniqueReferences
<1>. QED
  BY <1>1, <1>2, <1>3, StartRunStep

\* A run on the file made of the messages.
LEMMA StartReportedStep == ASSUME IInv, NEW r \in Runs, StartReported(r) PROVE IInv'
<1>1. PICK rows \in SetToSeqs(emitted) :
        StartRun(r, [i \in DOMAIN rows |-> Pacs008(rows[i])], emitted)
  BY DEF StartReported
<1>2. PICK file : file = [i \in DOMAIN rows |-> Pacs008(rows[i])]
  OBVIOUS
<1>3. \A p \in emitted : p \in Payments /\ committed[p] # None
  BY DEF IInv
<1>4. IsFiniteSet(emitted)
  BY <1>3, ReconciliationAssumption, FS_Subset
<1>5. /\ Cardinality(emitted) \in Nat /\ DOMAIN rows = 1 .. Cardinality(emitted)
      /\ \A i \in DOMAIN rows : rows[i] \in emitted
      /\ \A i, j \in DOMAIN rows : rows[i] = rows[j] => i = j
      /\ \A x \in emitted : \E i \in DOMAIN rows : rows[i] = x
  BY <1>4, SetToSeqsEnumerates
<1>6. DOMAIN file = DOMAIN rows /\ \A i \in DOMAIN rows : file[i] = Pacs008(rows[i])
  BY <1>2
<1>7. Indexed(file) /\ \A i \in DOMAIN file : IsText(file[i].external_ref)
  <2>1. ASSUME NEW p \in Payments PROVE IsText(Pacs008(p).external_ref)
    <3>1. IsText(<<p>>)
      BY DEF IsText
    <3>2. Pacs008(p).external_ref = IF EndToEndId[p] \in {None, <<>>} THEN <<p>> ELSE EndToEndId[p]
      BY DEF Pacs008
    <3>. QED
      BY <3>1, <3>2, ReconciliationAssumption, Zenon
  <2>. QED
    BY <1>3, <1>5, <1>6, <2>1 DEF Indexed
<1>8. \A p \in emitted : \E i \in DOMAIN file : file[i] = Pacs008(p)
  BY <1>5, <1>6
<1>9. ASSUME UniqueReferences, NEW i \in DOMAIN file, NEW j \in DOMAIN file,
             Strip(file[i].external_ref) = Strip(file[j].external_ref)
      PROVE  i = j
  <2>1. file[i].external_ref = Reference(rows[i]) /\ file[j].external_ref = Reference(rows[j])
    BY <1>6 DEF Pacs008, Reference
  <2>2. rows[i] = rows[j]
    BY <1>3, <1>5, <1>6, <1>9, <2>1 DEF UniqueReferences
  <2>. QED
    BY <1>5, <1>6, <2>2
<1>. QED
  BY <1>1, <1>2, <1>3, <1>7, <1>8, <1>9, StartRunStep

\* list_settled_payments.
LEMMA ListSettledStep == ASSUME IInv, NEW r \in Runs, ListSettled(r) PROVE IInv'
<1> DEFINE T == {p \in Payments : committed[p] # None /\ InWindow(r, p)}
<1>1. PICK rows \in SetToSeqs(T) :
        run' = [run EXCEPT ![r] = [run[r] EXCEPT !.stage = "record",
                   !.ledger = [i \in DOMAIN rows |-> LedgerPayment(rows[i])]]]
  BY DEF ListSettled, IInv
<1>2. PICK ledger : ledger = [i \in DOMAIN rows |-> LedgerPayment(rows[i])]
  OBVIOUS
<1>3. PICK new : new = [run[r] EXCEPT !.stage = "record", !.ledger = ledger]
  OBVIOUS
<1>4. /\ IsRun(run[r]) /\ RunOK(r) /\ run[r].stage = "list"
      /\ UNCHANGED <<now, stamp, committed, emitted>>
  BY DEF IInv, ListSettled
<1>5. /\ IsRun(new) /\ new.stage = "record" /\ new.ledger = ledger
      /\ new.file = run[r].file /\ new.reported = run[r].reported
      /\ new.window_start = run[r].window_start /\ new.window_end = run[r].window_end
  BY <1>3, <1>4 DEF IsRun
<1>6. run' = [run EXCEPT ![r] = new] /\ run'[r] = new
  BY <1>1, <1>2, <1>3 DEF IInv
<1>7. IsFiniteSet(T)
  BY ReconciliationAssumption, FS_Subset
<1>8. PICK n \in Nat :
        /\ DOMAIN rows = 1 .. n
        /\ \A i \in DOMAIN rows : rows[i] \in T
        /\ \A i, j \in DOMAIN rows : rows[i] = rows[j] => i = j
        /\ \A x \in T : \E i \in DOMAIN rows : rows[i] = x
  BY <1>7, SetToSeqsEnumerates
<1>9. /\ DOMAIN ledger = 1 .. n
      /\ \A i \in DOMAIN ledger : /\ ledger[i].payment_id = rows[i] /\ rows[i] \in Payments
                                  /\ ledger[i] = LedgerPayment(rows[i])
                                  /\ committed[rows[i]] # None /\ InWindow(r, rows[i])
  BY <1>2, <1>8 DEF LedgerPayment
<1>10. Listed(r)' = T
  <2>1. Listed(r)' = {ledger[i].payment_id : i \in DOMAIN ledger}
    BY <1>5, <1>6 DEF Listed
  <2>. QED
    BY <1>8, <1>9, <2>1
<1>11. \A p : InWindow(r, p)' <=> InWindow(r, p)
  BY <1>4, <1>5, <1>6 DEF InWindow
<1>12. FileOK(r) /\ run[r].window_start \in Int /\ run[r].window_end \in Int
       /\ run[r].window_end <= now
  BY <1>4 DEF RunOK
<1>13. FileOK(r)'
  BY <1>4, <1>5, <1>6, <1>12 DEF FileOK
<1>14. ListOK(r)'
  <2>1. Indexed(ledger)
    BY <1>9 DEF Indexed
  <2>2. \A i \in DOMAIN ledger :
          /\ ledger[i].payment_id \in Payments /\ ledger[i] = LedgerPayment(ledger[i].payment_id)
          /\ committed'[ledger[i].payment_id] # None /\ InWindow(r, ledger[i].payment_id)'
    BY <1>4, <1>9, <1>11
  <2>3. \A i, j \in DOMAIN ledger : ledger[i].payment_id = ledger[j].payment_id => i = j
    BY <1>8, <1>9
  <2>4. \A p \in run[r].reported : InWindow(r, p)' => p \in Listed(r)'
    BY <1>10, <1>11, <1>12 DEF FileOK
  <2>5. ASSUME NEW p \in Payments, committed[p] # None,
               run[r].window_start <= stamp[p], committed[p] < run[r].window_end
        PROVE  p \in Listed(r)'
    <3>1. stamp[p] \in Int /\ committed[p] \in Int /\ stamp[p] <= committed[p]
      BY <2>5 DEF IInv, StampsOK
    <3>2. InWindow(r, p)
      BY <1>12, <2>5, <3>1 DEF InWindow
    <3>. QED
      BY <1>10, <2>5, <3>2
  <2>. QED
    BY <1>4, <1>5, <1>6, <2>1, <2>2, <2>3, <2>4, <2>5 DEF ListOK
<1>15. RunOK(r)'
  BY <1>4, <1>5, <1>6, <1>12, <1>13, <1>14 DEF RunOK
<1>. QED
  BY <1>4, <1>5, <1>6, <1>15, RunStep

\* match and record_run.
LEMMA RecordRunStep == ASSUME IInv, NEW r \in Runs, RecordRun(r) PROVE IInv'
<1>1. PICK result : result = match(run[r].ledger, parse_settlement_csv(run[r].file))
  OBVIOUS
<1>2. PICK new : new = [run[r] EXCEPT !.stage = "completed", !.result = result]
  OBVIOUS
<1>3. /\ IsRun(run[r]) /\ RunOK(r) /\ run[r].stage = "record"
      /\ UNCHANGED <<now, stamp, committed, emitted>>
  BY DEF IInv, RecordRun
<1>4. run' = [run EXCEPT ![r] = new] /\ run'[r] = new
  BY <1>1, <1>2 DEF RecordRun, IInv
<1>5. /\ IsRun(new) /\ new.stage = "completed" /\ new.result = result
      /\ new.file = run[r].file /\ new.reported = run[r].reported
      /\ new.window_start = run[r].window_start /\ new.window_end = run[r].window_end
      /\ new.ledger = run[r].ledger
  BY <1>2, <1>3 DEF IsRun
<1>6. Listed(r)' = Listed(r) /\ \A p : InWindow(r, p)' <=> InWindow(r, p)
  BY <1>3, <1>4, <1>5 DEF Listed, InWindow
<1>7. FileOK(r)' /\ ListOK(r)'
  BY <1>3, <1>4, <1>5, <1>6 DEF RunOK, FileOK, ListOK
<1>8. match(run'[r].ledger, parse_settlement_csv(run'[r].file)) = result
  BY <1>1, <1>4, <1>5
<1>9. RunOK(r)'
  BY <1>3, <1>4, <1>5, <1>7, <1>8 DEF RunOK
<1>. QED
  BY <1>3, <1>4, <1>5, <1>9, RunStep

\* A run dies.
LEMMA CrashStep == ASSUME IInv, NEW r \in Runs, Crash(r) PROVE IInv'
<1>1. run' = [run EXCEPT ![r] = NewRun] /\ UNCHANGED <<now, stamp, committed, emitted>>
  BY DEF Crash
<1>2. IsRun(NewRun) /\ NewRun.stage = "new"
  BY DEF IsRun, NewRun
<1>3. RunOK(r)'
  BY <1>1, <1>2 DEF IInv, RunOK
<1>. QED
  BY <1>1, <1>2, <1>3, RunStep

\* Every step keeps the inductive invariant.
LEMMA NextIInv == IInv /\ [Next]_vars => IInv'
<1> SUFFICES ASSUME IInv, [Next]_vars PROVE IInv'
  OBVIOUS
<1>1. CASE UNCHANGED vars
  <2>1. \A r \in Runs : RunOK(r)'
    BY <1>1, RunsStay DEF vars, IInv
  <2>. QED
    BY <1>1, <2>1 DEF vars, IInv, StampsOK
<1>2. CASE \/ \E p \in Payments : \/ BeginSettle(p) \/ CommitSettle(p) \/ RollbackSettle(p)
                                  \/ ReversePayment(p) \/ EmitPacs008(p)
           \/ Tick
  BY <1>2, PaymentStep
<1>3. ASSUME NEW r \in Runs,
             StartUploaded(r) \/ StartReported(r) \/ ListSettled(r) \/ RecordRun(r) \/ Crash(r)
      PROVE  IInv'
  BY <1>3, StartUploadedStep, StartReportedStep, ListSettledStep, RecordRunStep, CrashStep
<1>. QED
  BY <1>1, <1>2, <1>3 DEF Next

\* What a run has listed and recorded stays in order, whatever settles, reverses
\* or reconciles beside it.
THEOREM Inductive == Spec => []IInv
BY InitIInv, NextIInv, PTL DEF Spec

-----------------------------------------------------------------------------
(* What completed runs say.                                                 *)

\* Consecutive windows share no payment (list_settled_payments).
THEOREM EachPaymentCountedOnce == Spec => []CountedOnce
<1>1. IInv => CountedOnce
  <2> SUFFICES ASSUME IInv, NEW r \in Completed, NEW q \in Completed,
                      run[r].window_end <= run[q].window_start,
                      NEW p \in Listed(r), p \in Listed(q)
               PROVE  FALSE
    BY DEF CountedOnce
  <2>1. RunOK(r) /\ RunOK(q) /\ ListOK(r) /\ ListOK(q)
    BY DEF IInv, Completed, RunOK
  <2>2. /\ run[r].window_start \in Int /\ run[r].window_end \in Int
        /\ run[q].window_start \in Int /\ run[q].window_end \in Int
    BY <2>1 DEF Completed, RunOK
  <2>3. p \in Payments /\ committed[p] # None /\ InWindow(r, p) /\ InWindow(q, p)
    BY <2>1 DEF ListOK, Listed
  <2>4. stamp[p] \in Int
    BY <2>3 DEF IInv, StampsOK
  <2>. QED
    BY <2>2, <2>3, <2>4 DEF InWindow
<1>. QED
  BY <1>1, Inductive, PTL

\* A run lists whatever began and committed within its window
\* (list_settled_payments).
THEOREM WholeWindowListed == Spec => []WholeInWindowIsListed
<1>1. IInv => WholeInWindowIsListed
  <2> SUFFICES ASSUME IInv, NEW r \in Completed, NEW p \in Payments,
                      committed[p] # None, run[r].window_start <= stamp[p],
                      committed[p] < run[r].window_end
               PROVE  p \in Listed(r)
    BY DEF WholeInWindowIsListed
  <2>1. ListOK(r)
    BY DEF IInv, Completed, RunOK
  <2>. QED
    BY <2>1 DEF ListOK
<1>. QED
  BY <1>1, Inductive, PTL

\* L and S are the two sequences that run r has matched.
Matched(r, L, S) ==
    /\ Indexed(L) /\ Indexed(S) /\ Distinct(L) /\ Distinct(S)
    /\ run[r].result = match(L, S)
    /\ Records(r) = {S[j] : j \in DOMAIN S}
    /\ \A j \in DOMAIN S : Strip(S[j].external_ref) = S[j].external_ref
    /\ Listed(r) = {L[i].payment_id : i \in DOMAIN L}
    /\ \A i \in DOMAIN L :
         /\ L[i].payment_id \in Payments /\ committed[L[i].payment_id] # None
         /\ L[i].external_ref = Reference(L[i].payment_id)
         /\ L[i].amount = Amount[L[i].payment_id]
         /\ L[i].currency = Currency[L[i].payment_id]

LEMMA CompletedRun ==
    ASSUME IInv, UniqueReferences, NEW r \in Completed
    PROVE  Matched(r, run[r].ledger, parse_settlement_csv(run[r].file))
<1>a. PICK L : L = run[r].ledger
  OBVIOUS
<1>b. PICK S : S = parse_settlement_csv(run[r].file)
  OBVIOUS
<1> DEFINE file == run[r].file
<1>1. RunOK(r) /\ FileOK(r) /\ ListOK(r) /\ run[r].result = match(L, S)
  BY <1>a, <1>b DEF IInv, Completed, RunOK
<1>2. /\ DOMAIN S = DOMAIN file
      /\ \A j \in DOMAIN S : /\ S[j] = SettlementRecord(file[j])
                             /\ S[j].external_ref = Strip(file[j].external_ref)
  BY <1>b DEF parse_settlement_csv, SettlementRecord
<1>3. Records(r) = {S[j] : j \in DOMAIN S}
  BY <1>2 DEF Records, SettlementRecord
<1>4. Indexed(S) /\ Distinct(S)
  BY <1>1, <1>2 DEF Indexed, Distinct, FileOK
<1>5. \A i \in DOMAIN L :
        /\ L[i].payment_id \in Payments /\ committed[L[i].payment_id] # None
        /\ L[i].external_ref = Reference(L[i].payment_id)
        /\ L[i].amount = Amount[L[i].payment_id]
        /\ L[i].currency = Currency[L[i].payment_id]
  <2>1. \A p : /\ LedgerPayment(p).external_ref = Reference(p)
               /\ LedgerPayment(p).amount = Amount[p] /\ LedgerPayment(p).currency = Currency[p]
    BY DEF LedgerPayment, Reference
  <2>2. \A i \in DOMAIN L : /\ L[i].payment_id \in Payments
                            /\ L[i] = LedgerPayment(L[i].payment_id)
                            /\ committed[L[i].payment_id] # None
    BY <1>a, <1>1 DEF ListOK
  <2>. QED
    BY <2>1, <2>2
<1>6. Distinct(L)
  <2> SUFFICES ASSUME NEW i \in DOMAIN L, NEW j \in DOMAIN L,
                      L[i].external_ref = L[j].external_ref
               PROVE  i = j
    BY DEF Distinct
  <2>1. L[i].payment_id = L[j].payment_id
    BY <1>5 DEF UniqueReferences
  <2>. QED
    BY <1>a, <1>1, <2>1 DEF ListOK
<1>7. Indexed(L) /\ Listed(r) = {L[i].payment_id : i \in DOMAIN L}
  BY <1>a, <1>1 DEF ListOK, Listed
<1>8. \A j \in DOMAIN S : Strip(S[j].external_ref) = S[j].external_ref
  BY <1>1, <1>2, StripTwice DEF FileOK
<1>9. Matched(r, L, S)
  BY <1>1, <1>3, <1>8, <1>4, <1>5, <1>6, <1>7 DEF Matched
<1>. QED
  BY <1>a, <1>b, <1>9

\* match finds a record and a payment to be about each other, and to agree, when
\* they do so spaces aside and the payment's reference has none.
LEMMA AgreementIsEquality ==
    ASSUME NEW x, NEW s, Strip(s.external_ref) = s.external_ref,
           x.external_ref = Reference(x.payment_id),
           x.amount = Amount[x.payment_id], x.currency = Currency[x.payment_id]
    PROVE  /\ s.external_ref = x.external_ref
                <=> About(s, x.payment_id) /\ ~ Spaced(x.payment_id)
           /\ s.external_ref = x.external_ref /\ Equal(x, s)
                <=> Agrees(s, x.payment_id) /\ ~ Spaced(x.payment_id)
BY DEF About, Agrees, Equal, Spaced

\* Where references are unique, whatever file and ledger disagree on is reported,
\* with the type that fits unless spaces hide the record (match).
THEOREM AllDifferencesReported ==
    ASSUME UniqueReferences PROVE Spec => []DifferencesAreReported
<1>1. IInv => DifferencesAreReported
  <2> SUFFICES ASSUME IInv, NEW r \in Completed
               PROVE  DifferencesAreReported!(r)
    BY DEF DifferencesAreReported
  <2>1. PICK L : L = run[r].ledger
    OBVIOUS
  <2>2. PICK S : S = parse_settlement_csv(run[r].file)
    OBVIOUS
  <2>a. Matched(r, L, S)
    BY <2>1, <2>2, CompletedRun
  <2>3. /\ Indexed(L) /\ Indexed(S) /\ Distinct(L) /\ Distinct(S)
        /\ run[r].result = match(L, S)
        /\ Records(r) = {S[j] : j \in DOMAIN S}
        /\ \A j \in DOMAIN S : Strip(S[j].external_ref) = S[j].external_ref
        /\ Listed(r) = {L[i].payment_id : i \in DOMAIN L}
        /\ \A i \in DOMAIN L :
             /\ L[i].external_ref = Reference(L[i].payment_id)
             /\ L[i].amount = Amount[L[i].payment_id]
             /\ L[i].currency = Currency[L[i].payment_id]
    BY <2>a DEF Matched
  <2>4. \A i \in DOMAIN L, j \in DOMAIN S :
          /\ S[j].external_ref = L[i].external_ref
               <=> About(S[j], L[i].payment_id) /\ ~ Spaced(L[i].payment_id)
          /\ S[j].external_ref = L[i].external_ref /\ Equal(L[i], S[j])
               <=> Agrees(S[j], L[i].payment_id) /\ ~ Spaced(L[i].payment_id)
    BY <2>3, AgreementIsEquality
  <2>5. ASSUME NEW i \in DOMAIN L
        PROVE  \/ \E s \in Records(r) : Agrees(s, L[i].payment_id)
               \/ \E b \in run[r].result.breaks :
                    /\ b.payment_id = L[i].payment_id
                    /\ b.ledger_amount = Amount[L[i].payment_id]
                    /\ b.break_type = IF /\ ~ Spaced(L[i].payment_id)
                                         /\ \E s \in Records(r) : About(s, L[i].payment_id)
                                      THEN "amount_mismatch" ELSE "missing_in_settlement"
    <3>1. (~ Spaced(L[i].payment_id) /\ \E s \in Records(r) : About(s, L[i].payment_id))
            <=> \E j \in DOMAIN S : S[j].external_ref = L[i].external_ref
      BY <2>3, <2>4
    <3>2. LedgerSide(L, S, i)
      BY <2>3, LedgerSideReported
    <3>. QED
      BY <2>3, <2>4, <3>1, <3>2, ZenonT(60) DEF Reports, LedgerSide
  <2>6. ASSUME NEW j \in DOMAIN S
        PROVE  \/ \E p \in Listed(r) : Agrees(S[j], p)
               \/ \E b \in run[r].result.breaks :
                    b.external_ref = S[j].external_ref /\ b.settlement_amount = S[j].amount
    <3>1. \/ \E i \in DOMAIN L : S[j].external_ref = L[i].external_ref /\ Equal(L[i], S[j])
          \/ \E b \in match(L, S).breaks :
               b.external_ref = S[j].external_ref /\ b.settlement_amount = S[j].amount
      BY <2>3, SettlementSideReported, ZenonT(60)
    <3>. QED
      BY <2>3, <2>4, <3>1
  <2>. QED
    BY <2>3, <2>5, <2>6, ZenonT(60)
<1>. QED
  BY <1>1, Inductive, PTL

\* Where references are unique, a break is a false alarm only about a payment
\* whose reference has spaces around it, which no file can match, and the other
\* matches are counted (match, parse_settlement_csv, list_settled_payments).
THEOREM FalseAlarmsAreSpaced == ASSUME UniqueReferences PROVE Spec => []BreaksAreReal
<1>1. IInv => BreaksAreReal
  <2> SUFFICES ASSUME IInv, NEW r \in Completed PROVE BreaksAreReal!(r)
    BY DEF BreaksAreReal
  <2>1. PICK L : L = run[r].ledger
    OBVIOUS
  <2>2. PICK S : S = parse_settlement_csv(run[r].file)
    OBVIOUS
  <2>a. Matched(r, L, S)
    BY <2>1, <2>2, CompletedRun
  <2>3. /\ Indexed(L) /\ Indexed(S) /\ Distinct(L) /\ Distinct(S)
        /\ run[r].result = match(L, S)
        /\ Records(r) = {S[j] : j \in DOMAIN S}
        /\ \A j \in DOMAIN S : Strip(S[j].external_ref) = S[j].external_ref
        /\ Listed(r) = {L[i].payment_id : i \in DOMAIN L}
        /\ \A i \in DOMAIN L :
             /\ L[i].payment_id \in Payments /\ committed[L[i].payment_id] # None
             /\ L[i].external_ref = Reference(L[i].payment_id)
             /\ L[i].amount = Amount[L[i].payment_id]
             /\ L[i].currency = Currency[L[i].payment_id]
    BY <2>a DEF Matched
  <2>4. \A i \in DOMAIN L, j \in DOMAIN S :
          /\ S[j].external_ref = L[i].external_ref
               <=> About(S[j], L[i].payment_id) /\ ~ Spaced(L[i].payment_id)
          /\ S[j].external_ref = L[i].external_ref /\ Equal(L[i], S[j])
               <=> Agrees(S[j], L[i].payment_id) /\ ~ Spaced(L[i].payment_id)
    BY <2>3, AgreementIsEquality
  <2>5. ASSUME NEW b \in run[r].result.breaks
        PROVE  IF b.payment_id = None
               THEN \A p \in Listed(r), s \in Records(r) :
                      s.external_ref = b.external_ref /\ About(s, p) => Spaced(p)
               ELSE /\ committed[b.payment_id] # None
                    /\ \A s \in Records(r) : Agrees(s, b.payment_id) => Spaced(b.payment_id)
    <3>1. b \in match(L, S).breaks
      BY <2>3
    <3>2. CASE \E i \in DOMAIN L :
                 /\ b = ReconciliationBreak("missing_in_settlement", L[i].external_ref,
                                            L[i].payment_id, L[i].amount, None)
                 /\ \A j \in DOMAIN S : S[j].external_ref # L[i].external_ref
      <4>1. PICK i \in DOMAIN L : /\ b.payment_id = L[i].payment_id
                                  /\ \A j \in DOMAIN S : S[j].external_ref # L[i].external_ref
        BY <3>2, BreakFields
      <4>. QED
        BY <2>3, <2>4, <4>1, ReconciliationAssumption
    <3>3. CASE \E j \in DOMAIN S :
                 /\ b = ReconciliationBreak("missing_in_ledger", S[j].external_ref,
                                            None, None, S[j].amount)
                 /\ \A i \in DOMAIN L : S[j].external_ref # L[i].external_ref
      <4>1. PICK j \in DOMAIN S : /\ b.payment_id = None /\ b.external_ref = S[j].external_ref
                                  /\ \A i \in DOMAIN L : S[j].external_ref # L[i].external_ref
        BY <3>3, BreakFields
      <4>. QED
        BY <2>3, <2>4, <4>1
    <3>4. CASE \E i \in DOMAIN L, j \in DOMAIN S :
                 /\ b = ReconciliationBreak("amount_mismatch", L[i].external_ref,
                                            L[i].payment_id, L[i].amount, S[j].amount)
                 /\ S[j].external_ref = L[i].external_ref
                 /\ ~ Equal(L[i], S[j])
      <4>1. PICK i \in DOMAIN L, j \in DOMAIN S :
                 /\ b.payment_id = L[i].payment_id
                 /\ S[j].external_ref = L[i].external_ref /\ ~ Equal(L[i], S[j])
        BY <3>4, BreakFields
      <4>2. \A k \in DOMAIN S : Agrees(S[k], L[i].payment_id) => Spaced(L[i].payment_id)
        BY <2>3, <2>4, <4>1 DEF Distinct
      <4>. QED
        BY <2>3, <4>1, <4>2, ReconciliationAssumption
    <3>. QED
      BY <2>3, <3>1, <3>2, <3>3, <3>4, BreakMeaning
  <2>6. run[r].result.matched_count =
          Cardinality({s \in Records(r) : \E p \in Listed(r) : Agrees(s, p) /\ ~ Spaced(p)})
    <3>1. {s \in Records(r) : \E p \in Listed(r) : Agrees(s, p) /\ ~ Spaced(p)}
            = {S[j] : j \in {k \in DOMAIN S : \E i \in DOMAIN L :
                          S[k].external_ref = L[i].external_ref /\ Equal(L[i], S[k])}}
      BY <2>3, <2>4
    <3>2. match(L, S).matched_count =
            Cardinality({S[j] : j \in {k \in DOMAIN S : \E i \in DOMAIN L :
                          S[k].external_ref = L[i].external_ref /\ Equal(L[i], S[k])}})
      <4>1. Indexed(L) /\ Indexed(S) /\ Distinct(L) /\ Distinct(S)
        BY <2>3
      <4>. QED
        BY <4>1, MatchesCounted, Zenon
    <3>. QED
      BY <2>3, <3>1, <3>2
  <2>. QED
    BY <2>5, <2>6
<1>. QED
  BY <1>1, Inductive, PTL

\* Where references are unique, what was announced to the network reconciles
\* (emit_pacs008, list_settled_payments and match).
THEOREM AnnouncementsReconcile == ASSUME UniqueReferences PROVE Spec => []AnnouncedReconciles
<1>1. IInv => AnnouncedReconciles
  <2> SUFFICES ASSUME IInv, NEW r \in Completed, NEW p \in run[r].reported
               PROVE  /\ committed[p] # None
                      /\ (InWindow(r, p) /\ ~ Spaced(p)) =>
                           /\ p \in Listed(r)
                           /\ \A b \in run[r].result.breaks :
                                b.payment_id # p /\ b.external_ref # Reference(p)
    BY DEF AnnouncedReconciles
  <2>1. PICK L : L = run[r].ledger
    OBVIOUS
  <2>2. PICK S : S = parse_settlement_csv(run[r].file)
    OBVIOUS
  <2>a. Matched(r, L, S)
    BY <2>1, <2>2, CompletedRun
  <2>3. /\ Indexed(L) /\ Indexed(S) /\ Distinct(L) /\ Distinct(S)
        /\ run[r].result = match(L, S)
        /\ Listed(r) = {L[i].payment_id : i \in DOMAIN L}
        /\ \A i \in DOMAIN L :
             /\ L[i].payment_id \in Payments
             /\ L[i].external_ref = Reference(L[i].payment_id)
             /\ L[i].amount = Amount[L[i].payment_id]
             /\ L[i].currency = Currency[L[i].payment_id]
        /\ FileOK(r) /\ ListOK(r)
    BY <2>a DEF Matched, IInv, Completed, RunOK
  <2>4. p \in Payments /\ committed[p] # None
    BY <2>3 DEF FileOK
  <2>5. /\ Pacs008(p).external_ref = Reference(p) /\ Pacs008(p).amount = Amount[p]
        /\ Pacs008(p).currency = Currency[p]
    BY DEF Pacs008, Reference
  <2>6. ASSUME InWindow(r, p), Strip(Reference(p)) = Reference(p)
        PROVE  /\ p \in Listed(r)
               /\ \A b \in run[r].result.breaks :
                    b.payment_id # p /\ b.external_ref # Reference(p)
    <3>1. p \in Listed(r)
      BY <2>3, <2>6 DEF ListOK
    <3>2. PICK i \in DOMAIN L : L[i].payment_id = p
      BY <2>3, <3>1
    <3>3. PICK j \in DOMAIN S : /\ S[j].external_ref = Reference(p) /\ S[j].amount = Amount[p]
                                /\ S[j].currency = Currency[p]
      <4>1. PICK j \in DOMAIN run[r].file : run[r].file[j] = Pacs008(p)
        BY <2>3 DEF FileOK
      <4>2. j \in DOMAIN S /\ S[j] = SettlementRecord(Pacs008(p))
        BY <2>2, <4>1 DEF parse_settlement_csv
      <4>. QED
        BY <2>4, <2>5, <2>6, <4>2, CurrencyAssumption DEF SettlementRecord
    <3>4. /\ L[i].external_ref = Reference(p) /\ S[j].external_ref = L[i].external_ref
          /\ Equal(L[i], S[j])
      BY <2>3, <3>2, <3>3 DEF Equal
    <3>5. \A k \in DOMAIN L : L[k].external_ref = Reference(p) \/ L[k].payment_id = p => k = i
      BY <2>3, <3>2, <3>4 DEF Distinct
    <3>6. \A k \in DOMAIN S : S[k].external_ref = Reference(p) => k = j
      BY <2>3, <3>3 DEF Distinct
    <3>7. ASSUME NEW b \in match(L, S).breaks
          PROVE  b.payment_id # p /\ b.external_ref # Reference(p)
      <4>1. CASE \E k \in DOMAIN L :
                   /\ b = ReconciliationBreak("missing_in_settlement", L[k].external_ref,
                                              L[k].payment_id, L[k].amount, None)
                   /\ \A l \in DOMAIN S : S[l].external_ref # L[k].external_ref
        BY <3>3, <3>4, <3>5, <4>1, BreakFields
      <4>2. CASE \E l \in DOMAIN S :
                   /\ b = ReconciliationBreak("missing_in_ledger", S[l].external_ref,
                                              None, None, S[l].amount)
                   /\ \A k \in DOMAIN L : S[l].external_ref # L[k].external_ref
        BY <2>4, <3>4, <4>2, BreakFields, ReconciliationAssumption
      <4>3. CASE \E k \in DOMAIN L, l \in DOMAIN S :
                   /\ b = ReconciliationBreak("amount_mismatch", L[k].external_ref,
                                              L[k].payment_id, L[k].amount, S[l].amount)
                   /\ S[l].external_ref = L[k].external_ref
                   /\ ~ Equal(L[k], S[l])
        <5>1. PICK k \in DOMAIN L, l \in DOMAIN S :
                   /\ b.payment_id = L[k].payment_id /\ b.external_ref = L[k].external_ref
                   /\ S[l].external_ref = L[k].external_ref /\ ~ Equal(L[k], S[l])
          BY <4>3, BreakFields
        <5>. QED
          BY <3>4, <3>5, <3>6, <5>1
      <4>. QED
        BY <2>3, <4>1, <4>2, <4>3, BreakMeaning
    <3>. QED
      BY <2>3, <3>1, <3>7
  <2>. QED
    BY <2>4, <2>6 DEF Spaced
<1>. QED
  BY <1>1, Inductive, PTL
=============================================================================
