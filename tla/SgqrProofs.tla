----------------------------- MODULE SgqrProofs -----------------------------
(***************************************************************************)
(* SGQR codes for any accounts, cities and amounts: what is read back, what *)
(* a misread character does to the checksum, and what the checksum is.     *)
(***************************************************************************)
EXTENDS Sgqr, SequenceTheorems, WellFoundedInduction, TLAPS

-----------------------------------------------------------------------------
(* Induction, and functions defined by recursion.                           *)

\* What holds of k, and of each number up to n if it holds of the one before, holds
\* of all of them: otherwise there would be a least exception.
LEMMA InductionUpTo ==
    ASSUME NEW k \in Nat, NEW n \in Nat, NEW T, k \in T,
           \A i \in k + 1 .. n : i - 1 \in T => i \in T
    PROVE  k .. n \subseteq T
<1> DEFINE Exceptions == (k .. n) \ T
<1> SUFFICES ASSUME Exceptions # {} PROVE FALSE
  OBVIOUS
<1>1. Exceptions \subseteq Nat
  OBVIOUS
<1> HIDE DEF Exceptions
<1>2. PICK i \in Exceptions : \A m \in Exceptions : ~ (<<m, i>> \in OpToRel(<, Nat))
  BY <1>1, NatLessThanWellFounded, WFMin, ZenonT(60)
<1>3. i \in k + 1 .. n /\ i \notin T
  <2>1. i \in k .. n /\ i \notin T
    BY DEF Exceptions
  <2>. QED
    BY <2>1
<1>4. i - 1 \in Exceptions
  BY <1>3 DEF Exceptions
<1>5. <<i - 1, i>> \in OpToRel(<, Nat)
  BY <1>3 DEF OpToRel
<1>. QED
  BY <1>2, <1>4, <1>5, ZenonT(60)

\* f starts at base and makes n steps within S.
IsRecursion(f, n, S, base, step) ==
    /\ f \in [0 .. n -> S]
    /\ f[0] = base
    /\ \A i \in 1 .. n : f[i] = step[i][f[i - 1]]

\* A function may be defined by what it is at 0 and how its next value follows.
LEMMA RecursionExists ==
    ASSUME NEW n \in Nat, NEW S, NEW base \in S, NEW step \in [1 .. n -> [S -> S]]
    PROVE  \E f : IsRecursion(f, n, S, base, step)
<1> DEFINE Upto(m, f) == IsRecursion(f, m, S, base, step)
           T == {m \in 0 .. n : \E f : Upto(m, f)}
<1>1. 0 \in T
  <2>1. Upto(0, [i \in 0 .. 0 |-> base])
    BY DEF IsRecursion
  <2>2. 0 \in 0 .. n
    OBVIOUS
  <2> HIDE DEF Upto
  <2>. QED
    BY <2>1, <2>2
<1>2. ASSUME NEW m \in 1 .. n, m - 1 \in T PROVE m \in T
  <2>1. PICK f : Upto(m - 1, f)
    BY <1>2
  <2> DEFINE g == [i \in 0 .. m |-> IF i = m THEN step[m][f[m - 1]] ELSE f[i]]
  <2>2. f[m - 1] \in S /\ step[m][f[m - 1]] \in S
    BY <2>1 DEF IsRecursion
  <2>3. g \in [0 .. m -> S] /\ g[0] = base
    BY <2>1, <2>2 DEF IsRecursion
  <2>4. ASSUME NEW i \in 1 .. m PROVE g[i] = step[i][g[i - 1]]
    <3>1. g[i - 1] = f[i - 1]
      OBVIOUS
    <3>. QED
      BY <2>1, <3>1 DEF IsRecursion
  <2>5. Upto(m, g)
    BY <2>3, <2>4 DEF IsRecursion
  <2> HIDE DEF g, Upto
  <2>. QED
    BY <2>5
<1> HIDE DEF T
<1>3. \A i \in 0 + 1 .. n : i - 1 \in T => i \in T
  BY <1>2
<1>4. 0 .. n \subseteq T
  BY <1>1, <1>3, InductionUpTo
<1>5. n \in T
  BY <1>4
<1>. QED
  BY <1>5 DEF T

-----------------------------------------------------------------------------
(* The register.                                                            *)

Bits == 0 .. 15

\* What one round of the inner loop does to each bit.
LEMMA ShiftElements ==
    ASSUME NEW X \in SUBSET Bits
    PROVE  /\ ShiftRegister(X) \in SUBSET Bits
           /\ \A k \in Bits : k \in ShiftRegister(X) <=>
                ((k - 1 \in X) # (15 \in X /\ k \in {0, 5, 12}))
BY DEF ShiftRegister, SymDiff, Bits

\* A round is linear,
LEMMA ShiftLinear ==
    ASSUME NEW X \in SUBSET Bits, NEW Y \in SUBSET Bits
    PROVE  ShiftRegister(SymDiff(X, Y)) = SymDiff(ShiftRegister(X), ShiftRegister(Y))
<1>1. SymDiff(X, Y) \in SUBSET Bits
  BY DEF SymDiff
<1>2. \A k \in Bits : k \in ShiftRegister(SymDiff(X, Y)) <=>
                      k \in SymDiff(ShiftRegister(X), ShiftRegister(Y))
  BY <1>1, ShiftElements DEF SymDiff
<1>3. SymDiff(ShiftRegister(X), ShiftRegister(Y)) \in SUBSET Bits
  BY ShiftElements DEF SymDiff
<1>. QED
  BY <1>1, <1>2, <1>3, ShiftElements

\* and loses nothing: bit 0 tells whether bit 15 fell out.
LEMMA ShiftInjective ==
    ASSUME NEW X \in SUBSET Bits, NEW Y \in SUBSET Bits, ShiftRegister(X) = ShiftRegister(Y)
    PROVE  X = Y
<1>1. 15 \in X <=> 15 \in Y
  BY ShiftElements DEF Bits
<1>2. \A k \in 0 .. 14 : k + 1 \in Bits /\ (k + 1) - 1 = k
  BY DEF Bits
<1>3. \A k \in 0 .. 14 : k \in X <=> k \in Y
  BY <1>1, <1>2, ShiftElements
<1>4. \A k \in Bits : k \in X <=> k \in Y
  BY <1>1, <1>3 DEF Bits
<1>. QED
  BY <1>4

\* A round whose result has no low bit had no bit 15 to lose, and only shifted.
LEMMA ShiftBack ==
    ASSUME NEW X \in SUBSET Bits, NEW low \in 0 .. 7, NEW high \in 7 .. 14,
           ShiftRegister(X) \subseteq low + 1 .. high + 1
    PROVE  X \subseteq low .. high
<1>1. 15 \notin X
  BY ShiftElements DEF Bits
<1>2. \A k \in X : k + 1 \in Bits /\ (k + 1) - 1 = k
  BY <1>1 DEF Bits
<1>3. \A k \in X : k + 1 \in ShiftRegister(X)
  BY <1>1, <1>2, ShiftElements
<1>. QED
  BY <1>3 DEF Bits

Twice(X) == ShiftRegister(ShiftRegister(X))

\* Two rounds have the same properties,
LEMMA TwiceFacts ==
    ASSUME NEW X \in SUBSET Bits
    PROVE  /\ Twice(X) \in SUBSET Bits
           /\ \A Y \in SUBSET Bits :
                /\ Twice(SymDiff(X, Y)) = SymDiff(Twice(X), Twice(Y))
                /\ Twice(X) = Twice(Y) => X = Y
           /\ \A low \in 0 .. 6, high \in 7 .. 13 :
                Twice(X) \subseteq low + 2 .. high + 2 => X \subseteq low .. high
<1>1. ShiftRegister(X) \in SUBSET Bits /\ Twice(X) \in SUBSET Bits
  BY ShiftElements DEF Twice
<1>2. ASSUME NEW Y \in SUBSET Bits PROVE Twice(SymDiff(X, Y)) = SymDiff(Twice(X), Twice(Y))
  <2>1. ShiftRegister(Y) \in SUBSET Bits
    BY ShiftElements
  <2>. QED
    BY <1>1, <2>1, ShiftLinear DEF Twice
<1>3. ASSUME NEW Y \in SUBSET Bits, Twice(X) = Twice(Y) PROVE X = Y
  <2>1. ShiftRegister(Y) \in SUBSET Bits
    BY ShiftElements
  <2>2. ShiftRegister(X) = ShiftRegister(Y)
    BY <1>1, <1>3, <2>1, ShiftInjective DEF Twice
  <2>. QED
    BY <2>2, ShiftInjective
<1>4. ASSUME NEW low \in 0 .. 6, NEW high \in 7 .. 13, Twice(X) \subseteq low + 2 .. high + 2
      PROVE  X \subseteq low .. high
  <2>1. ShiftRegister(ShiftRegister(X)) \subseteq (low + 1) + 1 .. (high + 1) + 1
    BY <1>4 DEF Twice
  <2>2. ShiftRegister(X) \subseteq low + 1 .. high + 1
    <3>1. low + 1 \in 0 .. 7 /\ high + 1 \in 7 .. 14
      OBVIOUS
    <3>. QED
      BY <1>1, <2>1, <3>1, ShiftBack
  <2>3. low \in 0 .. 7 /\ high \in 7 .. 14
    OBVIOUS
  <2>. QED
    BY <2>2, <2>3, ShiftBack
<1>. QED
  BY <1>1, <1>2, <1>3, <1>4

\* and so have eight.  In particular they take a byte that is not zero to a
\* register whose low byte is not zero.
LEMMA EightFacts ==
    ASSUME NEW X \in SUBSET Bits
    PROVE  /\ EightRounds[X] = Twice(Twice(Twice(Twice(X))))
           /\ EightRounds[X] \in SUBSET Bits
           /\ \A Y \in SUBSET Bits :
                /\ EightRounds[SymDiff(X, Y)] = SymDiff(EightRounds[X], EightRounds[Y])
                /\ EightRounds[X] = EightRounds[Y] => X = Y
           /\ X \subseteq 8 .. 15 /\ EightRounds[X] \subseteq 8 .. 15 => X = {}
<1>1. \A Y \in SUBSET Bits : EightRounds[Y] = Twice(Twice(Twice(Twice(Y))))
  BY DEF EightRounds, Twice, Bits
<1>2. \A Y \in SUBSET Bits : Twice(Y) \in SUBSET Bits
  BY TwiceFacts
<1>3. ASSUME NEW Y \in SUBSET Bits
      PROVE  /\ EightRounds[SymDiff(X, Y)] = SymDiff(EightRounds[X], EightRounds[Y])
             /\ EightRounds[X] = EightRounds[Y] => X = Y
  <2>1. SymDiff(X, Y) \in SUBSET Bits
    BY DEF SymDiff
  <2>2. /\ Twice(X) \in SUBSET Bits /\ Twice(Twice(X)) \in SUBSET Bits
        /\ Twice(Twice(Twice(X))) \in SUBSET Bits
        /\ Twice(Y) \in SUBSET Bits /\ Twice(Twice(Y)) \in SUBSET Bits
        /\ Twice(Twice(Twice(Y))) \in SUBSET Bits
    BY <1>2
  <2>3. \A A, B \in SUBSET Bits : /\ Twice(SymDiff(A, B)) = SymDiff(Twice(A), Twice(B))
                                  /\ Twice(A) = Twice(B) => A = B
    BY TwiceFacts
  <2>4. EightRounds[SymDiff(X, Y)] = Twice(Twice(Twice(Twice(SymDiff(X, Y)))))
    BY <1>1, <2>1
  <2>5. Twice(Twice(Twice(Twice(SymDiff(X, Y))))) =
        SymDiff(Twice(Twice(Twice(Twice(X)))), Twice(Twice(Twice(Twice(Y)))))
    <3>1. Twice(Twice(SymDiff(X, Y))) = SymDiff(Twice(Twice(X)), Twice(Twice(Y)))
      BY <2>2, <2>3
    <3>. QED
      BY <2>2, <2>3, <3>1
  <2>6. Twice(Twice(Twice(Twice(X)))) = Twice(Twice(Twice(Twice(Y)))) => X = Y
    <3>1. \A A, B \in SUBSET Bits : Twice(A) = Twice(B) => A = B
      BY <2>3
    <3>2. Twice(Twice(Twice(Twice(X)))) = Twice(Twice(Twice(Twice(Y))))
            => Twice(Twice(X)) = Twice(Twice(Y))
      BY <2>2, <3>1
    <3>. QED
      BY <2>2, <3>1, <3>2
  <2>. QED
    BY <1>1, <2>4, <2>5, <2>6
<1>4. ASSUME X \subseteq 8 .. 15, EightRounds[X] \subseteq 8 .. 15 PROVE X = {}
  <2> DEFINE X2 == Twice(X)
             X4 == Twice(X2)
             X6 == Twice(X4)
  <2>1. X2 \in SUBSET Bits /\ X4 \in SUBSET Bits /\ X6 \in SUBSET Bits
    BY <1>2
  <2>2. Twice(X6) \subseteq 6 + 2 .. 13 + 2
    BY <1>1, <1>4
  <2>3. X2 = Twice(X) /\ X4 = Twice(X2) /\ X6 = Twice(X4)
    OBVIOUS
  <2> HIDE DEF X2, X4, X6
  <2>4. X6 \subseteq 4 + 2 .. 11 + 2
    BY <2>1, <2>2, TwiceFacts
  <2>5. X4 \subseteq 2 + 2 .. 9 + 2
    BY <2>1, <2>3, <2>4, TwiceFacts
  <2>6. X2 \subseteq 0 + 2 .. 7 + 2
    BY <2>1, <2>3, <2>5, TwiceFacts
  <2>7. X \subseteq 0 .. 7
    BY <2>3, <2>6, TwiceFacts
  <2>. QED
    BY <1>4, <2>7
<1>. QED
  BY <1>1, <1>2, <1>3, <1>4

\* The bits of a byte tell which byte it is.
LEMMA HighByteFacts ==
    ASSUME NEW a \in 0 .. 127
    PROVE  /\ HighByte(a) \in SUBSET (8 .. 15)
           /\ \A b \in 0 .. 127 : HighByte(a) = HighByte(b) => a = b
<1> DEFINE bit(c, j) == (c \div BitValue[j + 1]) % 2
<1>1. \A c : \A j \in 0 .. 7 : 8 + j \in HighByte(c) <=> bit(c, j) = 1
  BY DEF HighByte
<1>2. ASSUME NEW c \in 0 .. 127
      PROVE  c = bit(c, 0) + 2 * bit(c, 1) + 4 * bit(c, 2) + 8 * bit(c, 3)
                   + 16 * bit(c, 4) + 32 * bit(c, 5) + 64 * bit(c, 6)
  BY DEF BitValue
<1>3. ASSUME NEW c \in 0 .. 127, NEW j \in 0 .. 7 PROVE bit(c, j) \in {0, 1}
  <2>1. PICK d \in Nat \ {0} : d = BitValue[j + 1]
    BY DEF BitValue
  <2>2. c \div d \in Int
    OBVIOUS
  <2>. QED
    BY <2>1, <2>2
<1> HIDE DEF bit
<1>4. ASSUME NEW b \in 0 .. 127, HighByte(a) = HighByte(b) PROVE a = b
  <2>1. \A j \in 0 .. 7 : bit(a, j) = bit(b, j)
    BY <1>1, <1>3, <1>4
  <2>. QED
    BY <1>2, <2>1, SMTT(60)
<1>5. HighByte(a) \in SUBSET (8 .. 15)
  BY DEF HighByte
<1>. QED
  BY <1>4, <1>5

\* Exclusive or with the same register keeps two registers apart.
LEMMA SymDiffCancels == \A A, B, C : SymDiff(A, B) = SymDiff(A, C) => B = C
BY DEF SymDiff

\* The registers are what the outer loop computes.
LEMMA RegistersFacts ==
    ASSUME NEW text \in Seq(0 .. 127)
    PROVE  /\ Registers(text)[0] = InitialRegister
           /\ \A i \in 0 .. Len(text) : Registers(text)[i] \in SUBSET Bits
           /\ \A i \in 1 .. Len(text) :
                Registers(text)[i] =
                EightRounds[SymDiff(Registers(text)[i - 1], HighByte(text[i]))]
<1> DEFINE n == Len(text)
           byte(X, i) == EightRounds[SymDiff(X, HighByte(text[i]))]
           step == [i \in 1 .. n |-> [X \in SUBSET Bits |-> byte(X, i)]]
           IsRegisters(f) ==
             f = [i \in 0 .. n |-> IF i = 0 THEN InitialRegister ELSE byte(f[i - 1], i)]
<1>1. n \in Nat /\ InitialRegister \in SUBSET Bits
  BY DEF InitialRegister, Bits
<1>2. ASSUME NEW i \in 1 .. n, NEW X \in SUBSET Bits PROVE byte(X, i) \in SUBSET Bits
  <2>1. PICK c \in 0 .. 127 : c = text[i]
    BY ElementOfSeq
  <2>2. HighByte(text[i]) \in SUBSET Bits
    <3>1. HighByte(c) \in SUBSET (8 .. 15)
      BY HighByteFacts
    <3>. QED
      BY <2>1, <3>1 DEF Bits
  <2>3. SymDiff(X, HighByte(text[i])) \in SUBSET Bits
    BY <2>2 DEF SymDiff
  <2>. QED
    BY <2>3, EightFacts
<1>3. step \in [1 .. n -> [SUBSET Bits -> SUBSET Bits]]
  BY <1>2
<1>4. PICK f : IsRecursion(f, n, SUBSET Bits, InitialRegister, step)
  <2> HIDE DEF n, step
  <2>. QED
    BY <1>1, <1>3, RecursionExists
<1>5. \A i \in 1 .. n : f[i] = byte(f[i - 1], i)
  <2>1. \A i \in 1 .. n : f[i - 1] \in SUBSET Bits
    BY <1>1, <1>4 DEF IsRecursion
  <2> HIDE DEF byte
  <2>. QED
    BY <1>4, <2>1 DEF IsRecursion
<1>6. IsRegisters(f)
  <2> HIDE DEF byte
  <2>1. \A i \in 0 .. n : f[i] = IF i = 0 THEN InitialRegister ELSE byte(f[i - 1], i)
    BY <1>1, <1>4, <1>5 DEF IsRecursion
  <2>. QED
    BY <1>4, <2>1 DEF IsRecursion
<1>7. Registers(text) = CHOOSE g : IsRegisters(g)
  BY DEF Registers
<1> HIDE DEF step
<1>8. IsRegisters(Registers(text))
  <2> HIDE DEF IsRegisters
  <2>. QED
    BY <1>6, <1>7
<1> DEFINE R == Registers(text)
<1>9. R[0] = InitialRegister /\ \A i \in 1 .. n : R[i] = byte(R[i - 1], i)
  <2> HIDE DEF byte
  <2>1. PICK g : g = R
    OBVIOUS
  <2>2. IsRegisters(g)
    BY <1>8, <2>1
  <2> HIDE DEF R
  <2>3. g[0] = InitialRegister /\ \A i \in 1 .. n : g[i] = byte(g[i - 1], i)
    BY <1>1, <2>2
  <2>. QED
    BY <2>1, <2>3
<1>10. \A i \in 0 .. n : R[i] \in SUBSET Bits
  <2> DEFINE T == {i \in 0 .. n : R[i] \in SUBSET Bits}
  <2> HIDE DEF R, n, byte
  <2>1. 0 \in T
    BY <1>1, <1>9
  <2>2. \A i \in 0 + 1 .. n : i - 1 \in T => i \in T
    BY <1>1, <1>2, <1>9
  <2> HIDE DEF T
  <2>3. 0 .. n \subseteq T
    BY <1>1, <2>1, <2>2, InductionUpTo
  <2>. QED
    BY <2>3 DEF T
<1>. QED
  BY <1>9, <1>10

-----------------------------------------------------------------------------
(* Two texts that differ.                                                   *)

\* Before the first difference the registers are the same.
LEMMA SameSoFar ==
    ASSUME NEW s \in Seq(0 .. 127), NEW t \in Seq(0 .. 127), NEW k \in Nat,
           k <= Len(s), k <= Len(t), \A i \in 1 .. k : s[i] = t[i]
    PROVE  Registers(s)[k] = Registers(t)[k]
<1> DEFINE T == {i \in 0 .. k : Registers(s)[i] = Registers(t)[i]}
<1>1. 0 \in T
  BY RegistersFacts
<1>2. ASSUME NEW i \in 0 + 1 .. k, i - 1 \in T PROVE i \in T
  <2>1. i \in 1 .. Len(s) /\ i \in 1 .. Len(t) /\ s[i] = t[i]
    OBVIOUS
  <2>2. Registers(s)[i - 1] = Registers(t)[i - 1]
    BY <1>2
  <2>3. Registers(s)[i] = Registers(t)[i]
    BY <2>1, <2>2, RegistersFacts
  <2>. QED
    BY <2>3
<1> HIDE DEF T
<1>3. 0 .. k \subseteq T
  BY <1>1, <1>2, InductionUpTo
<1>4. k \in T
  BY <1>3
<1>. QED
  BY <1>4 DEF T

\* A character adds bits to the register, before the eight rounds.
LEMMA CharBits ==
    ASSUME NEW s \in Seq(0 .. 127), NEW i \in 1 .. Len(s)
    PROVE  HighByte(s[i]) \in SUBSET (8 .. 15) /\ HighByte(s[i]) \in SUBSET Bits
<1>1. PICK c \in 0 .. 127 : c = s[i]
  BY ElementOfSeq
<1>2. HighByte(c) \in SUBSET (8 .. 15)
  BY HighByteFacts
<1>. QED
  BY <1>1, <1>2 DEF Bits

\* After the last difference they stay different, if they are.
LEMMA DifferentForGood ==
    ASSUME NEW s \in Seq(0 .. 127), NEW t \in Seq(0 .. 127), Len(s) = Len(t),
           NEW k \in 0 .. Len(s), Registers(s)[k] # Registers(t)[k],
           \A i \in k + 1 .. Len(s) : s[i] = t[i]
    PROVE  Register(s) # Register(t)
<1> DEFINE n == Len(s)
           T == {i \in k .. n : Registers(s)[i] # Registers(t)[i]}
<1>1. k \in T /\ n \in Nat /\ k \in Nat
  OBVIOUS
<1>2. ASSUME NEW i \in k + 1 .. n, i - 1 \in T PROVE i \in T
  <2> DEFINE X == Registers(s)[i - 1]
             Y == Registers(t)[i - 1]
             H == HighByte(s[i])
  <2>1. i \in 1 .. Len(s) /\ i \in 1 .. Len(t) /\ i - 1 \in 0 .. Len(s) /\ i - 1 \in 0 .. Len(t)
    OBVIOUS
  <2>2. X \in SUBSET Bits /\ Y \in SUBSET Bits /\ H \in SUBSET Bits
    BY <2>1, RegistersFacts, CharBits
  <2>3. Registers(s)[i] = EightRounds[SymDiff(X, H)]
    BY <2>1, RegistersFacts
  <2>4. Registers(t)[i] = EightRounds[SymDiff(Y, H)]
    BY <2>1, RegistersFacts
  <2>5. X # Y
    BY <1>2
  <2> HIDE DEF X, Y, H
  <2>6. SymDiff(X, H) \in SUBSET Bits /\ SymDiff(Y, H) \in SUBSET Bits
    BY <2>2 DEF SymDiff
  <2>7. SymDiff(X, H) # SymDiff(Y, H)
    BY <2>5 DEF SymDiff
  <2>8. EightRounds[SymDiff(X, H)] # EightRounds[SymDiff(Y, H)]
    BY <2>6, <2>7, EightFacts
  <2>9. i \in k .. n
    OBVIOUS
  <2>. QED
    BY <2>3, <2>4, <2>8, <2>9
<1> HIDE DEF T
<1>3. k .. n \subseteq T
  BY <1>1, <1>2, InductionUpTo
<1>4. n \in T
  BY <1>1, <1>3
<1>. QED
  BY <1>4 DEF T, Register

\* One character that differs.
LEMMA OneDiffers ==
    ASSUME NEW s \in Seq(0 .. 127), NEW t \in Seq(0 .. 127), Len(s) = Len(t),
           NEW i \in 1 .. Len(s), s[i] # t[i],
           \A j \in 1 .. Len(s) : j # i => s[j] = t[j]
    PROVE  Register(s) # Register(t)
<1> DEFINE X == Registers(s)[i - 1]
           G == HighByte(s[i])
           H == HighByte(t[i])
<1>1. Registers(t)[i - 1] = X
  BY SameSoFar, SMTT(60)
<1>2. i \in 1 .. Len(t) /\ i - 1 \in 0 .. Len(s)
  OBVIOUS
<1>3. X \in SUBSET Bits /\ G \in SUBSET Bits /\ H \in SUBSET Bits
  BY <1>2, RegistersFacts, CharBits
<1>4. G # H
  <2>1. PICK a \in 0 .. 127, b \in 0 .. 127 : a = s[i] /\ b = t[i]
    BY <1>2, ElementOfSeq, ZenonT(60)
  <2>. QED
    BY <2>1, HighByteFacts, ZenonT(60)
<1>5. Registers(s)[i] = EightRounds[SymDiff(X, G)] /\ Registers(t)[i] = EightRounds[SymDiff(X, H)]
  BY <1>1, <1>2, RegistersFacts
<1> HIDE DEF X, G, H
<1>6. SymDiff(X, G) \in SUBSET Bits /\ SymDiff(X, H) \in SUBSET Bits
  BY <1>3 DEF SymDiff
<1>7. SymDiff(X, G) # SymDiff(X, H)
  BY <1>4, SymDiffCancels
<1>8. Registers(s)[i] # Registers(t)[i]
  <2>1. EightRounds[SymDiff(X, G)] # EightRounds[SymDiff(X, H)]
    BY <1>6, <1>7, EightFacts
  <2>. QED
    BY <1>5, <2>1
<1>9. i \in 0 .. Len(s) /\ \A j \in i + 1 .. Len(s) : s[j] = t[j]
  OBVIOUS
<1>. QED
  BY <1>8, <1>9, DifferentForGood

\* Two neighbours that are exchanged.  The registers after them would agree only
\* if eight rounds kept the bits by which the two differ.
LEMMA NeighboursDiffer ==
    ASSUME NEW s \in Seq(0 .. 127), NEW t \in Seq(0 .. 127), Len(s) = Len(t),
           NEW i \in 1 .. Len(s) - 1, s[i] # s[i + 1], t[i] = s[i + 1], t[i + 1] = s[i],
           \A j \in 1 .. Len(s) : j # i /\ j # i + 1 => s[j] = t[j]
    PROVE  Register(s) # Register(t)
<1> DEFINE X == Registers(s)[i - 1]
           G == HighByte(s[i])
           H == HighByte(s[i + 1])
           E(Y) == EightRounds[Y]
<1>1. Registers(t)[i - 1] = X
  BY SameSoFar
<1>2. /\ i \in 1 .. Len(s) /\ i + 1 \in 1 .. Len(s) /\ i - 1 \in 0 .. Len(s)
      /\ i \in 1 .. Len(t) /\ i + 1 \in 1 .. Len(t) /\ (i + 1) - 1 = i
  OBVIOUS
<1>3. X \in SUBSET Bits /\ G \in SUBSET Bits /\ H \in SUBSET Bits /\ SymDiff(G, H) \subseteq 8 .. 15
  <2>1. G \subseteq 8 .. 15 /\ H \subseteq 8 .. 15 /\ G \in SUBSET Bits /\ H \in SUBSET Bits
    BY <1>2, CharBits
  <2>. QED
    BY <1>2, <2>1, RegistersFacts DEF SymDiff
<1>4. G # H
  <2>1. PICK a \in 0 .. 127, b \in 0 .. 127 : a = s[i] /\ b = s[i + 1]
    BY <1>2, ElementOfSeq, ZenonT(60)
  <2>. QED
    BY <2>1, HighByteFacts, ZenonT(60)
<1>5. Registers(s)[i] = E(SymDiff(X, G)) /\ Registers(t)[i] = E(SymDiff(X, H))
  BY <1>1, <1>2, RegistersFacts
<1>6. /\ Registers(s)[i + 1] = E(SymDiff(E(SymDiff(X, G)), H))
      /\ Registers(t)[i + 1] = E(SymDiff(E(SymDiff(X, H)), G))
  BY <1>2, <1>5, RegistersFacts
<1>7. Registers(s)[i + 1] # Registers(t)[i + 1]
  <2> HIDE DEF X, G, H
  <2>1. /\ SymDiff(X, G) \in SUBSET Bits /\ SymDiff(X, H) \in SUBSET Bits
        /\ SymDiff(G, H) \in SUBSET Bits
    BY <1>3 DEF SymDiff
  <2>2. /\ E(X) \in SUBSET Bits /\ E(G) \in SUBSET Bits /\ E(H) \in SUBSET Bits
        /\ E(SymDiff(X, G)) = SymDiff(E(X), E(G))
        /\ E(SymDiff(X, H)) = SymDiff(E(X), E(H))
        /\ E(SymDiff(G, H)) = SymDiff(E(G), E(H))
    BY <1>3, EightFacts, SMTT(60)
  <2>3. E(SymDiff(G, H)) \subseteq 8 .. 15 => SymDiff(G, H) = {}
    BY <1>3, <2>1, EightFacts
  <2>4. /\ SymDiff(E(SymDiff(X, G)), H) \in SUBSET Bits
        /\ SymDiff(E(SymDiff(X, H)), G) \in SUBSET Bits
    BY <1>3, <2>2 DEF SymDiff
  <2>5. SymDiff(E(SymDiff(X, G)), H) # SymDiff(E(SymDiff(X, H)), G)
    <3> DEFINE EX == E(X)
               EG == E(G)
               EH == E(H)
    <3>1. SUFFICES ASSUME SymDiff(SymDiff(EX, EG), H) = SymDiff(SymDiff(EX, EH), G) PROVE FALSE
      BY <2>2
    <3>2. E(SymDiff(G, H)) = SymDiff(EG, EH)
      BY <2>2
    <3> HIDE DEF E, EX, EG, EH
    <3>3. SymDiff(EG, EH) = SymDiff(G, H)
      BY <3>1 DEF SymDiff
    <3>4. SymDiff(G, H) = {}
      BY <1>3, <2>3, <3>2, <3>3
    <3>. QED
      BY <1>4, <3>4 DEF SymDiff
  <2>6. E(SymDiff(E(SymDiff(X, G)), H)) # E(SymDiff(E(SymDiff(X, H)), G))
    <3> DEFINE A == SymDiff(E(SymDiff(X, G)), H)
               B == SymDiff(E(SymDiff(X, H)), G)
    <3>1. A \in SUBSET Bits /\ B \in SUBSET Bits /\ A # B
      BY <2>4, <2>5
    <3> HIDE DEF A, B
    <3>2. E(A) # E(B)
      BY <3>1, EightFacts
    <3>. QED
      BY <3>2 DEF A, B
  <2>. QED
    BY <1>6, <2>6
<1>8. i + 1 \in 0 .. Len(s) /\ \A j \in (i + 1) + 1 .. Len(s) : s[j] = t[j]
  BY SMTT(60)
<1> HIDE DEF X, G, H, E
<1>. QED
  BY <1>7, <1>8, DifferentForGood

\* A last character that differs changes the low byte of the register.
LEMMA LastDiffers ==
    ASSUME NEW s \in Seq(0 .. 127), NEW t \in Seq(0 .. 127), Len(s) = Len(t),
           Len(s) > 0, s[Len(s)] # t[Len(s)],
           \A j \in 1 .. Len(s) - 1 : s[j] = t[j]
    PROVE  ~ SymDiff(Register(s), Register(t)) \subseteq 8 .. 15
<1> DEFINE n == Len(s)
           X == Registers(s)[n - 1]
           G == HighByte(s[n])
           H == HighByte(t[n])
<1>1. n \in 1 .. Len(s) /\ n \in 1 .. Len(t) /\ n - 1 \in 0 .. Len(s) /\ n - 1 \in Nat
  OBVIOUS
<1>2. Registers(t)[n - 1] = X
  <2>1. n - 1 <= Len(s) /\ n - 1 <= Len(t)
    OBVIOUS
  <2> HIDE DEF X
  <2>. QED
    BY <1>1, <2>1, SameSoFar DEF X
<1>3. X \in SUBSET Bits /\ G \in SUBSET Bits /\ H \in SUBSET Bits /\ SymDiff(G, H) \subseteq 8 .. 15
  <2>1. G \subseteq 8 .. 15 /\ H \subseteq 8 .. 15 /\ G \in SUBSET Bits /\ H \in SUBSET Bits
    BY <1>1, CharBits
  <2>. QED
    BY <1>1, <2>1, RegistersFacts DEF SymDiff
<1>4. G # H
  <2>1. PICK a \in 0 .. 127, b \in 0 .. 127 : a = s[n] /\ b = t[n]
    BY <1>1, ElementOfSeq, ZenonT(60)
  <2>. QED
    BY <2>1, HighByteFacts, ZenonT(60)
<1>5. Register(s) = EightRounds[SymDiff(X, G)] /\ Register(t) = EightRounds[SymDiff(X, H)]
  BY <1>1, <1>2, RegistersFacts DEF Register
<1> HIDE DEF n, X, G, H
<1>6. SymDiff(G, H) \in SUBSET Bits /\ SymDiff(G, H) # {}
  BY <1>3, <1>4 DEF SymDiff
<1>7. ~ EightRounds[SymDiff(G, H)] \subseteq 8 .. 15
  BY <1>3, <1>6, EightFacts
<1>8. /\ EightRounds[SymDiff(X, G)] = SymDiff(EightRounds[X], EightRounds[G])
      /\ EightRounds[SymDiff(X, H)] = SymDiff(EightRounds[X], EightRounds[H])
      /\ EightRounds[SymDiff(G, H)] = SymDiff(EightRounds[G], EightRounds[H])
  BY <1>3, EightFacts
<1>9. SymDiff(Register(s), Register(t)) = EightRounds[SymDiff(G, H)]
  BY <1>5, <1>8 DEF SymDiff
<1>. QED
  BY <1>7, <1>9

-----------------------------------------------------------------------------
(* The digits of the checksum.                                              *)

\* A digit tells the four bits that it renders.
LEMMA DigitBits ==
    ASSUME NEW X, NEW Y, NEW k \in 0 .. 3, HexDigit(Nibble(X, k)) = HexDigit(Nibble(Y, k))
    PROVE  \A j \in 4 * k .. 4 * k + 3 : j \in X <=> j \in Y
<1> DEFINE bit(Z, j) == IF 4 * k + j \in Z THEN BitValue[j + 1] ELSE 0
<1>1. \A Z : /\ bit(Z, 0) = (IF 4 * k + 0 \in Z THEN 1 ELSE 0)
             /\ bit(Z, 1) = (IF 4 * k + 1 \in Z THEN 2 ELSE 0)
             /\ bit(Z, 2) = (IF 4 * k + 2 \in Z THEN 4 ELSE 0)
             /\ bit(Z, 3) = (IF 4 * k + 3 \in Z THEN 8 ELSE 0)
  BY DEF BitValue
<1>2. \A Z : Nibble(Z, k) = bit(Z, 0) + bit(Z, 1) + bit(Z, 2) + bit(Z, 3)
  BY DEF Nibble
<1> HIDE DEF bit
<1>3. Nibble(X, k) \in 0 .. 15 /\ Nibble(Y, k) \in 0 .. 15
  BY <1>1, <1>2
<1>4. Nibble(X, k) = Nibble(Y, k)
  BY <1>3 DEF HexDigit, Zero
<1>5. \A j \in 0 .. 3 : 4 * k + j \in X <=> 4 * k + j \in Y
  <2>1. /\ 4 * k + 0 \in X <=> 4 * k + 0 \in Y
        /\ 4 * k + 1 \in X <=> 4 * k + 1 \in Y
        /\ 4 * k + 2 \in X <=> 4 * k + 2 \in Y
        /\ 4 * k + 3 \in X <=> 4 * k + 3 \in Y
    BY <1>1, <1>2, <1>4
  <2>. QED
    BY <2>1
<1>6. \A j \in 4 * k .. 4 * k + 3 : j - 4 * k \in 0 .. 3 /\ j = 4 * k + (j - 4 * k)
  OBVIOUS
<1>. QED
  BY <1>5, <1>6

\* The digits, and that they tell the register.
LEMMA ChecksumFacts ==
    ASSUME NEW s \in Seq(0 .. 127)
    PROVE  /\ _crc16_ccitt(s) \in Seq(0 .. 127) /\ Len(_crc16_ccitt(s)) = 4
           /\ \A t \in Seq(0 .. 127) :
                /\ _crc16_ccitt(s) = _crc16_ccitt(t) => Register(s) = Register(t)
                /\ (\A i \in 2 .. 4 : _crc16_ccitt(s)[i] = _crc16_ccitt(t)[i])
                     => SymDiff(Register(s), Register(t)) \subseteq 12 .. 15
<1> DEFINE digit(t, i) == HexDigit(Nibble(Register(t), 4 - i))
<1>1. \A t : _crc16_ccitt(t) = [i \in 1 .. 4 |-> digit(t, i)]
  BY DEF _crc16_ccitt
<1>2. \A t : \A i \in 1 .. 4 : digit(t, i) \in 0 .. 127
  <2> SUFFICES ASSUME NEW t, NEW i \in 1 .. 4 PROVE digit(t, i) \in 0 .. 127
    OBVIOUS
  <2>1. PICK m \in 0 .. 15 : m = Nibble(Register(t), 4 - i)
    BY DEF Nibble, BitValue
  <2>2. HexDigit(m) \in 0 .. 127
    BY DEF HexDigit, Zero
  <2>. QED
    BY <2>1, <2>2
<1>3. \A t \in Seq(0 .. 127) : Register(t) \in SUBSET Bits
  BY RegistersFacts DEF Register
<1>4. ASSUME NEW t \in Seq(0 .. 127), NEW i \in 1 .. 4, digit(s, i) = digit(t, i)
      PROVE  \A j \in 4 * (4 - i) .. 4 * (4 - i) + 3 : j \in Register(s) <=> j \in Register(t)
  <2>1. 4 - i \in 0 .. 3
    OBVIOUS
  <2>. QED
    BY <1>4, <2>1, DigitBits, ZenonT(60)
<1> HIDE DEF digit
<1>5. _crc16_ccitt(s) \in Seq(0 .. 127) /\ Len(_crc16_ccitt(s)) = 4
  <2>1. PICK c : c = _crc16_ccitt(s)
    OBVIOUS
  <2>2. c = [i \in 1 .. 4 |-> digit(s, i)] /\ \A i \in 1 .. 4 : digit(s, i) \in 0 .. 127
    BY <1>1, <1>2, <2>1
  <2>3. c \in Seq(0 .. 127) /\ Len(c) = 4
    BY <2>2
  <2>. QED
    BY <2>1, <2>3
<1>6. \A t : \A i \in 1 .. 4 : _crc16_ccitt(t)[i] = digit(t, i)
  BY <1>1
<1>7. ASSUME NEW t \in Seq(0 .. 127), \A i \in 2 .. 4 : _crc16_ccitt(s)[i] = _crc16_ccitt(t)[i]
      PROVE  \A j \in 0 .. 11 : j \in Register(s) <=> j \in Register(t)
  <2>1. digit(s, 2) = digit(t, 2) /\ digit(s, 3) = digit(t, 3) /\ digit(s, 4) = digit(t, 4)
    BY <1>6, <1>7
  <2>2. /\ \A j \in 8 .. 11 : j \in Register(s) <=> j \in Register(t)
        /\ \A j \in 4 .. 7 : j \in Register(s) <=> j \in Register(t)
        /\ \A j \in 0 .. 3 : j \in Register(s) <=> j \in Register(t)
    BY <1>4, <2>1
  <2>. QED
    BY <2>2
<1>8. ASSUME NEW t \in Seq(0 .. 127), _crc16_ccitt(s) = _crc16_ccitt(t)
      PROVE  Register(s) = Register(t)
  <2>1. digit(s, 1) = digit(t, 1)
    BY <1>6, <1>8
  <2>2. \A j \in 12 .. 15 : j \in Register(s) <=> j \in Register(t)
    BY <1>4, <2>1
  <2>3. \A j \in Bits : j \in Register(s) <=> j \in Register(t)
    BY <1>7, <1>8, <2>2, SMTT(60) DEF Bits
  <2>. QED
    BY <1>3, <2>3
<1>9. ASSUME NEW t \in Seq(0 .. 127), \A i \in 2 .. 4 : _crc16_ccitt(s)[i] = _crc16_ccitt(t)[i]
      PROVE  SymDiff(Register(s), Register(t)) \subseteq 12 .. 15
  <2>1. PICK X \in SUBSET Bits, Y \in SUBSET Bits : X = Register(s) /\ Y = Register(t)
    BY <1>3
  <2>2. \A j \in 0 .. 11 : j \in X <=> j \in Y
    BY <1>7, <1>9, <2>1
  <2>3. SymDiff(X, Y) \subseteq 12 .. 15
    BY <2>2, SMTT(60) DEF SymDiff, Bits
  <2>. QED
    BY <2>1, <2>3
<1>10. \A t \in Seq(0 .. 127) : _crc16_ccitt(s) = _crc16_ccitt(t) => Register(s) = Register(t)
  BY <1>8
<1>11. \A t \in Seq(0 .. 127) :
         (\A i \in 2 .. 4 : _crc16_ccitt(s)[i] = _crc16_ccitt(t)[i])
           => SymDiff(Register(s), Register(t)) \subseteq 12 .. 15
  BY <1>9
<1>. QED
  BY <1>5, <1>10, <1>11

-----------------------------------------------------------------------------
(* What a scanner sees.                                                     *)

\* Two texts with the same characters are the same.
LEMMA SameText ==
    ASSUME NEW s \in Seq(0 .. 127), NEW t \in Seq(0 .. 127), Len(s) = Len(t),
           \A i \in 1 .. Len(s) : s[i] = t[i]
    PROVE  s = t
BY SeqEqual

\* What verify_crc cuts a code into.
Body(u) == SubSeq(u, 1, Len(u) - 4)
Digits(u) == SubSeq(u, Len(u) - 3, Len(u))

LEMMA Joined ==
    ASSUME NEW s \in Seq(0 .. 127), NEW c \in Seq(0 .. 127), Len(c) = 4
    PROVE  /\ s \o c \in Seq(0 .. 127) /\ Len(s \o c) = Len(s) + 4
           /\ \A i \in 1 .. Len(s) : (s \o c)[i] = s[i]
           /\ \A i \in 1 .. 4 : (s \o c)[Len(s) + i] = c[i]
<1>1. Len(s) \in Nat
  OBVIOUS
<1>2. s \o c \in Seq(0 .. 127) /\ Len(s \o c) = Len(s) + Len(c)
  BY ConcatProperties, ZenonT(60)
<1>3. \A i \in 1 .. Len(s) + Len(c) : (s \o c)[i] = IF i <= Len(s) THEN s[i] ELSE c[i - Len(s)]
  BY ConcatProperties
<1>4. \A i \in 1 .. Len(s) : (s \o c)[i] = s[i]
  BY <1>1, <1>3
<1>5. ASSUME NEW i \in 1 .. 4 PROVE (s \o c)[Len(s) + i] = c[i]
  <2>1. Len(s) + i \in 1 .. Len(s) + Len(c) /\ ~ (Len(s) + i <= Len(s)) /\ (Len(s) + i) - Len(s) = i
    BY <1>1
  <2>. QED
    BY <1>3, <2>1
<1>. QED
  BY <1>2, <1>4, <1>5

LEMMA Cut ==
    ASSUME NEW u \in Seq(0 .. 127), NEW n \in Nat, Len(u) = n + 4
    PROVE  /\ Body(u) \in Seq(0 .. 127) /\ Len(Body(u)) = n
           /\ \A i \in 1 .. n : Body(u)[i] = u[i]
           /\ Digits(u) \in Seq(0 .. 127) /\ Len(Digits(u)) = 4
           /\ \A i \in 1 .. 4 : Digits(u)[i] = u[n + i]
<1>1. \A i \in 1 .. n + 4 : u[i] \in 0 .. 127
  BY ElementOfSeq
<1>2. Body(u) = SubSeq(u, 1, n) /\ Digits(u) = SubSeq(u, n + 1, n + 4)
  BY DEF Body, Digits
<1>. QED
  BY <1>1, <1>2, SMTT(60)

LEMMA BodyOfCode ==
    ASSUME NEW s \in Seq(0 .. 127)
    PROVE  /\ Body(s \o _crc16_ccitt(s)) = s
           /\ Digits(s \o _crc16_ccitt(s)) = _crc16_ccitt(s)
<1>1. PICK c \in Seq(0 .. 127) : c = _crc16_ccitt(s) /\ Len(c) = 4
  BY ChecksumFacts
<1>2. PICK u \in Seq(0 .. 127) : u = s \o c
  BY <1>1, Joined
<1>3. /\ Len(u) = Len(s) + 4 /\ Len(s) \in Nat
      /\ \A i \in 1 .. Len(s) : u[i] = s[i]
      /\ \A i \in 1 .. 4 : u[Len(s) + i] = c[i]
  BY <1>1, <1>2, Joined
<1>4. /\ Body(u) \in Seq(0 .. 127) /\ Len(Body(u)) = Len(s)
      /\ \A i \in 1 .. Len(s) : Body(u)[i] = u[i]
      /\ Digits(u) \in Seq(0 .. 127) /\ Len(Digits(u)) = 4
      /\ \A i \in 1 .. 4 : Digits(u)[i] = u[Len(s) + i]
  BY <1>3, Cut
<1>5. Body(u) = s /\ Digits(u) = c
  <2>1. \A i \in 1 .. Len(Body(u)) : Body(u)[i] = s[i]
    BY <1>3, <1>4
  <2>2. Len(Digits(u)) = Len(c) /\ \A i \in 1 .. Len(Digits(u)) : Digits(u)[i] = c[i]
    BY <1>1, <1>3, <1>4
  <2>. QED
    BY <1>4, <2>1, <2>2, SameText, Zenon
<1>. QED
  BY <1>1, <1>2, <1>5

\* A code that is read as it was written verifies,
LEMMA WrittenVerifies ==
    ASSUME NEW s \in Seq(0 .. 127)
    PROVE  verify_crc(s \o _crc16_ccitt(s))
BY BodyOfCode DEF verify_crc, Body, Digits

\* and one with a character misread, or two neighbours exchanged, does not.
LEMMA MisreadFails ==
    ASSUME NEW s \in Seq(0 .. 127), Len(s) > 0,
           NEW u \in Readings(s \o _crc16_ccitt(s)), u # s \o _crc16_ccitt(s)
    PROVE  ~ verify_crc(u)
<1> DEFINE n == Len(s)
           c == _crc16_ccitt(s)
           w == s \o c
           t == Body(u)
           d == Digits(u)
<1>1. c \in Seq(0 .. 127) /\ Len(c) = 4 /\ n \in Nat /\ n > 0
  BY ChecksumFacts
<1>2. w \in Seq(0 .. 127) /\ Len(w) = n + 4
  BY <1>1, Joined
<1>3. SUFFICES ASSUME _crc16_ccitt(t) = d PROVE FALSE
  BY DEF verify_crc, Body, Digits
<1> DEFINE Misreading(i) ==
             u[i] # w[i] /\ \A j \in 1 .. n + 4 : j # i => u[j] = w[j]
           Exchange(i) ==
             /\ w[i] # w[i + 1] /\ u[i] = w[i + 1] /\ u[i + 1] = w[i]
             /\ \A j \in 1 .. n + 4 : j # i /\ j # i + 1 => u[j] = w[j]
<1>4. /\ u \in Seq(0 .. 127) /\ Len(u) = n + 4
      /\ (\E i \in 1 .. n + 4 : Misreading(i)) \/ (\E i \in 1 .. n + 3 : Exchange(i))
  <2> HIDE DEF w, n, c
  <2>1. ASSUME NEW i \in 1 .. n + 4, NEW e \in 0 .. 127, u = ReplaceAt(w, i, e)
        PROVE  u \in Seq(0 .. 127) /\ Len(u) = n + 4 /\ Misreading(i)
    <3>1. u = [w EXCEPT ![i] = e]
      BY <2>1 DEF ReplaceAt
    <3>2. /\ u \in Seq(0 .. 127) /\ Len(u) = n + 4
          /\ \A j \in 1 .. n + 4 : u[j] = IF j = i THEN e ELSE w[j]
      BY <1>2, <3>1, ExceptSeq
    <3>3. u # w
      BY DEF w, c
    <3>4. u[i] # w[i]
      BY <1>2, <3>2, <3>3, SeqEqual
    <3>. QED
      BY <3>2, <3>4
  <2>2. ASSUME NEW i \in 1 .. n + 3, u = ReplaceAt(ReplaceAt(w, i, w[i + 1]), i + 1, w[i])
        PROVE  u \in Seq(0 .. 127) /\ Len(u) = n + 4 /\ Exchange(i)
    <3>1. PICK v : v = [w EXCEPT ![i] = w[i + 1]]
      OBVIOUS
    <3>2. i \in 1 .. n + 4 /\ i + 1 \in 1 .. n + 4
      BY <1>1
    <3>3. w[i] \in 0 .. 127 /\ w[i + 1] \in 0 .. 127
      BY <1>2, <3>2, ElementOfSeq
    <3>4. /\ v \in Seq(0 .. 127) /\ Len(v) = n + 4
          /\ \A j \in 1 .. n + 4 : v[j] = IF j = i THEN w[i + 1] ELSE w[j]
      BY <1>2, <3>1, <3>2, <3>3, ExceptSeq
    <3>5. u = [v EXCEPT ![i + 1] = w[i]]
      BY <2>2, <3>1 DEF ReplaceAt
    <3>6. /\ u \in Seq(0 .. 127) /\ Len(u) = n + 4
          /\ \A j \in 1 .. n + 4 : u[j] = IF j = i + 1 THEN w[i] ELSE v[j]
      BY <3>2, <3>3, <3>4, <3>5, ExceptSeq
    <3>7. u[i] = w[i + 1] /\ u[i + 1] = w[i]
      BY <3>2, <3>4, <3>6
    <3>8. \A j \in 1 .. n + 4 : j # i /\ j # i + 1 => u[j] = w[j]
      BY <3>4, <3>6
    <3>9. u # w
      BY DEF w, c
    <3>10. w[i] # w[i + 1]
      <4>1. ASSUME w[i] = w[i + 1] PROVE \A j \in 1 .. n + 4 : u[j] = w[j]
        BY <3>7, <3>8, <4>1
      <4>. QED
        BY <1>2, <3>6, <3>9, <4>1, SeqEqual
    <3>. QED
      BY <3>6, <3>7, <3>8, <3>10
  <2>3. \/ \E i \in 1 .. n + 4, e \in 0 .. 127 : u = ReplaceAt(w, i, e)
        \/ \E i \in 1 .. n + 3 : u = ReplaceAt(ReplaceAt(w, i, w[i + 1]), i + 1, w[i])
    <3>1. u \in Readings(w) /\ u # w
      BY DEF w, c
    <3>2. DOMAIN w = 1 .. n + 4 /\ Len(w) - 1 = n + 3
      BY <1>1, <1>2
    <3>3. Misread \subseteq 0 .. 127
      BY TextAssumption
    <3>4. \/ \E i \in DOMAIN w, e \in Misread : u = ReplaceAt(w, i, e)
          \/ \E i \in 1 .. Len(w) - 1 : u = ReplaceAt(ReplaceAt(w, i, w[i + 1]), i + 1, w[i])
      BY <3>1 DEF Readings
    <3>. QED
      BY <3>2, <3>3, <3>4
  <2> HIDE DEF Misreading, Exchange
  <2>. QED
    BY <2>1, <2>2, <2>3
<1>5. /\ \A i \in 1 .. n : w[i] = s[i]
      /\ \A i \in 1 .. 4 : w[n + i] = c[i]
      /\ t \in Seq(0 .. 127) /\ Len(t) = n /\ \A i \in 1 .. n : t[i] = u[i]
      /\ d \in Seq(0 .. 127) /\ Len(d) = 4 /\ \A i \in 1 .. 4 : d[i] = u[n + i]
  <2>1. /\ \A i \in 1 .. n : w[i] = s[i]
        /\ \A i \in 1 .. 4 : w[n + i] = c[i]
    BY <1>1, Joined
  <2> HIDE DEF n, c, w
  <2>. QED
    BY <1>1, <1>4, <2>1, Cut, ZenonT(60)
<1>6. n = Len(s) /\ c = _crc16_ccitt(s)
  OBVIOUS
<1> HIDE DEF n, c, w, t, d
\* If only the digits differ, they are wrong.
<1>7. ASSUME NEW i \in n + 1 .. n + 4, u[i] # w[i], \A j \in 1 .. n : u[j] = w[j] PROVE FALSE
  <2>1. t = s
    <3>1. \A j \in 1 .. Len(t) : t[j] = s[j]
      BY <1>5, <1>7
    <3>. QED
      BY <1>5, <1>6, <3>1, SameText
  <2>2. d = c
    BY <1>3, <1>6, <2>1
  <2>3. PICK k \in 1 .. 4 : i = n + k
    <3>1. i - n \in 1 .. 4 /\ i = n + (i - n)
      BY <1>1
    <3>. QED
      BY <3>1
  <2>. QED
    BY <1>5, <1>7, <2>2, <2>3
\* If the digits do not differ, the registers are the same.
<1>8. ASSUME \A j \in n + 1 .. n + 4 : u[j] = w[j] PROVE Register(s) = Register(t)
  <2>1. \A j \in 1 .. 4 : d[j] = c[j]
    <3>1. \A j \in 1 .. 4 : n + j \in n + 1 .. n + 4
      BY <1>1
    <3>. QED
      BY <1>5, <1>8, <3>1, SMTT(60)
  <2>2. d = c
    <3>1. Len(d) = Len(c) /\ \A j \in 1 .. Len(d) : d[j] = c[j]
      BY <1>1, <1>5, <2>1
    <3>. QED
      BY <1>1, <1>5, <3>1, SameText, Zenon
  <2>. QED
    BY <1>3, <1>5, <1>6, <2>2, ChecksumFacts
<1>9. CASE \E i \in 1 .. n + 4 : Misreading(i)
  <2>1. PICK i \in 1 .. n + 4 : Misreading(i)
    BY <1>9
  <2>2. CASE i <= n
    <3>1. i \in 1 .. n /\ s[i] # t[i] /\ \A j \in 1 .. n : j # i => s[j] = t[j]
      <4>1. i \in 1 .. n /\ \A j \in 1 .. n : j \in 1 .. n + 4
        BY <1>1, <2>2
      <4>. QED
        BY <1>5, <2>1, <4>1
    <3>2. Register(s) # Register(t)
      <4>1. i \in 1 .. Len(s) /\ Len(s) = Len(t) /\ \A j \in 1 .. Len(s) : j # i => s[j] = t[j]
        BY <1>5, <1>6, <3>1
      <4>. QED
        BY <1>5, <3>1, <4>1, OneDiffers, ZenonT(60)
    <3>. QED
      BY <1>1, <1>8, <2>1, <2>2, <3>2
  <2>3. CASE i > n
    BY <1>1, <1>7, <2>1, <2>3
  <2>. QED
    BY <1>1, <2>2, <2>3
<1>10. CASE \E i \in 1 .. n + 3 : Exchange(i)
  <2>1. PICK i \in 1 .. n + 3 : Exchange(i)
    BY <1>10
  <2>2. CASE i < n
    <3>1. i \in 1 .. n - 1 /\ i \in 1 .. n /\ i + 1 \in 1 .. n
      BY <1>1, <2>2
    <3>2. /\ s[i] # s[i + 1] /\ t[i] = s[i + 1] /\ t[i + 1] = s[i]
          /\ \A j \in 1 .. n : j # i /\ j # i + 1 => s[j] = t[j]
      BY <1>1, <1>5, <2>1, <3>1, SMTT(60)
    <3>3. Register(s) # Register(t)
      <4>1. /\ i \in 1 .. Len(s) - 1 /\ Len(s) = Len(t)
            /\ \A j \in 1 .. Len(s) : j # i /\ j # i + 1 => s[j] = t[j]
        BY <1>5, <1>6, <3>1, <3>2
      <4>. QED
        BY <1>5, <3>2, <4>1, NeighboursDiffer, ZenonT(60)
    <3>4. \A j \in n + 1 .. n + 4 : u[j] = w[j]
      BY <1>1, <2>1, <2>2
    <3>. QED
      BY <1>8, <3>3, <3>4
  <2>3. CASE i = n
    <3>1. n \in 1 .. n /\ w[n] # w[n + 1] /\ u[n] = w[n + 1]
      BY <1>1, <2>1, <2>3
    <3>2. /\ s[n] # t[n]
          /\ \A j \in 1 .. n - 1 : s[j] = t[j]
      <4>1. w[n + 1] = u[n] /\ w[n] = s[n] /\ t[n] = u[n]
        BY <1>5, <3>1
      <4>2. \A j \in 1 .. n - 1 : j \in 1 .. n /\ j \in 1 .. n + 4 /\ j # n /\ j # n + 1
        BY <1>1
      <4>. QED
        BY <1>5, <2>1, <2>3, <3>1, <4>1, <4>2, ZenonT(60)
    <3>3. ~ SymDiff(Register(s), Register(t)) \subseteq 8 .. 15
      BY <1>1, <1>5, <1>6, <3>2, LastDiffers, ZenonT(60)
    <3>4. \A j \in 2 .. 4 : d[j] = c[j]
      <4>1. \A j \in 2 .. 4 : n + j \in 1 .. n + 4 /\ n + j # n /\ n + j # n + 1
        BY <1>1
      <4>. QED
        BY <1>5, <2>1, <2>3, <4>1, SMTT(60)
    <3>5. SymDiff(Register(s), Register(t)) \subseteq 12 .. 15
      BY <1>3, <1>5, <1>6, <3>4, ChecksumFacts
    <3>. QED
      BY <3>3, <3>5
  <2>4. CASE i > n
    BY <1>1, <1>7, <2>1, <2>4
  <2>. QED
    BY <1>1, <2>2, <2>3, <2>4
<1>. QED
  BY <1>4, <1>9, <1>10

-----------------------------------------------------------------------------
(* The payload.                                                             *)

\* A field and its length.
LEMMA TlvFacts ==
    ASSUME NEW tag \in 0 .. 99, NEW v \in Seq(Nat), Len(v) <= 99
    PROVE  /\ _tlv(tag, v) \in Seq(Nat) /\ Len(_tlv(tag, v)) = 4 + Len(v)
           /\ _tlv(tag, v)[1] = Zero + (tag \div 10) /\ _tlv(tag, v)[2] = Zero + (tag % 10)
           /\ _tlv(tag, v)[3] = Zero + (Len(v) \div 10) /\ _tlv(tag, v)[4] = Zero + (Len(v) % 10)
           /\ \A i \in 1 .. Len(v) : _tlv(tag, v)[4 + i] = v[i]
<1> DEFINE a == TwoDigits(tag)
           b == TwoDigits(Len(v))
           h == a \o b
<1>1. PICK k \in 0 .. 99 : k = Len(v)
  <2>1. PICK k \in Nat : k = Len(v)
    BY LenProperties
  <2>2. k <= 99
    BY <2>1
  <2>3. k \in 0 .. 99
    BY <2>2
  <2>. QED
    BY <2>1, <2>3
<1>2. \A m \in 0 .. 99 : m \div 10 \in Nat /\ m % 10 \in Nat
  OBVIOUS
<1>3. /\ a \in Seq(Nat) /\ Len(a) = 2 /\ a[1] = Zero + (tag \div 10) /\ a[2] = Zero + (tag % 10)
      /\ b \in Seq(Nat) /\ Len(b) = 2 /\ b[1] = Zero + (k \div 10) /\ b[2] = Zero + (k % 10)
  BY <1>1, <1>2 DEF TwoDigits, Zero
<1> HIDE DEF a, b
<1>4. h \in Seq(Nat) /\ Len(h) = 4 /\ h[1] = a[1] /\ h[2] = a[2] /\ h[3] = b[1] /\ h[4] = b[2]
  <2>1. /\ h \in Seq(Nat) /\ Len(h) = Len(a) + Len(b)
        /\ \A i \in 1 .. Len(a) + Len(b) : h[i] = IF i <= Len(a) THEN a[i] ELSE b[i - Len(a)]
    BY <1>3, ConcatProperties, ZenonT(60)
  <2> HIDE DEF h
  <2>2. \A i \in 1 .. 4 : h[i] = IF i <= 2 THEN a[i] ELSE b[i - 2]
    BY <1>3, <2>1
  <2>. QED
    BY <1>3, <2>1, <2>2
<1> HIDE DEF h
<1>5. PICK w : w = h \o v
  OBVIOUS
<1>6. /\ w \in Seq(Nat) /\ Len(w) = Len(h) + Len(v)
      /\ \A i \in 1 .. Len(h) + Len(v) : w[i] = IF i <= Len(h) THEN h[i] ELSE v[i - Len(h)]
  BY <1>4, <1>5, ConcatProperties, ZenonT(60)
<1>7. \A i \in 1 .. 4 + k : w[i] = IF i <= 4 THEN h[i] ELSE v[i - 4]
  BY <1>1, <1>4, <1>6
<1>8. \A i \in 1 .. k : 4 + i \in 1 .. 4 + k /\ ~ (4 + i <= 4) /\ (4 + i) - 4 = i
  OBVIOUS
<1>9. \A i \in 1 .. k : w[4 + i] = v[i]
  BY <1>7, <1>8
<1>10. w[1] = h[1] /\ w[2] = h[2] /\ w[3] = h[3] /\ w[4] = h[4]
  <2>1. \A i \in 1 .. 4 : i \in 1 .. 4 + k /\ i <= 4
    OBVIOUS
  <2>2. \A i \in 1 .. 4 : w[i] = h[i]
    BY <1>7, <2>1
  <2>. QED
    BY <2>2
<1>11. w = _tlv(tag, v)
  BY <1>5 DEF _tlv, h, a, b
<1>12. /\ w \in Seq(Nat) /\ Len(w) = 4 + k
       /\ w[1] = Zero + (tag \div 10) /\ w[2] = Zero + (tag % 10)
       /\ w[3] = Zero + (k \div 10) /\ w[4] = Zero + (k % 10)
       /\ \A i \in 1 .. k : w[4 + i] = v[i]
  BY <1>1, <1>3, <1>4, <1>6, <1>9, <1>10
<1>. QED
  BY <1>1, <1>11, <1>12

\* text[:n]
LEMMA PrefixFacts ==
    ASSUME NEW text \in Seq(Nat), NEW n \in Nat
    PROVE  /\ Prefix(text, n) \in Seq(Nat) /\ Len(Prefix(text, n)) = Min({n, Len(text)})
           /\ Len(Prefix(text, n)) <= n /\ IsPrefix(Prefix(text, n), text)
           /\ Len(text) <= n => Prefix(text, n) = text
<1> DEFINE m == Min({n, Len(text)})
<1>1. Len(text) \in Nat
  OBVIOUS
<1>2. m = IF n <= Len(text) THEN n ELSE Len(text)
  BY <1>1 DEF Min
<1> HIDE DEF m
<1>3. m \in 0 .. Len(text) /\ m <= n /\ (Len(text) <= n => m = Len(text))
  BY <1>1, <1>2
<1>4. Prefix(text, n) = SubSeq(text, 1, m)
  BY DEF Prefix, m
<1>5. PICK p : p = SubSeq(text, 1, m)
  OBVIOUS
<1>6. p \in Seq(Nat) /\ Len(p) = m /\ \A i \in 1 .. m : p[i] = text[i]
  BY <1>3, <1>5
<1>7. IsPrefix(p, text)
  <2>1. Len(p) <= Len(text) /\ SubSeq(p, 1, Len(p)) = SubSeq(text, 1, Len(p))
    BY <1>3, <1>5, <1>6
  <2>. QED
    BY <2>1 DEF IsPrefix
<1>8. m = Len(text) => p = text
  BY <1>6, SeqEqual
<1>. QED
  BY <1>3, <1>4, <1>5, <1>6, <1>7, <1>8 DEF m

\* A value that fits a field.
Fits(v) == v \in Seq(Nat) /\ Len(v) <= 99

\* The values of the fields of an accepted request fit them.
LEMMA ValuesFit ==
    ASSUME NEW account \in Accounts, NEW city \in Cities, NEW amount \in Amounts,
           ~ Refused(account, city, amount)
    PROVE  /\ Fits(TwoDigits(1)) /\ Fits(TwoDigits(IF amount = None THEN 11 ELSE 12))
           /\ Fits(SG_PAYNOW) /\ Fits(account.number) /\ Fits(MerchantAccountInfo(account))
           /\ Fits(<<Zero, Zero, Zero, Zero>>) /\ Fits(CurrencyNumeric[account.currency])
           /\ amount # None => Fits(amount)
           /\ Fits(<<83, 71>>) /\ Fits(Prefix(account.owner_name, 25)) /\ Fits(Prefix(city, 15))
           /\ Prefix(city, 15) = city
<1>1. Fits(TwoDigits(1)) /\ Fits(TwoDigits(11)) /\ Fits(TwoDigits(12))
  BY DEF Fits, TwoDigits, Zero
<1>2. Fits(SG_PAYNOW) /\ Len(SG_PAYNOW) = 9
  BY DEF Fits, SG_PAYNOW
<1>3. PICK v \in Seq(Nat) : v = account.number /\ Len(v) <= 34
  BY TextAssumption
<1>4. PICK k \in Nat : k = Len(v)
  BY LenProperties
<1>5. Fits(v)
  BY <1>3, <1>4 DEF Fits
<1>6. Fits(MerchantAccountInfo(account))
  <2> DEFINE p == _tlv(0, SG_PAYNOW)
             q == _tlv(1, v)
  <2>1. p \in Seq(Nat) /\ Len(p) = 4 + Len(SG_PAYNOW)
    <3>1. PICK g \in Seq(Nat) : g = SG_PAYNOW /\ Len(g) <= 99
      BY <1>2 DEF Fits
    <3>2. _tlv(0, g) \in Seq(Nat) /\ Len(_tlv(0, g)) = 4 + Len(g)
      BY <3>1, TlvFacts
    <3>. QED
      BY <3>1, <3>2
  <2>2. q \in Seq(Nat) /\ Len(q) = 4 + k
    BY <1>4, <1>5, TlvFacts DEF Fits
  <2>3. MerchantAccountInfo(account) = p \o q
    BY <1>3 DEF MerchantAccountInfo
  <2> HIDE DEF p, q
  <2>4. p \o q \in Seq(Nat) /\ Len(p \o q) = Len(p) + Len(q)
    BY <2>1, <2>2, ConcatProperties
  <2>5. Len(p \o q) = 17 + k /\ k <= 34
    BY <1>2, <1>3, <1>4, <2>1, <2>2, <2>4
  <2>. QED
    BY <2>3, <2>4, <2>5 DEF Fits
<1>7. Fits(<<Zero, Zero, Zero, Zero>>) /\ Fits(<<83, 71>>)
  BY DEF Fits, Zero
<1>8. Fits(CurrencyNumeric[account.currency])
  <2>1. account.currency \in {"SGD", "USD", "EUR", "GBP"}
    BY DEF Refused, CurrencyNumeric
  <2>2. CurrencyNumeric[account.currency] \in
          {<<55, 48, 50>>, <<56, 52, 48>>, <<57, 55, 56>>, <<56, 50, 54>>}
    BY <2>1 DEF CurrencyNumeric
  <2>3. Fits(<<55, 48, 50>>) /\ Fits(<<56, 52, 48>>) /\ Fits(<<57, 55, 56>>) /\ Fits(<<56, 50, 54>>)
    BY DEF Fits
  <2>. QED
    BY <2>2, <2>3, ZenonT(60)
<1>9. amount # None => Fits(amount)
  <2>1. amount # None => amount \in Seq(Nat) /\ ~ TooLong(amount)
    BY TextAssumption DEF Refused
  <2>2. \A a \in Seq(Nat) : Len(a) \in Nat
    BY LenProperties
  <2>. QED
    BY <2>1, <2>2 DEF Fits, TooLong
<1>10. Fits(Prefix(account.owner_name, 25))
  <2>1. PICK name \in Seq(Nat) : name = account.owner_name
    BY TextAssumption
  <2>2. Prefix(name, 25) \in Seq(Nat) /\ Len(Prefix(name, 25)) <= 25
    BY PrefixFacts
  <2>3. Len(Prefix(name, 25)) \in Nat
    BY <2>2, LenProperties
  <2>. QED
    BY <2>1, <2>2, <2>3 DEF Fits
<1>11. Fits(Prefix(city, 15)) /\ Prefix(city, 15) = city
  <2>1. city \in Seq(Nat) /\ ~ Len(city) > 15
    BY TextAssumption DEF Refused
  <2>2. Len(city) \in Nat
    BY <2>1, LenProperties
  <2>3. Len(city) <= 15
    BY <2>1, <2>2
  <2>4. Prefix(city, 15) = city
    BY <2>1, <2>3, PrefixFacts
  <2>. QED
    BY <2>1, <2>2, <2>3, <2>4 DEF Fits
<1>. QED
  BY <1>1, <1>2, <1>3, <1>5, <1>6, <1>7, <1>8, <1>9, <1>10, <1>11

\* The first five fields of a payload, and nine with those up to the city.
FiveFields(account, amount) ==
    _tlv(0, TwoDigits(1))
    \o _tlv(1, TwoDigits(IF amount = None THEN 11 ELSE 12))
    \o _tlv(26, MerchantAccountInfo(account))
    \o _tlv(52, <<Zero, Zero, Zero, Zero>>)
    \o _tlv(53, CurrencyNumeric[account.currency])

AmountField(amount) == IF amount = None THEN <<>> ELSE _tlv(54, amount)

NineFields(account, city, amount) ==
    FiveFields(account, amount)
    \o AmountField(amount)
    \o _tlv(58, <<83, 71>>)
    \o _tlv(59, Prefix(account.owner_name, 25))
    \o _tlv(60, Prefix(city, 15))

LEMMA UnsignedFacts ==
    ASSUME NEW account \in Accounts, NEW city \in Cities, NEW amount \in Amounts,
           ~ Refused(account, city, amount)
    PROVE  /\ Unsigned(account, city, amount) =
                NineFields(account, city, amount) \o TwoDigits(63) \o TwoDigits(4)
           /\ FiveFields(account, amount) \in Seq(Nat)
           /\ NineFields(account, city, amount) \in Seq(Nat)
           /\ Unsigned(account, city, amount) \in Seq(Nat)
           /\ Len(Unsigned(account, city, amount)) > 0
<1>1. Unsigned(account, city, amount) =
      NineFields(account, city, amount) \o TwoDigits(63) \o TwoDigits(4)
  BY DEF Unsigned, NineFields, FiveFields, AmountField
<1>2. \A tag \in 0 .. 99 : \A v : Fits(v) => _tlv(tag, v) \in Seq(Nat)
  BY TlvFacts DEF Fits
<1>3. \A p, q \in Seq(Nat) : p \o q \in Seq(Nat)
  BY ConcatProperties
<1>4. FiveFields(account, amount) \in Seq(Nat)
  <2>1. /\ _tlv(0, TwoDigits(1)) \in Seq(Nat)
        /\ _tlv(1, TwoDigits(IF amount = None THEN 11 ELSE 12)) \in Seq(Nat)
        /\ _tlv(26, MerchantAccountInfo(account)) \in Seq(Nat)
        /\ _tlv(52, <<Zero, Zero, Zero, Zero>>) \in Seq(Nat)
        /\ _tlv(53, CurrencyNumeric[account.currency]) \in Seq(Nat)
    <3>1. 0 \in 0 .. 99 /\ 1 \in 0 .. 99 /\ 26 \in 0 .. 99 /\ 52 \in 0 .. 99 /\ 53 \in 0 .. 99
      OBVIOUS
    <3>. QED
      BY <1>2, <3>1, ValuesFit, Zenon
  <2>. QED
    BY <1>3, <2>1, Zenon DEF FiveFields
<1>5. AmountField(amount) \in Seq(Nat)
  BY <1>2, ValuesFit DEF AmountField
<1>6. NineFields(account, city, amount) \in Seq(Nat)
  BY <1>2, <1>3, <1>4, <1>5, ValuesFit DEF NineFields
<1>7. TwoDigits(63) \in Seq(Nat) /\ TwoDigits(4) \in Seq(Nat) /\ Len(TwoDigits(4)) = 2
  BY DEF TwoDigits, Zero
<1>8. PICK p \in Seq(Nat) : p = NineFields(account, city, amount) \o TwoDigits(63)
  BY <1>3, <1>6, <1>7
<1>9. p \o TwoDigits(4) \in Seq(Nat) /\ Len(p \o TwoDigits(4)) = Len(p) + Len(TwoDigits(4))
  BY <1>7, ConcatProperties
<1>10. Len(p) + Len(TwoDigits(4)) > 0
  <2>1. PICK k \in Nat : k = Len(p)
    BY LenProperties
  <2>2. k + 2 > 0
    OBVIOUS
  <2>. QED
    BY <1>7, <2>1, <2>2
<1>. QED
  BY <1>1, <1>4, <1>6, <1>8, <1>9, <1>10

-----------------------------------------------------------------------------
(* Reading the fields.                                                      *)

\* The states of parse_tlv's loop.
LEMMA FieldsReadFacts ==
    ASSUME NEW u \in Seq(Nat)
    PROVE  /\ FieldsRead(u)[0] = [at |-> 0, fields |-> <<>>]
           /\ \A n \in 1 .. Len(u) : FieldsRead(u)[n] = ReadField(u, FieldsRead(u)[n - 1])
<1>1. PICK N \in Nat : N = Len(u)
  BY LenProperties
<1>2. PICK base : base = [at |-> 0, fields |-> <<>>]
  OBVIOUS
<1> DEFINE step(s) == ReadField(u, s)
           Upto(m, h) == h = [n \in 0 .. m |-> IF n = 0 THEN base ELSE step(h[n - 1])]
           T == {m \in 0 .. N : \E h : Upto(m, h)}
<1> HIDE DEF step
<1>3. 0 \in T
  <2>1. Upto(0, [n \in 0 .. 0 |-> base])
    OBVIOUS
  <2> HIDE DEF Upto
  <2>. QED
    BY <2>1
<1>4. ASSUME NEW m \in 0 + 1 .. N, m - 1 \in T PROVE m \in T
  <2>1. PICK f : Upto(m - 1, f)
    BY <1>4
  <2>2. \A n \in 0 .. m - 1 : f[n] = IF n = 0 THEN base ELSE step(f[n - 1])
    BY <2>1
  <2> DEFINE g == [n \in 0 .. m |-> IF n = m THEN step(f[m - 1]) ELSE f[n]]
  <2>3. \A n \in 0 .. m : g[n] = IF n = 0 THEN base ELSE step(g[n - 1])
    <3> TAKE n \in 0 .. m
    <3>1. CASE n = 0
      BY <2>2, <3>1
    <3>2. CASE n # 0
      <4>1. n - 1 \in 0 .. m /\ n - 1 # m /\ g[n - 1] = f[n - 1]
        BY <3>2
      <4>2. n # m => n \in 0 .. m - 1
        BY <3>2
      <4>. QED
        BY <2>2, <3>2, <4>1, <4>2
    <3>. QED
      BY <3>1, <3>2
  <2>4. Upto(m, g)
    <3>1. g = [n \in 0 .. m |-> g[n]]
      OBVIOUS
    <3> HIDE DEF g
    <3>. QED
      BY <2>3, <3>1
  <2> HIDE DEF g, Upto
  <2>. QED
    BY <2>4
<1> HIDE DEF T
<1>5. 0 .. N \subseteq T
  BY <1>3, <1>4, InductionUpTo
<1>6. PICK f : Upto(N, f)
  <2>1. N \in T
    BY <1>5
  <2> HIDE DEF Upto
  <2>. QED
    BY <2>1 DEF T
<1>7. FieldsRead(u) = CHOOSE h : Upto(N, h)
  BY <1>1, <1>2 DEF FieldsRead, step
<1>8. PICK g : g = FieldsRead(u) /\ Upto(N, g)
  <2> HIDE DEF Upto
  <2>. QED
    BY <1>6, <1>7
<1>9. \A n \in 0 .. N : g[n] = IF n = 0 THEN base ELSE step(g[n - 1])
  BY <1>8
<1>10. g[0] = base /\ \A n \in 1 .. N : g[n] = step(g[n - 1])
  <2>1. 0 \in 0 .. N /\ \A n \in 1 .. N : n \in 0 .. N /\ n # 0
    OBVIOUS
  <2>. QED
    BY <1>9, <2>1
<1>. QED
  BY <1>1, <1>2, <1>8, <1>10 DEF step

\* After n characters of u there is this field.
Holds(u, n, tag, v) ==
    /\ n + 4 + Len(v) <= Len(u)
    /\ \A i \in 1 .. 4 + Len(v) : u[n + i] = _tlv(tag, v)[i]

IsRead(u, n, tag, v, F) ==
    ReadField(u, [at |-> n, fields |-> F]) =
    [at |-> n + 4 + Len(v), fields |-> WithField(F, tag, v)]

\* A field reads as it was written,
LEMMA ReadTlv ==
    ASSUME NEW u \in Seq(Nat), NEW n \in Nat, NEW tag \in 0 .. 99, NEW v, NEW F,
           Fits(v), Holds(u, n, tag, v)
    PROVE  IsRead(u, n, tag, v, F)
<1>1. /\ v \in Seq(Nat) /\ Len(v) <= 99 /\ n + 4 + Len(v) <= Len(u)
      /\ \A i \in 1 .. 4 + Len(v) : u[n + i] = _tlv(tag, v)[i]
  BY DEF Fits, Holds
<1>2. PICK k \in Nat : k = Len(v)
  BY <1>1, LenProperties
<1>3. k <= 99 /\ n + 4 + k <= Len(u)
  BY <1>1, <1>2
<1>4. PICK N \in Nat : N = Len(u)
  BY LenProperties
<1>5. /\ u[n + 1] = Zero + (tag \div 10) /\ u[n + 2] = Zero + (tag % 10)
      /\ u[n + 3] = Zero + (k \div 10) /\ u[n + 4] = Zero + (k % 10)
      /\ \A i \in 1 .. k : u[n + (4 + i)] = v[i]
  <2>1. PICK w : w = _tlv(tag, v)
    OBVIOUS
  <2>2. /\ w[1] = Zero + (tag \div 10) /\ w[2] = Zero + (tag % 10)
        /\ w[3] = Zero + (k \div 10) /\ w[4] = Zero + (k % 10)
        /\ \A i \in 1 .. k : w[4 + i] = v[i]
    BY <1>1, <1>2, <2>1, TlvFacts
  <2>3. \A i \in 1 .. 4 + k : u[n + i] = w[i]
    BY <1>1, <1>2, <2>1
  <2>4. /\ 1 \in 1 .. 4 + k /\ 2 \in 1 .. 4 + k /\ 3 \in 1 .. 4 + k /\ 4 \in 1 .. 4 + k
        /\ \A i \in 1 .. k : 4 + i \in 1 .. 4 + k
    OBVIOUS
  <2>. QED
    BY <2>2, <2>3, <2>4
<1>6. \A m \in 0 .. 99 : 10 * ((Zero + (m \div 10)) - Zero) + (Zero + (m % 10)) - Zero = m
  BY DEF Zero
<1>7. k \in 0 .. 99
  BY <1>3
<1>8. NumberOf(SubSeq(u, n + 1, n + 2)) = tag
  <2>1. PICK h : h = SubSeq(u, n + 1, n + 2)
    OBVIOUS
  <2>2. h[1] = u[n + 1] /\ h[2] = u[n + 2]
    BY <1>3, <1>4, <2>1
  <2>. QED
    BY <1>5, <1>6, <2>1, <2>2 DEF NumberOf
<1>9. NumberOf(SubSeq(u, n + 3, n + 4)) = k
  <2>1. PICK h : h = SubSeq(u, n + 3, n + 4)
    OBVIOUS
  <2>2. h[1] = u[n + 3] /\ h[2] = u[n + 4]
    BY <1>3, <1>4, <2>1
  <2>. QED
    BY <1>5, <1>6, <1>7, <2>1, <2>2 DEF NumberOf
<1>10. SubSeq(u, n + 5, n + 4 + k) = v
  <2>1. PICK h : h = SubSeq(u, n + 5, n + 4 + k)
    OBVIOUS
  <2>2. h \in Seq(Nat) /\ Len(h) = k /\ \A i \in 1 .. k : h[i] = u[n + (4 + i)]
    BY <1>3, <1>4, <2>1, SMTT(60)
  <2>3. \A i \in 1 .. Len(h) : h[i] = v[i]
    BY <1>5, <2>2
  <2>. QED
    BY <1>1, <1>2, <2>1, <2>2, <2>3, SeqEqual
<1>11. ~ (n >= Len(u))
  BY <1>3, <1>4
<1>. QED
  BY <1>2, <1>8, <1>9, <1>10, <1>11 DEF ReadField, IsRead

\* u starts with p.
StartsWith(u, p) == p \in Seq(Nat) /\ \E q \in Seq(Nat) : u = p \o q

\* Its first k fields make up p and are the fields F: a field is no shorter than
\* its header.
HasRead(u, k, p, F) ==
    /\ k \in Nat /\ p \in Seq(Nat) /\ 4 * k <= Len(p)
    /\ FieldsRead(u)[k] = [at |-> Len(p), fields |-> F]

\* v is s followed by q, character by character.
IsJoined(v, s, q) ==
    /\ v = s \o q /\ Len(v) = Len(s) + Len(q)
    /\ \A i \in 1 .. Len(s) + Len(q) : v[i] = IF i <= Len(s) THEN s[i] ELSE q[i - Len(s)]

LEMMA JoinedTexts ==
    ASSUME NEW s \in Seq(Nat), NEW q \in Seq(Nat)
    PROVE  \E v \in Seq(Nat) : IsJoined(v, s, q)
<1>1. /\ s \o q \in Seq(Nat) /\ Len(s \o q) = Len(s) + Len(q)
      /\ \A i \in 1 .. Len(s) + Len(q) : (s \o q)[i] = IF i <= Len(s) THEN s[i] ELSE q[i - Len(s)]
  BY ConcatProperties, ZenonT(60)
<1>2. PICK v : v = s \o q
  OBVIOUS
<1>3. v \in Seq(Nat) /\ IsJoined(v, s, q)
  BY <1>1, <1>2 DEF IsJoined
<1>. QED
  BY <1>3

LEMMA Associative ==
    ASSUME NEW p \in Seq(Nat), NEW q \in Seq(Nat), NEW r \in Seq(Nat)
    PROVE  (p \o q) \o r = p \o (q \o r)
<1>1. PICK v \in Seq(Nat) : IsJoined(v, p, q)
  BY JoinedTexts
<1>2. PICK w \in Seq(Nat) : IsJoined(w, q, r)
  BY JoinedTexts
<1>3. PICK x \in Seq(Nat) : IsJoined(x, v, r)
  BY JoinedTexts
<1>4. PICK y \in Seq(Nat) : IsJoined(y, p, w)
  BY JoinedTexts
<1>5. Len(x) = Len(y)
  BY <1>1, <1>2, <1>3, <1>4 DEF IsJoined
<1>6. \A i \in 1 .. Len(x) : x[i] = y[i]
  BY <1>1, <1>2, <1>3, <1>4 DEF IsJoined
<1>7. x = y
  BY <1>5, <1>6, SeqEqual
<1>. QED
  BY <1>1, <1>2, <1>3, <1>4, <1>7 DEF IsJoined

\* What is in front of the checksum is the header of its field.
LEMMA HeaderJoins ==
    ASSUME NEW p \in Seq(Nat), NEW d \in Seq(Nat)
    PROVE  p \o TwoDigits(63) \o TwoDigits(4) \o d = p \o (TwoDigits(63) \o TwoDigits(4) \o d)
<1>1. TwoDigits(63) \in Seq(Nat) /\ TwoDigits(4) \in Seq(Nat)
  BY DEF TwoDigits, Zero
<1>2. PICK x \in Seq(Nat) : x = TwoDigits(63)
  BY <1>1
<1>3. PICK y \in Seq(Nat) : y = TwoDigits(4)
  BY <1>1
<1>4. PICK z \in Seq(Nat) : z = x \o y
  BY ConcatProperties
<1>5. (p \o x) \o y = p \o z
  <2>1. (p \o x) \o y = p \o (x \o y)
    BY Associative, ZenonT(60)
  <2>. QED
    BY <1>4, <2>1, Zenon
<1>6. (p \o z) \o d = p \o (z \o d)
  BY Associative, ZenonT(60)
<1>. QED
  BY <1>2, <1>3, <1>4, <1>5, <1>6, Zenon

LEMMA StartShorter ==
    ASSUME NEW u, NEW p \in Seq(Nat), NEW q \in Seq(Nat), StartsWith(u, p \o q)
    PROVE  StartsWith(u, p)
<1>1. PICK r \in Seq(Nat) : u = (p \o q) \o r
  BY DEF StartsWith
<1>2. (p \o q) \o r = p \o (q \o r) /\ q \o r \in Seq(Nat)
  BY Associative, ConcatProperties
<1>. QED
  BY <1>1, <1>2 DEF StartsWith

LEMMA NothingRead ==
    ASSUME NEW u \in Seq(Nat)
    PROVE  HasRead(u, 0, <<>>, <<>>)
<1>1. <<>> \in Seq(Nat) /\ Len(<<>>) = 0 /\ 4 * 0 <= 0
  OBVIOUS
<1>2. FieldsRead(u)[0] = [at |-> 0, fields |-> <<>>]
  BY FieldsReadFacts
<1>. QED
  BY <1>1, <1>2 DEF HasRead

\* and then the next one is read;
LEMMA NextField ==
    ASSUME NEW u \in Seq(Nat), NEW k, NEW p, NEW F, HasRead(u, k, p, F),
           NEW tag \in 0 .. 99, NEW v, Fits(v), StartsWith(u, p \o _tlv(tag, v))
    PROVE  HasRead(u, k + 1, p \o _tlv(tag, v), WithField(F, tag, v))
<1>1. /\ k \in Nat /\ p \in Seq(Nat) /\ 4 * k <= Len(p)
      /\ FieldsRead(u)[k] = [at |-> Len(p), fields |-> F]
      /\ v \in Seq(Nat) /\ Len(v) <= 99
  BY DEF HasRead, Fits
<1>2. PICK n \in Nat : n = Len(p)
  BY <1>1, LenProperties
<1>3. PICK m \in Nat : m = Len(v)
  BY <1>1, LenProperties
<1>4. PICK w \in Seq(Nat) : w = _tlv(tag, v) /\ Len(w) = 4 + m
  BY <1>1, <1>3, TlvFacts
<1>5. PICK q \in Seq(Nat) : u = (p \o w) \o q
  BY <1>4 DEF StartsWith
<1>6. PICK x \in Seq(Nat) :
        /\ x = p \o w /\ Len(x) = Len(p) + Len(w)
        /\ \A i \in 1 .. Len(p) + Len(w) : x[i] = IF i <= Len(p) THEN p[i] ELSE w[i - Len(p)]
  <2>1. /\ p \o w \in Seq(Nat) /\ Len(p \o w) = Len(p) + Len(w)
        /\ \A i \in 1 .. Len(p) + Len(w) :
             (p \o w)[i] = IF i <= Len(p) THEN p[i] ELSE w[i - Len(p)]
    BY <1>1, ConcatProperties
  <2>. QED
    BY <2>1, Zenon
<1>7. /\ Len(u) = Len(x) + Len(q)
      /\ \A i \in 1 .. Len(x) + Len(q) : u[i] = IF i <= Len(x) THEN x[i] ELSE q[i - Len(x)]
  BY <1>5, <1>6, ConcatProperties
<1>8. PICK r \in Nat : r = Len(q)
  BY LenProperties
<1>9. Len(x) = n + 4 + m /\ Len(u) = n + 4 + m + r
  BY <1>2, <1>4, <1>6, <1>7, <1>8
<1>10. ASSUME NEW i \in 1 .. 4 + m PROVE u[n + i] = w[i]
  <2>1. n + i \in 1 .. n + 4 + m /\ ~ (n + i <= n) /\ (n + i) - n = i
    OBVIOUS
  <2>2. n + i \in 1 .. n + 4 + m + r /\ n + i <= n + 4 + m
    BY <2>1
  <2>3. x[n + i] = w[i]
    BY <1>2, <1>4, <1>6, <1>9, <2>1
  <2>4. u[n + i] = x[n + i]
    BY <1>7, <1>8, <1>9, <2>2
  <2>. QED
    BY <2>3, <2>4
<1>11. ReadField(u, [at |-> n, fields |-> F]) =
       [at |-> n + 4 + m, fields |-> WithField(F, tag, v)]
  <2>1. n + 4 + Len(v) <= Len(u)
    BY <1>3, <1>9
  <2>2. \A i \in 1 .. 4 + Len(v) : u[n + i] = _tlv(tag, v)[i]
    BY <1>3, <1>4, <1>10
  <2>3. ReadField(u, [at |-> n, fields |-> F]) =
        [at |-> n + 4 + Len(v), fields |-> WithField(F, tag, v)]
    <3>1. Holds(u, n, tag, v)
      BY <2>1, <2>2 DEF Holds
    <3>2. IsRead(u, n, tag, v, F)
      BY <3>1, ReadTlv, Zenon
    <3>. QED
      BY <3>2 DEF IsRead
  <2>. QED
    BY <1>3, <2>3
<1>12. FieldsRead(u)[k + 1] = ReadField(u, FieldsRead(u)[k])
  <2>1. k + 1 \in 1 .. Len(u) /\ (k + 1) - 1 = k
    BY <1>1, <1>2, <1>9
  <2>2. FieldsRead(u)[k + 1] = ReadField(u, FieldsRead(u)[(k + 1) - 1])
    BY <2>1, FieldsReadFacts
  <2>. QED
    BY <2>1, <2>2
<1>13. FieldsRead(u)[k + 1] = [at |-> Len(x), fields |-> WithField(F, tag, v)]
  BY <1>1, <1>2, <1>9, <1>11, <1>12
<1>14. k + 1 \in Nat /\ 4 * (k + 1) <= Len(x)
  BY <1>1, <1>2, <1>9
<1>. QED
  BY <1>4, <1>6, <1>13, <1>14 DEF HasRead

\* at the end of the text there is no other.
LEMMA AllRead ==
    ASSUME NEW u \in Seq(Nat), NEW k, NEW F, HasRead(u, k, u, F)
    PROVE  parse_tlv(u) = F
<1>1. PICK N \in Nat : N = Len(u)
  BY LenProperties
<1>2. PICK s : s = [at |-> N, fields |-> F]
  OBVIOUS
<1>3. k \in Nat /\ k <= N /\ FieldsRead(u)[k] = s
  BY <1>1, <1>2 DEF HasRead
<1>4. ReadField(u, s) = s
  BY <1>1, <1>2 DEF ReadField
<1> DEFINE T == {i \in Nat : FieldsRead(u)[i] = s}
<1>5. k \in T
  BY <1>3
<1>6. \A i \in k + 1 .. N : i - 1 \in T => i \in T
  <2>1. \A i \in 1 .. N : FieldsRead(u)[i] = ReadField(u, FieldsRead(u)[i - 1])
    BY <1>1, FieldsReadFacts
  <2>2. \A i \in k + 1 .. N : i \in 1 .. N /\ i \in Nat
    BY <1>3
  <2>. QED
    BY <1>4, <2>1, <2>2
<1> HIDE DEF T
<1>7. k .. N \subseteq T
  BY <1>3, <1>5, <1>6, InductionUpTo
<1>8. N \in T
  BY <1>3, <1>7
<1>. QED
  BY <1>1, <1>2, <1>8 DEF T, parse_tlv

\* G is F with the field.
HasField(G, F, tag, v) ==
    /\ DOMAIN G = DOMAIN F \cup {tag} /\ G[tag] = v
    /\ \A t \in DOMAIN F \ {tag} : G[t] = F[t]

LEMMA FieldAdded ==
    ASSUME NEW u \in Seq(Nat), NEW k, NEW p \in Seq(Nat), NEW F, HasRead(u, k, p, F),
           NEW tag \in 0 .. 99, NEW v, Fits(v), StartsWith(u, p \o _tlv(tag, v))
    PROVE  \E G : HasRead(u, k + 1, p \o _tlv(tag, v), G) /\ HasField(G, F, tag, v)
<1>1. PICK G : G = WithField(F, tag, v)
  OBVIOUS
<1>2. HasRead(u, k + 1, p \o _tlv(tag, v), G)
  BY <1>1, NextField, Zenon
<1>3. HasField(G, F, tag, v)
  BY <1>1 DEF HasField, WithField
<1>. QED
  BY <1>2, <1>3

\* A text of two fields, the template of the account,
LEMMA TwoFieldsRead ==
    ASSUME NEW a, NEW b, Fits(a), Fits(b)
    PROVE  parse_tlv(_tlv(0, a) \o _tlv(1, b))[1] = b
<1>1. PICK A \in Seq(Nat) : A = _tlv(0, a)
  BY TlvFacts DEF Fits
<1>2. PICK B \in Seq(Nat) : B = _tlv(1, b)
  BY TlvFacts DEF Fits
<1>3. PICK u \in Seq(Nat) : u = A \o B
  BY ConcatProperties
<1>4. StartsWith(u, A \o B)
  <2>1. u = (A \o B) \o <<>> /\ <<>> \in Seq(Nat) /\ A \o B \in Seq(Nat)
    BY <1>3, ConcatEmptySeq
  <2>. QED
    BY <2>1 DEF StartsWith
<1>5. StartsWith(u, A)
  BY <1>4, StartShorter
<1>6. HasRead(u, 0, <<>>, <<>>)
  BY NothingRead
<1>7. <<>> \o A = A /\ <<>> \in Seq(Nat)
  BY ConcatEmptySeq
<1>8. PICK F : HasRead(u, 1, A, F)
  <2>1. \E F : HasRead(u, 0 + 1, <<>> \o _tlv(0, a), F) /\ HasField(F, <<>>, 0, a)
    <3>1. StartsWith(u, <<>> \o _tlv(0, a))
      BY <1>1, <1>5, <1>7
    <3>2. 0 \in 0 .. 99 /\ <<>> \in Seq(Nat)
      OBVIOUS
    <3>. QED
      BY <1>6, <3>1, <3>2, FieldAdded, Zenon
  <2>. QED
    BY <1>1, <1>7, <2>1
<1>9. PICK G : HasRead(u, 2, A \o B, G) /\ HasField(G, F, 1, b)
  <2>1. StartsWith(u, A \o _tlv(1, b))
    BY <1>2, <1>4
  <2>2. 1 \in 0 .. 99
    OBVIOUS
  <2>3. \E G : HasRead(u, 1 + 1, A \o _tlv(1, b), G) /\ HasField(G, F, 1, b)
    BY <1>8, <2>1, <2>2, FieldAdded, Zenon
  <2>. QED
    BY <1>2, <2>3
<1>10. parse_tlv(u) = G
  BY <1>3, <1>9, AllRead
<1>. QED
  BY <1>1, <1>2, <1>3, <1>9, <1>10 DEF HasField

\* the first five fields of a payload,
AreFirst(F, b, c, e) == DOMAIN F = {0, 1, 26, 52, 53} /\ F[1] = b /\ F[26] = c /\ F[53] = e

LEMMA FiveFieldsRead ==
    ASSUME NEW u \in Seq(Nat), NEW five, NEW a, NEW b, NEW c, NEW d, NEW e,
           Fits(a), Fits(b), Fits(c), Fits(d), Fits(e), StartsWith(u, five),
           five = _tlv(0, a) \o _tlv(1, b) \o _tlv(26, c) \o _tlv(52, d) \o _tlv(53, e)
    PROVE  \E F : HasRead(u, 5, five, F) /\ AreFirst(F, b, c, e)
<1>1. \A tag \in 0 .. 99 : \A v : Fits(v) => _tlv(tag, v) \in Seq(Nat)
  BY TlvFacts DEF Fits
<1>2. 0 \in 0 .. 99 /\ 1 \in 0 .. 99 /\ 26 \in 0 .. 99 /\ 52 \in 0 .. 99 /\ 53 \in 0 .. 99
  OBVIOUS
<1>3. \A p, q \in Seq(Nat) : p \o q \in Seq(Nat)
  BY ConcatProperties
<1>4. PICK p1 \in Seq(Nat) : p1 = _tlv(0, a)
  BY <1>1, <1>2
<1>5. PICK p2 \in Seq(Nat) : p2 = p1 \o _tlv(1, b)
  BY <1>1, <1>2, <1>3
<1>6. PICK p3 \in Seq(Nat) : p3 = p2 \o _tlv(26, c)
  BY <1>1, <1>2, <1>3
<1>7. PICK p4 \in Seq(Nat) : p4 = p3 \o _tlv(52, d)
  BY <1>1, <1>2, <1>3
<1>8. PICK p5 \in Seq(Nat) : p5 = p4 \o _tlv(53, e)
  BY <1>1, <1>2, <1>3
<1>9. p5 = five
  BY <1>4, <1>5, <1>6, <1>7, <1>8, Zenon
<1>10. \A p \in Seq(Nat), q \in Seq(Nat) : StartsWith(u, p \o q) => StartsWith(u, p)
  BY StartShorter
<1>11. /\ StartsWith(u, p5) /\ StartsWith(u, p4) /\ StartsWith(u, p3) /\ StartsWith(u, p2)
       /\ StartsWith(u, p1)
  <2>1. StartsWith(u, p5)
    BY <1>9
  <2>2. StartsWith(u, p4)
    BY <1>1, <1>2, <1>8, <1>10, <2>1, Zenon
  <2>3. StartsWith(u, p3)
    BY <1>1, <1>2, <1>7, <1>10, <2>2, Zenon
  <2>4. StartsWith(u, p2)
    BY <1>1, <1>2, <1>6, <1>10, <2>3, Zenon
  <2>5. StartsWith(u, p1)
    BY <1>1, <1>2, <1>5, <1>10, <2>4, Zenon
  <2>. QED
    BY <2>1, <2>2, <2>3, <2>4, <2>5
<1>12. PICK F1 : HasRead(u, 1, p1, F1) /\ HasField(F1, <<>>, 0, a)
  <2>1. <<>> \in Seq(Nat) /\ <<>> \o p1 = p1
    BY ConcatEmptySeq
  <2>2. StartsWith(u, <<>> \o _tlv(0, a))
    BY <1>4, <1>11, <2>1
  <2>3. HasRead(u, 0, <<>>, <<>>)
    BY NothingRead
  <2>4. \E F : HasRead(u, 0 + 1, <<>> \o _tlv(0, a), F) /\ HasField(F, <<>>, 0, a)
    BY <1>2, <2>1, <2>2, <2>3, FieldAdded, Zenon
  <2>. QED
    BY <1>4, <2>1, <2>4
<1>13. PICK F2 : HasRead(u, 2, p2, F2) /\ HasField(F2, F1, 1, b)
  <2>1. \E F : HasRead(u, 1 + 1, p1 \o _tlv(1, b), F) /\ HasField(F, F1, 1, b)
    BY <1>2, <1>5, <1>11, <1>12, FieldAdded, Zenon
  <2>. QED
    BY <1>5, <2>1
<1>14. PICK F3 : HasRead(u, 3, p3, F3) /\ HasField(F3, F2, 26, c)
  <2>1. \E F : HasRead(u, 2 + 1, p2 \o _tlv(26, c), F) /\ HasField(F, F2, 26, c)
    BY <1>2, <1>6, <1>11, <1>13, FieldAdded, Zenon
  <2>. QED
    BY <1>6, <2>1
<1>15. PICK F4 : HasRead(u, 4, p4, F4) /\ HasField(F4, F3, 52, d)
  <2>1. \E F : HasRead(u, 3 + 1, p3 \o _tlv(52, d), F) /\ HasField(F, F3, 52, d)
    BY <1>2, <1>7, <1>11, <1>14, FieldAdded, ZenonT(60)
  <2>. QED
    BY <1>7, <2>1
<1>16. PICK F5 : HasRead(u, 5, p5, F5) /\ HasField(F5, F4, 53, e)
  <2>1. \E F : HasRead(u, 4 + 1, p4 \o _tlv(53, e), F) /\ HasField(F, F4, 53, e)
    BY <1>2, <1>8, <1>11, <1>15, FieldAdded, ZenonT(60)
  <2>. QED
    BY <1>8, <2>1
<1>17. DOMAIN F2 = {0, 1} /\ F2[1] = b
  BY <1>12, <1>13 DEF HasField
<1>18. DOMAIN F4 = {0, 1, 26, 52} /\ F4[1] = b /\ F4[26] = c
  <2>1. DOMAIN F3 = {0, 1, 26} /\ F3[1] = b /\ F3[26] = c
    BY <1>14, <1>17 DEF HasField
  <2>. QED
    BY <1>15, <2>1 DEF HasField
<1>19. AreFirst(F5, b, c, e)
  BY <1>16, <1>18 DEF HasField, AreFirst
<1>. QED
  BY <1>9, <1>16, <1>19

\* and the last ones, after any others.
AreLast(G, F, b, c) ==
    /\ DOMAIN G = DOMAIN F \cup {58, 59, 60, 63} /\ G[59] = b /\ G[60] = c
    /\ \A t \in DOMAIN F \ {58, 59, 60, 63} : G[t] = F[t]

LEMMA LastFieldsRead ==
    ASSUME NEW u \in Seq(Nat), NEW k, NEW p \in Seq(Nat), NEW F, HasRead(u, k, p, F),
           NEW a, NEW b, NEW c, NEW d, Fits(a), Fits(b), Fits(c), Fits(d),
           u = p \o _tlv(58, a) \o _tlv(59, b) \o _tlv(60, c) \o _tlv(63, d)
    PROVE  AreLast(parse_tlv(u), F, b, c)
<1>1. \A tag \in 0 .. 99 : \A v : Fits(v) => _tlv(tag, v) \in Seq(Nat)
  BY TlvFacts DEF Fits
<1>2. 58 \in 0 .. 99 /\ 59 \in 0 .. 99 /\ 60 \in 0 .. 99 /\ 63 \in 0 .. 99
  OBVIOUS
<1>3. \A q, r \in Seq(Nat) : q \o r \in Seq(Nat)
  BY ConcatProperties
<1>4. PICK p1 \in Seq(Nat) : p1 = p \o _tlv(58, a)
  BY <1>1, <1>2, <1>3
<1>5. PICK p2 \in Seq(Nat) : p2 = p1 \o _tlv(59, b)
  BY <1>1, <1>2, <1>3
<1>6. PICK p3 \in Seq(Nat) : p3 = p2 \o _tlv(60, c)
  BY <1>1, <1>2, <1>3
<1>7. u = p3 \o _tlv(63, d)
  BY <1>4, <1>5, <1>6, Zenon
<1>8. \A q \in Seq(Nat), r \in Seq(Nat) : StartsWith(u, q \o r) => StartsWith(u, q)
  BY StartShorter
<1>9. StartsWith(u, u) /\ StartsWith(u, p3) /\ StartsWith(u, p2) /\ StartsWith(u, p1)
  <2>1. StartsWith(u, u)
    <3>1. u = u \o <<>> /\ <<>> \in Seq(Nat)
      BY ConcatEmptySeq
    <3>. QED
      BY <3>1 DEF StartsWith
  <2>2. StartsWith(u, p3)
    BY <1>1, <1>2, <1>7, <1>8, <2>1, ZenonT(60)
  <2>3. StartsWith(u, p2)
    BY <1>1, <1>2, <1>6, <1>8, <2>2, Zenon
  <2>4. StartsWith(u, p1)
    BY <1>1, <1>2, <1>5, <1>8, <2>3, Zenon
  <2>. QED
    BY <2>1, <2>2, <2>3, <2>4
<1>10. PICK F1 : HasRead(u, k + 1, p1, F1) /\ HasField(F1, F, 58, a)
  <2>1. \E G : HasRead(u, k + 1, p \o _tlv(58, a), G) /\ HasField(G, F, 58, a)
    BY <1>2, <1>4, <1>9, FieldAdded, ZenonT(60)
  <2>. QED
    BY <1>4, <2>1
<1>11. PICK F2 : HasRead(u, k + 1 + 1, p2, F2) /\ HasField(F2, F1, 59, b)
  <2>1. \E G : HasRead(u, k + 1 + 1, p1 \o _tlv(59, b), G) /\ HasField(G, F1, 59, b)
    BY <1>2, <1>5, <1>9, <1>10, FieldAdded, ZenonT(60)
  <2>. QED
    BY <1>5, <2>1
<1>12. PICK F3 : HasRead(u, k + 1 + 1 + 1, p3, F3) /\ HasField(F3, F2, 60, c)
  <2>1. \E G : HasRead(u, k + 1 + 1 + 1, p2 \o _tlv(60, c), G) /\ HasField(G, F2, 60, c)
    BY <1>2, <1>6, <1>9, <1>11, FieldAdded, ZenonT(60)
  <2>. QED
    BY <1>6, <2>1
<1>13. PICK G : HasRead(u, k + 1 + 1 + 1 + 1, u, G) /\ HasField(G, F3, 63, d)
  <2>1. \E H : HasRead(u, k + 1 + 1 + 1 + 1, p3 \o _tlv(63, d), H) /\ HasField(H, F3, 63, d)
    <3>1. StartsWith(u, p3 \o _tlv(63, d))
      BY <1>7, <1>9
    <3>. QED
      BY <1>2, <1>12, <3>1, FieldAdded, ZenonT(60)
  <2>. QED
    BY <1>7, <2>1
<1>14. parse_tlv(u) = G
  BY <1>13, AllRead
<1>15. /\ DOMAIN F2 = DOMAIN F \cup {58, 59} /\ F2[59] = b
       /\ \A t \in DOMAIN F \ {58, 59} : F2[t] = F[t]
  BY <1>10, <1>11 DEF HasField
<1>16. /\ DOMAIN G = DOMAIN F2 \cup {60, 63} /\ G[60] = c
       /\ \A t \in DOMAIN F2 \ {60, 63} : G[t] = F2[t]
  BY <1>12, <1>13 DEF HasField
<1>17. /\ DOMAIN G = DOMAIN F \cup {58, 59, 60, 63} /\ G[59] = b /\ G[60] = c
       /\ \A t \in DOMAIN F \ {58, 59, 60, 63} : G[t] = F[t]
  <2>1. DOMAIN G = DOMAIN F \cup {58, 59, 60, 63}
    BY <1>15, <1>16
  <2>2. 59 \in DOMAIN F2 \ {60, 63}
    BY <1>15
  <2>3. \A t \in DOMAIN F \ {58, 59, 60, 63} : t \in DOMAIN F2 \ {60, 63} /\ t \in DOMAIN F \ {58, 59}
    BY <1>15
  <2>. QED
    BY <1>15, <1>16, <2>1, <2>2, <2>3, ZenonT(60)
<1>. QED
  BY <1>14, <1>17 DEF AreLast

\* What is read from a payload, whatever its checksum.
LEMMA PayloadRead ==
    ASSUME NEW account \in Accounts, NEW city \in Cities, NEW amount \in Amounts,
           ~ Refused(account, city, amount), NEW d \in Seq(Nat), Len(d) = 4
    PROVE  LET G == parse_tlv(Unsigned(account, city, amount) \o d)
           IN  /\ G[1] = TwoDigits(IF amount = None THEN 11 ELSE 12)
               /\ G[26] = MerchantAccountInfo(account)
               /\ G[53] = CurrencyNumeric[account.currency]
               /\ amount = None => 54 \notin DOMAIN G
               /\ amount # None => G[54] = amount
               /\ G[59] = Prefix(account.owner_name, 25)
               /\ G[60] = city
<1>1. PICK five \in Seq(Nat) : five = FiveFields(account, amount)
  BY UnsignedFacts
<1>2. PICK nine \in Seq(Nat) : nine = NineFields(account, city, amount)
  BY UnsignedFacts
<1>3. PICK b : b = TwoDigits(IF amount = None THEN 11 ELSE 12)
  OBVIOUS
<1>4. PICK name : name = Prefix(account.owner_name, 25)
  OBVIOUS
<1>5. PICK sg : sg = <<83, 71>>
  OBVIOUS
<1>6. /\ Fits(b) /\ Fits(sg) /\ Fits(name) /\ Fits(city) /\ Prefix(city, 15) = city
      /\ amount # None => Fits(amount)
  BY <1>3, <1>4, <1>5, ValuesFit
<1>7. Fits(d)
  BY DEF Fits
<1>8. \A p, q \in Seq(Nat) : p \o q \in Seq(Nat)
  BY ConcatProperties
<1>9. \A tag \in 0 .. 99 : \A v : Fits(v) => _tlv(tag, v) \in Seq(Nat)
  BY TlvFacts DEF Fits
<1>10. PICK u \in Seq(Nat) : u = Unsigned(account, city, amount) \o d
  BY UnsignedFacts, ConcatProperties
<1>11. u = nine \o _tlv(63, d)
  <2>1. u = nine \o TwoDigits(63) \o TwoDigits(4) \o d
    BY <1>2, <1>10, UnsignedFacts
  <2>2. nine \o TwoDigits(63) \o TwoDigits(4) \o d = nine \o (TwoDigits(63) \o TwoDigits(4) \o d)
    BY HeaderJoins, ZenonT(60)
  <2>3. _tlv(63, d) = TwoDigits(63) \o TwoDigits(4) \o d
    BY DEF _tlv
  <2>. QED
    BY <2>1, <2>2, <2>3, Zenon
<1>12. PICK p \in Seq(Nat) : p = five \o AmountField(amount)
  <2>1. AmountField(amount) \in Seq(Nat)
    BY <1>6, <1>9 DEF AmountField
  <2>. QED
    BY <1>8, <2>1
<1>13. nine = p \o _tlv(58, sg) \o _tlv(59, name) \o _tlv(60, city)
  BY <1>1, <1>2, <1>4, <1>5, <1>6, <1>12 DEF NineFields
<1>14. StartsWith(u, p) /\ StartsWith(u, five)
  <2>1. \A s \in Seq(Nat), t \in Seq(Nat) : StartsWith(u, s \o t) => StartsWith(u, s)
    BY StartShorter
  <2>2. /\ _tlv(58, sg) \in Seq(Nat) /\ _tlv(59, name) \in Seq(Nat)
        /\ _tlv(60, city) \in Seq(Nat) /\ _tlv(63, d) \in Seq(Nat)
    <3>1. 58 \in 0 .. 99 /\ 59 \in 0 .. 99 /\ 60 \in 0 .. 99 /\ 63 \in 0 .. 99
      OBVIOUS
    <3>. QED
      BY <1>6, <1>7, <1>9, <3>1, Zenon
  <2>3. PICK p1 \in Seq(Nat) : p1 = p \o _tlv(58, sg)
    BY <1>8, <2>2
  <2>4. PICK p2 \in Seq(Nat) : p2 = p1 \o _tlv(59, name)
    BY <1>8, <2>2
  <2>5. nine = p2 \o _tlv(60, city)
    BY <1>13, <2>3, <2>4
  <2>6. StartsWith(u, nine)
    BY <1>11, <2>2 DEF StartsWith
  <2>7. StartsWith(u, p2)
    BY <2>1, <2>2, <2>5, <2>6, Zenon
  <2>8. StartsWith(u, p1)
    BY <2>1, <2>2, <2>4, <2>7, Zenon
  <2>9. StartsWith(u, p)
    BY <2>1, <2>2, <2>3, <2>8, Zenon
  <2>10. AmountField(amount) \in Seq(Nat)
    BY <1>6, <1>9 DEF AmountField
  <2>. QED
    BY <1>12, <2>1, <2>9, <2>10, Zenon
<1>15. PICK F5 : /\ HasRead(u, 5, five, F5) /\ DOMAIN F5 = {0, 1, 26, 52, 53}
                 /\ F5[1] = b /\ F5[26] = MerchantAccountInfo(account)
                 /\ F5[53] = CurrencyNumeric[account.currency]
  <2>1. PICK v0 : v0 = TwoDigits(1) /\ Fits(v0)
    BY ValuesFit
  <2>2. PICK v26 : v26 = MerchantAccountInfo(account) /\ Fits(v26)
    BY ValuesFit
  <2>3. PICK v52 : v52 = <<Zero, Zero, Zero, Zero>> /\ Fits(v52)
    BY ValuesFit
  <2>4. PICK v53 : v53 = CurrencyNumeric[account.currency] /\ Fits(v53)
    BY ValuesFit
  <2>5. five = _tlv(0, v0) \o _tlv(1, b) \o _tlv(26, v26) \o _tlv(52, v52) \o _tlv(53, v53)
    BY <1>1, <1>3, <2>1, <2>2, <2>3, <2>4 DEF FiveFields
  <2>6. \E F : HasRead(u, 5, five, F) /\ AreFirst(F, b, v26, v53)
    <3>1. Fits(v0) /\ Fits(b) /\ Fits(v26) /\ Fits(v52) /\ Fits(v53)
      BY <1>6, <2>1, <2>2, <2>3, <2>4, Zenon
    <3>2. StartsWith(u, five)
      BY <1>14
    <3>. QED
      BY <2>5, <3>1, <3>2, FiveFieldsRead, ZenonT(60)
  <2>. QED
    BY <2>2, <2>4, <2>6 DEF AreFirst
<1>16. PICK k, F : /\ HasRead(u, k, p, F) /\ DOMAIN F \subseteq {0, 1, 26, 52, 53, 54}
                   /\ {1, 26, 53} \subseteq DOMAIN F
                   /\ F[1] = b /\ F[26] = MerchantAccountInfo(account)
                   /\ F[53] = CurrencyNumeric[account.currency]
                   /\ amount = None => 54 \notin DOMAIN F
                   /\ amount # None => 54 \in DOMAIN F /\ F[54] = amount
  <2>1. CASE amount = None
    <3>1. p = five
      BY <1>12, <2>1, ConcatEmptySeq DEF AmountField
    <3>2. DOMAIN F5 \subseteq {0, 1, 26, 52, 53, 54} /\ {1, 26, 53} \subseteq DOMAIN F5 /\ 54 \notin DOMAIN F5
      BY <1>15
    <3>. QED
      BY <1>15, <2>1, <3>1, <3>2, Zenon
  <2>2. CASE amount # None
    <3>1. p = five \o _tlv(54, amount)
      BY <1>12, <2>2 DEF AmountField
    <3>2. 54 \in 0 .. 99
      OBVIOUS
    <3>3. PICK F : HasRead(u, 5 + 1, five \o _tlv(54, amount), F) /\ HasField(F, F5, 54, amount)
      BY <1>6, <1>14, <1>15, <2>2, <3>1, <3>2, FieldAdded, ZenonT(60)
    <3>4. /\ DOMAIN F = {0, 1, 26, 52, 53, 54} /\ F[54] = amount
          /\ F[1] = F5[1] /\ F[26] = F5[26] /\ F[53] = F5[53]
      BY <1>15, <3>3 DEF HasField
    <3>5. DOMAIN F \subseteq {0, 1, 26, 52, 53, 54} /\ {1, 26, 53} \subseteq DOMAIN F /\ 54 \in DOMAIN F
      BY <3>4
    <3>. QED
      BY <1>15, <2>2, <3>1, <3>3, <3>4, <3>5, ZenonT(60)
  <2>. QED
    BY <2>1, <2>2
<1>17. PICK G : /\ parse_tlv(u) = G
                /\ DOMAIN G = DOMAIN F \cup {58, 59, 60, 63} /\ G[59] = name /\ G[60] = city
                /\ \A t \in DOMAIN F \ {58, 59, 60, 63} : G[t] = F[t]
  <2>1. u = p \o _tlv(58, sg) \o _tlv(59, name) \o _tlv(60, city) \o _tlv(63, d)
    BY <1>11, <1>13
  <2>2. AreLast(parse_tlv(u), F, name, city)
    <3>1. Fits(sg) /\ Fits(name) /\ Fits(city) /\ Fits(d)
      BY <1>6, <1>7, Zenon
    <3>2. HasRead(u, k, p, F)
      BY <1>16
    <3>. QED
      BY <2>1, <3>1, <3>2, LastFieldsRead, ZenonT(60)
  <2>. QED
    BY <2>2 DEF AreLast
<1>18. /\ G[1] = F[1] /\ G[26] = F[26] /\ G[53] = F[53]
       /\ 54 \in DOMAIN F => G[54] = F[54]
       /\ 54 \notin DOMAIN F => 54 \notin DOMAIN G
  <2>1. {1, 26, 53} \subseteq DOMAIN F \ {58, 59, 60, 63}
    BY <1>16
  <2>2. G[1] = F[1] /\ G[26] = F[26] /\ G[53] = F[53]
    BY <1>17, <2>1, ZenonT(60)
  <2>3. 54 \notin {58, 59, 60, 63}
    OBVIOUS
  <2>4. /\ 54 \in DOMAIN F => G[54] = F[54]
        /\ 54 \notin DOMAIN F => 54 \notin DOMAIN G
    BY <1>17, <2>3, ZenonT(60)
  <2>. QED
    BY <2>2, <2>4
<1>. QED
  BY <1>3, <1>4, <1>10, <1>16, <1>17, <1>18

-----------------------------------------------------------------------------
(* The checksum as a remainder.                                             *)

\* The bits of X as exponents, d of them below the lowest.
At(X, d) == {d + b : b \in X}

\* What is left to read after i characters.
Rest(text, i) ==
    UNION {{8 * (Len(text) - j) + 8 + b : b \in HighByte(text[j])} : j \in i + 1 .. Len(text)}

\* To cancel the exponent over bit 15 is one round of the inner loop.
LEMMA CancelIsShift ==
    ASSUME NEW d \in Nat \ {0}, NEW X \in SUBSET Bits, NEW R \in SUBSET (0 .. d + 14)
    PROVE  Cancel(SymDiff(At(X, d), R), d + 15) = SymDiff(At(ShiftRegister(X), d - 1), R)
<1> DEFINE P == SymDiff(At(X, d), R)
           Y == ShiftRegister(X)
           e == d + 15
<1>1. \A z \in Int : z \in At(X, d) <=> z - d \in X
  BY DEF At, Bits
<1>2. Y \in SUBSET Bits /\ \A k \in Bits : k \in Y <=> ((k - 1 \in X) # (15 \in X /\ k \in {0, 5, 12}))
  BY ShiftElements
<1>3. \A z \in Int : z \in At(Y, d - 1) <=> z - (d - 1) \in Y
  BY <1>2 DEF At, Bits
<1>4. P \subseteq Int /\ e \in Int /\ At(Y, d - 1) \subseteq Int /\ R \subseteq Int /\ At(X, d) \subseteq Int
  <2>1. At(X, d) \subseteq Int
    BY DEF At, Bits
  <2>2. At(Y, d - 1) \subseteq Int
    <3> HIDE DEF Y
    <3>. QED
      BY <1>2 DEF At, Bits
  <2>3. R \subseteq Int /\ e \in Int
    OBVIOUS
  <2>. QED
    BY <2>1, <2>2, <2>3 DEF SymDiff
<1>5. e \notin R /\ (e \in P <=> 15 \in X)
  <2>1. e \notin R
    OBVIOUS
  <2>2. e \in At(X, d) <=> 15 \in X
    <3>1. e - d = 15
      OBVIOUS
    <3>. QED
      BY <1>1, <1>4, <3>1
  <2>. QED
    BY <2>1, <2>2 DEF SymDiff
<1> HIDE DEF Y
<1>6. ASSUME NEW z \in Int
      PROVE  z \in At(Y, d - 1) <=>
               ((z \in At(X, d)) # (15 \in X /\ z \in {e, e - 4, e - 11, e - 16}))
  <2>1. PICK k \in Int : k = z - (d - 1)
    OBVIOUS
  <2>2. z - d = k - 1
    BY <2>1
  <2>3. z \in {e, e - 4, e - 11, e - 16} <=> k \in {16, 12, 5, 0}
    BY <2>1
  <2>4. z \in At(Y, d - 1) <=> k \in Y
    BY <1>3, <2>1
  <2>5. z \in At(X, d) <=> k - 1 \in X
    BY <1>1, <2>2
  <2>6. CASE k \in Bits
    BY <1>2, <2>3, <2>4, <2>5, <2>6 DEF Bits
  <2>7. CASE k \notin Bits
    <3>1. k \notin Y
      BY <1>2, <2>7
    <3>2. k - 1 \in X <=> k = 16 /\ 15 \in X
      BY <2>7 DEF Bits
    <3>3. k \notin {12, 5, 0}
      BY <2>7 DEF Bits
    <3>. QED
      BY <2>3, <2>4, <2>5, <3>1, <3>2, <3>3
  <2>. QED
    BY <2>6, <2>7
<1>7. CASE 15 \in X
  <2> DEFINE g == {e, e - 4, e - 11, e - 16}
  <2>1. Cancel(P, e) = SymDiff(P, g)
    BY <1>5, <1>7 DEF Cancel
  <2>2. g \subseteq Int
    BY <1>4
  <2>3. \A z \in Int : z \in At(Y, d - 1) <=> ((z \in At(X, d)) # (z \in g))
    BY <1>6, <1>7
  <2> HIDE DEF g, e
  <2>4. \A z \in Int : z \in SymDiff(P, g) <=> z \in SymDiff(At(Y, d - 1), R)
    BY <2>3 DEF SymDiff
  <2>5. SymDiff(P, g) = SymDiff(At(Y, d - 1), R)
    BY <1>4, <2>2, <2>4 DEF SymDiff
  <2>. QED
    BY <2>1, <2>5 DEF e, Y
<1>8. CASE 15 \notin X
  <2>1. Cancel(P, e) = P
    BY <1>5, <1>8 DEF Cancel
  <2>2. \A z \in Int : z \in At(Y, d - 1) <=> z \in At(X, d)
    BY <1>6, <1>8
  <2>3. At(Y, d - 1) = At(X, d)
    BY <1>4, <2>2
  <2>. QED
    BY <2>1, <2>3 DEF e, Y
<1>. QED
  BY <1>7, <1>8

\* To cancel eight is the inner loop.
LEMMA CancelEightIsLoop ==
    ASSUME NEW d \in Nat, d >= 8, NEW X \in SUBSET Bits, NEW R \in SUBSET (0 .. d + 7)
    PROVE  CancelEight(SymDiff(At(X, d), R), d + 15) = SymDiff(At(EightRounds[X], d - 8), R)
<1> DEFINE P(Y, c) == SymDiff(At(Y, c), R)
           S(Y) == ShiftRegister(Y)
<1>1. ASSUME NEW c \in d - 7 .. d, NEW Y \in SUBSET Bits
      PROVE  /\ S(Y) \in SUBSET Bits
             /\ \A e \in Int : e = c + 15 => Cancel(P(Y, c), e) = P(S(Y), c - 1)
  <2>1. c \in Nat \ {0} /\ R \in SUBSET (0 .. c + 14)
    OBVIOUS
  <2>. QED
    BY <2>1, CancelIsShift, ShiftElements
<1>2. CancelEight(P(X, d), d + 15) =
      Cancel(Cancel(Cancel(Cancel(Cancel(Cancel(Cancel(Cancel(P(X, d), d + 15),
        d + 15 - 1), d + 15 - 2), d + 15 - 3),
        d + 15 - 4), d + 15 - 4 - 1), d + 15 - 4 - 2), d + 15 - 4 - 3)
  BY DEF CancelEight
<1> DEFINE X1 == S(X)
           X2 == S(X1)
           X3 == S(X2)
           X4 == S(X3)
           X5 == S(X4)
           X6 == S(X5)
           X7 == S(X6)
           X8 == S(X7)
<1>3. EightRounds[X] = X8
  BY EightFacts DEF Twice
<1>4. X8 = S(X7) /\ X7 = S(X6) /\ X6 = S(X5) /\ X5 = S(X4) /\ X4 = S(X3) /\ X3 = S(X2) /\ X2 = S(X1) /\ X1 = S(X)
  OBVIOUS
<1> HIDE DEF P, S, X1, X2, X3, X4, X5, X6, X7, X8
<1>5. X1 \in SUBSET Bits /\ Cancel(P(X, d), d + 15) = P(X1, d - 1)
  BY <1>1, <1>4
<1>6. X2 \in SUBSET Bits /\ Cancel(P(X1, d - 1), d + 15 - 1) = P(X2, d - 2)
  BY <1>1, <1>4, <1>5
<1>7. X3 \in SUBSET Bits /\ Cancel(P(X2, d - 2), d + 15 - 2) = P(X3, d - 3)
  BY <1>1, <1>4, <1>6
<1>8. X4 \in SUBSET Bits /\ Cancel(P(X3, d - 3), d + 15 - 3) = P(X4, d - 4)
  BY <1>1, <1>4, <1>7
<1>9. X5 \in SUBSET Bits /\ Cancel(P(X4, d - 4), d + 15 - 4) = P(X5, d - 5)
  BY <1>1, <1>4, <1>8
<1>10. X6 \in SUBSET Bits /\ Cancel(P(X5, d - 5), d + 15 - 4 - 1) = P(X6, d - 6)
  BY <1>1, <1>4, <1>9
<1>11. X7 \in SUBSET Bits /\ Cancel(P(X6, d - 6), d + 15 - 4 - 2) = P(X7, d - 7)
  BY <1>1, <1>4, <1>10
<1>12. Cancel(P(X7, d - 7), d + 15 - 4 - 3) = P(X8, d - 8)
  BY <1>1, <1>4, <1>11
<1>13. CancelEight(P(X, d), d + 15) = P(X8, d - 8)
  BY <1>2, <1>5, <1>6, <1>7, <1>8, <1>9, <1>10, <1>11, <1>12
<1>. QED
  BY <1>3, <1>13 DEF P

\* Long division visits the registers.
LEMMA DivisionFacts ==
    ASSUME NEW n \in Nat, NEW M \in SUBSET (0 .. 8 * n + 15)
    PROVE  /\ Divisions(M, n)[0] = M
           /\ \A i \in 1 .. n :
                Divisions(M, n)[i] = CancelEight(Divisions(M, n)[i - 1], 8 * (n - i) + 23)
<1> DEFINE S == SUBSET (0 .. 8 * n + 15)
           divide(e) == [p \in S |-> CancelEight(p, e)]
           step == [i \in 1 .. n |-> divide(8 * (n - i) + 23)]
           IsDivisions(f) ==
             f = [i \in 0 .. n |-> IF i = 0 THEN M ELSE divide(8 * (n - i) + 23)[f[i - 1]]]
<1>1. ASSUME NEW p \in S, NEW e \in 16 .. 8 * n + 15 PROVE Cancel(p, e) \in S
  <2>1. {e, e - 4, e - 11, e - 16} \in S
    OBVIOUS
  <2>. QED
    BY <2>1 DEF Cancel, SymDiff
<1>2. ASSUME NEW i \in 1 .. n PROVE divide(8 * (n - i) + 23) \in [S -> S]
  <2>1. PICK e \in 23 .. 8 * n + 15 : e = 8 * (n - i) + 23
    OBVIOUS
  <2>2. /\ e \in 16 .. 8 * n + 15 /\ e - 1 \in 16 .. 8 * n + 15 /\ e - 2 \in 16 .. 8 * n + 15
        /\ e - 3 \in 16 .. 8 * n + 15 /\ e - 4 \in 16 .. 8 * n + 15
        /\ e - 4 - 1 \in 16 .. 8 * n + 15 /\ e - 4 - 2 \in 16 .. 8 * n + 15
        /\ e - 4 - 3 \in 16 .. 8 * n + 15
    OBVIOUS
  <2> HIDE DEF S
  <2>3. ASSUME NEW p \in S PROVE CancelEight(p, e) \in S
    BY <1>1, <2>2, Zenon DEF CancelEight
  <2>. QED
    BY <2>1, <2>3
<1>3. M \in S
  OBVIOUS
<1> HIDE DEF S
<1>4. step \in [1 .. n -> [S -> S]]
  <2> HIDE DEF divide
  <2>. QED
    BY <1>2
<1>5. PICK f : IsRecursion(f, n, S, M, step)
  <2> HIDE DEF step
  <2>. QED
    BY <1>3, <1>4, RecursionExists
<1>6. IsDivisions(f)
  <2> HIDE DEF divide
  <2>1. \A i \in 0 .. n : f[i] = IF i = 0 THEN M ELSE divide(8 * (n - i) + 23)[f[i - 1]]
    BY <1>5 DEF IsRecursion
  <2>. QED
    BY <1>5, <2>1 DEF IsRecursion
<1>7. Divisions(M, n) = CHOOSE g : IsDivisions(g)
  BY DEF Divisions, S
<1>8. PICK g : g = Divisions(M, n) /\ IsDivisions(g)
  <2> HIDE DEF IsDivisions
  <2>. QED
    BY <1>6, <1>7
<1>9. g[0] = M /\ \A i \in 1 .. n : g[i] = divide(8 * (n - i) + 23)[g[i - 1]]
  <2> HIDE DEF divide
  <2>1. \A i \in 0 .. n : g[i] = IF i = 0 THEN M ELSE divide(8 * (n - i) + 23)[g[i - 1]]
    BY <1>8
  <2>2. \A i \in 1 .. n : i \in 0 .. n /\ i # 0
    OBVIOUS
  <2>3. 0 \in 0 .. n
    OBVIOUS
  <2>. QED
    BY <2>1, <2>2, <2>3
<1>10. \A i \in 0 .. n : g[i] \in S
  <2> DEFINE T == {i \in 0 .. n : g[i] \in S}
  <2>1. 0 \in T
    BY <1>3, <1>9
  <2>2. \A i \in 0 + 1 .. n : i - 1 \in T => i \in T
    <3> HIDE DEF divide
    <3>. QED
      BY <1>2, <1>9
  <2> HIDE DEF T
  <2>3. 0 .. n \subseteq T
    BY <2>1, <2>2, InductionUpTo
  <2>. QED
    BY <2>3 DEF T
<1>11. \A i \in 1 .. n : g[i] = CancelEight(g[i - 1], 8 * (n - i) + 23)
  <2>1. \A i \in 1 .. n : g[i - 1] \in S
    BY <1>10
  <2>2. \A e : \A p \in S : divide(e)[p] = CancelEight(p, e)
    OBVIOUS
  <2> HIDE DEF divide
  <2>. QED
    BY <1>9, <2>1, <2>2
<1>. QED
  BY <1>8, <1>9, <1>11

\* The rest starts with the next character.
LEMMA RestFacts ==
    ASSUME NEW text \in Seq(0 .. 127), NEW i \in 1 .. Len(text)
    PROVE  LET d == 8 * (Len(text) - i) + 8
           IN  /\ d \in Nat /\ d >= 8
               /\ Rest(text, i) \in SUBSET (0 .. d + 7)
               /\ Rest(text, i - 1) = At(HighByte(text[i]), d) \cup Rest(text, i)
               /\ At(HighByte(text[i]), d) \in SUBSET (d + 8 .. d + 15)
<1> DEFINE n == Len(text)
           d == 8 * (n - i) + 8
           B(j) == {8 * (n - j) + 8 + b : b \in HighByte(text[j])}
<1>1. n \in Nat /\ d \in Nat /\ d >= 8
  OBVIOUS
<1>2. \A j \in 1 .. n : B(j) = At(HighByte(text[j]), 8 * (n - j) + 8)
  BY DEF At
<1>3. \A j \in 1 .. n : HighByte(text[j]) \in SUBSET (8 .. 15)
  BY CharBits
<1>4. \A j \in 1 .. n : B(j) \subseteq 8 * (n - j) + 16 .. 8 * (n - j) + 23
  <2> TAKE j \in 1 .. n
  <2>1. PICK m \in Nat : m = 8 * (n - j)
    BY <1>1
  <2>2. PICK H : H = HighByte(text[j]) /\ H \in SUBSET (8 .. 15)
    BY <1>3
  <2>3. \A b \in H : b \in Int /\ 8 <= b /\ b <= 15
    BY <2>2, SMTT(60)
  <2>4. \A b \in H : m + 8 + b \in m + 16 .. m + 23
    <3> TAKE b \in H
    <3>1. PICK e \in Int : e = b /\ 8 <= e /\ e <= 15
      BY <2>3
    <3>2. m + 8 + e \in m + 16 .. m + 23
      BY <3>1
    <3>. QED
      BY <3>1, <3>2
  <2>5. {m + 8 + b : b \in H} \subseteq m + 16 .. m + 23
    BY <2>4, ZenonT(60)
  <2>. QED
    BY <2>1, <2>2, <2>5
<1>5. \A k \in 0 .. n : Rest(text, k) = UNION {B(j) : j \in k + 1 .. n}
  BY DEF Rest
<1> HIDE DEF B
<1>6. Rest(text, i) \in SUBSET (0 .. d + 7)
  <2>1. \A j \in i + 1 .. n : B(j) \subseteq 0 .. d + 7
    BY <1>1, <1>4
  <2>2. Rest(text, i) = UNION {B(j) : j \in i + 1 .. n}
    BY <1>1, <1>5
  <2> HIDE DEF d
  <2>. QED
    BY <2>1, <2>2
<1>7. Rest(text, i - 1) = B(i) \cup Rest(text, i)
  <2>1. (i - 1) + 1 .. n = {i} \cup (i + 1 .. n)
    BY <1>1
  <2>2. /\ Rest(text, i) = UNION {B(j) : j \in i + 1 .. n}
        /\ Rest(text, i - 1) = UNION {B(j) : j \in (i - 1) + 1 .. n}
    BY <1>1, <1>5
  <2>. QED
    BY <2>1, <2>2, Zenon
<1>8. B(i) = At(HighByte(text[i]), d) /\ B(i) \in SUBSET (d + 8 .. d + 15)
  BY <1>1, <1>2, <1>4
<1>. QED
  BY <1>1, <1>6, <1>7, <1>8

\* The checksum of a text is what long division leaves of it.
LEMMA RegisterIsRemainder ==
    ASSUME NEW text \in Seq(0 .. 127)
    PROVE  LET n == Len(text)
           IN  Register(text) = Remainder(SymDiff(Polynomial(text), 8 * n .. 8 * n + 15), n)
<1> DEFINE n == Len(text)
           M == SymDiff(Polynomial(text), 8 * n .. 8 * n + 15)
           D == Divisions(M, n)
           R(i) == Registers(text)[i]
           Visited(i) == SymDiff(At(R(i), 8 * (n - i)), Rest(text, i))
           T == {i \in 0 .. n : D[i] = Visited(i)}
<1>1. n \in Nat
  OBVIOUS
<1>2. Polynomial(text) = Rest(text, 0)
  BY DEF Polynomial, Rest
<1>3. M = Visited(0) /\ M \in SUBSET (0 .. 8 * n + 15)
  <2>1. R(0) = Bits
    BY RegistersFacts DEF InitialRegister, Bits
  <2>2. At(Bits, 8 * n) = 8 * n .. 8 * n + 15
    <3>1. \A z \in 8 * n .. 8 * n + 15 : z - 8 * n \in Bits /\ z = 8 * n + (z - 8 * n)
      <4> TAKE z \in 8 * n .. 8 * n + 15
      <4>1. PICK m \in Nat : m = 8 * n
        BY <1>1
      <4>2. PICK k \in Int : k = z - m
        BY <4>1
      <4>3. k \in Bits /\ z = m + k
        <5>1. z \in m .. m + 15
          BY <4>1
        <5>. QED
          BY <4>2, <5>1 DEF Bits
      <4>. QED
        BY <4>1, <4>2, <4>3
    <3>. QED
      BY <1>1, <3>1, SMTT(60) DEF At, Bits
  <2>3. Rest(text, 0) \subseteq 0 .. 8 * n + 15
    <3>1. CASE n = 0
      BY <3>1 DEF Rest
    <3>2. CASE n > 0
      <4>1. 1 \in 1 .. Len(text)
        BY <1>1, <3>2
      <4>2. PICK d \in Nat : d = 8 * (Len(text) - 1) + 8
        BY <1>1, <4>1
      <4>3. /\ Rest(text, 1) \in SUBSET (0 .. d + 7)
            /\ Rest(text, 1 - 1) = At(HighByte(text[1]), d) \cup Rest(text, 1)
            /\ At(HighByte(text[1]), d) \in SUBSET (d + 8 .. d + 15)
        BY <4>1, <4>2, RestFacts
      <4>4. d = 8 * n
        BY <1>1, <4>2
      <4>. QED
        BY <1>1, <4>3, <4>4
    <3>. QED
      BY <1>1, <3>1, <3>2
  <2>4. 8 * (n - 0) = 8 * n
    BY <1>1
  <2>5. M = Visited(0)
    BY <1>2, <2>1, <2>2, <2>4 DEF SymDiff
  <2>. QED
    BY <1>1, <1>2, <2>3, <2>5 DEF SymDiff
<1>4. D[0] = M /\ \A i \in 1 .. n : D[i] = CancelEight(D[i - 1], 8 * (n - i) + 23)
  <2> HIDE DEF M
  <2>. QED
    BY <1>1, <1>3, DivisionFacts
<1>5. 0 \in T
  BY <1>1, <1>3, <1>4
<1>6. ASSUME NEW i \in 0 + 1 .. n, i - 1 \in T PROVE i \in T
  <2>1. i \in 1 .. Len(text) /\ i - 1 \in 0 .. Len(text) /\ i \in 0 .. n
    BY <1>1
  <2>2. PICK d \in Nat : d = 8 * (Len(text) - i) + 8
    BY <1>1
  <2>3. PICK H : H = HighByte(text[i])
    OBVIOUS
  <2>4. /\ d >= 8 /\ Rest(text, i) \in SUBSET (0 .. d + 7)
        /\ Rest(text, i - 1) = At(H, d) \cup Rest(text, i)
        /\ At(H, d) \in SUBSET (d + 8 .. d + 15)
    BY <2>1, <2>2, <2>3, RestFacts
  <2>5. R(i - 1) \in SUBSET Bits /\ H \in SUBSET Bits /\ R(i) = EightRounds[SymDiff(R(i - 1), H)]
    BY <2>1, <2>3, RegistersFacts, CharBits
  <2>6. D[i - 1] = SymDiff(At(R(i - 1), d), Rest(text, i - 1))
    <3>1. 8 * (n - (i - 1)) = d
      BY <1>1, <2>2
    <3>. QED
      BY <1>6, <3>1
  <2>7. D[i] = CancelEight(D[i - 1], d + 15)
    <3>1. 8 * (n - i) + 23 = d + 15
      BY <1>1, <2>2
    <3>. QED
      BY <1>4, <3>1
  <2>8. 8 * (n - i) = d - 8
    BY <1>1, <2>2
  <2> HIDE DEF R, D, n
  <2>9. D[i - 1] = SymDiff(At(SymDiff(R(i - 1), H), d), Rest(text, i))
    <3> DEFINE Y == R(i - 1)
    <3>1. At(SymDiff(Y, H), d) = SymDiff(At(Y, d), At(H, d))
      <4>1. \A Z \in SUBSET Bits : \A z \in Int : z \in At(Z, d) <=> z - d \in Z
        BY DEF At, Bits
      <4>2. \A Z \in SUBSET Bits : At(Z, d) \subseteq Int
        BY DEF At, Bits
      <4>3. SymDiff(Y, H) \in SUBSET Bits
        BY <2>5 DEF SymDiff
      <4>4. \A z \in Int : z \in At(SymDiff(Y, H), d) <=> z \in SymDiff(At(Y, d), At(H, d))
        BY <2>5, <4>1, <4>3 DEF SymDiff
      <4>5. At(Y, d) \subseteq Int /\ At(H, d) \subseteq Int /\ At(SymDiff(Y, H), d) \subseteq Int
        BY <2>5, <4>2, <4>3
      <4>. QED
        BY <4>4, <4>5 DEF SymDiff
    <3>2. At(H, d) \cap Rest(text, i) = {}
      BY <2>4
    <3> HIDE DEF Y
    <3>3. SymDiff(At(Y, d), At(H, d) \cup Rest(text, i)) =
          SymDiff(SymDiff(At(Y, d), At(H, d)), Rest(text, i))
      BY <3>2 DEF SymDiff
    <3>. QED
      BY <2>4, <2>6, <3>1, <3>3 DEF Y
  <2>10. SymDiff(R(i - 1), H) \in SUBSET Bits
    BY <2>5 DEF SymDiff
  <2>11. D[i] = SymDiff(At(R(i), d - 8), Rest(text, i))
    BY <2>4, <2>5, <2>7, <2>9, <2>10, CancelEightIsLoop
  <2>. QED
    BY <2>1, <2>8, <2>11
<1>7. n \in T
  <2> HIDE DEF T
  <2>1. 0 .. n \subseteq T
    BY <1>1, <1>5, <1>6, InductionUpTo
  <2>. QED
    BY <1>1, <2>1
<1>8. D[n] = SymDiff(At(R(n), 8 * (n - n)), Rest(text, n))
  BY <1>7
<1>9. Rest(text, n) = {} /\ 8 * (n - n) = 0
  BY <1>1 DEF Rest
<1>10. R(n) \in SUBSET Bits
  BY <1>1, RegistersFacts
<1> HIDE DEF R, D, n
<1>11. At(R(n), 0) = R(n)
  BY <1>10 DEF At, Bits
<1>12. D[n] = R(n)
  BY <1>8, <1>9, <1>11 DEF SymDiff
<1>. QED
  BY <1>12 DEF D, R, n, Register, Remainder

-----------------------------------------------------------------------------
(* The specification.                                                       *)

\* A payload is the code of the request, and what was scanned is a reading of it
\* with the verdict of verify_crc.
Encoded ==
    payload # None =>
        LET r == request
            text == Unsigned(r.account, r.city, r.amount)
        IN  /\ r.account \in Accounts /\ r.city \in Cities /\ r.amount \in Amounts
            /\ ~ Refused(r.account, r.city, r.amount)
            /\ IsAscii(text)
            /\ payload = text \o _crc16_ccitt(text)

Verdict ==
    scanned # None =>
        /\ payload # None
        /\ scanned.text \in Readings(payload)
        /\ scanned.verified = verify_crc(scanned.text)

IInv == Encoded /\ Verdict

\* generate_qr and the scanner keep it.
LEMMA Inductive == Spec => []IInv
<1>1. Init => IInv
  BY DEF Init, IInv, Encoded, Verdict
<1>2. IInv /\ [Next]_vars => IInv'
  <2> SUFFICES ASSUME IInv, [Next]_vars PROVE IInv'
    OBVIOUS
  <2>1. ASSUME NEW account \in Accounts, NEW city \in Cities, NEW amount \in Amounts,
               Generate(account, city, amount)
        PROVE  IInv'
    <3>1. /\ request'.account = account /\ request'.city = city /\ request'.amount = amount
          /\ scanned' = None
      BY <2>1 DEF Generate
    <3>2. payload' # None =>
            /\ ~ Refused(account, city, amount)
            /\ IsAscii(Unsigned(account, city, amount))
            /\ payload' = Unsigned(account, city, amount)
                            \o _crc16_ccitt(Unsigned(account, city, amount))
      BY <2>1 DEF Generate
    <3>. QED
      BY <3>1, <3>2 DEF IInv, Encoded, Verdict
  <2>2. ASSUME payload # None, NEW text \in Readings(payload), Scan(text) PROVE IInv'
    <3>1. /\ scanned'.text = text /\ scanned'.verified = verify_crc(text)
          /\ UNCHANGED <<request, payload>>
      BY <2>2 DEF Scan
    <3>. QED
      BY <2>2, <3>1 DEF IInv, Encoded, Verdict
  <2>3. CASE UNCHANGED vars
    BY <2>3 DEF vars, IInv, Encoded, Verdict
  <2>. QED
    BY <2>1, <2>2, <2>3 DEF Next
<1>. QED
  BY <1>1, <1>2, PTL DEF Spec

\* The text before the checksum is ASCII.
LEMMA PayloadFacts ==
    ASSUME Encoded, payload # None
    PROVE  \E text \in Seq(0 .. 127) :
             /\ text = Unsigned(request.account, request.city, request.amount)
             /\ Len(text) > 0 /\ payload = text \o _crc16_ccitt(text)
<1>1. PICK text : text = Unsigned(request.account, request.city, request.amount)
  OBVIOUS
<1>2. /\ request.account \in Accounts /\ request.city \in Cities /\ request.amount \in Amounts
      /\ ~ Refused(request.account, request.city, request.amount)
      /\ IsAscii(text) /\ payload = text \o _crc16_ccitt(text)
  BY <1>1 DEF Encoded
<1>3. text \in Seq(Nat) /\ Len(text) > 0
  BY <1>1, <1>2, UnsignedFacts
<1>4. text \in Seq(0 .. 127)
  <2>1. PICK n \in Nat : n = Len(text)
    BY <1>3, LenProperties
  <2>2. text \in [1 .. n -> Nat] /\ DOMAIN text = 1 .. n
    BY <1>3, <2>1, LenProperties
  <2>3. ASSUME NEW i \in 1 .. n PROVE text[i] \in 0 .. 127
    <3>1. PICK c \in Nat : c = text[i] /\ c < 128
      BY <1>2, <2>2 DEF IsAscii
    <3>2. c \in 0 .. 127
      BY <3>1
    <3>. QED
      BY <3>1, <3>2
  <2>4. text \in [1 .. n -> 0 .. 127]
    BY <2>2, <2>3
  <2>. QED
    BY <2>4
<1>. QED
  BY <1>1, <1>2, <1>3, <1>4

\* A code in which a character was misread, or two neighbours were exchanged,
\* never verifies, wherever that is (_crc16_ccitt and verify_crc).
THEOREM MisreadingDetected == Spec => []MisreadingIsDetected
<1>1. IInv => MisreadingIsDetected
  <2> SUFFICES ASSUME IInv, scanned # None, scanned.text # payload PROVE ~ scanned.verified
    BY DEF MisreadingIsDetected
  <2>1. /\ payload # None /\ scanned.text \in Readings(payload)
        /\ scanned.verified = verify_crc(scanned.text)
    BY DEF IInv, Verdict
  <2>2. PICK text \in Seq(0 .. 127) : Len(text) > 0 /\ payload = text \o _crc16_ccitt(text)
    BY <2>1, PayloadFacts DEF IInv
  <2>3. ~ verify_crc(scanned.text)
    BY <2>1, <2>2, MisreadFails
  <2>. QED
    BY <2>1, <2>3
<1>. QED
  BY <1>1, Inductive, PTL

\* The checksum at the end of a payload is the remainder that EMVCo prescribes,
\* for a text of any length (_crc16_ccitt).
THEOREM ChecksumCorrect == Spec => []ChecksumIsRemainder
<1>1. IInv => ChecksumIsRemainder
  <2> SUFFICES ASSUME IInv, payload # None
               PROVE  LET text == SubSeq(payload, 1, Len(payload) - 4)
                          n == Len(text)
                      IN  Register(text) =
                          Remainder(SymDiff(Polynomial(text), 8 * n .. 8 * n + 15), n)
    BY DEF ChecksumIsRemainder
  <2>1. PICK text \in Seq(0 .. 127) : payload = text \o _crc16_ccitt(text)
    BY PayloadFacts DEF IInv
  <2>2. Body(payload) = text
    BY <2>1, BodyOfCode
  <2>3. LET n == Len(text)
        IN  Register(text) = Remainder(SymDiff(Polynomial(text), 8 * n .. 8 * n + 15), n)
    BY RegisterIsRemainder
  <2>. QED
    BY <2>2, <2>3 DEF Body
<1>. QED
  BY <1>1, Inductive, PTL

\* A code that is read as it was written verifies, and gives back the account's
\* number, the currency, the amount, the name cut to 25 characters and the city,
\* whatever characters they hold (build_sgqr, parse_tlv and verify_crc).
THEOREM CodesReadBack == Spec => []ReadsBack
<1>1. IInv => ReadsBack
  <2> SUFFICES ASSUME IInv, scanned # None, scanned.text = payload PROVE ReadsBack
    BY DEF ReadsBack
  <2>1. payload # None /\ scanned.verified = verify_crc(payload)
    BY DEF IInv, Verdict
  <2>2. PICK text \in Seq(0 .. 127) :
          /\ text = Unsigned(request.account, request.city, request.amount)
          /\ payload = text \o _crc16_ccitt(text)
    BY <2>1, PayloadFacts DEF IInv
  <2>3. scanned.verified
    BY <2>1, <2>2, WrittenVerifies
  <2>4. PICK account \in Accounts, city \in Cities, amount \in Amounts :
          /\ account = request.account /\ city = request.city /\ amount = request.amount
          /\ ~ Refused(account, city, amount)
    BY <2>1 DEF IInv, Encoded
  <2>5. PICK d \in Seq(Nat) : d = _crc16_ccitt(text) /\ Len(d) = 4
    <3>1. _crc16_ccitt(text) \in Seq(0 .. 127) /\ Len(_crc16_ccitt(text)) = 4
      BY ChecksumFacts
    <3>2. 0 .. 127 \subseteq Nat
      OBVIOUS
    <3>3. Seq(0 .. 127) \subseteq Seq(Nat)
      BY <3>2, SeqMonotonic, Zenon
    <3>. QED
      BY <3>1, <3>3, Zenon
  <2>6. PICK G : G = parse_tlv(payload)
    OBVIOUS
  <2>7. /\ G[1] = TwoDigits(IF amount = None THEN 11 ELSE 12)
        /\ G[26] = MerchantAccountInfo(account)
        /\ G[53] = CurrencyNumeric[account.currency]
        /\ amount = None => 54 \notin DOMAIN G
        /\ amount # None => G[54] = amount
        /\ G[59] = Prefix(account.owner_name, 25)
        /\ G[60] = city
    <3>1. G = parse_tlv(Unsigned(account, city, amount) \o d)
      BY <2>2, <2>4, <2>5, <2>6
    <3>. QED
      BY <2>4, <2>5, <3>1, PayloadRead
  <2>8. parse_tlv(G[26])[1] = account.number
    <3>1. Fits(SG_PAYNOW) /\ Fits(account.number)
      BY <2>4, ValuesFit
    <3>2. parse_tlv(_tlv(0, SG_PAYNOW) \o _tlv(1, account.number))[1] = account.number
      BY <3>1, TwoFieldsRead
    <3>. QED
      BY <2>7, <3>2 DEF MerchantAccountInfo
  <2>9. /\ IsPrefix(G[59], account.owner_name)
        /\ Len(G[59]) = Min({25, Len(account.owner_name)})
    <3>1. account.owner_name \in Seq(Nat) /\ 25 \in Nat
      BY TextAssumption
    <3>2. /\ IsPrefix(Prefix(account.owner_name, 25), account.owner_name)
          /\ Len(Prefix(account.owner_name, 25)) = Min({25, Len(account.owner_name)})
      BY <3>1, PrefixFacts
    <3>. QED
      BY <2>7, <3>2
  <2>. QED
    BY <2>3, <2>4, <2>6, <2>7, <2>8, <2>9 DEF ReadsBack
<1>. QED
  BY <1>1, Inductive, PTL
=============================================================================
