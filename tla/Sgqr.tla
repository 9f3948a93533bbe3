-------------------------------- MODULE Sgqr --------------------------------
(***************************************************************************)
(* SGQR codes: POST /qr/generate renders an account and an optional amount *)
(* as a payload of tag-length-value fields that ends in a checksum; a      *)
(* scanner reads it, perhaps with a character misread, verifies the        *)
(* checksum and decodes the fields (app/infra/qr/sgqr.py, app/api/v1/qr.py *)
(* and the decoding half, which the unit tests use as the scanner).        *)
(*                                                                         *)
(* Texts are sequences of character codes, tags and lengths are numbers    *)
(* below 100, and a register of 16 bits is the set of the bits that are    *)
(* set, so that exclusive or is symmetric difference.                      *)
(*                                                                         *)
(* A definition F_Xxx placed before F is a mutant of F, a plausible bug    *)
(* that a property must catch; the specification uses none of them.        *)
(***************************************************************************)
EXTENDS Integers, Sequences, FiniteSets, SequencesExt

CONSTANTS
    Accounts,  \* account rows: number, owner_name, currency
    Cities,    \* values of merchant_city
    Amounts,   \* values of amount, as str(amount) renders them, and None
    Misread,   \* characters that a scanner may see in place of another
    None

\* What the columns and the schema let in; a scanner reads ASCII.
ASSUME TextAssumption ==
    /\ \A account \in Accounts :
         /\ account.number \in Seq(Nat) /\ Len(account.number) <= 34
         /\ account.owner_name \in Seq(Nat)
    /\ \A city \in Cities : city \in Seq(Nat)
    /\ \A amount \in Amounts \ {None} : amount \in Seq(Nat)
    /\ Misread \subseteq 0 .. 127

VARIABLES
    request,  \* the account, city and amount of the last request, or None
    answer,   \* its status code
    payload,  \* the payload it was given, or None
    scanned   \* what a scanner makes of it, or None

vars == <<request, answer, payload, scanned>>

-----------------------------------------------------------------------------
(* Texts.                                                                   *)

Zero == 48
IsAscii(text) == \A i \in DOMAIN text : text[i] < 128
TwoDigits(n) == <<Zero + (n \div 10), Zero + (n % 10)>>
NumberOf(text) == 10 * (text[1] - Zero) + text[2] - Zero

\* text[:n]
Prefix(text, n) == SubSeq(text, 1, Min({n, Len(text)}))

\* A plain decimal is positive.
Positive(text) ==
    text[1] # 45 /\ \E i \in DOMAIN text : text[i] \in Zero + 1 .. Zero + 9

\* _tlv raises for a longer value.
TooLong(value) == Len(value) > 99
_tlv(tag, value) == TwoDigits(tag) \o TwoDigits(Len(value)) \o value

\* fields[tag] = value
WithField(fields, tag, value) ==
    [t \in DOMAIN fields \cup {tag} |-> IF t = tag THEN value ELSE fields[t]]

\* The state of parse_tlv's loop, `at' characters read, after its next field:
\* the last of a tag counts.
ReadField(text, state) ==
    LET at == state.at
        length == NumberOf(SubSeq(text, at + 3, at + 4))
        tag == NumberOf(SubSeq(text, at + 1, at + 2))
        value == SubSeq(text, at + 5, at + 4 + length)
    IN  IF at >= Len(text) THEN state
        ELSE [at |-> at + 4 + length, fields |-> WithField(state.fields, tag, value)]

\* After n fields, and after all: no field is shorter than its header.
FieldsRead(text) ==
    LET read[n \in 0 .. Len(text)] ==
          IF n = 0 THEN [at |-> 0, fields |-> <<>>] ELSE ReadField(text, read[n - 1])
    IN  read
parse_tlv(text) == FieldsRead(text)[Len(text)].fields

-----------------------------------------------------------------------------
(* The checksum.                                                            *)

\* byte << 8
BitValue == <<1, 2, 4, 8, 16, 32, 64, 128>>
HighByte(byte) == {8 + j : j \in {j \in 0 .. 7 : (byte \div BitValue[j + 1]) % 2 = 1}}

\* Mutant: the polynomial is left out.
ShiftRegister_NoPolynomial(crc) == {j + 1 : j \in crc \ {15}}

\* One round of the inner loop; 0x1021 has bits 12, 5 and 0.
ShiftRegister(crc) ==
    LET shifted == {j + 1 : j \in crc \ {15}}
    IN  IF 15 \in crc THEN SymDiff(shifted, {12, 5, 0}) ELSE shifted

\* Mutant: a register that starts at zero.
InitialRegister_Zero == {}

InitialRegister == 0 .. 15    \* 0xFFFF

\* The inner loop, and the register after each byte.
EightRounds ==
    [crc \in SUBSET (0 .. 15) |->
        LET twice(c) == ShiftRegister(ShiftRegister(c)) IN twice(twice(twice(twice(crc))))]

Registers(text) ==
    LET after[i \in 0 .. Len(text)] ==
          IF i = 0 THEN InitialRegister
          ELSE EightRounds[SymDiff(after[i - 1], HighByte(text[i]))]
    IN  after
Register(text) == Registers(text)[Len(text)]

\* The value of four bits of a register, and f"{crc:04X}".
Nibble(crc, k) ==
    LET bit(j) == IF 4 * k + j \in crc THEN BitValue[j + 1] ELSE 0
    IN  bit(0) + bit(1) + bit(2) + bit(3)
HexDigit(n) == IF n < 10 THEN Zero + n ELSE 55 + n
_crc16_ccitt(text) ==
    LET crc == Register(text) IN [i \in 1 .. 4 |-> HexDigit(Nibble(crc, 4 - i))]

verify_crc(text) ==
    _crc16_ccitt(SubSeq(text, 1, Len(text) - 4)) = SubSeq(text, Len(text) - 3, Len(text))

-----------------------------------------------------------------------------
(* build_sgqr and the endpoint.                                             *)

\* _CURRENCY_NUMERIC
CurrencyNumeric ==
    [SGD |-> <<55, 48, 50>>, USD |-> <<56, 52, 48>>, EUR |-> <<57, 55, 56>>, GBP |-> <<56, 50, 54>>]

SG_PAYNOW == <<83, 71, 46, 80, 65, 89, 78, 79, 87>>

\* Mutant: the two fields of the template change their tags.
MerchantAccountInfo_TagsSwapped(account) ==
    _tlv(1, SG_PAYNOW) \o _tlv(0, account.number)

MerchantAccountInfo(account) == _tlv(0, SG_PAYNOW) \o _tlv(1, account.number)

\* The payload, up to and with the header of the checksum.
Unsigned(account, city, amount) ==
    _tlv(0, TwoDigits(1))
    \o _tlv(1, TwoDigits(IF amount = None THEN 11 ELSE 12))
    \o _tlv(26, MerchantAccountInfo(account))
    \o _tlv(52, <<Zero, Zero, Zero, Zero>>)
    \o _tlv(53, CurrencyNumeric[account.currency])
    \o (IF amount = None THEN <<>> ELSE _tlv(54, amount))
    \o _tlv(58, <<83, 71>>)
    \o _tlv(59, Prefix(account.owner_name, 25))
    \o _tlv(60, Prefix(city, 15))
    \o TwoDigits(63) \o TwoDigits(4)

\* The schema's checks and the SgqrErrors, which the endpoint answers by 422.
Refused(account, city, amount) ==
    \/ Len(city) > 15
    \/ account.currency \notin DOMAIN CurrencyNumeric
    \/ amount # None /\ (~ Positive(amount) \/ TooLong(amount))

\* generate_qr.  A character outside ASCII ends in an error that nobody catches.
Generate(account, city, amount) ==
    /\ request' = [account |-> account, city |-> city, amount |-> amount]
    /\ IF Refused(account, city, amount) THEN answer' = 422 /\ payload' = None
       ELSE LET text == Unsigned(account, city, amount)
            IN  IF IsAscii(text) THEN answer' = 200 /\ payload' = text \o _crc16_ccitt(text)
                ELSE answer' = 500 /\ payload' = None
    /\ scanned' = None

\* What a scanner may see: the payload, with one character misread, or with two
\* neighbours exchanged.
Readings(text) ==
    {text}
    \cup {ReplaceAt(text, i, c) : i \in DOMAIN text, c \in Misread}
    \cup {ReplaceAt(ReplaceAt(text, i, text[i + 1]), i + 1, text[i]) : i \in 1 .. Len(text) - 1}

\* The checksum is verified; only the fields of a good code are decoded.
Scan(text) ==
    /\ payload # None
    /\ scanned = None
    /\ scanned' = [text |-> text, verified |-> verify_crc(text)]
    /\ UNCHANGED <<request, answer, payload>>

Init ==
    /\ request = None
    /\ answer = None
    /\ payload = None
    /\ scanned = None

Next ==
    \/ \E account \in Accounts, city \in Cities, amount \in Amounts :
         Generate(account, city, amount)
    \/ payload # None /\ \E text \in Readings(payload) : Scan(text)

Spec == Init /\ [][Next]_vars

-----------------------------------------------------------------------------
\* A code that was read as it was written verifies, and carries what it was
\* asked to: the account's number inside the template, the currency, the amount
\* if there is one and only then, and names cut to length.
ReadsBack ==
    scanned # None /\ scanned.text = payload =>
        LET fields == parse_tlv(scanned.text)
            account == request.account
        IN  /\ scanned.verified
            /\ parse_tlv(fields[26])[1] = account.number
            /\ fields[53] = CurrencyNumeric[account.currency]
            /\ IF request.amount = None THEN 54 \notin DOMAIN fields /\ fields[1] = TwoDigits(11)
               ELSE fields[54] = request.amount /\ fields[1] = TwoDigits(12)
            /\ IsPrefix(fields[59], account.owner_name)
            /\ Len(fields[59]) = Min({25, Len(account.owner_name)})
            /\ fields[60] = request.city

\* A misread code never verifies, wherever the character is, in a length or in
\* the checksum itself: nobody pays another account because of it.
MisreadingIsDetected ==
    scanned # None /\ scanned.text # payload => ~ scanned.verified

\* Long division of polynomials over GF(2), sets of exponents, by
\* x^16 + x^12 + x^5 + 1: one step cancels exponent e, if it is there.
Cancel(p, e) == IF e \in p THEN SymDiff(p, {e, e - 4, e - 11, e - 16}) ELSE p

CancelEight(p, e) ==
    LET four(q, d) == Cancel(Cancel(Cancel(Cancel(q, d), d - 1), d - 2), d - 3)
    IN  four(four(p, e), e - 4)

\* What is left of a polynomial with exponents up to 8 * n + 15, eight by eight.
Divisions(polynomial, n) ==
    LET divide(e) == [p \in SUBSET (0 .. 8 * n + 15) |-> CancelEight(p, e)]
        left[i \in 0 .. n] ==
          IF i = 0 THEN polynomial ELSE divide(8 * (n - i) + 23)[left[i - 1]]
    IN  left
Remainder(polynomial, n) == Divisions(polynomial, n)[n]

\* The bits of a text as a polynomial, shifted by 16.
Polynomial(text) ==
    UNION {{8 * (Len(text) - i) + 8 + b : b \in HighByte(text[i])} : i \in 1 .. Len(text)}

\* The checksum is the one EMVCo prescribes: the text, its first two bytes
\* inverted, shifted by 16 bits and divided by the polynomial.
ChecksumIsRemainder ==
    payload # None /\ scanned = None =>
        LET text == SubSeq(payload, 1, Len(payload) - 4)
            n == Len(text)
        IN  Register(text) = Remainder(SymDiff(Polynomial(text), 8 * n .. 8 * n + 15), n)
=============================================================================
