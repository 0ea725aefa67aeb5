------------------------------ MODULE NasalNumbers ------------------------------
(***************************************************************************)
(* Numbers to strings and back, as Nasal does it itself: a string is a     *)
(* sequence of bytes, a double a decimal <<sign, mantissa, exponent>>.     *)
(* What doubles round is left out, where the digits, the point and the     *)
(* exponent are put and looked for is not.                                 *)
(***************************************************************************)
EXTENDS Integers, Sequences

CONSTANTS
  DIGITS,    \* the digits of a double that are written (16)
  MaxInt     \* the largest int (2^31 - 1)

ASSUME NumbersAssumption ==
  DIGITS \in Nat \ {0} /\ MaxInt \in Nat /\ MaxInt < 10^DIGITS

Plus == 43
Minus == 45
Point == 46
Zero == 48
LowerE == 101
UpperE == 69
IsDigit(c) == c \in Zero..Zero + 9

ByteAt(s, i) == IF i \in DOMAIN s THEN s[i] ELSE -1

-----------------------------------------------------------------------------
(* readdec: <<the value, the place after it>>. *)
EndOfDigits(s, i) ==
  CHOOSE j \in i..Len(s) + 1 :
    ~IsDigit(ByteAt(s, j)) /\ \A k \in i..j-1 : IsDigit(s[k])

Decimal(s, i, j) ==
  LET upTo[k \in i-1..j-1] ==
        IF k < i THEN 0 ELSE upTo[k - 1] * 10 + s[k] - Zero
  IN  upTo[j - 1]

ReadDec(s, i) ==
  IF i > Len(s) THEN <<0, Len(s) + 1>>
  ELSE <<Decimal(s, i, EndOfDigits(s, i)), EndOfDigits(s, i)>>

(* readsigned: <<sign, value, the place after it>>; a sign is taken without *)
(* digits after it.                                                         *)
IsSign(c) == c \in {Plus, Minus}
SignOf(c) == IF c = Minus THEN -1 ELSE 1

ReadSigned(s, i) ==
  LET from == IF IsSign(ByteAt(s, i)) THEN i + 1 ELSE i
  IN  <<SignOf(ByteAt(s, i))>> \o ReadDec(s, from)

-----------------------------------------------------------------------------
(* tonum *)
NoNumber == [ok |-> FALSE, sgn |-> 1, man |-> 0, exp |-> 0]
Number(sgn, man, exp) == [ok |-> TRUE, sgn |-> sgn, man |-> man, exp |-> exp]

(* The exponent, if any, to the end of the string.                          *)
WithExponent(s, i, sgn, man, exp) ==
  IF ByteAt(s, i) \in {LowerE, UpperE}
  THEN LET e == ReadSigned(s, i + 1)
       IN  IF e[3] = i + 1 \/ e[3] <= Len(s) THEN NoNumber
           ELSE Number(sgn, man, exp + e[1] * e[2])
  ELSE IF i <= Len(s) THEN NoNumber ELSE Number(sgn, man, exp)

WithFraction(s, i, sgn, val) ==
  IF ByteAt(s, i) = Point
  THEN LET f == ReadDec(s, i + 1)
           fraclen == f[2] - (i + 1)
       IN  WithExponent(s, f[2], sgn, val * 10^fraclen + f[1], -fraclen)
  ELSE IF i = 1 THEN NoNumber
  ELSE WithExponent(s, i, sgn, val, 0)

FromInteger(s, sgn) ==
  LET v == ReadSigned(s, 1)
  IN  WithFraction(s, v[3], IF v[2] > 0 /\ v[1] < 0 THEN -1 ELSE sgn, v[2])

ToNum(s) ==
  IF Len(s) = 1 /\ (s[1] = Point \/ IsSign(s[1])) THEN NoNumber
  ELSE IF Len(s) > 1 /\ s[1] = Minus /\ s[2] # Minus
       THEN FromInteger(Tail(s), -1) ELSE FromInteger(s, 1)

-----------------------------------------------------------------------------
(* decprint: the digits of a natural number. *)
DigitAt(n, p) == (n \div p) % 10
Length(n) == CHOOSE d \in 1..10 : n < 10^d /\ (d > 1 => n >= 10^(d-1))
DecPrint(n) ==
  [i \in 1..Length(n) |-> Zero + DigitAt(n, 10^(Length(n) - i))]

(* fromnum: "raw" is what rawprint makes of a number that is no int, DIGITS *)
(* digits and the exponent of the last.  Zeros at the end are insignificant *)
(* (mutant: one zero too few before them).                                  *)
Digs(raw) ==
  CHOOSE d \in 1..Len(raw) : (d = 1 \/ raw[d] # Zero)
                             /\ \A i \in d+1..Len(raw) : raw[i] = Zero

Zeros(n) == [i \in 1..n |-> Zero]

Exponent(exp) ==
  <<IF exp < 0 THEN Minus ELSE Plus>>
  \o LET e == IF exp < 0 THEN -exp ELSE exp
     IN  (IF e < 10 THEN <<Zero>> ELSE <<>>) \o DecPrint(e)

Scientific(raw, exp) ==
  <<raw[1]>>
  \o (IF Digs(raw) > 1 THEN <<Point>> \o SubSeq(raw, 2, Digs(raw)) ELSE <<>>)
  \o <<LowerE>> \o Exponent(exp + DIGITS - 1)

Leading_Short(exp) == Zeros(-(exp + DIGITS) - 1)
Leading(exp) == Zeros(-(exp + DIGITS))
Fraction(raw, exp) ==
  <<Zero, Point>> \o Leading(exp) \o SubSeq(raw, 1, Digs(raw))

Mixed(raw, exp) ==
  SubSeq(raw, 1, DIGITS + exp)
  \o IF DIGITS + exp < Digs(raw)
     THEN <<Point>> \o SubSeq(raw, DIGITS + exp + 1, Digs(raw)) ELSE <<>>

Layout(raw, exp) ==
  IF exp > 0 \/ exp < -(DIGITS + 3) THEN Scientific(raw, exp)
  ELSE IF exp < 1 - DIGITS THEN Fraction(raw, exp)
  ELSE Mixed(raw, exp)

(* An int is written as one. *)
IsInt(raw, exp) ==
  /\ exp <= 0 /\ exp > -DIGITS
  /\ Decimal(raw, 1, DIGITS + 1) % 10^(-exp) = 0
  /\ Decimal(raw, 1, DIGITS + 1) \div 10^(-exp) <= MaxInt

Signed(neg, s) == IF neg THEN <<Minus>> \o s ELSE s

FromInt(neg, n) == Signed(neg, DecPrint(n))
FromDouble(neg, raw, exp) == Signed(neg, Layout(raw, exp))

-----------------------------------------------------------------------------
(* What a numeral is: digits, with or without a point among them, at least  *)
(* one of the two; a sign before and an exponent after.  tonum also takes   *)
(* some with a sign, or a point, and no digit after or before it.           *)
Digits(s) == \A i \in DOMAIN s : IsDigit(s[i])
Unsigned(s) == IF s # <<>> /\ IsSign(s[1]) THEN Tail(s) ELSE s

WithPoint(s) ==
  \E i \in DOMAIN s : s[i] = Point /\ Digits(SubSeq(s, 1, i - 1) \o SubSeq(s, i + 1, Len(s)))
Mantissa(s) == s # <<>> /\ (Digits(s) \/ (Len(s) > 1 /\ WithPoint(s)))

Numeral(s) ==
  \/ Mantissa(Unsigned(s))
  \/ \E i \in DOMAIN s :
       /\ s[i] \in {LowerE, UpperE} /\ Mantissa(Unsigned(SubSeq(s, 1, i - 1)))
       /\ LET e == Unsigned(SubSeq(s, i + 1, Len(s))) IN e # <<>> /\ Digits(e)

BareSignOrPoint(s) ==
  \E i \in DOMAIN s : /\ IsSign(s[i]) \/ s[i] = Point
                      /\ ~IsDigit(ByteAt(s, i + 1))

(* The same value: mantissas made integers of the smaller exponent.         *)
Scaled(r, exp) == r.sgn * r.man * 10^(r.exp - exp)
SameValue(a, b) ==
  LET exp == IF a.exp < b.exp THEN a.exp ELSE b.exp
  IN  a.ok /\ b.ok /\ Scaled(a, exp) = Scaled(b, exp)

SignFrom(neg) == IF neg THEN -1 ELSE 1
===============================================================================
