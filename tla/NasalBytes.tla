------------------------------- MODULE NasalBytes -------------------------------
(***************************************************************************)
(* The utf8 and the bits library of Nasal: characters and bit fields in    *)
(* strings that are sequences of bytes.                                    *)
(***************************************************************************)
EXTENDS NasalText

(* cbytes: the bytes a character takes. *)
NB == <<127, 2047, 65535, 2097151, 67108863>>

CBytes(c) ==
  CHOOSE n \in 1..6 : (n = 6 \/ c <= NB[n]) /\ \A m \in 1..n - 1 : c > NB[m]

(* A byte with the n high order bits set.                                   *)
TopBits(n) == 256 - 2^(8 - n)

(* writec: six bits at a time from the end; the rest goes into the first.   *)
Lead(c, n) == (IF n > 1 THEN TopBits(n) ELSE 0) + c \div 64^(n - 1)

WriteC(c) ==
  [i \in 1..CBytes(c) |->
     IF i = 1 THEN Lead(c, CBytes(c)) ELSE 128 + ((c \div 64^(CBytes(c) - i)) % 64)]

(* readc: [c, used], or Malformed (mutant: also in more bytes than needed). *)
Malformed == [c |-> -1, used |-> 0]

HasTopBits(b, n) == b >= TopBits(n) /\ b < TopBits(n + 1)
BytesSaid(b) ==
  IF \E n \in 2..6 : HasTopBits(b, n) THEN CHOOSE n \in 2..6 : HasTopBits(b, n) ELSE 7

Gather(s, i, n) ==
  LET upTo[k \in 1..n] ==
        IF k = 1 THEN s[i] - TopBits(n) ELSE (upTo[k - 1] * 64) + (s[i + k - 1] % 64)
  IN  upTo[n]

Continues(b) == b \div 64 = 2

Shortest_Any(c, n) == TRUE
Shortest(c, n) == n = CBytes(c)

ReadLong(s, i, n) ==
  IF n > 6 \/ i + n - 1 > Len(s) THEN Malformed
  ELSE IF ~\A k \in i + 1..i + n - 1 : Continues(s[k]) THEN Malformed
  ELSE IF Shortest(Gather(s, i, n), n) THEN [c |-> Gather(s, i, n), used |-> n]
  ELSE Malformed

ReadC(s, i) ==
  IF i > Len(s) THEN Malformed
  ELSE IF s[i] < 128 THEN [c |-> s[i], used |-> 1]
  ELSE ReadLong(s, i, BytesSaid(s[i]))

-----------------------------------------------------------------------------
(* nthchar: the place of the n-th character after place i, the end if there *)
(* are fewer; 0 if one on the way is malformed.                             *)
Next1(s, i) ==
  IF i = 0 \/ i > Len(s) THEN i
  ELSE IF ReadC(s, i) = Malformed THEN 0 ELSE i + ReadC(s, i).used

NthChar(s, i, n) ==
  LET at[k \in 0..n] == IF k = 0 THEN i ELSE Next1(s, at[k - 1])
  IN  IF n < 0 THEN i ELSE at[n]

Fails == -1

(* f_size *)
SizeIn(s, i) ==
  LET from[k \in i..Len(s) + 1] ==
        IF k = Len(s) + 1 THEN 0
        ELSE IF ReadC(s, k) = Malformed \/ from[k + ReadC(s, k).used] = Fails
             THEN Fails ELSE 1 + from[k + ReadC(s, k).used]
  IN  from[i]
Size(s) == SizeIn(s, 1)

(* f_strc and f_substr; errors are Fails. *)
StrC(s, n) ==
  LET i == NthChar(s, 1, n)
  IN  IF i = 0 THEN Fails ELSE ReadC(s, i).c

SubstrC(s, start, len) ==
  LET i == NthChar(s, 1, start)
      j == IF len = All THEN Len(s) + 1 ELSE NthChar(s, i, len)
  IN  IF i = 0 \/ j = 0 THEN <<Fails>> ELSE SubSeq(s, i, j - 1)

(* f_validate: a byte where no character begins becomes "unkc".             *)
ValidateStep(s, i, rest, unkc) ==
  IF ReadC(s, i) = Malformed THEN WriteC(unkc) \o rest[i + 1]
  ELSE WriteC(ReadC(s, i).c) \o rest[i + ReadC(s, i).used]

Validate(s, unkc) ==
  LET from[i \in 1..Len(s) + 1] ==
        IF i = Len(s) + 1 THEN <<>> ELSE ValidateStep(s, i, from, unkc)
  IN  from[1]

-----------------------------------------------------------------------------
(* fld and setfld, on a string as its bits: bit n is the one of weight      *)
(* 2^(7 - n % 8) of byte n \div 8.  fld takes the first bit as the highest  *)
(* of the field, setfld as the lowest.                                      *)
BitsOf(s) == [n \in 0..8 * Len(s) - 1 |-> (s[(n \div 8) + 1] \div 2^(7 - (n % 8))) % 2]

FieldFits(s, bit, flen) == bit + flen <= 8 * Len(s)

Fld(bits, bit, flen) ==
  LET upTo[i \in 0..flen] ==
        IF i = 0 THEN 0 ELSE upTo[i - 1] + bits[bit + flen - i] * 2^(i - 1)
  IN  upTo[flen]

SetFld(bits, bit, flen, v) ==
  [n \in DOMAIN bits |->
     IF n \in bit..bit + flen - 1 THEN (v \div 2^(n - bit)) % 2 ELSE bits[n]]

(* dofld with sign: of a field of at least one bit, and less than an int.   *)
SFld(bits, bit, flen) ==
  LET f == Fld(bits, bit, flen)
  IN  IF f >= 2^(flen - 1) THEN f - 2^flen ELSE f

-----------------------------------------------------------------------------
(* What they are to do.  A character that is read is the bytes that write   *)
(* it, and a string without malformed ones is its characters.               *)
ReadMeant(s, r) == r = Malformed \/ WriteC(r.c) = SubSeq(s, 1, r.used)

Chars(s) ==
  LET from[i \in 1..Len(s) + 1] ==
        IF i = Len(s) + 1 THEN <<>>
        ELSE <<ReadC(s, i).c>> \o from[i + ReadC(s, i).used]
  IN  from[1]

Encoded(chars) ==
  LET upTo[i \in 0..Len(chars)] ==
        IF i = 0 THEN <<>> ELSE upTo[i - 1] \o WriteC(chars[i])
  IN  upTo[Len(chars)]

Part(chars, n, len) ==
  SubSeq(chars, n + 1, IF n + len < Len(chars) THEN n + len ELSE Len(chars))

CharsMeant(s, n) ==
  /\ Encoded(Chars(s)) = s /\ Size(s) = Len(Chars(s))
  /\ StrC(s, n) = IF n < Size(s) THEN Chars(s)[n + 1] ELSE Fails
  /\ \A len \in 0..Size(s) + 1 :
       SubstrC(s, n, len) = Encoded(Part(Chars(s), n, len))

ValidMeant(s, valid) ==
  Size(valid) # Fails /\ (Size(s) # Fails => valid = s)

(* Writing a field leaves the bits around it, and reading it gives the      *)
(* lowest bits of what was written, in the opposite order.                  *)
Reversed(v, flen) ==
  LET upTo[i \in 0..flen] ==
        IF i = 0 THEN 0 ELSE (upTo[i - 1] * 2) + ((v \div 2^(i - 1)) % 2)
  IN  upTo[flen]

FieldMeant(bits, bit, flen, v, after) ==
  /\ \A n \in DOMAIN bits \ (bit..bit + flen - 1) : after[n] = bits[n]
  /\ Fld(after, bit, flen) = Reversed(v, flen)
  /\ flen > 0 => (SFld(after, bit, flen) - Fld(after, bit, flen)) \in {0, -(2^flen)}
                 /\ SFld(after, bit, flen) \in -(2^(flen - 1))..2^(flen - 1) - 1
===============================================================================
