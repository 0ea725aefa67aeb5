-------------------------------- MODULE NasalText --------------------------------
(***************************************************************************)
(* The string functions of Nasal's library, on strings that are sequences  *)
(* of bytes.  Places count from 0, as in Nasal.                            *)
(***************************************************************************)
EXTENDS Integers, Sequences

At(s, i) == s[i + 1]
Slice(s, start, len) == SubSeq(s, start + 1, start + len)

(* f_substr; "all" stands for a length that is not given. *)
CONSTANT All

SubstrStart(srclen, start) ==
  LET i == IF start < 0 THEN start + srclen ELSE start
  IN  IF i < 0 \/ i >= srclen THEN 0 ELSE i

Outside(srclen, start) ==
  LET i == IF start < 0 THEN start + srclen ELSE start
  IN  i < 0 \/ i >= srclen

Wanted(srclen, start, len) ==
  IF Outside(srclen, start) THEN 0
  ELSE IF len = All THEN srclen - start ELSE len

SubstrLen(srclen, start, len) ==
  LET n == Wanted(srclen, start, len)
      room == srclen - SubstrStart(srclen, start)
  IN  IF n < 0 THEN 0 ELSE IF n > room THEN room ELSE n

Substr(s, start, len) ==
  Slice(s, SubstrStart(Len(s), start), SubstrLen(Len(s), start, len))

(* match and find: from "start" on, which is not negative; the empty string *)
(* is found at the beginning.                                               *)
MatchesAt(a, s, i) == \A k \in 0..Len(a) - 1 : At(a, k) = At(s, i + k)
FindLast(a, s) == Len(s) - Len(a)

Find(a, s, start) ==
  IF a = <<>> THEN 0
  ELSE LET places == {i \in start..FindLast(a, s) : MatchesAt(a, s, i)}
       IN  IF places = {} THEN -1
           ELSE CHOOSE i \in places : \A j \in places : i <= j

(* f_cmp: bytes compare as signed chars. *)
CharValue(c) == IF c > 127 THEN c - 256 ELSE c

Cmp(a, b) ==
  LET short == IF Len(a) < Len(b) THEN Len(a) ELSE Len(b)
      diffs == {i \in 0..short - 1 : At(a, i) # At(b, i)}
  IN  IF diffs # {}
      THEN LET i == CHOOSE i \in diffs : \A j \in diffs : i <= j
           IN  IF CharValue(At(a, i)) < CharValue(At(b, i)) THEN -1 ELSE 1
      ELSE IF Len(a) = Len(b) THEN 0 ELSE IF Len(a) < Len(b) THEN -1 ELSE 1

-----------------------------------------------------------------------------
(* f_split: one pass over the places, with the start of the next piece;     *)
(* after a delimiter the search goes on behind it (mutant: at the next      *)
(* place, inside of it).                                                    *)
SkipTo_Next(d, i) == i + 1
SkipTo(d, i) == i + Len(d)

SplitStep(d, s, acc, i) ==
  IF i < acc.next \/ ~MatchesAt(d, s, i) THEN acc
  ELSE [pieces |-> Append(acc.pieces, Slice(s, acc.s0, i - acc.s0)),
        s0 |-> i + Len(d), next |-> SkipTo(d, i)]

Scan(d, s) ==
  LET last == IF Len(s) < Len(d) THEN -1 ELSE Len(s) - Len(d)
      upTo[i \in -1..last] ==
        IF i = -1 THEN [pieces |-> <<>>, s0 |-> 0, next |-> 0]
        ELSE SplitStep(d, s, upTo[i - 1], i)
  IN  upTo[last]

Split(d, s) ==
  IF d = <<>> THEN [i \in 1..Len(s) |-> <<s[i]>>]
  ELSE LET end == Scan(d, s)
       IN  IF end.s0 <= Len(s)
           THEN Append(end.pieces, Slice(s, end.s0, Len(s) - end.s0))
           ELSE end.pieces

-----------------------------------------------------------------------------
(* nextFormat: the next specifier from place i on, as its place, length and *)
(* type, or why there is none.                                              *)
Percent == 37
Dot == 46
FlagChars == {45, 43, 32, 48, 35}  \* - + space 0 #
Digit == 48..57
Text == 0..255 \ {Percent}

AfterAll(s, i, chars) ==
  CHOOSE j \in i..Len(s) : /\ j = Len(s) \/ At(s, j) \notin chars
                           /\ \A k \in i..j - 1 : At(s, k) \in chars

AfterDot(s, i) == IF i < Len(s) /\ At(s, i) = Dot THEN i + 1 ELSE i

TypeAt(s, flagsEnd) ==
  AfterAll(s, AfterDot(s, AfterAll(s, flagsEnd, Digit)), Digit)

RepeatedFlag(s, from, to) ==
  \E j, k \in from..to - 1 : j < k /\ At(s, j) = At(s, k)

FormatFrom(s, p, flagsEnd, t) ==
  IF p = Len(s) THEN [kind |-> "none", start |-> p, len |-> 0, type |-> 0]
  ELSE IF RepeatedFlag(s, p + 1, flagsEnd) \/ t = Len(s)
       THEN [kind |-> "bad", start |-> p, len |-> 0, type |-> 0]
  ELSE [kind |-> "spec", start |-> p, len |-> t + 1 - p, type |-> At(s, t)]

NextFormatAt(s, p) ==
  IF p = Len(s) THEN FormatFrom(s, p, p, p)
  ELSE LET flagsEnd == AfterAll(s, p + 1, FlagChars)
       IN  FormatFrom(s, p, flagsEnd, TypeAt(s, flagsEnd))

NextFormat(s, i) == NextFormatAt(s, AfterAll(s, i, Text))

(* f_sprintf, as the pieces it puts together: bytes of the format, and an   *)
(* argument, a number, with the specifier it is written by.  The format is  *)
(* cut behind the specifier while the piece is made, and stays cut after    *)
(* the error for a type it does not know.                                   *)
Conversions == {115, 100, 105, 99, 111, 117, 120, 88, 101, 69, 102, 70, 103, 71}
               \* s d i c o u x X e E f F g G

Piece(kind, s, n) == [kind |-> kind, text |-> s, arg |-> n]
Begin(s) == [out |-> <<>>, at |-> 0, argn |-> 1, state |-> "going", format |-> s]

Stop(acc, why, s) == [acc EXCEPT !.state = why, !.format = s]
Put(acc, text, f, piece, argn) ==
  [acc EXCEPT !.out = acc.out \o <<text, piece>>, !.at = f.start + f.len,
              !.argn = argn]

FormatStep(s, argc, acc, f, text) ==
  CASE acc.state # "going" -> acc
    [] f.kind = "none" -> Stop([acc EXCEPT !.out = Append(acc.out, text)], "done", s)
    [] f.kind = "bad" -> Stop(acc, "error", s)
    [] f.kind = "spec" /\ f.len = 2 /\ f.type = Percent ->
         Put(acc, text, f, Piece("text", <<Percent>>, 0), acc.argn)
    [] f.kind = "spec" /\ ~(f.len = 2 /\ f.type = Percent) ->
         IF acc.argn > argc THEN Stop(acc, "error", s)
         ELSE IF f.type \notin Conversions
              THEN Stop(acc, "error", Slice(s, 0, f.start + f.len))
         ELSE Put(acc, text, f, Piece("arg", Slice(s, f.start, f.len), acc.argn),
                  acc.argn + 1)

FormatOnce(s, argc, acc) ==
  LET f == NextFormat(s, acc.at)
  IN  FormatStep(s, argc, acc, f,
                 Piece("text", Slice(s, acc.at, f.start - acc.at), 0))

Sprintf(s, argc) ==
  LET after[n \in 0..Len(s) + 1] ==
        IF n = 0 THEN Begin(s) ELSE FormatOnce(s, argc, after[n - 1])
  IN  after[Len(s) + 1]

-----------------------------------------------------------------------------
(* What they are to do. *)

(* The longest part of s from a place on that is not too long.              *)
IsPart(r, s, from) ==
  Len(r) <= Len(s) - from /\ \A k \in 0..Len(r) - 1 : At(r, k) = At(s, from + k)

SubstrMeant(s, start, len, r) ==
  LET from == IF start < 0 THEN start + Len(s) ELSE start
  IN  IF from \notin 0..Len(s) - 1 THEN r = <<>>
      ELSE /\ IsPart(r, s, from)
           /\ len # All /\ len < 0 => r = <<>>
           /\ len # All /\ len >= 0 => Len(r) <= len
           /\ Len(r) = Len(s) - from \/ (len # All /\ (len < 0 \/ Len(r) = len))

Join(d, pieces) ==
  LET upTo[i \in 0..Len(pieces)] ==
        IF i = 0 THEN <<>>
        ELSE upTo[i - 1] \o (IF i = 1 THEN <<>> ELSE d) \o pieces[i]
  IN  upTo[Len(pieces)]

(* Put together with the delimiter the pieces make the string, and no piece *)
(* could have ended earlier.                                                *)
SplitMeant(d, s, pieces) ==
  IF d = <<>> THEN Join(d, pieces) = s /\ \A i \in DOMAIN pieces : Len(pieces[i]) = 1
  ELSE /\ Join(d, pieces) = s
       /\ \A i \in 1..Len(pieces) - 1 : Find(d, pieces[i] \o d, 0) = Len(pieces[i])
       /\ pieces # <<>> /\ Find(d, pieces[Len(pieces)], 0) = -1

CmpMeant(a, b, r) == (r = 0 <=> a = b) /\ Cmp(b, a) = -r

(* The pieces make the format, and take the arguments one after the other;  *)
(* a format is cut by an error only.                                        *)
AsWritten(piece) ==
  IF piece.kind = "text" /\ piece.text = <<Percent>> THEN <<Percent, Percent>>
  ELSE piece.text

ArgsOf(out) == SelectSeq(out, LAMBDA piece : piece.kind = "arg")

SprintfMeant(s, argc, r) ==
  /\ r.state \in {"done", "error"}
  /\ r.state = "done" =>
       /\ r.format = s
       /\ Join(<<>>, [i \in DOMAIN r.out |-> AsWritten(r.out[i])]) = s
       /\ Len(ArgsOf(r.out)) <= argc
  /\ \A i \in DOMAIN ArgsOf(r.out) :
       LET t == ArgsOf(r.out)[i].text
       IN  ArgsOf(r.out)[i].arg = i /\ At(t, 0) = Percent
           /\ At(t, Len(t) - 1) \in Conversions
===============================================================================
