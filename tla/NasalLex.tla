-------------------------------- MODULE NasalLex --------------------------------
(***************************************************************************)
(* The words of a Nasal program (lex.c): from a source that is a sequence  *)
(* of bytes, whose places count from 1, to tokens with their lines.  The   *)
(* first line is line 1, as for every caller of the parser.                *)
(***************************************************************************)
EXTENDS NasalNumbers, NasalBytes, FiniteSets

CONSTANT LEXEMES  \* the words and signs of the language, sequences of bytes

Quote == 34
SingleQuote == 39
BackQuote == 96
Backslash == 92
LowerX == 120
Newline == 10
Return == 13
Hash == 35
White == {32, 9, 10, 13, 12, 11}

-----------------------------------------------------------------------------
(* findLines, getLine, lineEnd.  The end of a line belongs to the next one. *)
LineEnds(s) ==
  {i \in DOMAIN s : s[i] = Newline \/ (s[i] = Return /\ ByteAt(s, i + 1) # Newline)}

EndsUpTo(s, i) == Cardinality({e \in LineEnds(s) : e <= i})
GetLine(s, i) == 1 + EndsUpTo(s, i)

LineEnd(s, line) ==
  IF line > Cardinality(LineEnds(s)) THEN Len(s) + 1
  ELSE CHOOSE e \in LineEnds(s) : EndsUpTo(s, e) = line

-----------------------------------------------------------------------------
(* What a backslash makes, and how many bytes it takes; none if it is an    *)
(* error.                                                                   *)
Hex(c) ==
  CASE c \in 48..57 -> c - 48
    [] c \in 65..70 -> c - 55
    [] c \in 97..102 -> c - 87
    [] OTHER -> -1

BadEscape == [char |-> 0, eaten |-> 0]
Escape(char, eaten) == [char |-> char, eaten |-> eaten]

SqEscape(s, i) ==
  IF i = Len(s) THEN BadEscape
  ELSE IF s[i + 1] = SingleQuote THEN Escape(SingleQuote, 2)
  ELSE Escape(Backslash, 1)

(* The bytes that stand for another one, or for themselves: " r n t \ `     *)
Named == [c \in {34, 114, 110, 116, 92, 96} |->
            CASE c = 114 -> Return [] c = 110 -> Newline [] c = 116 -> 9 [] OTHER -> c]

DqEscape(s, i) ==
  IF i = Len(s) THEN BadEscape
  ELSE IF s[i + 1] \in DOMAIN Named THEN Escape(Named[s[i + 1]], 2)
  ELSE IF s[i + 1] # LowerX THEN Escape(Backslash, 1)
  ELSE IF i + 3 > Len(s) \/ Hex(s[i + 2]) < 0 \/ Hex(s[i + 3]) < 0 THEN BadEscape
  ELSE Escape(16 * Hex(s[i + 2]) + Hex(s[i + 3]), 4)

CharAt(s, i, q) ==
  IF s[i] # Backslash THEN Escape(s[i], 1)
  ELSE IF q = SingleQuote THEN SqEscape(s, i) ELSE DqEscape(s, i)

(* lexStringLiteral: the text and the place behind it, which is 0 after an  *)
(* error.  The end of the source closes the string as well.                 *)
Literal(text, next) == [text |-> text, next |-> next]
Before(char, lit) ==
  IF lit.next = 0 THEN lit ELSE Literal(<<char>> \o lit.text, lit.next)

LexString(s, i) ==
  LET from[k \in i + 1..Len(s) + 1] ==
        IF k = Len(s) + 1 \/ ByteAt(s, k) = s[i] THEN Literal(<<>>, k + 1)
        ELSE LET c == CharAt(s, k, s[i])
             IN  IF c = BadEscape THEN Literal(<<>>, 0)
                 ELSE Before(c.char, from[k + c.eaten])
  IN  from[i + 1]

-----------------------------------------------------------------------------
(* lexNumLiteral and lexHexLiteral: the number and the place behind it.     *)
IsHex(s, i) == s[i] = Zero /\ ByteAt(s, i + 1) = LowerX /\ Hex(ByteAt(s, i + 2)) >= 0

HexEnd(s, i) ==
  CHOOSE j \in i..Len(s) + 1 :
    Hex(ByteAt(s, j)) < 0 /\ \A k \in i..j - 1 : Hex(s[k]) >= 0

HexValue(s, i, j) ==
  LET upTo[k \in i - 1..j - 1] == IF k < i THEN 0 ELSE upTo[k - 1] * 16 + Hex(s[k])
  IN  upTo[j - 1]

FractionEnd(s, i) ==
  LET j == EndOfDigits(s, i)
  IN  IF ByteAt(s, j) = Point THEN EndOfDigits(s, j + 1) ELSE j

StartsExponent(s, j) ==
  /\ ByteAt(s, j) \in {LowerE, UpperE}
  /\ IsDigit(ByteAt(s, j + 1)) \/ IsSign(ByteAt(s, j + 1))

NumberEnd(s, i) ==
  LET j == FractionEnd(s, i)
  IN  IF ~StartsExponent(s, j) THEN j
      ELSE EndOfDigits(s, IF IsSign(s[j + 1]) THEN j + 2 ELSE j + 1)

LexNumber(s, i) ==
  IF IsHex(s, i)
  THEN [num |-> Number(1, HexValue(s, i + 2, HexEnd(s, i + 2)), 0),
        next |-> HexEnd(s, i + 2)]
  ELSE [num |-> ToNum(SubSeq(s, i, NumberEnd(s, i) - 1)), next |-> NumberEnd(s, i)]

-----------------------------------------------------------------------------
(* trySymbol and tryLexemes: how many bytes they take. *)
Letters == (65..90) \union (97..122) \union {95}

SymbolLength(s, i) ==
  IF s[i] \notin Letters THEN 0
  ELSE CHOOSE n \in 1..Len(s) + 1 - i :
         /\ \A k \in i..i + n - 1 : s[k] \in Letters \union Digit
         /\ ByteAt(s, i + n) \notin Letters \union Digit

Prefixes(s, i) ==
  {l \in LEXEMES : \A k \in DOMAIN l : ByteAt(s, i + k - 1) = l[k]}

LexemeLength(s, i) ==
  IF Prefixes(s, i) = {} THEN 0
  ELSE CHOOSE n \in {Len(l) : l \in Prefixes(s, i)} :
         \A l \in Prefixes(s, i) : Len(l) <= n

-----------------------------------------------------------------------------
(* newToken: strings in a row are one, and one after a number takes its     *)
(* place.                                                                   *)
Token(type, text, num, line) ==
  [type |-> type, text |-> text, num |-> num, line |-> line]

IsLiteral(t) == t.type \in {"string", "number"}

AddToken(toks, t) ==
  IF t.type = "string" /\ toks # <<>> /\ IsLiteral(toks[Len(toks)])
  THEN [toks EXCEPT ![Len(toks)] =
          Token("string", @.text \o t.text, NoNumber, @.line)]
  ELSE Append(toks, t)

(* naLex: "at" is the place it has come to, "ok" whether there was no error.*)
Goes(acc, next) == [acc EXCEPT !.at = next]
Adds(acc, s, type, text, num, next) ==
  [acc EXCEPT !.at = next,
              !.toks = AddToken(@, Token(type, text, num, GetLine(s, acc.at)))]
Errs(acc) == [acc EXCEPT !.ok = FALSE]

LexChar(acc, s, lit) ==
  LET r == ReadC(lit.text, 1)
  IN  IF r = Malformed \/ r.used # Len(lit.text) THEN Errs(acc)
      ELSE Adds(acc, s, "number", <<>>, Number(1, r.c, 0), lit.next)

LexQuoted(acc, s, lit) ==
  IF lit.next = 0 THEN Errs(acc)
  ELSE IF s[acc.at] = BackQuote THEN LexChar(acc, s, lit)
  ELSE Adds(acc, s, "string", lit.text, NoNumber, lit.next)

LexWord(acc, s, sym, lex) ==
  LET i == acc.at
  IN  IF lex > 0 /\ lex >= sym
      THEN Adds(acc, s, "lexeme", SubSeq(s, i, i + lex - 1), NoNumber, i + lex)
      ELSE IF sym > 0
      THEN Adds(acc, s, "symbol", SubSeq(s, i, i + sym - 1), NoNumber, i + sym)
      ELSE Errs(acc)

StartsNumber(s, i) ==
  IsDigit(s[i]) \/ (s[i] = Point /\ IsDigit(ByteAt(s, i + 1)))

LexStep(acc, s) ==
  LET i == acc.at
  IN  IF i > Len(s) \/ ~acc.ok THEN acc
      ELSE CASE s[i] \in White -> Goes(acc, i + 1)
        [] s[i] = Hash -> Goes(acc, LineEnd(s, GetLine(s, i)))
        [] s[i] \in {Quote, SingleQuote, BackQuote} ->
             LexQuoted(acc, s, LexString(s, i))
        [] OTHER ->
             IF StartsNumber(s, i)
             THEN Adds(acc, s, "number", <<>>, LexNumber(s, i).num, LexNumber(s, i).next)
             ELSE LexWord(acc, s, SymbolLength(s, i), LexemeLength(s, i))

NoTokens == [at |-> 1, toks |-> <<>>, ok |-> TRUE]

NaLex(s) ==
  LET after[n \in 0..Len(s)] ==
        IF n = 0 THEN NoTokens ELSE LexStep(after[n - 1], s)
  IN  after[Len(s)]

-----------------------------------------------------------------------------
(* What it is to do.  Tokens written one after the other are read as the    *)
(* same tokens, in lines of their own; strings in either kind of quotes,    *)
(* but for one that ends in a backslash.                                    *)
Escaped(text, chars) ==
  LET upTo[k \in 0..Len(text)] ==
        IF k = 0 THEN <<>>
        ELSE upTo[k - 1] \o (IF text[k] \in chars THEN <<Backslash>> ELSE <<>>)
                         \o <<text[k]>>
  IN  upTo[Len(text)]

InQuotes(text) == <<Quote>> \o Escaped(text, {Quote, Backslash}) \o <<Quote>>
InSingle(text) == <<SingleQuote>> \o Escaped(text, {SingleQuote}) \o <<SingleQuote>>

Spelled(t) ==
  CASE t.type = "string" -> InQuotes(t.text)
    [] t.type = "number" -> DecPrint(t.num.man) \o <<LowerE>>
                            \o Signed(t.num.exp < 0,
                                      DecPrint(IF t.num.exp < 0 THEN -t.num.exp
                                               ELSE t.num.exp))
    [] OTHER -> t.text

SameToken(t, u) ==
  /\ t.type = u.type /\ t.text = u.text
  /\ t.type = "number" => SameValue(t.num, u.num)
SameTokens(ts, us) ==
  DOMAIN ts = DOMAIN us /\ \A i \in DOMAIN ts : SameToken(ts[i], us[i])

StringRead(quoted, text) ==
  LET r == NaLex(quoted) IN r.ok /\ SameTokens(r.toks, <<Token("string", text, NoNumber, 1)>>)

RespelledMeant(toks) ==
  /\ SameTokens(NaLex(Join(<<Newline>>, [i \in DOMAIN toks |-> Spelled(toks[i])])).toks, toks)
  /\ \A i \in DOMAIN toks :
       LET text == toks[i].text
       IN  toks[i].type = "string" =>
             /\ StringRead(InQuotes(text), text)
             /\ text = <<>> \/ text[Len(text)] # Backslash => StringRead(InSingle(text), text)

(* A number at the beginning that a string takes the place of.  A literal   *)
(* and a string in a row are left of it, a number and a string.             *)
StartsAsNumber(s) ==
  \E k \in DOMAIN s : LET toks == NaLex(SubSeq(s, 1, k)).toks
                       IN  toks # <<>> /\ toks[1].type = "number"

NumberLostFirst(s, toks) ==
  toks # <<>> /\ toks[1].type = "string" /\ StartsAsNumber(s)

NumberLost(toks) ==
  \E i \in 1..Len(toks) - 1 : IsLiteral(toks[i]) /\ toks[i + 1].type = "string"

(* A line is read on its own, unless a string goes on in the next one, and  *)
(* the tokens of the next have its number.                                  *)
Moved(toks, lines) == [i \in DOMAIN toks |-> [toks[i] EXCEPT !.line = @ + lines]]

Together(toks, more) ==
  LET upTo[k \in 0..Len(more)] ==
        IF k = 0 THEN toks ELSE AddToken(upTo[k - 1], more[k])
  IN  upTo[Len(more)]

LineMeant(s, r, e, first, rest) ==
  first.ok /\ first.at = e + 1 /\ ~NumberLostFirst(SubSeq(s, e + 1, Len(s)), rest.toks) =>
    /\ r.ok <=> rest.ok
    /\ r.ok => r.toks = Together(first.toks, Moved(rest.toks, EndsUpTo(s, e)))

LinesMeant(s, r) ==
  \A e \in LineEnds(s) :
    LineMeant(s, r, e, NaLex(SubSeq(s, 1, e)), NaLex(SubSeq(s, e + 1, Len(s))))

(* A character constant is the one character between its quotes.            *)
CharMeant(s, r) ==
  s # <<>> /\ s[1] = BackQuote /\ LexString(s, 1).next > Len(s) /\ r.ok =>
    WriteC(r.toks[1].num.man) = LexString(s, 1).text

LexMeant(s, r) ==
  /\ LinesMeant(s, r) /\ CharMeant(s, r)
  /\ r.ok => r.at > Len(s) /\ (RespelledMeant(r.toks) \/ NumberLost(r.toks))
===============================================================================
