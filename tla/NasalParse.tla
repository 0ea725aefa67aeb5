------------------------------ MODULE NasalParse ------------------------------
(***************************************************************************)
(* The front end of the Nasal compiler: from the words of a program to its *)
(* tree (lex.c, parse.c).  A program is the sequence of its words, each a  *)
(* token type with the value of a literal or symbol; which characters make *)
(* up a word is left out.  A syntax error leaves a "bad" node in the tree. *)
(***************************************************************************)
EXTENDS NasalScalar, Sequences, SequencesExt

(* A token, later a node.  LEFT is the first child, RIGHT the last; a node   *)
(* without one of its two operands has None there.                          *)
Token(type, val) == [type |-> type, val |-> val, kids |-> <<>>]
None  == Token("none", Nil)
Bad   == Token("bad", Nil)
Empty == Token("EMPTY", Nil)
Node(t, kids) == [t EXCEPT !.kids = kids]

LEFT(t)   == IF t.kids = <<>> THEN None ELSE Head(t.kids)
RIGHT(t)  == IF t.kids = <<>> THEN None ELSE Last(t.kids)
BINARY(t) == Len(t.kids) = 2 /\ LEFT(t).type # "none" /\ RIGHT(t).type # "none"

RECURSIVE HasError(_)
HasError(t) == t.type = "bad" \/ \E i \in DOMAIN t.kids : HasError(t.kids[i])

-----------------------------------------------------------------------------
(* lex.c, newToken: string literals in a row are one (a number before them   *)
(* is forgotten), and a "-" after an operator that binds as tightly is       *)
(* unary.                                                                    *)
AfterOperator == {"PLUS", "MINUS", "CAT", "MUL", "DIV"}

IsText(t) == t.type = "LITERAL" /\ t.val[1] = "str"
Text(t) == IF IsText(t) THEN t.val[2] ELSE ""

NewToken(toks, t) ==
  LET last == IF toks = <<>> THEN None ELSE Last(toks)
  IN  IF IsText(t) /\ last.type = "LITERAL"
      THEN Append(Front(toks), Token("LITERAL", Str(Text(last) \o Text(t))))
      ELSE IF t.type = "MINUS" /\ last.type \in AfterOperator
      THEN Append(toks, Token("NEG", Nil))
      ELSE Append(toks, t)

Lex(words) == FoldLeft(NewToken, <<>>, words)

-----------------------------------------------------------------------------
(* parse.c, first pass: braces and statements.                               *)
EndBrace(type) ==
  CASE type = "LBRA" -> "RBRA" [] type = "LPAR" -> "RPAR" [] type = "LCURL" -> "RCURL"

OpenBraces == {"LPAR", "LBRA", "LCURL"}
Loopoids   == {"FOR", "FOREACH", "WHILE", "FORINDEX"}
Blockoids  == Loopoids \cup {"IF", "ELSIF", "ELSE", "FUNC"}
BlockEnds  == {"RPAR", "RBRA", "RCURL", "ELSIF", "ELSE"}

(* Whether a semicolon is missing after t, which follows the nodes before;   *)
(* (mutant: none after a function that is assigned).                         *)
NeedsSemi_NoFunc(t, before, rest) ==
  /\ rest # <<>> /\ Head(rest).type \notin {"SEMI"} \cup BlockEnds
  /\ \/ t.type = "IF" /\ (before = <<>> \/ Last(before).type = "SEMI")
     \/ t.type \in Loopoids
NeedsSemi(t, before, rest) ==
  /\ rest # <<>> /\ Head(rest).type \notin {"SEMI"} \cup BlockEnds
  /\ \/ t.type = "IF" /\ (before = <<>> \/ Last(before).type = "SEMI")
     \/ t.type = "FUNC" /\ before # <<>> /\ Last(before).type = "ASSIGN"
     \/ t.type \in Loopoids

(* What a parsing function returns: the nodes it made, the tokens it left.   *)
Parsed(kids, rest) == [kids |-> kids, rest |-> rest, ok |-> TRUE]
Oops == [kids |-> <<>>, rest |-> <<>>, ok |-> FALSE]

RECURSIVE ParseToken(_), ParseBlock(_, _, _), ParseElses(_, _)

(* The nodes up to the token end, or to the end of a statement if that is    *)
(* "SEMI", or of the program if "TOP".                                       *)
ParseBlock(kids, end, list) ==
  IF \/ list = <<>>
     \/ Head(list).type \in BlockEnds \ {end}
     \/ end = "SEMI" /\ Head(list).type = "COMMA"
  THEN IF end \in {"SEMI", "TOP"} THEN Parsed(kids, list) ELSE Oops
  ELSE LET p == ParseToken(list)
           t == Head(p.kids)
       IN  IF ~p.ok THEN Oops
           ELSE IF t.type = end THEN Parsed(kids, p.rest)
           ELSE ParseBlock(kids \o <<t>> \o (IF NeedsSemi(t, kids, p.rest)
                                             THEN <<Token("SEMI", Nil)>> ELSE <<>>),
                           end, p.rest)

(* The body of a blockoid, with the braces it may lack.                      *)
ParseBody(list) ==
  IF list = <<>> THEN Oops
  ELSE IF Head(list).type = "LCURL" THEN ParseToken(list)
  ELSE LET p == IF Head(list).type \in Blockoids
                THEN ParseToken(list) ELSE ParseBlock(<<>>, "SEMI", list)
       IN  [p EXCEPT !.kids = <<Node(Token("LCURL", Nil), p.kids)>>]

ParseElses(kids, list) ==
  IF list = <<>> \/ Head(list).type \notin {"ELSIF", "ELSE"} THEN Parsed(kids, list)
  ELSE LET p == ParseToken(list)
       IN  IF ~p.ok THEN Oops
           ELSE IF Head(list).type = "ELSE" THEN Parsed(kids \o p.kids, p.rest)
           ELSE ParseElses(kids \o p.kids, p.rest)

ParseToken(list) ==
  LET t == Head(list)
      rest == Tail(list)
      paren == IF rest # <<>> /\ Head(rest).type = "LPAR"
               THEN ParseToken(rest) ELSE Parsed(<<>>, rest)
      body == IF paren.ok THEN ParseBody(paren.rest) ELSE Oops
      elses == IF t.type # "IF" \/ ~body.ok THEN [body EXCEPT !.kids = <<>>]
               ELSE ParseElses(<<>>, body.rest)
      proper == CASE t.type = "FUNC" -> TRUE
                  [] t.type = "ELSE" -> paren.kids = <<>>
                  [] OTHER -> paren.kids # <<>>
      block == ParseBlock(<<>>, EndBrace(t.type), rest)
  IN  IF t.type \in OpenBraces
      THEN IF block.ok THEN Parsed(<<Node(t, block.kids)>>, block.rest) ELSE Oops
      ELSE IF t.type \in Blockoids
      THEN IF elses.ok /\ proper
           THEN Parsed(<<Node(t, paren.kids \o body.kids \o elses.kids)>>, elses.rest)
           ELSE Oops
      ELSE Parsed(<<t>>, rest)

-----------------------------------------------------------------------------
(* Second pass: the operators, level by level from loose to tight.           *)
PRECEDENCE == <<
  [toks |-> {"SEMI", "COMMA"},                              rule |-> "REVERSE"],
  [toks |-> {"ELLIPSIS"},                                   rule |-> "SUFFIX"],
  [toks |-> {"RETURN", "BREAK", "CONTINUE"},                rule |-> "PREFIX"],
  [toks |-> {"ASSIGN", "PLUSEQ", "MINUSEQ", "MULEQ", "DIVEQ", "CATEQ"},
                                                            rule |-> "REVERSE"],
  [toks |-> {"COLON", "QUESTION"},                          rule |-> "REVERSE"],
  [toks |-> {"VAR"},                                        rule |-> "PREFIX"],
  [toks |-> {"OR"},                                         rule |-> "BINARY"],
  [toks |-> {"AND"},                                        rule |-> "BINARY"],
  [toks |-> {"EQ", "NEQ"},                                  rule |-> "BINARY"],
  [toks |-> {"LT", "LTE", "GT", "GTE"},                     rule |-> "BINARY"],
  [toks |-> {"PLUS", "MINUS", "CAT"},                       rule |-> "BINARY"],
  [toks |-> {"MUL", "DIV"},                                 rule |-> "BINARY"],
  [toks |-> {"MINUS", "NEG", "NOT"},                        rule |-> "PREFIX"],
  [toks |-> {"LPAR", "LBRA"},                               rule |-> "SUFFIX"],
  [toks |-> {"DOT"},                                        rule |-> "BINARY"] >>

(* An empty operand for a separator at either end.                           *)
OneSidedBinary == {"SEMI", "COMMA", "COLON"}

Sided(list) ==
  (IF Head(list).type \in OneSidedBinary THEN <<Empty>> ELSE <<>>)
  \o list \o
  (IF Last(list).type \in OneSidedBinary THEN <<Empty>> ELSE <<>>)

(* Where the list is split at a level: at its first or last token, or at the *)
(* last (BINARY) or first (REVERSE) inside; 0 if nowhere (mutant: binary     *)
(* operators group to the right).                                            *)
SplitAt_Right(list, level) ==
  LET In(t) == t.type \in PRECEDENCE[level].toks
      n == Len(list)
  IN  CASE PRECEDENCE[level].rule = "PREFIX"  -> IF In(list[1]) THEN 1 ELSE 0
        [] PRECEDENCE[level].rule = "SUFFIX"  -> IF In(list[n]) THEN n ELSE 0
        [] OTHER -> SelectInSubSeq(list, 2, n - 1, In)
SplitAt(list, level) ==
  LET In(t) == t.type \in PRECEDENCE[level].toks
      n == Len(list)
  IN  CASE PRECEDENCE[level].rule = "PREFIX"  -> IF In(list[1]) THEN 1 ELSE 0
        [] PRECEDENCE[level].rule = "SUFFIX"  -> IF In(list[n]) THEN n ELSE 0
        [] PRECEDENCE[level].rule = "BINARY"  -> SelectLastInSubSeq(list, 2, n - 1, In)
        [] PRECEDENCE[level].rule = "REVERSE" -> SelectInSubSeq(list, 2, n - 1, In)

RECURSIVE ParsePrecedence(_, _), PrecBlock(_)

PrecChildren(t) == Node(t, <<ParsePrecedence(t.kids, 1)>>)

PrecBlock(t) ==
  Node(t, [i \in DOMAIN t.kids |->
             IF t.kids[i].type \in OpenBraces THEN PrecChildren(t.kids[i])
             ELSE IF t.kids[i].type \in Blockoids THEN PrecBlock(t.kids[i])
             ELSE t.kids[i]])

(* The top of the list at a level.  "." binds tighter than a call or an      *)
(* index, but one of these at the end is applied to all before it.           *)
ParsePrecedence(list, level) ==
  IF list = <<>> THEN Empty
  ELSE IF Len(list) = 1
  THEN CASE list[1].type \in OpenBraces -> PrecChildren(list[1])
         [] list[1].type \in Blockoids -> PrecBlock(list[1])
         [] OTHER -> list[1]
  ELSE IF level > Len(PRECEDENCE) THEN Bad
  ELSE
    LET l == Sided(list)
        dot == PRECEDENCE[level].toks = {"DOT"} /\ Last(l).type \in {"LPAR", "LBRA"}
        lev == IF dot THEN level - 1 ELSE level
        at == SplitAt(l, lev)
        before == SubSeq(l, 1, at - 1)
        after  == SubSeq(l, at + 1, Len(l))
        Inside(t) == IF t.kids = <<>> THEN None ELSE ParsePrecedence(t.kids, 1)
    IN  IF at = 0 THEN ParsePrecedence(l, level + 1)
        ELSE CASE PRECEDENCE[lev].rule = "PREFIX" ->
                    Node(l[at], <<Inside(l[at]), ParsePrecedence(after, lev)>>)
               [] PRECEDENCE[lev].rule = "SUFFIX" ->
                    Node(l[at], <<ParsePrecedence(before, lev), Inside(l[at])>>)
               [] PRECEDENCE[lev].rule = "BINARY" ->
                    Node(l[at], <<ParsePrecedence(before, lev),
                                  ParsePrecedence(after, lev + 1)>>)
               [] PRECEDENCE[lev].rule = "REVERSE" ->
                    Node(l[at], <<ParsePrecedence(before, lev + 1),
                                  ParsePrecedence(after, lev)>>)

(* naParseCode up to the generation of code.                                 *)
ParseCode(words) ==
  LET p == ParseBlock(<<>>, "TOP", Lex(words))
  IN  IF ~p.ok \/ p.rest # <<>> THEN Bad
      ELSE Node(Token("TOP", Nil), <<ParsePrecedence(p.kids, 1)>>)
=============================================================================
