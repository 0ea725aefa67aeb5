-------------------------------- MODULE MCNasal --------------------------------
(***************************************************************************)
(* The compiler and virtual machine on families of small programs, against  *)
(* what these mean.                                                         *)
(***************************************************************************)
EXTENDS NasalShape, NasalCodegen

CONSTANT Meanings   \* what each program should come to

M == INSTANCE NasalMeaning WITH MaxDepth <- MAX_RECURSION

N(n) == <<"lit", Num(n)>>
S(s) == <<"lit", Str(s)>>
V(x) == <<"sym", x>>
Let_(x, e) == <<"set", <<"var", x>>, e>>
Set_(x, e) == <<"set", V(x), e>>
B(o, l, r) == <<"bin", o, l, r>>
F0(body) == <<"func", <<>>, <<>>, "arg", body>>
F1(x, body) == <<"func", <<x>>, <<>>, "", body>>
C(f, args) == <<"call", V(f), args>>
X(v, i) == <<"index", v, i>>
D(o, n) == <<"member", o, n>>
L(es) == <<"vec", es>>
When(c, body) == <<"if", <<(<<c, body>>)>>, <<>>>>
NilLit == <<"lit", Nil>>

Over(xs, P(_)) == [i \in DOMAIN xs |-> P(xs[i])]
Over2(xs, ys, P(_, _)) == FlattenSeq([i \in DOMAIN xs |-> [j \in DOMAIN ys |-> P(xs[i], ys[j])]])

(* Two binary operators in either grouping, with operands that divide evenly.*)
BinaryOps == <<"MUL", "PLUS", "MINUS", "CAT", "LT", "GTE", "EQ", "NEQ", "AND", "OR">>
Pairs == Over2(BinaryOps, BinaryOps, LAMBDA o, p : <<B(p, B(o, N(7), N(3)), N(2))>>)
         \o Over2(BinaryOps, BinaryOps, LAMBDA o, p : <<B(o, N(7), B(p, N(3), N(2)))>>)
Divisions == << <<B("DIV", B("DIV", N(24), N(6)), N(2))>>, <<B("DIV", N(24), B("DIV", N(6), N(2)))>>,
                <<B("MUL", B("DIV", N(24), N(6)), N(2))>>, <<B("DIV", N(24), B("MINUS", N(6), N(2)))>>,
                <<B("MINUS", N(24), B("DIV", N(6), N(2)))>> >>
(* Unary operators, the conditional and assignment beside a binary one.      *)
Mixed == FlattenSeq(Over(BinaryOps, LAMBDA o : <<
  <<B(o, <<"neg", N(7)>>, N(3))>>, <<B(o, N(7), <<"neg", N(3)>>)>>, <<(<<"neg", B(o, N(7), N(3))>>)>>,
  <<B(o, <<"not", N(7)>>, N(3))>>, <<(<<"not", B(o, N(7), N(3))>>)>>,
  <<(<<"cond", B(o, N(7), N(7)), N(5), N(6)>>)>>, <<B(o, <<"cond", N(0), N(5), N(6)>>, N(3))>>,
  <<(<<"cond", N(0), N(5), B(o, N(6), N(3))>>)>>,
  <<Let_("x", N(4)), B(o, Set_("x", N(5)), V("x"))>>,
  <<Let_("x", B(o, N(4), N(1))), V("x")>> >>))
Conds == << <<(<<"cond", N(0), N(1), <<"cond", N(1), N(2), N(3)>>>>)>>,
            <<(<<"cond", <<"cond", N(0), N(1), N(0)>>, N(2), N(3)>>)>>,
            <<(<<"cond", N(1), <<"cond", N(0), N(1), N(4)>>, N(3)>>)>>,
            <<Let_("x", N(1)), Let_("y", Set_("x", N(2))), B("PLUS", V("x"), V("y"))>>,
            <<(<<"neg", <<"neg", N(3)>>>>)>>, <<(<<"not", <<"neg", N(3)>>>>)>>,
            <<B("PLUS", S("3"), N(4))>>, <<B("EQ", S("3"), N(3))>>, <<(<<"not", S("")>>)>>,
            <<B("CAT", L(<<N(1)>>), L(<<N(2)>>))>>, <<B("PLUS", S("a"), N(1))>>,
            <<B("OR", NilLit, S("x"))>>, <<(<<"not", L(<<>>)>>)>>, <<B("CAT", L(<<>>), N(1))>>,
            <<(<<"neg", V("size")>>)>>, <<When(L(<<>>), <<N(1)>>)>> >>

(* A loop in a loop, left in every way at the second round of the inner one. *)
LoopKinds == <<"while", "for", "FOREACH", "FORINDEX">>
Digits == L(<<N(0), N(1), N(2)>>)
OneLoop(kind, x, body) ==
  CASE kind = "while" -> <<Let_(x, <<"neg", N(1)>>),
           <<"while", x, B("LT", <<"op", "PLUS", V(x), N(1)>>, N(3)), body>>>>
    [] kind = "for" -> <<(<<"for", x, Let_(x, N(0)), B("LT", V(x), N(3)),
                           <<"op", "PLUS", V(x), N(1)>>, body>>)>>
    [] OTHER -> <<(<<"each", kind, x, <<"var", x>>, Digits, body>>)>>
Exits == << <<"break", "">>, <<"continue", "">>, <<"break", "i">>, <<"continue", "i">>,
            <<"continue", "j">>, <<"return", V("r")>> >>
Loops == FlattenSeq(Over2(LoopKinds, LoopKinds, LAMBDA k, l : Over(Exits, LAMBDA x :
  <<Let_("r", S("")),
    Let_("f", F0(OneLoop(k, "i", OneLoop(l, "j",
      <<When(B("EQ", V("j"), N(1)), <<x>>), <<"op", "CAT", V("r"), B("CAT", V("i"), V("j"))>>>>)
      \o <<(<<"op", "CAT", V("r"), S(".")>>)>>) \o <<V("r")>>)),
    B("CAT", C("f", <<>>), V("r"))>>)))

(* Functions: parameters of every kind, called by position and by name.      *)
Params == FlattenSeq(Over2(<< <<>>, <<"a">>, <<"a", "b">> >>,
                           << <<>>, << <<"o", Num(8)>> >>, << <<"o", Num(8)>>, <<"p", Nil>> >> >>,
  LAMBDA r, o : <<(<<r, o, "">>), <<r, o, "rest">>>>))
ShowParams(p) ==
  L(Over(p[1], LAMBDA a : V(a)) \o Over(p[2], LAMBDA o : V(o[1]))
    \o (IF p[3] = "" THEN <<>> ELSE <<V(p[3])>>))
Calls_ == Over2(Params, << <<>>, <<N(1)>>, <<N(1), N(2)>>, <<N(1), N(2), N(3), N(4), N(5)>> >>,
  LAMBDA p, args : <<Let_("f", <<"func", p[1], p[2], p[3], <<ShowParams(p)>>>>), C("f", args)>>)
Named == Over2(Params, << << <<"a", N(1)>> >>, << <<"b", N(2)>>, <<"a", N(1)>> >>,
                          << <<"a", N(1)>>, <<"b", N(2)>>, <<"o", N(3)>> >> >>,
  LAMBDA p, ps : <<Let_("f", <<"func", p[1], p[2], p[3], <<ShowParams(p)>>>>),
                   <<"named", V("f"), ps>>>>)

Counter == F0(<<Let_("n", N(0)), <<"return", F0(<<(<<"op", "PLUS", V("n"), N(1)>>)>>)>>>>)
Point == <<"hash", << <<Str("x"), N(3)>>,
                      <<Str("get"), F1("k", <<B("MUL", D(V("me"), "x"), V("k"))>>)>>,
                      <<Str("put"), F1("k", <<(<<"set", D(V("me"), "x"), V("k")>>)>>)>> >>>>
Child == <<"hash", << <<Str("parents"), L(<<V("p"), V("q")>>)>>, <<Str("y"), N(5)>> >>>>
Method(o, n, args) == <<"call", D(o, n), args>>
Scopes_ == <<
  <<Let_("c", Counter), Let_("u", C("c", <<>>)), Let_("w", C("c", <<>>)),
    C("u", <<>>), C("u", <<>>), L(<<C("u", <<>>), C("w", <<>>)>>)>>,
  <<Let_("n", N(1)), Let_("f", F0(<<Let_("n", N(2)), Set_("n", N(3)), V("n")>>)),
    L(<<C("f", <<>>), V("n")>>)>>,
  <<Let_("n", N(1)), Let_("f", F0(<<Set_("n", N(3)), Set_("m", N(4)), V("m")>>)),
    L(<<C("f", <<>>), V("n")>>)>>,
  <<Let_("n", N(1)), C("f", <<>>)>>,
  <<Let_("f", F1("n", <<V("n")>>)), C("f", <<N(1)>>), V("n")>>,
  <<Let_("p", Point), Let_("q", Point), <<"set", D(V("q"), "z"), N(9)>>, Let_("o", Child),
    Method(V("o"), "put", <<N(7)>>), L(<<Method(V("o"), "get", <<N(2)>>), D(V("o"), "z"), V("p")>>)>>,
  <<Let_("p", Point), D(V("p"), "nope")>>,
  <<D(N(1), "x")>>, <<(<<"set", D(N(1), "x"), N(2)>>)>>,
  <<Let_("f", F1("n", <<(<<"cond", B("LT", V("n"), N(2)), V("n"),
       B("PLUS", C("f", <<B("MINUS", V("n"), N(1))>>), C("f", <<B("MINUS", V("n"), N(2))>>))>>)>>)),
    C("f", <<N(4)>>)>>,
  <<Let_("f", F1("n", <<C("f", <<V("n")>>)>>)), C("f", <<N(4)>>)>>,
  <<Let_("x", N(1)), C("x", <<>>)>>, <<(<<"named", N(1), <<>>>>)>>,
  <<(<<"if", <<(<<N(0), <<N(1)>>>>), <<N(0), <<N(2)>>>>, <<N(1), <<N(3)>>>>>>, <<N(4)>>>>)>>,
  <<(<<"if", <<(<<N(0), <<N(1)>>>>), <<NilLit, <<N(2)>>>>>>, <<N(4)>>>>)>>,
  <<When(N(0), <<N(1)>>)>>,
  <<Let_("f", F0(<<>>)), C("f", <<>>)>> >>

(* Containers, slices, several values at once.                               *)
Vectors == <<
  <<Let_("v", Digits), <<"op", "PLUS", X(V("v"), <<"neg", N(1)>>), N(5)>>, V("v")>>,
  <<Let_("v", Digits), X(V("v"), N(3))>>, <<Let_("v", Digits), <<"set", X(V("v"), N(3)), N(1)>>>>,
  <<Let_("v", Digits), <<"slice", V("v"), << <<N(1), N(2)>> >>>>>>,
  <<Let_("v", Digits), <<"slice", V("v"), << <<N(2)>>, <<NilLit, N(1)>>, <<(<<"neg", N(1)>>)>> >>>>>>,
  <<Let_("v", Digits), <<"slice", V("v"), << <<N(0), N(5)>> >>>>>>,
  <<Let_("v", Digits), <<"slice", V("v"), << <<N(3)>>, <<N(0)>> >>>>>>,
  <<Let_("h", <<"hash", << <<Str("a"), N(1)>>, <<Num(1), N(2)>> >>>>),
    <<"op", "MUL", X(V("h"), S("a")), N(9)>>, L(<<X(V("h"), N(1)), D(V("h"), "a"), X(V("h"), S("1"))>>)>>,
  <<Let_("h", <<"hash", << <<Str("a"), N(1)>> >>>>), <<"op", "MINUS", D(V("h"), "a"), N(9)>>, V("h")>>,
  <<Let_("a", N(1)), Let_("b", N(2)), <<"multi", <<V("a"), V("b")>>, <<V("b"), V("a")>>>>,
    L(<<V("a"), V("b")>>)>>,
  <<Let_("v", Digits), <<"multi", <<X(V("v"), N(0)), <<"var", "z">>>>, <<N(6), X(V("v"), N(0))>>>>,
    L(<<V("v"), V("z")>>)>>,
  <<(<<"unpack", <<V("a"), V("b")>>, Digits>>), L(<<V("a"), V("b")>>)>>,
  <<(<<"unpack", <<V("a"), V("b")>>, L(<<N(1)>>)>>)>>,
  <<Let_("v", Digits), C("append", <<V("v"), N(7), N(8)>>), C("pop", <<V("v")>>),
    C("setsize", <<V("v"), N(5)>>), L(<<V("v"), C("size", <<V("v")>>), C("subvec", <<V("v"), N(1), N(2)>>)>>)>>,
  <<Let_("h", <<"hash", << <<Str("a"), N(1)>> >>>>), Let_("w", L(<<C("contains", <<V("h"), S("a")>>)>>)),
    C("delete", <<V("h"), S("a")>>), L(<<V("w"), C("contains", <<V("h"), S("a")>>)>>)>>,
  <<L(<<C("typeof", <<S("")>>), C("typeof", <<L(<<>>)>>), C("num", <<S("12")>>), C("num", <<S("x")>>),
        C("streq", <<S("1"), N(1)>>), C("streq", <<S("1"), S("1")>>)>>)>> >>

(* call() and die().                                                         *)
E == L(<<>>)
Kept == X(V("e"), N(0))
Errors == <<
  <<Let_("e", E), Let_("r", C("call", <<F0(<<C("die", <<S("x")>>)>>), NilLit, V("e")>>)), L(<<V("r"), Kept>>)>>,
  <<Let_("e", E), C("call", <<F0(<<N(4)>>), NilLit, V("e")>>)>>,
  <<C("call", <<F0(<<C("die", <<S("x")>>)>>)>>)>>,
  <<Let_("e", E), C("call", <<V("die"), L(<<S("y")>>), V("e")>>), Kept>>,
  <<Let_("e", E), C("call", <<V("size"), L(<<Digits>>), V("e")>>)>>,
  <<Let_("e", E), Let_("f", F0(<<C("call", <<F0(<<C("die", <<S("in")>>)>>), NilLit, V("e")>>),
                                C("die", <<Kept>>)>>)),
    Let_("d", E), C("call", <<V("f"), NilLit, V("d")>>), L(<<Kept, X(V("d"), N(0))>>)>>,
  <<Let_("e", E), Let_("d", E), Let_("f", F0(<<C("die", <<S("f")>>)>>)),
    Let_("g", F0(<<C("call", <<V("f"), NilLit, V("e")>>), C("call", <<V("f"), NilLit, V("d")>>), N(5)>>)),
    Let_("r", C("call", <<V("g"), NilLit>>)), L(<<Kept, X(V("d"), N(0)), V("r")>>)>>,
  <<Let_("e", E), Let_("f", F0(<<C("call", <<F0(<<C("die", <<S("x")>>)>>)>>)>>)),
    C("call", <<V("f"), NilLit, V("e")>>), Kept>>,
  <<Let_("o", Point), C("call", <<D(V("o"), "get"), L(<<N(4)>>), V("o")>>)>>,
  <<Let_("ns", <<"hash", << <<Str("z"), N(6)>> >>>>),
    L(<<C("call", <<F0(<<Let_("y", N(1)), V("z")>>), NilLit, NilLit, V("ns")>>), D(V("ns"), "y")>>)>>,
  <<Let_("f", F1("n", <<C("call", <<V("f"), L(<<V("n")>>)>>)>>)), Let_("e", E),
    Let_("g", F1("n", <<(<<"cond", V("n"), C("call", <<V("g"), L(<<B("MINUS", V("n"), N(1))>>)>>),
                          C("die", <<S("end")>>)>>)>>)),
    C("call", <<V("g"), L(<<N(3)>>), V("e")>>), Kept>> >>

(* Programs that misuse a library function or a parents field.               *)
Misuses == <<
  <<C("call", <<N(1)>>)>>, <<C("call", <<F1("n", <<V("n")>>)>>)>>, <<C("call", <<V("size"), N(1)>>)>>,
  <<C("size", <<>>)>>, <<C("size", <<F0(<<>>)>>)>>, <<C("append", <<N(1), N(2)>>)>>, <<C("pop", <<N(1)>>)>>,
  <<C("setsize", <<N(1)>>)>>, <<C("delete", <<N(1), N(2)>>)>>, <<C("contains", <<NilLit, N(2)>>)>>,
  <<C("subvec", <<Digits, N(4)>>)>>, <<(<<"named", V("size"), <<(<<"a", N(1)>>)>>>>)>>,
  <<Let_("o", <<"hash", << <<Str("parents"), N(1)>> >>>>), D(V("o"), "x")>>,
  <<Let_("o", <<"hash", << >>>>), <<"set", D(V("o"), "parents"), L(<<V("o")>>)>>, D(V("o"), "x")>> >>

RECURSIVE NestedLoops(_, _)
NestedLoops(n, e) == IF n = 0 THEN <<e>>
                     ELSE <<(<<"while", "", N(1), NestedLoops(n - 1, e) \o <<(<<"break", "">>)>>>>)>>
FullLoops == << <<Let_("x", N(0))>> \o NestedLoops(MAX_MARK_DEPTH, <<"op", "PLUS", V("x"), N(2)>>)
                \o <<V("x")>> >>

MCBodies == Pairs \o Divisions \o Mixed \o Conds \o Loops \o Calls_ \o Named \o Scopes_ \o Vectors
            \o Errors \o FullLoops

(* Programs that break a limit, or the grammar.                              *)
W(type) == M!Word(type)
DeepOps == <<M!Name("size"), W("LPAR")>>
           \o FlattenSeq([i \in 1..(2 * MAX_STACK_DEPTH) |-> IF i % 2 = 0 THEN <<W("COMMA")>>
                                                             ELSE <<M!Literal(Num(1))>>])
           \o <<M!Literal(Num(1)), W("RPAR")>>
(* A function with two loops that calls itself in the inner one.             *)
DeepMarks == <<Let_("f", F0(NestedLoops(2, C("f", <<>>)))), C("f", <<>>)>>
Overflows == <<DeepOps, M!ProgramWords(DeepMarks)>>

(* A function has as many loops in each other as the compiler's table holds;  *)
(* one with more is not run.                                                 *)
ASSUME LoopsAssumption ==
  Compile(M!ProgramWords(NestedLoops(MAX_MARK_DEPTH + 1, N(1)))) = <<"overrun">>

n1 == M!Literal(Num(1))
x1 == M!Name("x")
Malformed == <<
  <<n1, n1>>, <<W("LPAR"), n1>>, <<n1, W("RPAR")>>, <<W("LPAR"), n1, W("RBRA")>>, <<W("PLUS")>>,
  <<n1, W("PLUS")>>, <<n1, W("ASSIGN"), n1>>, <<W("IF"), n1>>, <<W("IF"), W("LPAR"), n1, W("RPAR")>>,
  <<W("ELSE"), W("LCURL"), W("RCURL")>>, <<W("FUNC")>>, <<W("FUNC"), W("LPAR"), n1, W("RPAR"), x1>>,
  <<x1, W("DOT"), n1>>,
  <<W("FUNC"), W("LPAR"), x1, W("ASSIGN"), n1, W("COMMA"), x1, W("RPAR"), n1>>,
  <<W("FOR"), W("LPAR"), n1, W("SEMI"), n1, W("RPAR"), x1>>, <<n1, W("QUESTION"), n1>>,
  <<W("NOT"), W("MINUS"), x1>>,
  <<W("LPAR"), x1, W("COMMA"), x1, W("RPAR"), W("ASSIGN"), W("LPAR"), n1, W("COMMA"), n1, W("COMMA"), n1,
    W("RPAR")>>,
  <<W("WHILE"), W("LPAR"), n1, W("RPAR"), W("LCURL"), W("BREAK"), x1, W("RCURL")>> >>

AllCodes == Over(Over(MCBodies \o Misuses, M!ProgramWords) \o Overflows \o Malformed, Compile)

AllMeanings == Over(MCBodies, M!Meaning)
               \o [i \in 1..(Len(Misuses) + Len(Overflows)) |-> <<"error">>]
               \o [i \in DOMAIN Malformed |-> <<"bad">>]
MCCodes == AllCodes
MCMeanings == AllMeanings

(* The shapes of the code: what is known at an address is what comes there    *)
(* first, weakened to what comes there later.                                *)
Weaker(t, u) == IF t = u THEN t ELSE "any"
Met(s, x) ==
  LET old == s[x.ip].ts
  IN  IF x.ip \notin DOMAIN s THEN [ts |-> x.ts, ms |-> x.ms]
      ELSE [s[x.ip] EXCEPT !.ts = [i \in DOMAIN old |-> IF i \in DOMAIN x.ts THEN Weaker(old[i], x.ts[i])
                                                       ELSE old[i]]]
RECURSIVE Flow(_, _, _), Nested(_)
Flow(c, s, todo) ==
  IF todo = {} THEN s
  ELSE LET x == CHOOSE y \in todo : TRUE
           met == Met(s, x)
       IN  IF x.ip \in DOMAIN s /\ s[x.ip] = met THEN Flow(c, s, todo \ {x})
           ELSE Flow(c, (x.ip :> met) @@ s, (todo \ {x}) \cup After(c, x.ip, met))
ShapeOf(c) == Flow(c, <<>>, {[ip |-> 0, ts |-> <<>>, ms |-> <<>>]})

(* A code and those of the functions in it.                                  *)
Nested(c) == {c} \cup UNION {Nested(b[2]) : b \in {b \in ToSet(c.consts) : b[1] = "code"}}
AllShapes ==
  LET compiled == SelectSeq(AllCodes, LAMBDA c : c # <<"bad">>)
      codes == UNION {Nested(c[2]) : c \in ToSet(compiled)}
  IN  [c \in codes |-> ShapeOf(c)] @@ <<>>
MCShape == AllShapes

-----------------------------------------------------------------------------
(* The compiled program computes what its text means: the value of a program  *)
(* that is one, an error where a limit is broken, and no code at all for what *)
(* the grammar does not allow (naParseCode, naCall).                         *)
ResultAsMeant ==
  mode = "done" =>
    Meanings[prog] = IF result[1] \in {"bad", "error"} THEN <<result[1]>>
                     ELSE M!Shown(result, ("vec" :> vecs) @@ ("hash" :> hashes), 4)

(* Every program of the families ends, by the fairness of the processor only: *)
(* continue does not skip what makes a loop end.                             *)
Terminates == <>(mode = "done")
=============================================================================
