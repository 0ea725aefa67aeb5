----------------------------- MODULE NasalMeaning -----------------------------
(***************************************************************************)
(* What a Nasal program means, without tokens, code or stacks: an abstract  *)
(* syntax, the words it is written with, and the value it has.  This is the *)
(* specification the compiler and the virtual machine are checked against.  *)
(*                                                                          *)
(* An expression is a tuple that begins with its kind.  The words use no    *)
(* more parentheses than the precedence of the operators asks for, and no   *)
(* semicolon after a closing brace, as in C.                                *)
(***************************************************************************)
EXTENDS NasalScalar, Sequences, SequencesExt

CONSTANT MaxDepth   \* calls in one another, counted from each call()

-----------------------------------------------------------------------------
(* The words.                                                                *)
Word(type) == [type |-> type, val |-> Nil, kids |-> <<>>]
Literal(v) == [type |-> "LITERAL", val |-> v, kids |-> <<>>]
Name(n) == [type |-> "SYMBOL", val |-> Str(n), kids |-> <<>>]

Binding == [SET |-> 4, COND |-> 5, OR |-> 7, AND |-> 8, EQ |-> 9, NEQ |-> 9, LT |-> 10,
            LTE |-> 10, GT |-> 10, GTE |-> 10, PLUS |-> 11, MINUS |-> 11, CAT |-> 11,
            MUL |-> 12, DIV |-> 12, UNARY |-> 13, POSTFIX |-> 14, ATOM |-> 15]

Tightness(e) ==
  CASE e[1] = "bin" -> Binding[e[2]]
    [] e[1] \in {"neg", "not"} -> Binding["UNARY"]
    [] e[1] = "cond" -> Binding["COND"]
    [] e[1] \in {"set", "op", "multi", "unpack"} -> Binding["SET"]
    [] e[1] \in {"call", "named", "index", "slice", "member"} -> Binding["POSTFIX"]
    [] e[1] \in {"break", "continue", "return"} -> 3
    [] e[1] \in {"vec", "hash", "lit", "sym", "var"} -> Binding["ATOM"]
    [] OTHER -> 0

(* Whether a statement ends in a brace, so that no semicolon follows it.     *)
EndsInBrace(e) ==
  \/ e[1] \in {"if", "while", "for", "each"}
  \/ e[1] = "set" /\ e[3][1] = "func"

RECURSIVE Words(_), Block(_)

Joined(parts, sep) ==
  FoldLeft(LAMBDA w, i : w \o (IF i > 1 THEN <<Word(sep)>> ELSE <<>>) \o parts[i],
           <<>>, [i \in DOMAIN parts |-> i])

All(es) == [i \in DOMAIN es |-> Words(es[i])]
In(open, words, close) == <<Word(open)>> \o words \o <<Word(close)>>
Tight(e, level) == IF Tightness(e) >= level THEN Words(e) ELSE In("LPAR", Words(e), "RPAR")
Pairs(ps) == [i \in DOMAIN ps |-> <<Literal(ps[i][1]), Word("COLON")>> \o Words(ps[i][2])]
NamedPairs(ps) == [i \in DOMAIN ps |-> <<Name(ps[i][1]), Word("COLON")>> \o Words(ps[i][2])]
Label(l) == IF l = "" THEN <<>> ELSE <<Name(l), Word("SEMI")>>

Params(f) ==
  [i \in DOMAIN f[2] |-> <<Name(f[2][i])>>]
  \o [i \in DOMAIN f[3] |-> <<Name(f[3][i][1]), Word("ASSIGN")>> \o
                             (IF f[3][i][2] = Nil THEN <<Word("NIL")>> ELSE <<Literal(f[3][i][2])>>)]
  \o (IF f[4] = "" THEN <<>> ELSE <<(<<Name(f[4]), Word("ELLIPSIS")>>)>>)

Branch(head, b) == <<Word(head)>> \o In("LPAR", Words(b[1]), "RPAR") \o Block(b[2])

Block(body) ==
  In("LCURL", FoldLeft(LAMBDA w, i : w \o Words(body[i]) \o
                         (IF i = Len(body) \/ EndsInBrace(body[i]) THEN <<>> ELSE <<Word("SEMI")>>),
                       <<>>, [i \in DOMAIN body |-> i]), "RCURL")

Words(e) ==
  CASE e[1] = "lit" -> IF e[2] = Nil THEN <<Word("NIL")>> ELSE <<Literal(e[2])>>
    [] e[1] = "sym" -> <<Name(e[2])>>
    [] e[1] = "var" -> <<Word("VAR"), Name(e[2])>>
    [] e[1] = "bin" -> Tight(e[3], Binding[e[2]]) \o <<Word(e[2])>> \o Tight(e[4], Binding[e[2]] + 1)
    [] e[1] = "neg" -> <<Word("MINUS")>> \o Tight(e[2], 13)
    [] e[1] = "not" -> <<Word("NOT")>> \o (IF e[2][1] = "neg" THEN In("LPAR", Words(e[2]), "RPAR")
                                           ELSE Tight(e[2], 13))
    [] e[1] = "cond" -> Tight(e[2], 6) \o <<Word("QUESTION")>> \o Tight(e[3], 6) \o <<Word("COLON")>>
                        \o Tight(e[4], 5)
    [] e[1] = "set" -> Words(e[2]) \o <<Word("ASSIGN")>> \o
                       (IF e[3][1] = "func" THEN Words(e[3]) ELSE Tight(e[3], 4))
    [] e[1] = "op" -> Words(e[3]) \o <<Word(e[2] \o "EQ")>> \o Tight(e[4], 4)
    [] e[1] = "multi" -> In("LPAR", Joined(All(e[2]), "COMMA"), "RPAR") \o <<Word("ASSIGN")>>
                         \o In("LPAR", Joined(All(e[3]), "COMMA"), "RPAR")
    [] e[1] = "unpack" -> <<Word("VAR")>> \o In("LPAR", Joined(All(e[2]), "COMMA"), "RPAR")
                          \o <<Word("ASSIGN")>> \o Tight(e[3], 4)
    [] e[1] = "vec" -> In("LBRA", Joined(All(e[2]), "COMMA"), "RBRA")
    [] e[1] = "hash" -> In("LCURL", Joined(Pairs(e[2]), "COMMA"), "RCURL")
    [] e[1] = "call" -> Tight(e[2], 14) \o In("LPAR", Joined(All(e[3]), "COMMA"), "RPAR")
    [] e[1] = "named" -> Tight(e[2], 14) \o In("LPAR", Joined(NamedPairs(e[3]), "COMMA"), "RPAR")
    [] e[1] = "index" -> Tight(e[2], 14) \o In("LBRA", Words(e[3]), "RBRA")
    [] e[1] = "slice" -> Tight(e[2], 14) \o
         In("LBRA", Joined([i \in DOMAIN e[3] |->
                              IF Len(e[3][i]) = 1 THEN Words(e[3][i][1])
                              ELSE (IF e[3][i][1] = <<"lit", Nil>> THEN <<>> ELSE Words(e[3][i][1]))
                                   \o <<Word("COLON")>> \o Words(e[3][i][2])], "COMMA"), "RBRA")
    [] e[1] = "member" -> Tight(e[2], 14) \o <<Word("DOT"), Name(e[3])>>
    [] e[1] = "func" -> <<Word("FUNC")>> \o
         (IF e[2] = <<>> /\ e[3] = <<>> /\ e[4] = "arg" THEN <<>>
          ELSE In("LPAR", Joined(Params(e), "COMMA"), "RPAR")) \o Block(e[5])
    [] e[1] = "if" -> Branch("IF", e[2][1]) \o
         FlattenSeq([i \in 1..(Len(e[2]) - 1) |-> Branch("ELSIF", e[2][i + 1])]) \o
         (IF e[3] = <<>> THEN <<>> ELSE <<Word("ELSE")>> \o Block(e[3]))
    [] e[1] = "while" -> <<Word("WHILE")>> \o In("LPAR", Label(e[2]) \o Words(e[3]), "RPAR")
                         \o Block(e[4])
    [] e[1] = "for" -> <<Word("FOR")>> \o
         In("LPAR", Label(e[2]) \o Joined(All(<<e[3], e[4], e[5]>>), "SEMI"), "RPAR") \o Block(e[6])
    [] e[1] = "each" -> <<Word(e[2])>> \o
         In("LPAR", Label(e[3]) \o Words(e[4]) \o <<Word("SEMI")>> \o Words(e[5]), "RPAR") \o Block(e[6])
    [] e[1] \in {"break", "continue"} ->
         <<Word(IF e[1] = "break" THEN "BREAK" ELSE "CONTINUE")>>
         \o (IF e[2] = "" THEN <<>> ELSE <<Name(e[2])>>)
    [] e[1] = "return" -> <<Word("RETURN")>> \o Words(e[2])

ProgramWords(body) == LET b == Block(body) IN SubSeq(b, 2, Len(b) - 1)

-----------------------------------------------------------------------------
(* The meaning.  Evaluating gives a signal ("ok", or how it was left), a     *)
(* value or label, and the store of objects.  An environment is the scopes,  *)
(* innermost first, and how many calls deep it is.                           *)
Outcome(sig, v, s) == [sig |-> sig, v |-> v, s |-> s]
OK(v, s) == Outcome("ok", v, s)
Err(s) == Outcome("error", Str("error"), s)

Then(o, K(_, _)) == IF o.sig = "ok" THEN K(o.v, o.s) ELSE o

Alloc(kind, s, x) == OK(<<kind, Len(s[kind]) + 1>>, [s EXCEPT ![kind] = Append(@, x)])
Deref(v, s) == s[v[1]][v[2]]
PutIn(s, h, k, v) == [s EXCEPT !["hash"][h[2]] = (k :> v) @@ @]

Lookup(env, n, s) == SelectInSeq(env.scopes, LAMBDA h : Str(n) \in DOMAIN Deref(h, s))

RECURSIVE MemberOf(_, _, _)
MemberOf(o, n, s) ==
  IF ~IsA(o, "hash") THEN <<"none">>
  ELSE IF Str(n) \in DOMAIN Deref(o, s) THEN <<"some", Deref(o, s)[Str(n)]>>
  ELSE IF Str("parents") \notin DOMAIN Deref(o, s) THEN <<"none">>
  ELSE FoldLeft(LAMBDA r, p : IF IsA(r, "some") THEN r ELSE MemberOf(p, n, s),
                <<"none">>, Deref(Deref(o, s)[Str("parents")], s))

Offset(n, i) == IF i < 0 THEN i + n ELSE i
ElementOf(box, k, s) ==
  LET x == Deref(box, s)
  IN  CASE IsA(box, "hash") -> OK(IF k \in DOMAIN x THEN x[k] ELSE Nil, s)
        [] IsA(box, "vec") /\ IsNumeric(k) /\ Offset(Len(x), Numify(k)) \in 0..(Len(x) - 1) ->
             OK(x[Offset(Len(x), Numify(k)) + 1], s)
        [] OTHER -> Err(s)

RECURSIVE Eval(_, _, _), EvalAll(_, _, _), EvalBlock(_, _, _), Apply(_, _, _, _, _, _), Loop(_, _, _),
          Builtin(_, _, _, _), Elements(_, _, _, _)

EvalAll(es, env, s) ==
  IF es = <<>> THEN OK(<<>>, s)
  ELSE Then(Eval(Head(es), env, s), LAMBDA v, s1 :
         Then(EvalAll(Tail(es), env, s1), LAMBDA vs, s2 : OK(<<v>> \o vs, s2)))

(* The value of a block is that of its last statement.                       *)
EvalBlock(body, env, s) ==
  IF body = <<>> THEN OK(Nil, s)
  ELSE IF Len(body) = 1 THEN Eval(body[1], env, s)
  ELSE Then(Eval(Head(body), env, s), LAMBDA v, s1 : EvalBlock(Tail(body), env, s1))

BinValue(o, l, r, s) ==
  CASE o = "EQ" -> OK(Bool(NaEqual(l, r)), s)
    [] o = "NEQ" -> OK(Bool(~NaEqual(l, r)), s)
    [] o = "CAT" -> IF IsA(l, "vec") /\ IsA(r, "vec")
                    THEN Alloc("vec", s, Deref(l, s) \o Deref(r, s))
                    ELSE IF IsScalar(l) /\ IsScalar(r) THEN OK(Str(Stringify(l) \o Stringify(r)), s)
                    ELSE Err(s)
    [] o \in ArithOps -> IF IsNumeric(l) /\ IsNumeric(r)
                         THEN OK(Arith(o, Numify(l), Numify(r)), s) ELSE Err(s)

(* A place that can be assigned to: its parts are evaluated once.            *)
Place(lv, env, s) ==
  CASE lv[1] \in {"sym", "var"} -> OK(lv, s)
    [] lv[1] = "member" -> Then(Eval(lv[2], env, s), LAMBDA o, s1 : OK(<<"in", o, Str(lv[3])>>, s1))
    [] lv[1] = "index" -> Then(EvalAll(<<lv[2], lv[3]>>, env, s),
                               LAMBDA ok, s1 : OK(<<"in", ok[1], ok[2]>>, s1))

Store(place, v, env, s) ==
  CASE place[1] = "var" -> OK(v, PutIn(s, env.scopes[1], Str(place[2]), v))
    [] place[1] = "sym" ->
         LET i == Lookup(env, place[2], s)
         IN  OK(v, PutIn(s, env.scopes[IF i = 0 THEN 1 ELSE i], Str(place[2]), v))
    [] place[1] = "in" /\ IsA(place[2], "hash") -> OK(v, PutIn(s, place[2], place[3], v))
    [] place[1] = "in" /\ ~IsA(place[2], "hash") ->
         Then(ElementOf(place[2], place[3], s), LAMBDA old, s1 :
           OK(v, [s1 EXCEPT !["vec"][place[2][2]] =
                    [@ EXCEPT ![Offset(Len(@), Numify(place[3])) + 1] = v]]))

Fetch(place, env, s) ==
  IF place[1] = "in" THEN ElementOf(place[2], place[3], s)
  ELSE IF Lookup(env, place[2], s) = 0 THEN Err(s)
  ELSE OK(Deref(env.scopes[Lookup(env, place[2], s)], s)[Str(place[2])], s)

StoreAll(lvs, vs, env, s) ==
  FoldLeft(LAMBDA o, i : Then(o, LAMBDA v, s1 :
             Then(Place(lvs[i], env, s1), LAMBDA p, s2 : Store(p, vs[i], env, s2))),
           OK(Nil, s), [i \in DOMAIN lvs |-> i])

(* A call: the parameters are new variables in a new scope, or entries of a  *)
(* hash that is the scope.                                                   *)
Given(e, args) ==   \* by position
  [n \in {Str(e[2][i]) : i \in DOMAIN e[2]} |-> args[CHOOSE i \in DOMAIN e[2] : Str(e[2][i]) = n]]
Defaults(e, args) ==
  [n \in {Str(e[3][i][1]) : i \in DOMAIN e[3]} |->
     LET i == CHOOSE j \in DOMAIN e[3] : Str(e[3][j][1]) = n
     IN  IF Len(e[2]) + i <= Len(args) THEN args[Len(e[2]) + i] ELSE e[3][i][2]]
WithMe(me_, scope) == IF me_ = Nil THEN scope ELSE (Str("me") :> me_) @@ scope
WithRest(rest, extra, scope, s) ==
  IF rest = "" THEN OK(scope, s)
  ELSE OK(scope @@ (Str(rest) :> <<"vec", Len(s["vec"]) + 1>>), [s EXCEPT !["vec"] = Append(@, extra)])
Variables(e, args, named, me_, s) ==
  LET extra == SubSeq(args, Len(e[2]) + Len(e[3]) + 1, Len(args))
  IN  WithRest(IF e[4] # "" THEN e[4] ELSE IF extra = <<>> THEN "" ELSE "arg", extra,
               WithMe(me_, IF named = Nil THEN Given(e, args) @@ Defaults(e, args)
                           ELSE Deref(named, s) @@ Defaults(e, <<>>)), s)
Returned(o) == IF o.sig = "return" THEN [o EXCEPT !.sig = "ok"] ELSE o
Enough(e, args, named, s) ==
  IF named = Nil THEN Len(args) >= Len(e[2])
  ELSE \A i \in DOMAIN e[2] : Str(e[2][i]) \in DOMAIN Deref(named, s)
InScope(fn, home, depth, s) ==
  Returned(EvalBlock(fn.expr[5], [scopes |-> <<home>> \o fn.env.scopes, depth |-> depth + 1], s))
Enter(fn, named, depth, o) ==   \* o is the variables and the store
  IF named = Nil
  THEN InScope(fn, <<"hash", Len(o.s["hash"]) + 1>>, depth, [o.s EXCEPT !["hash"] = Append(@, o.v)])
  ELSE InScope(fn, named, depth, [o.s EXCEPT !["hash"][named[2]] = o.v])

Apply(f, args, named, me_, depth, s) ==
  IF ~IsA(f, "func") \/ depth >= MaxDepth THEN Err(s)
  ELSE IF ~Enough(Deref(f, s).expr, args, named, s) THEN Err(s)
  ELSE Enter(Deref(f, s), named, depth, Variables(Deref(f, s).expr, args, named, me_, s))

Caught(args, o) ==
  IF o.sig = "error" /\ Len(args) > 2 /\ IsA(Last(args), "vec")
  THEN OK(Nil, [o.s EXCEPT !["vec"][Last(args)[2]] = Append(@, o.v)]) ELSE o

CallFrom(f, args, named, me_, depth, s) ==
  IF IsA(f, "native") THEN Builtin(f[2], args, depth, s) ELSE Apply(f, args, named, me_, depth, s)

(* The library functions the programs use.  call() keeps an error in the     *)
(* vector it is given; die() without one ends the program.                   *)
Builtin(n, args, depth, s) ==
  CASE n = "size" -> OK(Num(Len(Deref(args[1], s))), s)
    [] n = "append" -> OK(args[1], [s EXCEPT !["vec"][args[1][2]] = @ \o Tail(args)])
    [] n = "pop" -> LET x == Deref(args[1], s)
                    IN  IF x = <<>> THEN OK(Nil, s)
                        ELSE OK(Last(x), [s EXCEPT !["vec"][args[1][2]] = Front(@)])
    [] n = "setsize" -> OK(args[1], [s EXCEPT !["vec"][args[1][2]] =
                             [i \in 1..args[2][2] |-> IF i <= Len(@) THEN @[i] ELSE Nil]])
    [] n = "subvec" -> Alloc("vec", s, SubSeq(Deref(args[1], s), args[2][2] + 1, args[2][2] + args[3][2]))
    [] n = "delete" -> OK(args[1], [s EXCEPT !["hash"][args[1][2]] =
                                      [k \in DOMAIN @ \ {args[2]} |-> @[k]]])
    [] n = "contains" -> OK(Bool(args[2] \in DOMAIN Deref(args[1], s)), s)
    [] n = "typeof" -> OK(Str(CASE IsA(args[1], "vec") -> "vector" [] IsScalar(args[1]) -> "scalar"
                                [] args[1] = Nil -> "nil" [] OTHER -> args[1][1]), s)
    [] n = "num" -> OK(IF IsNumeric(args[1]) THEN Num(Numify(args[1])) ELSE Nil, s)
    [] n = "streq" -> OK(Bool(IsA(args[1], "str") /\ args[1] = args[2]), s)
    [] n = "die" -> Outcome("error", args[1], s)
    [] n = "call" ->
         Caught(args, CallFrom(args[1],
                               IF Len(args) < 2 \/ args[2] = Nil THEN <<>> ELSE Deref(args[2], s),
                               IF Len(args) > 3 /\ IsA(args[4], "hash") THEN args[4] ELSE Nil,
                               IF Len(args) > 2 /\ IsA(args[3], "hash") THEN args[3] ELSE Nil, 0, s))

BuiltinNames == {"size", "append", "pop", "setsize", "subvec", "delete", "contains", "typeof",
                 "num", "streq", "die", "call"}

Invoke(f, args, me_, env, s) == CallFrom(f, args, Nil, me_, env.depth, s)

(* Loops.  A break or continue with a label is for the innermost loop that   *)
(* has it, one without for this one.                                         *)
Mine(o, sig, label) == o.sig = sig /\ (o.v = Str("") \/ (label # "" /\ o.v = Str(label)))

Ran(e, env, b) ==   \* the body gave b
  IF Mine(b, "break", e[1]) THEN OK(Nil, b.s)
  ELSE IF b.sig = "ok" \/ Mine(b, "continue", e[1])
  THEN Then(EvalAll(e[3], env, b.s), LAMBDA v, s1 : Loop(e, env, s1))
  ELSE b
Tested(e, env, t) ==   \* the test gave t
  IF t.sig # "ok" THEN t
  ELSE IF ~CanBoolify(t.v) THEN Err(t.s)
  ELSE IF ~Boolify(t.v) THEN OK(Nil, t.s)
  ELSE Ran(e, env, EvalBlock(e[4], env, t.s))
Loop(e, env, s) == Tested(e, env, Eval(e[2], env, s))   \* e = <<label, test, update, body>>

RanOn(e, v, i, env, b) ==
  IF Mine(b, "break", e[3]) THEN OK(v, b.s)
  ELSE IF b.sig = "ok" \/ Mine(b, "continue", e[3]) THEN Elements(e, v, i + 1, [s |-> b.s, env |-> env])
  ELSE b
Elements(e, v, i, o) ==   \* from index i on; o is the store and the environment
  IF i >= Len(Deref(v, o.s)) THEN OK(v, o.s)
  ELSE RanOn(e, v, i, o.env,
             Then(StoreAll(<<e[4]>>, <<(IF e[2] = "FOREACH" THEN Deref(v, o.s)[i + 1] ELSE Num(i))>>,
                           o.env, o.s),
                  LAMBDA w, s1 : EvalBlock(e[6], o.env, s1)))

(* Ranges of x, each with one or two ends, given in bs one after the other.   *)
Ranges(rs, n, bs) ==
  FoldLeft(LAMBDA acc, r : [at |-> acc.at + Len(r),
                            all |-> Append(acc.all, <<(IF bs[acc.at] = Nil THEN 0 ELSE Offset(n, bs[acc.at][2])),
                                                     Offset(n, bs[acc.at + Len(r) - 1][2])>>)],
           [at |-> 1, all |-> <<>>], rs).all
Cut(x, ends, s) ==
  IF \A i \in DOMAIN ends : ends[i][1] \in 0..(Len(x) - 1) /\ ends[i][2] \in 0..(Len(x) - 1)
  THEN Alloc("vec", s, FlattenSeq([i \in DOMAIN ends |-> SubSeq(x, ends[i][1] + 1, ends[i][2] + 1)]))
  ELSE Err(s)
Slices(rs, x, bs, s) == Cut(x, Ranges(rs, Len(x), bs), s)

Eval(e, env, s) ==
  CASE e[1] = "lit" -> OK(e[2], s)
    [] e[1] = "sym" -> IF e[2] \in BuiltinNames THEN OK(<<"native", e[2]>>, s) ELSE Fetch(e, env, s)
    [] e[1] = "bin" /\ e[2] \in {"AND", "OR"} ->
         Then(Eval(e[3], env, s), LAMBDA l, s1 :
           IF ~CanBoolify(l) THEN Err(s1)
           ELSE IF Boolify(l) <=> e[2] = "OR" THEN OK(l, s1) ELSE Eval(e[4], env, s1))
    [] e[1] = "bin" /\ e[2] \notin {"AND", "OR"} ->
         Then(EvalAll(<<e[3], e[4]>>, env, s), LAMBDA lr, s1 : BinValue(e[2], lr[1], lr[2], s1))
    [] e[1] = "neg" -> Then(Eval(e[2], env, s), LAMBDA v, s1 :
                         IF IsNumeric(v) THEN OK(Num(-Numify(v)), s1) ELSE Err(s1))
    [] e[1] = "not" -> Then(Eval(e[2], env, s), LAMBDA v, s1 :
                         IF CanBoolify(v) THEN OK(Bool(~Boolify(v)), s1) ELSE Err(s1))
    [] e[1] = "cond" -> Then(Eval(e[2], env, s), LAMBDA c, s1 :
                          IF ~CanBoolify(c) THEN Err(s1)
                          ELSE Eval(IF Boolify(c) THEN e[3] ELSE e[4], env, s1))
    [] e[1] = "set" -> Then(Eval(e[3], env, s), LAMBDA v, s1 :
                         Then(Place(e[2], env, s1), LAMBDA p, s2 : Store(p, v, env, s2)))
    [] e[1] = "op" ->
         Then(Place(e[3], env, s), LAMBDA p, s1 : Then(Fetch(p, env, s1), LAMBDA old, s2 :
           Then(Eval(e[4], env, s2), LAMBDA x, s3 :
             Then(BinValue(e[2], old, x, s3), LAMBDA v, s4 : Store(p, v, env, s4)))))
    [] e[1] = "multi" ->
         Then(EvalAll(Reverse(e[3]), env, s), LAMBDA vs, s1 : StoreAll(e[2], Reverse(vs), env, s1))
    [] e[1] = "unpack" ->
         Then(Eval(e[3], env, s), LAMBDA v, s1 :
           IF ~IsA(v, "vec") THEN Err(s1)
           ELSE IF Len(Deref(v, s1)) < Len(e[2]) THEN Err(s1)
           ELSE StoreAll([i \in DOMAIN e[2] |-> <<"var", e[2][i][2]>>], Deref(v, s1), env, s1))
    [] e[1] = "vec" -> Then(EvalAll(e[2], env, s), LAMBDA vs, s1 : Alloc("vec", s1, vs))
    [] e[1] = "hash" ->
         Then(EvalAll([i \in DOMAIN e[2] |-> e[2][i][2]], env, s), LAMBDA vs, s1 :
           Alloc("hash", s1, FoldLeft(LAMBDA h, i : (e[2][i][1] :> vs[i]) @@ h, <<>>,
                                      [i \in DOMAIN vs |-> i])))
    [] e[1] = "member" ->
         Then(Eval(e[2], env, s), LAMBDA o, s1 :
           LET r == MemberOf(o, e[3], s1) IN IF IsA(r, "some") THEN OK(r[2], s1) ELSE Err(s1))
    [] e[1] = "index" -> Then(EvalAll(<<e[2], e[3]>>, env, s),
                              LAMBDA bk, s1 : ElementOf(bk[1], bk[2], s1))
    [] e[1] = "slice" ->
         Then(EvalAll(<<e[2]>> \o FlattenSeq(e[3]), env, s), LAMBDA vs, s1 :
           Slices(e[3], Deref(vs[1], s1), Tail(vs), s1))
    [] e[1] = "func" -> Alloc("func", s, [expr |-> e, env |-> env])
    [] e[1] = "call" /\ e[2][1] = "member" ->
         Then(Eval(e[2][2], env, s), LAMBDA o, s1 :
           LET f == MemberOf(o, e[2][3], s1)
           IN  IF ~IsA(f, "some") THEN Err(s1)
               ELSE Then(EvalAll(e[3], env, s1), LAMBDA args, s2 : Invoke(f[2], args, o, env, s2)))
    [] e[1] = "call" /\ e[2][1] # "member" ->
         Then(EvalAll(<<e[2]>> \o e[3], env, s), LAMBDA fa, s1 :
           Invoke(Head(fa), Tail(fa), Nil, env, s1))
    [] e[1] = "named" ->
         Then(Eval(e[2], env, s), LAMBDA f, s1 :
           Then(EvalAll([i \in DOMAIN e[3] |-> e[3][i][2]], env, s1), LAMBDA vs, s2 :
             Then(Alloc("hash", s2, [n \in {Str(e[3][i][1]) : i \in DOMAIN e[3]} |->
                                       vs[CHOOSE i \in DOMAIN e[3] : Str(e[3][i][1]) = n]]),
                  LAMBDA h, s3 : IF IsA(f, "func") THEN Apply(f, <<>>, h, Nil, env.depth, s3) ELSE Err(s3))))
    [] e[1] = "if" ->
         IF e[2] = <<>> THEN EvalBlock(e[3], env, s)
         ELSE Then(Eval(e[2][1][1], env, s), LAMBDA c, s1 :
                IF ~CanBoolify(c) THEN Err(s1)
                ELSE IF Boolify(c) THEN EvalBlock(e[2][1][2], env, s1)
                ELSE Eval(<<"if", Tail(e[2]), e[3]>>, env, s1))
    [] e[1] = "while" -> Loop(<<e[2], e[3], <<>>, e[4]>>, env, s)
    [] e[1] = "for" -> Then(Eval(e[3], env, s), LAMBDA v, s1 : Loop(<<e[2], e[4], <<e[5]>>, e[6]>>, env, s1))
    [] e[1] = "each" ->
         Then(Eval(e[5], env, s), LAMBDA v, s1 :
           IF IsA(v, "vec") THEN Elements(e, v, 0, [s |-> s1, env |-> env]) ELSE Err(s1))
    [] e[1] \in {"break", "continue"} -> Outcome(e[1], Str(e[2]), s)
    [] e[1] = "return" -> Then(Eval(e[2], env, s), LAMBDA v, s1 : Outcome("return", v, s1))

-----------------------------------------------------------------------------
(* A value without addresses, to the given depth.                            *)
RECURSIVE Shown(_, _, _)
Shown(v, s, depth) ==
  CASE depth = 0 -> <<"deep">>
    [] depth > 0 /\ IsA(v, "vec") ->
         <<"vec", [i \in DOMAIN Deref(v, s) |-> Shown(Deref(v, s)[i], s, depth - 1)]>>
    [] depth > 0 /\ IsA(v, "hash") ->
         <<"hash", [k \in DOMAIN Deref(v, s) |-> Shown(Deref(v, s)[k], s, depth - 1)]>>
    [] depth > 0 /\ v[1] \in {"func", "native"} -> <<"func">>
    [] OTHER -> v

EmptyStore == ("vec" :> <<(<<>>)>>) @@ ("hash" :> <<(Str("arg") :> <<"vec", 1>>)>>) @@ ("func" :> <<>>)

ShownEnd(o) == IF o.sig = "error" THEN <<"error">> ELSE Shown(o.v, o.s, 4)
Meaning(body) ==
  ShownEnd(EvalBlock(body, [scopes |-> <<(<<"hash", 1>>)>>, depth |-> 1], EmptyStore))
=============================================================================
