------------------------------ MODULE NasalScalar ------------------------------
(***************************************************************************)
(* The values of Nasal as tuples that begin with their type, and what its   *)
(* operators make of scalars (code.c, misc.c).                              *)
(***************************************************************************)
EXTENDS Integers, TLC

CONSTANT MAX_MARK_DEPTH  \* loops in each other: in a function when it is compiled,
                         \* in a context when it runs

Num(n) == <<"num", n>>
Str(s) == <<"str", s>>
Nil    == <<"nil">>
End    == <<"end">>   \* leaves a loop

IsA(v, type) == v[1] = type
IsScalar(v) == v[1] \in {"num", "str"}

(* Scalars.  The strings that are numbers are those of small integers.       *)
Numerals == [s \in {ToString(i) : i \in (-99)..99} |->
               CHOOSE i \in (-99)..99 : ToString(i) = s]

IsNumeric(v) == IsA(v, "num") \/ (IsA(v, "str") /\ v[2] \in DOMAIN Numerals)
Numify(v) == IF IsA(v, "num") THEN v[2] ELSE Numerals[v[2]]
Stringify(v) == IF IsA(v, "str") THEN v[2] ELSE ToString(v[2])

CanBoolify(v) == IsScalar(v) \/ v \in {Nil, End}
Boolify(v) ==
  CASE v \in {Nil, End, Str("")} -> FALSE
    [] IsNumeric(v) -> Numify(v) # 0
    [] OTHER -> TRUE

Bool(b) == Num(IF b THEN 1 ELSE 0)

NaEqual(a, b) == a = b \/ (IsNumeric(a) /\ IsNumeric(b) /\ Numify(a) = Numify(b))

Arith(o, l, r) ==
  CASE o = "PLUS" -> Num(l + r)   [] o = "MINUS" -> Num(l - r)
    [] o = "MUL"  -> Num(l * r)   [] o = "DIV"   -> Num(l \div r)
    [] o = "LT"   -> Bool(l < r)  [] o = "LTE"   -> Bool(l <= r)
    [] o = "GT"   -> Bool(l > r)  [] o = "GTE"   -> Bool(l >= r)

ArithOps == {"PLUS", "MINUS", "MUL", "DIV", "LT", "LTE", "GT", "GTE"}
=============================================================================
