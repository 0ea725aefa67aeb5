------------------------------ MODULE NasalShape ------------------------------
(***************************************************************************)
(* What the virtual machine takes for granted of the code it runs: it       *)
(* checks no operand stack for being empty, no cell for being an operation  *)
(* and no operand of a loop for being an index (code.c, run()).  The code   *)
(* that naCodeGen makes has a shape: for each address that can be reached,   *)
(* the types of the operands the function has on the stack there and the    *)
(* heights of its marks, and every operation leads from one to the next.    *)
(***************************************************************************)
EXTENDS NasalVM

CONSTANT Shape   \* of each code: the shape at each address that is reached

(* Types of operands: a vector, a hash, the index of a loop, or anything.    *)
Types == {"any", "vec", "hash", "index"}
Shapes == [ts : Seq(Types), ms : Seq(Nat)]

Is(v, t) ==
  /\ t \in {"vec", "hash"} => IsA(v, t)
  /\ t = "index" => IsA(v, "num") /\ v[2] \in Nat

Anys(n) == [i \in 1..n |-> "any"]

(* The operands an operation takes and those it leaves, the top one last, for*)
(* the argument a in the cell behind it.                                     *)
OneToOne == {"NEG", "NOT", "MEMBER"}
TwoToOne == ArithOps \cup {"EQ", "NEQ", "CAT", "SETSYM", "SETLOCAL", "EXTRACT"}
ThreeToOne == {"SETMEMBER", "INSERT"}
Branching == {"JIFEND", "JIFTRUE", "JIFNOT", "JIFNOTPOP"}
Jumps == {"JMP", "JMPLOOP"}
OnMarks == {"MARK", "UNMARK", "BREAK", "BREAK2"}
PushesOne == {"PUSHCONST", "PUSHNIL", "PUSHEND", "LOCAL"}

Takes(o, a) ==
  CASE o \in OneToOne \cup {"POP", "DUP", "UNPACK", "RETURN"} \cup Branching -> <<"any">>
    [] o \in TwoToOne \cup {"DUP2", "XCHG"} -> <<"any", "any">>
    [] o \in ThreeToOne \cup {"XCHG2"} -> <<"any", "any", "any">>
    [] o = "VAPPEND" -> <<"vec", "any">>
    [] o = "HAPPEND" -> <<"hash", "any", "any">>
    [] o = "SLICE" -> <<"any", "vec", "any">>
    [] o = "SLICE2" -> <<"any", "vec", "any", "any">>
    [] o \in {"EACH", "INDEX"} -> <<"any", "index">>
    [] o = "FCALL" -> Anys(a + 1)
    [] o = "MCALL" -> Anys(a + 2)
    [] o = "FCALLH" -> <<"any", "hash">>
    [] o = "MCALLH" -> <<"any", "any", "hash">>
    [] OTHER -> <<>>

Leaves(o, a) ==
  CASE o \in OneToOne \cup TwoToOne \cup ThreeToOne \cup PushesOne \cup ByPosition \cup ByName
         -> <<"any">>
    [] o \in {"DUP", "XCHG"} -> <<"any", "any">>
    [] o = "DUP2" -> Anys(4)
    [] o = "XCHG2" -> Anys(3)
    [] o \in {"PUSHONE", "PUSHZERO"} -> <<"index">>
    [] o \in {"NEWVEC", "VAPPEND"} -> <<"vec">>
    [] o \in {"NEWHASH", "HAPPEND"} -> <<"hash">>
    [] o \in {"SLICE", "SLICE2"} -> <<"any", "vec">>
    [] o \in {"EACH", "INDEX"} -> <<"any", "index", "any">>
    [] o = "UNPACK" -> Anys(a)
    [] OTHER -> <<>>

WithArgument == {"PUSHCONST", "LOCAL", "MEMBER", "UNPACK"} \cup ByPosition \cup Branching \cup Jumps
Straight == OneToOne \cup TwoToOne \cup ThreeToOne \cup PushesOne \cup ByPosition \cup ByName
            \cup {"POP", "DUP", "XCHG", "DUP2", "XCHG2", "PUSHONE", "PUSHZERO", "NEWVEC", "VAPPEND",
                  "NEWHASH", "HAPPEND", "SLICE", "SLICE2", "EACH", "INDEX", "UNPACK"}
Operations == Straight \cup Branching \cup Jumps \cup OnMarks \cup {"RETURN"}

Cells(o) == IF o \in WithArgument THEN 2 ELSE 1

(* The operation at an address and its argument.                             *)
OpAt(c, ip) == c.code[ip + 1][2]
ArgAt(c, ip) == c.code[ip + 2][2]

Less(ts, n) == SubSeq(ts, 1, Len(ts) - n)

(* The operation at ip can run in the shape sh.                              *)
Ready(c, ip, sh) ==
  LET o == OpAt(c, ip)
      needs == Takes(o, ArgAt(c, ip))
      under == Len(sh.ts) - Len(needs)
  IN  /\ o \in Operations
      /\ o \in WithArgument => ArgAt(c, ip) \in Nat
      /\ o = "PUSHCONST" => ArgAt(c, ip) \in DOMAIN c.consts
      /\ under >= 0 /\ \A i \in DOMAIN needs : needs[i] \in {"any", sh.ts[under + i]}
      /\ o \in OnMarks \ {"MARK"} => sh.ms # <<>>
      /\ o \in {"BREAK", "BREAK2"} => Last(sh.ms) <= Len(sh.ts)
      /\ o = "RETURN" => sh.ms = <<>> /\ (ip + 1 = Len(c.code) => Len(sh.ts) = 1)

(* Where it leads, and the shapes there.                                     *)
After(c, ip, sh) ==
  LET o == OpAt(c, ip)
      a == ArgAt(c, ip)
      To(to, ts) == [ip |-> to, ts |-> ts, ms |-> sh.ms]
      Next_(ts, ms) == [ip |-> ip + 1, ts |-> ts, ms |-> ms]
  IN  CASE o \in Straight -> {To(ip + Cells(o), Less(sh.ts, Len(Takes(o, a))) \o Leaves(o, a))}
        [] o \in Jumps -> {To(a, sh.ts)}
        [] o = "JIFEND" -> {To(a, Less(sh.ts, 1)), To(ip + 2, sh.ts)}
        [] o = "JIFNOTPOP" -> {To(a, Less(sh.ts, 1)), To(ip + 2, Less(sh.ts, 1))}
        [] o \in {"JIFTRUE", "JIFNOT"} -> {To(a, sh.ts), To(ip + 2, sh.ts)}
        [] o = "MARK" -> {Next_(sh.ts, Append(sh.ms, Len(sh.ts)))}
        [] o = "UNMARK" -> {Next_(sh.ts, Front(sh.ms))}
        [] o = "BREAK" -> {Next_(SubSeq(sh.ts, 1, Last(sh.ms)), sh.ms)}
        [] o = "BREAK2" -> {Next_(SubSeq(sh.ts, 1, Last(sh.ms)), Front(sh.ms))}
        [] o = "RETURN" -> {}

(* What comes there fits the shape the code has there.                       *)
Fits(s, x) ==
  /\ x.ip \in DOMAIN s /\ s[x.ip].ms = x.ms /\ Len(x.ts) = Len(s[x.ip].ts)
  /\ \A i \in DOMAIN x.ts : s[x.ip].ts[i] \in {"any", x.ts[i]}

ShapeFits(c, s) ==
  /\ 0 \in DOMAIN s /\ s[0] = [ts |-> <<>>, ms |-> <<>>]
  /\ \A ip \in DOMAIN s :
       /\ ip \in Nat /\ ip < Len(c.code) /\ IsA(c.code[ip + 1], "op")
       /\ s[ip] \in Shapes /\ Ready(c, ip, s[ip])
       /\ \A x \in After(c, ip, s[ip]) : Fits(s, x)

(* Constants and the values of optional arguments (functions among these are *)
(* left out: setupArgs binds them to what lies under the calling frame).     *)
IsStatic(v) == v[1] \in {"num", "str", "nil"}

CodeFits(c) ==
  /\ c.args \in Seq(ToSet(c.args)) /\ c.opts \in Seq(ToSet(c.opts))
  /\ \A i \in DOMAIN c.opts : IsStatic(c.opts[i][2])
  /\ \A i \in DOMAIN c.consts :
       IsStatic(c.consts[i]) \/ (IsA(c.consts[i], "code") /\ c.consts[i][2] \in DOMAIN Shape)

(* Every code a program can run has a shape, which it fits.                  *)
ASSUME CodeIsVerified ==
  /\ \A p \in DOMAIN Codes : IsA(Codes[p], "bad") \/ Codes[p][2] \in DOMAIN Shape
  /\ \A c \in DOMAIN Shape : CodeFits(c) /\ ShapeFits(c, Shape[c])
=============================================================================
