----------------------------- MODULE NasalCodegen -----------------------------
(***************************************************************************)
(* The back end of the Nasal compiler (codegen.c): from the tree of a       *)
(* program to its code.  Code is a sequence of cells, each an operation or  *)
(* an argument; addresses count cells from 0, constants are numbered from   *)
(* 1.  Generating code is a function from one generator state to the next;  *)
(* an error is noted in it and the state thrown away in the end, and so is  *)
(* what comes after a write behind the table of loops.                      *)
(***************************************************************************)
EXTENDS NasalParse

CONSTANTS MAX_FUNARGS  \* named arguments of a function

ASSUME FunArgsAssumption == MAX_FUNARGS \in Nat

Op(o)  == <<"op", o>>
Arg(n) == <<"arg", n>>

NoAddress == 65535  \* 0xffffff in an unsigned short

NewGenerator == [code |-> <<>>, consts |-> <<>>, loops |-> <<>>, end |-> "",
                 args |-> <<>>, opts |-> <<>>, rest |-> Str("arg"), vector |-> TRUE]

(* The first thing that ends it counts: a syntax error, or an overrun.       *)
Ended(cg, how) == IF cg.end = "" THEN [cg EXCEPT !.end = how] ELSE cg
Error(cg) == Ended(cg, "bad")
Check(cg, ok) == IF ok THEN cg ELSE Error(cg)

Size(cg) == Len(cg.code)
Emit(cg, o) == [cg EXCEPT !.code = Append(@, Op(o))]
EmitImmediate(cg, o, n) == [cg EXCEPT !.code = @ \o <<Op(o), Arg(n)>>]

(* A jump to an address that is filled in later, at the cell it returns.     *)
EmitJump(cg, o) == EmitImmediate(cg, o, NoAddress)
Spot(cg) == Size(cg) - 1
FixJumpTarget(cg, spot) == [cg EXCEPT !.code[spot + 1] = Arg(Size(cg))]

-----------------------------------------------------------------------------
(* The value of a constant that is no function.                              *)
ScalarOf(t) ==
  CASE t.type = "NIL" -> Nil
    [] t.type \in {"SYMBOL", "LITERAL"} -> t.val
    [] OTHER -> <<"bad">>

(* The number of a constant in the table, where equal ones are shared.       *)
ConstIndex(cg, c) ==
  LET i == SelectInSeq(cg.consts, LAMBDA b : b = c)
  IN  IF i = 0 \/ c[1] = "code" THEN Len(cg.consts) + 1 ELSE i

InternConstant(cg, c) ==
  [cg EXCEPT !.consts = IF ConstIndex(cg, c) > Len(@) THEN Append(@, c) ELSE @]

RECURSIVE Gen(_, _), GenExprList(_, _), GenIf(_, _, _), NewLambda(_), GenArgList(_, _),
          GenList(_, _, _), GenHash(_, _), GenCommaList(_, _), GenSlices(_, _), GenLValue(_, _),
          GenMultiLVs(_, _, _), Constant(_), DefArg(_)

(* findConstantIndex: the constant a token stands for; <<"bad">> if none, or *)
(* what has ended the generation of a function.                              *)
Constant(t) ==
  CASE t.type \in {"NIL", "SYMBOL", "LITERAL"} -> ScalarOf(t)
    [] t.type = "FUNC" -> NewLambda(t)
    [] OTHER -> <<"bad">>

WithConstant(cg, c) ==
  IF c[1] \in {"bad", "overrun"} THEN Ended(cg, c[1]) ELSE InternConstant(cg, c)

EmitConstant(cg, o, c) == EmitImmediate(WithConstant(cg, c), o, ConstIndex(cg, c))

GenScalarConstant(cg, t) ==
  IF t.type = "LITERAL" /\ t.val = Num(1) THEN Emit(cg, "PUSHONE")
  ELSE IF t.type = "LITERAL" /\ t.val = Num(0) THEN Emit(cg, "PUSHZERO")
  ELSE EmitConstant(cg, "PUSHCONST", ScalarOf(t))

GenBinOp(cg, o, t) ==
  Emit(Gen(Gen(Check(cg, BINARY(t)), LEFT(t)), RIGHT(t)), o)

-----------------------------------------------------------------------------
(* What is assigned to: the code that pushes it, the operation that sets it, *)
(* and the constant that names it.                                           *)
IsParen(t) == t.type = "LPAR" /\ Len(t.kids) = 1

LValue(cg, set, name) == [cg |-> cg, set |-> set, name |-> name]

GenLValue(cg, t) ==
  CASE IsParen(t) -> GenLValue(cg, LEFT(t))
    [] t.type = "SYMBOL" -> LValue(GenScalarConstant(cg, t), "SETSYM", t.val)
    [] t.type = "DOT" /\ RIGHT(t).type = "SYMBOL" ->
         LValue(GenScalarConstant(Gen(cg, LEFT(t)), RIGHT(t)), "SETMEMBER", RIGHT(t).val)
    [] t.type = "LBRA" -> LValue(Gen(Gen(cg, LEFT(t)), RIGHT(t)), "INSERT", Nil)
    [] t.type = "VAR" /\ RIGHT(t).type = "SYMBOL" ->
         LValue(GenScalarConstant(cg, RIGHT(t)), "SETLOCAL", RIGHT(t).val)
    [] OTHER -> LValue(Error(cg), "SETSYM", Nil)

(* Assignment with an operator: the old value is fetched with what is on the  *)
(* stack already, the new one put under it.                                  *)
OldValue(lv) ==
  CASE lv.set = "SETMEMBER" -> EmitConstant(Emit(Emit(lv.cg, "DUP2"), "POP"), "MEMBER", lv.name)
    [] lv.set = "INSERT" -> Emit(Emit(lv.cg, "DUP2"), "EXTRACT")
    [] OTHER -> EmitConstant(lv.cg, "LOCAL", lv.name)

EqOp(lv, o, t) ==
  Emit(Emit(Emit(Gen(OldValue(lv), RIGHT(t)), o),
            IF lv.set \in {"SETMEMBER", "INSERT"} THEN "XCHG2" ELSE "XCHG"), lv.set)

GenEqOp(cg, o, t) == EqOp(GenLValue(cg, LEFT(t)), o, t)

(* The length of a list of tokens joined by type, and of one in parentheses. *)
RECURSIVE CountList(_, _)
CountList(t, type) == IF t.type = type THEN 1 + CountList(RIGHT(t), type) ELSE 1

ParListLen(t) ==
  IF t.type # "LPAR" \/ LEFT(t).type # "COMMA" THEN 0 ELSE CountList(LEFT(t), "COMMA")

(* The values of a list, the last one first.                                 *)
GenCommaList(cg, t) ==
  IF t.type # "COMMA" THEN Gen(cg, t) ELSE Gen(GenCommaList(cg, RIGHT(t)), LEFT(t))

Assign(lv) == Emit(lv.cg, lv.set)

GenMultiLV(cg, t, var) ==
  IF var THEN Emit(GenScalarConstant(Check(cg, t.type = "SYMBOL"), t), "SETLOCAL")
  ELSE Assign(GenLValue(cg, t))

GenMultiLVs(cg, t, var) ==
  IF t.type # "COMMA" THEN GenMultiLV(cg, t, var)
  ELSE GenMultiLVs(Emit(GenMultiLV(cg, LEFT(t), var), "POP"), RIGHT(t), var)

GenAssign(cg, t) ==
  LET var == LEFT(t).type = "VAR" /\ ParListLen(RIGHT(LEFT(t))) > 0
      lv == IF var THEN RIGHT(LEFT(t)) ELSE LEFT(t)
      rv == RIGHT(t)
      values == IF rv.type = "LPAR"
                THEN GenCommaList(Check(cg, ParListLen(lv) = ParListLen(rv)), LEFT(rv))
                ELSE EmitImmediate(Gen(cg, rv), "UNPACK", ParListLen(lv))
  IN  IF ParListLen(lv) > 0 THEN GenMultiLVs(values, LEFT(lv), var)
      ELSE Assign(GenLValue(Gen(cg, rv), lv))

-----------------------------------------------------------------------------
(* Functions.  Arguments: the required ones, those with a default, and one   *)
(* for the rest, which has to be the last.                                   *)
DefArg(t) ==
  CASE t.type = "LPAR" -> DefArg(RIGHT(t))
    [] t.type = "MINUS" /\ RIGHT(t).type = "LITERAL" /\ RIGHT(t).val[1] = "num" ->
         Num(0 - RIGHT(t).val[2])
    [] OTHER -> Constant(t)

WithOpt(cg, name, val) ==
  [WithConstant(InternConstant(cg, name), val) EXCEPT !.opts = Append(@, <<name, val>>)]

GenArgList(cg, t) ==
  LET last == cg.rest = Str("arg")
  IN CASE t.type = "EMPTY" -> cg
       [] t.type = "ELLIPSIS" ->
            [Check(cg, last /\ LEFT(t).type = "SYMBOL")
               EXCEPT !.rest = LEFT(t).val, !.vector = TRUE]
       [] t.type = "ASSIGN" ->
            WithOpt(Check(cg, last /\ LEFT(t).type = "SYMBOL"), LEFT(t).val, DefArg(RIGHT(t)))
       [] t.type = "SYMBOL" ->
            [WithConstant(Check(cg, last /\ cg.opts = <<>> /\ Len(cg.args) < MAX_FUNARGS), t.val)
               EXCEPT !.args = Append(@, t.val)]
       [] t.type = "COMMA" -> GenArgList(GenArgList(Check(cg, last), LEFT(t)), RIGHT(t))
       [] OTHER -> Error(cg)

(* naCodeGen: the code of a block and its argument list.                     *)
CodeOf(cg) ==
  IF cg.end # "" THEN <<cg.end>>
  ELSE <<"code", [code |-> cg.code, consts |-> InternConstant(cg, cg.rest).consts, args |-> cg.args,
                  opts |-> cg.opts, rest |-> cg.rest, vector |-> cg.vector]>>

GenArgs(cg, arglist) ==
  IF arglist = None THEN cg ELSE GenArgList([cg EXCEPT !.vector = FALSE], arglist)

CodeGen(block, arglist) ==
  CodeOf(GenArgs(Emit(GenExprList(NewGenerator, block), "RETURN"), arglist))

NewLambda(t) ==
  IF RIGHT(t).type # "LCURL" THEN <<"bad">>
  ELSE CodeGen(LEFT(RIGHT(t)), IF LEFT(t).type = "LPAR" THEN LEFT(LEFT(t)) ELSE None)

(* The elements of a list and of a hash; a call.                             *)
GenList(cg, t, append) ==
  LET Element(c, e) == IF append THEN Emit(Gen(c, e), "VAPPEND") ELSE Gen(c, e)
  IN  CASE t.type \in {"none", "EMPTY"} -> cg
        [] t.type = "COMMA" -> GenList(Element(cg, LEFT(t)), RIGHT(t), append)
        [] OTHER -> Element(cg, t)

RECURSIVE ListLen(_)
ListLen(t) == CASE t.type \in {"none", "EMPTY"} -> 0
                [] t.type = "COMMA" -> 1 + ListLen(RIGHT(t))
                [] OTHER -> 1

GenHashElem(cg, t) ==
  IF t.type \in {"none", "EMPTY"} THEN cg
  ELSE Emit(Gen(GenScalarConstant(Check(cg, t.type = "COLON" /\ LEFT(t).type \in {"SYMBOL", "LITERAL"}),
                                  LEFT(t)), RIGHT(t)), "HAPPEND")

GenHash(cg, t) ==
  IF t.type = "COMMA" THEN GenHash(GenHashElem(cg, LEFT(t)), RIGHT(t)) ELSE GenHashElem(cg, t)

IsHashcall(t) == (IF t.type = "COMMA" THEN LEFT(t).type ELSE t.type) = "COLON"

IsMethod(t) == LEFT(t).type = "DOT"

GenCallee(cg, t) ==
  IF IsMethod(t)
  THEN EmitConstant(Emit(Gen(cg, LEFT(LEFT(t))), "DUP"), "MEMBER", Constant(RIGHT(LEFT(t))))
  ELSE Gen(cg, LEFT(t))

GenArguments(callee, t) ==
  IF RIGHT(t).type # "none" /\ IsHashcall(RIGHT(t))
  THEN Emit(GenHash(Emit(callee, "NEWHASH"), RIGHT(t)), IF IsMethod(t) THEN "MCALLH" ELSE "FCALLH")
  ELSE EmitImmediate(GenList(callee, RIGHT(t), FALSE), IF IsMethod(t) THEN "MCALL" ELSE "FCALL",
                     ListLen(RIGHT(t)))

GenFuncall(cg, t) == GenArguments(GenCallee(cg, t), t)

-----------------------------------------------------------------------------
(* Conditions.                                                               *)
GenOther(test, t) == FixJumpTarget(Gen(Emit(test, "POP"), RIGHT(t)), Spot(test))
GenShortCircuit(cg, t) ==
  GenOther(EmitJump(Gen(cg, LEFT(t)), IF t.type = "AND" THEN "JIFNOT" ELSE "JIFTRUE"), t)

(* Two branches and the code that generates them.                            *)
ElseBranch(end, spot, Else(_)) == FixJumpTarget(Else(FixJumpTarget(end, spot)), Spot(end))
ThenBranch(next, Then(_), Else(_)) == ElseBranch(EmitJump(Then(next), "JMP"), Spot(next), Else)
Branches(cg, test, Then(_), Else(_)) ==
  ThenBranch(EmitJump(Gen(cg, test), "JIFNOTPOP"), Then, Else)

GenIf(cg, t, elses) ==
  Branches(cg, LEFT(t),
    LAMBDA c : GenExprList(c, LEFT(t.kids[2])),
    LAMBDA c : CASE elses = <<>> -> Emit(c, "PUSHNIL")
                 [] elses # <<>> /\ Head(elses).type = "ELSIF" ->
                      GenIf(c, Head(elses), Tail(elses))
                 [] OTHER -> GenExprList(c, LEFT(LEFT(Head(elses)))))

GenQuestion(cg, t) ==
  Branches(Check(cg, RIGHT(t).type = "COLON"), LEFT(t),
    LAMBDA c : Gen(c, LEFT(RIGHT(t))), LAMBDA c : Gen(c, RIGHT(RIGHT(t))))

-----------------------------------------------------------------------------
(* Loops: MARK, test, exit jump; over the jump that continue uses; body,      *)
(* update, back to the test; UNMARK and a nil.  break jumps to the exit jump  *)
(* with a value that makes it exit (mutant: continue goes to the test).      *)
(* The table has MAX_MARK_DEPTH places and is not checked: a loop nested      *)
(* deeper writes over loopTop and consts, which follow it (parse.h:109-117).  *)
StartLoop(cg, label) ==
  LET fits == IF Len(cg.loops) < MAX_MARK_DEPTH THEN cg ELSE Ended(cg, "overrun")
  IN  Emit([fits EXCEPT !.loops = Append(@, [brk |-> NoAddress, cont |-> NoAddress,
                                             label |-> label])],
           "MARK")

BreakIP(jumpEnd) == jumpEnd - 1
ContIP_Test(over, top) == top
ContIP(over, top) == Size(over)

GenUpdate(cg, update) == IF update = None THEN cg ELSE Emit(Gen(cg, update), "POP")

GenLoop(cg, body, update, top, jumpEnd) ==
  LET n == Len(cg.loops)
      over == EmitJump(cg, "JMP")
      cont == EmitJump([over EXCEPT !.loops[n].brk = BreakIP(jumpEnd),
                                    !.loops[n].cont = ContIP(over, top)], "JMP")
      done == Emit(GenExprList(FixJumpTarget(cont, Spot(over)), body), "POP")
      step == GenUpdate(FixJumpTarget(done, Spot(cont)), update)
      end  == FixJumpTarget(EmitImmediate(step, "JMPLOOP", top), jumpEnd)
  IN  Emit(Emit([end EXCEPT !.loops = Front(@)], "UNMARK"), "PUSHNIL")

GenExitLoop(top, exit, update, body) == GenLoop(exit, body, update, top, Spot(exit))
GenTestLoop(start, test, update, body) ==
  GenExitLoop(Size(start), EmitJump(Gen(start, test), "JIFNOTPOP"), update, body)
GenForWhile(cg, init, test, update, body, label) ==
  GenTestLoop(StartLoop(IF init = None THEN cg ELSE Emit(Gen(cg, init), "POP"), label),
              test, update, body)

(* The terms of a loop's header, the label taken off.                        *)
HasLabel(h, n) == CountList(h, "SEMI") = n + 1
Header(h, n) == IF HasLabel(h, n) THEN RIGHT(h) ELSE h
LabelOf(h, n) == IF HasLabel(h, n) THEN LEFT(h) ELSE None
HeaderOK(h, n) ==
  CountList(h, "SEMI") = n \/ (HasLabel(h, n) /\ LEFT(h).type = "SYMBOL")

GenWhile(cg, t) ==
  LET h == LEFT(LEFT(t))
  IN  GenForWhile(Check(cg, HeaderOK(h, 1)), None, Header(h, 1), None, LEFT(RIGHT(t)),
                  LabelOf(h, 1))

GenFor(cg, t) ==
  LET h == LEFT(LEFT(t))
      terms == Header(h, 3)
  IN  GenForWhile(Check(cg, HeaderOK(h, 3)), LEFT(terms), LEFT(RIGHT(terms)),
                  RIGHT(RIGHT(terms)), LEFT(RIGHT(t)), LabelOf(h, 3))

GenElement(top, exit, elem, body) ==
  GenLoop(Emit(Assign(GenLValue(exit, elem)), "POP"), body, None, top, Spot(exit))
GenEachLoop(start, t, elem) ==
  GenElement(Size(start),
             EmitJump(Emit(start, IF t.type = "FOREACH" THEN "EACH" ELSE "INDEX"), "JIFEND"),
             elem, LEFT(RIGHT(t)))
GenForEach(cg, t) ==
  LET h == LEFT(LEFT(t))
      vec == Gen(Check(cg, HeaderOK(h, 2)), RIGHT(Header(h, 2)))
  IN  Emit(Emit(GenEachLoop(StartLoop(Emit(vec, "PUSHZERO"), LabelOf(h, 2)), t, LEFT(Header(h, 2))),
                "POP"), "POP")

(* break and continue, also of an outer loop with a label: the innermost with *)
(* that name.  Outside every loop the addresses are read from memory that is  *)
(* none of the generator's; programs that do so are not compiled here.        *)
Levels(cg, label) ==
  IF label = None THEN 1
  ELSE 1 + Len(cg.loops) - SelectLastInSeq(cg.loops, LAMBDA l : l.label = label)

RECURSIVE EmitTimes(_, _, _)
EmitTimes(cg, o, n) == IF n <= 0 THEN cg ELSE EmitTimes(Emit(cg, o), o, n - 1)

GenBreakContinue(cg, t) ==
  LET levels == Levels(cg, RIGHT(t))
      loop == cg.loops[Len(cg.loops) + 1 - levels]
      out == Emit(EmitTimes(cg, "BREAK2", levels - 1), "BREAK")
  IN  IF levels > Len(cg.loops) \/ RIGHT(t).type \notin {"none", "SYMBOL"} THEN Error(cg)
      ELSE IF t.type = "BREAK"
      THEN EmitImmediate(Emit(out, "PUSHEND"), "JMP", loop.brk)
      ELSE EmitImmediate(out, "JMP", loop.cont)

-----------------------------------------------------------------------------
(* Indexing and slicing.                                                     *)
GenSlice(cg, t) ==
  LET Bound(c, b) == IF b.type = "none" THEN Emit(c, "PUSHNIL") ELSE Gen(c, b)
  IN  CASE t.type \in {"none", "EMPTY"} -> Error(cg)
        [] t.type = "COLON" -> Emit(Bound(Bound(cg, LEFT(t)), RIGHT(t)), "SLICE2")
        [] OTHER -> Emit(Gen(cg, t), "SLICE")

GenSlices(cg, t) ==
  IF t.type = "COMMA" THEN GenSlices(GenSlice(cg, LEFT(t)), RIGHT(t)) ELSE GenSlice(cg, t)

GenFrom(box, t) ==
  IF t.type \notin {"COMMA", "COLON"} THEN Emit(Gen(box, t), "EXTRACT")
  ELSE Emit(Emit(GenSlices(Emit(box, "NEWVEC"), t), "XCHG"), "POP")
GenExtract(cg, t) == GenFrom(Gen(cg, LEFT(t)), RIGHT(t))

-----------------------------------------------------------------------------
(* genExpr: the code of an expression leaves its value on the stack.         *)
BinOps == {"MUL", "PLUS", "DIV", "CAT", "LT", "LTE", "EQ", "NEQ", "GT", "GTE"}
EqOps == [PLUSEQ |-> "PLUS", MINUSEQ |-> "MINUS", MULEQ |-> "MUL", DIVEQ |-> "DIV",
          CATEQ |-> "CAT"]

Unmarks(cg) == Len(cg.loops)

GenReturn(cg, t) ==
  LET value == IF RIGHT(t).type = "none" THEN Emit(cg, "PUSHNIL") ELSE Gen(cg, RIGHT(t))
  IN  Emit(EmitTimes(value, "UNMARK", Unmarks(cg)), "RETURN")

GenMinus(cg, t) ==
  LET r == RIGHT(t)
  IN  CASE BINARY(t) -> GenBinOp(cg, "MINUS", t)
        [] ~BINARY(t) /\ r.type = "LITERAL" /\ r.val[1] = "num" ->
             GenScalarConstant(cg, Token("LITERAL", Num(0 - r.val[2])))
        [] OTHER -> Emit(Gen(cg, r), "NEG")

Gen(cg, t) ==
  CASE t.type = "TOP" -> GenExprList(cg, LEFT(t))
    [] t.type = "IF" -> GenIf(cg, t, SubSeq(t.kids, 3, Len(t.kids)))
    [] t.type = "QUESTION" -> GenQuestion(cg, t)
    [] t.type = "WHILE" -> GenWhile(cg, t)
    [] t.type = "FOR" -> GenFor(cg, t)
    [] t.type \in {"FOREACH", "FORINDEX"} -> GenForEach(cg, t)
    [] t.type = "FUNC" -> EmitConstant(cg, "PUSHCONST", NewLambda(t))
    [] t.type = "ASSIGN" -> GenAssign(cg, t)
    [] t.type = "LITERAL" -> GenScalarConstant(cg, t)
    [] t.type \in {"BREAK", "CONTINUE"} -> GenBreakContinue(cg, t)
    [] t.type = "LPAR" -> IF BINARY(t) \/ RIGHT(t).type = "none"
                          THEN GenFuncall(cg, t) ELSE Gen(cg, LEFT(t))
    [] t.type = "LBRA" -> IF BINARY(t) THEN GenExtract(cg, t)
                          ELSE GenList(Emit(cg, "NEWVEC"), LEFT(t), TRUE)
    [] t.type = "LCURL" -> GenHash(Emit(cg, "NEWHASH"), LEFT(t))
    [] t.type = "RETURN" -> GenReturn(cg, t)
    [] t.type = "NOT" -> Emit(Gen(cg, RIGHT(t)), "NOT")
    [] t.type = "NEG" -> Emit(Gen(cg, RIGHT(t)), "NEG")
    [] t.type = "MINUS" -> GenMinus(cg, t)
    [] t.type = "SYMBOL" -> EmitConstant(cg, "LOCAL", t.val)
    [] t.type = "DOT" -> EmitConstant(Gen(Check(cg, RIGHT(t).type = "SYMBOL"), LEFT(t)), "MEMBER",
                                      Constant(RIGHT(t)))
    [] t.type \in {"EMPTY", "NIL"} -> Emit(cg, "PUSHNIL")
    [] t.type \in {"AND", "OR"} -> GenShortCircuit(cg, t)
    [] t.type \in BinOps -> GenBinOp(cg, t.type, t)
    [] t.type \in DOMAIN EqOps -> GenEqOp(cg, EqOps[t.type], t)
    [] OTHER -> Error(cg)

(* Statements, the value of the last one.                                    *)
GenExprList(cg, t) ==
  IF t.type # "SEMI" THEN Gen(cg, t)
  ELSE IF RIGHT(t).type \in {"none", "EMPTY"} THEN Gen(cg, LEFT(t))
  ELSE GenExprList(Emit(Gen(cg, LEFT(t)), "POP"), RIGHT(t))

(* naParseCode: the code of a program, <<"bad">> after a syntax error, and    *)
(* <<"overrun">> when the process has lost its generator, and its memory.     *)
CompileTree(tree) == IF HasError(tree) THEN <<"bad">> ELSE CodeGen(tree, None)
Compile(words) == CompileTree(ParseCode(words))
=============================================================================
