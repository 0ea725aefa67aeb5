-------------------------------- MODULE NasalVM --------------------------------
(***************************************************************************)
(* The Nasal virtual machine (code.c) with the functions of the library     *)
(* that reach into it (lib.c), running one program from main() to its end. *)
(* One step is one operation of the code, with the whole of the C function  *)
(* it may call; call() enters a context of its own, and an error leaves one *)
(* context per step.  Numbers are integers, the text of errors is its kind, *)
(* hashes are functions here (the table is a module of its own) and memory *)
(* is not collected.                                                       *)
(***************************************************************************)
EXTENDS NasalScalar, Sequences, SequencesExt

CONSTANTS Codes,            \* what naParseCode makes of each program
          MAX_STACK_DEPTH, MAX_RECURSION, MAX_PARENTS

ASSUME BoundsAssumption ==
  {MAX_STACK_DEPTH, MAX_RECURSION, MAX_MARK_DEPTH, MAX_PARENTS} \subseteq Nat \ {0}

VARIABLES
  prog,     \* the program that runs, an index of Codes
  mode,     \* "parse", "run", "back" (naCall has returned in cur), "done"
  result,   \* what naCall returned
  ctxs,     \* every context ever allocated
  free,     \* the list of free contexts, the next one first
  cur,      \* the context that runs
  vecs, hashes, funcs   \* the objects, by their number

vars == <<prog, mode, result, ctxs, free, cur, vecs, hashes, funcs>>
heap == <<vecs, hashes, funcs>>

Vec(i) == <<"vec", i>>
Hash(i) == <<"hash", i>>
Func(i) == <<"func", i>>
Native(name) == <<"native", name>>
NoContext == 0

IsFunc(v) == v[1] \in {"func", "native"}

(* Hashes: one entry, and f with the entries of g for the names it lacks.    *)
One(k, v) == [x \in {k} |-> v]
Filled(f, g) == [k \in DOMAIN f \cup DOMAIN g |-> IF k \in DOMAIN f THEN f[k] ELSE g[k]]

VecOf(v) == vecs[v[2]]
HashOf(v) == hashes[v[2]]
FuncOf(v) == funcs[v[2]]

-----------------------------------------------------------------------------
(* An index into n elements, counted from the end if it is negative (checkVec*)
(* and vbound).                                                              *)
Index(n, v) == IF Numify(v) < 0 THEN Numify(v) + n ELSE Numify(v)
InBounds(n, v) == IsNumeric(v) /\ Index(n, v) \in 0..(n - 1)

-----------------------------------------------------------------------------
(* Contexts: a call stack, an operand stack and a stack of marks; the context*)
(* that called it and the one it called; and the C function it waits in.     *)
NewFields == [frames |-> <<>>, ops |-> <<>>, marks |-> <<>>, opFrame |-> 0,
              parent |-> NoContext, child |-> NoContext, dieArg |-> Nil, error |-> "",
              waits |-> <<>>]

me == ctxs[cur]
frame == Last(me.frames)
code == FuncOf(frame.func).code

(* The context and those it called, innermost last: the order in which they  *)
(* end up on the free list (mutant: a child is forgotten).                   *)
Lineage_Forgets(cs, c) == <<c>>
Lineage(cs, c) ==
  LET upTo[n \in 0..Len(cs)] ==
        LET line == IF n = 0 THEN <<c>> ELSE upTo[n - 1]
        IN  IF n = 0 \/ cs[Last(line)].child = NoContext THEN line
            ELSE Append(line, cs[Last(line)].child)
  IN  upTo[Len(cs)]

(* naFreeContext, on the contexts and the free list.                         *)
FreeContext(cs, fr, c) ==
  [cs |-> [x \in DOMAIN cs |->
             IF \E y \in ToSet(Lineage(cs, c)) : cs[y].parent = x
             THEN [cs[x] EXCEPT !.child = NoContext] ELSE cs[x]],
   fr |-> Lineage(cs, c) \o fr]

FreeChild(cs, fr, c) ==
  IF cs[c].child = NoContext THEN [cs |-> cs, fr |-> fr] ELSE FreeContext(cs, fr, cs[c].child)

(* naNewContext and naSubContext: the new context is taken before the old    *)
(* child is freed.                                                           *)
NewContext == IF free = <<>> THEN Len(ctxs) + 1 ELSE Head(free)

WithNewContext ==
  [cs |-> IF free = <<>> THEN Append(ctxs, NewFields)
          ELSE [ctxs EXCEPT ![NewContext] = NewFields],
   fr |-> IF free = <<>> THEN <<>> ELSE Tail(free)]

SubContext ==
  LET freed == FreeChild(WithNewContext.cs, WithNewContext.fr, cur)
  IN  [freed EXCEPT !.cs[cur].child = NewContext, !.cs[NewContext].parent = cur]

-----------------------------------------------------------------------------
(* naRuntimeError: the longjmp back into the naCall of the context.          *)
Throw(kind, arg) ==
  /\ ctxs' = [ctxs EXCEPT ![cur].error = kind, ![cur].dieArg = arg]
  /\ mode' = "back" /\ result' = Nil
  /\ UNCHANGED <<prog, free, cur>>

Error_(kind) == Throw(kind, me.dieArg) /\ UNCHANGED heap

(* The next operation; to go on with other operands n cells further.         *)
At(ops) == mode = "run" /\ code.code[frame.ip + 1][2] \in ops
CodeOp == code.code[frame.ip + 1][2]
CodeArg == code.code[frame.ip + 2][2]
Const == code.consts[CodeArg]

STK(n) == me.ops[Len(me.ops) + 1 - n]
Popped(n) == SubSeq(me.ops, 1, Len(me.ops) - n)

Frames(ip) == [me.frames EXCEPT ![Len(me.frames)].ip = ip]

(* (mutant: without a limit).                                                *)
Goto_Unlimited(ip, ops) ==
  ctxs' = [ctxs EXCEPT ![cur].frames = Frames(ip), ![cur].ops = ops]
  /\ UNCHANGED <<prog, mode, result, free, cur>>
Goto(ip, ops) ==
  IF Len(ops) > MAX_STACK_DEPTH THEN Throw("stack overflow", me.dieArg)
  ELSE /\ ctxs' = [ctxs EXCEPT ![cur].frames = Frames(ip), ![cur].ops = ops]
       /\ UNCHANGED <<prog, mode, result, free, cur>>

(* (mutant: the argument of an operation is not passed over).                *)
Go_One(n, ops) == Goto(frame.ip + 1, ops)
Go(n, ops) == Goto(frame.ip + n, ops)
GoIf(ok, kind, n, ops) == IF ok THEN Go(n, ops) ELSE Throw(kind, me.dieArg)

-----------------------------------------------------------------------------
(* The operations on the operand stack.                                      *)
Pop == At({"POP"}) /\ Go(1, Popped(1)) /\ UNCHANGED heap

Dup == At({"DUP"}) /\ Go(1, Append(me.ops, STK(1))) /\ UNCHANGED heap

Dup2 == At({"DUP2"}) /\ Go(1, me.ops \o <<STK(2), STK(1)>>) /\ UNCHANGED heap

Xchg == At({"XCHG"}) /\ Go(1, Popped(2) \o <<STK(1), STK(2)>>) /\ UNCHANGED heap

(* (mutant: the value stays on top).                                         *)
Rotated_Not == <<STK(2), STK(3), STK(1)>>
Rotated == <<STK(1), STK(3), STK(2)>>
Xchg2 == At({"XCHG2"}) /\ Go(1, Popped(3) \o Rotated) /\ UNCHANGED heap

BinOp ==
  /\ At(ArithOps)
  /\ IF IsNumeric(STK(2)) /\ IsNumeric(STK(1))
     THEN Go(1, Append(Popped(2), Arith(CodeOp, Numify(STK(2)), Numify(STK(1)))))
     ELSE Throw("not a number", me.dieArg)
  /\ UNCHANGED heap

Equality ==
  /\ At({"EQ", "NEQ"})
  /\ Go(1, Append(Popped(2), Bool(NaEqual(STK(2), STK(1)) <=> CodeOp = "EQ")))
  /\ UNCHANGED heap

Cat ==
  /\ At({"CAT"})
  /\ IF IsA(STK(2), "vec") /\ IsA(STK(1), "vec")
     THEN /\ vecs' = Append(vecs, VecOf(STK(2)) \o VecOf(STK(1)))
          /\ Go(1, Append(Popped(2), Vec(Len(vecs'))))
     ELSE /\ IF IsScalar(STK(2)) /\ IsScalar(STK(1))
             THEN Go(1, Append(Popped(2), Str(Stringify(STK(2)) \o Stringify(STK(1)))))
             ELSE Throw("not a scalar", me.dieArg)
          /\ UNCHANGED vecs
  /\ UNCHANGED <<hashes, funcs>>

Neg ==
  /\ At({"NEG"})
  /\ IF IsNumeric(STK(1)) THEN Go(1, Append(Popped(1), Num(0 - Numify(STK(1)))))
     ELSE Throw("not a number", me.dieArg)
  /\ UNCHANGED heap

Not ==
  /\ At({"NOT"})
  /\ GoIf(CanBoolify(STK(1)), "not a scalar", 1, Append(Popped(1), Bool(~Boolify(STK(1)))))
  /\ UNCHANGED heap

(* A constant; a function is bound to the frame it comes to life in.         *)
BindFunction(c, f) == [code |-> c[2], ns |-> f.locals, next |-> f.func]

PushConst ==
  /\ At({"PUSHCONST"})
  /\ funcs' = IF IsA(Const, "code") THEN Append(funcs, BindFunction(Const, frame)) ELSE funcs
  /\ Go(2, Append(me.ops, IF IsA(Const, "code") THEN Func(Len(funcs')) ELSE Const))
  /\ UNCHANGED <<vecs, hashes>>

Pushes == [PUSHONE |-> Num(1), PUSHZERO |-> Num(0), PUSHNIL |-> Nil, PUSHEND |-> End]

Push == At(DOMAIN Pushes) /\ Go(1, Append(me.ops, Pushes[CodeOp])) /\ UNCHANGED heap

NewVec ==
  /\ At({"NEWVEC"})
  /\ vecs' = Append(vecs, <<>>)
  /\ Go(1, Append(me.ops, Vec(Len(vecs'))))
  /\ UNCHANGED <<hashes, funcs>>

NewHash ==
  /\ At({"NEWHASH"})
  /\ hashes' = Append(hashes, <<>>)
  /\ Go(1, Append(me.ops, Hash(Len(hashes'))))
  /\ UNCHANGED <<vecs, funcs>>

VAppend ==
  /\ At({"VAPPEND"})
  /\ vecs' = [vecs EXCEPT ![STK(2)[2]] = Append(@, STK(1))]
  /\ Go(1, Popped(1))
  /\ UNCHANGED <<hashes, funcs>>

SetHash(h, k, v) == hashes' = [hashes EXCEPT ![h[2]] = Filled(One(k, v), @)]

HAppend ==
  /\ At({"HAPPEND"})
  /\ SetHash(STK(3), STK(2), STK(1))
  /\ Go(1, Popped(2))
  /\ UNCHANGED <<vecs, funcs>>

-----------------------------------------------------------------------------
(* Variables: the locals of a frame, then those its function was born in.    *)
Closure(f) ==
  LET line[n \in 0..Len(funcs)] ==
        IF n = 0 THEN <<f>>
        ELSE LET before == line[n - 1]
                 next == FuncOf(Last(before)).next
             IN  IF next = Nil THEN before ELSE Append(before, next)
      all == line[Len(funcs)]
  IN  [i \in DOMAIN all |-> FuncOf(all[i]).ns]

Scopes(f) == <<f.locals>> \o Closure(f.func)

(* The innermost scope that has the name, 0 if none.                         *)
ScopeOf(f, name) == SelectInSeq(Scopes(f), LAMBDA ns : name \in DOMAIN HashOf(ns))

GetLocal ==
  /\ At({"LOCAL"})
  /\ LET i == ScopeOf(frame, Const)
     IN  IF i = 0 THEN Throw("undefined symbol", me.dieArg)
         ELSE Go(2, Append(me.ops, HashOf(Scopes(frame)[i])[Const]))
  /\ UNCHANGED heap

(* (mutant: an assignment always makes a local variable).                    *)
ScopeToSet_Local(f, name) == f.locals
ScopeToSet(f, name) ==
  IF ScopeOf(f, name) = 0 THEN f.locals ELSE Scopes(f)[ScopeOf(f, name)]

SetSym ==
  /\ At({"SETSYM"})
  /\ SetHash(ScopeToSet(frame, STK(1)), STK(1), STK(2))
  /\ Go(1, Popped(1))
  /\ UNCHANGED <<vecs, funcs>>

SetLocal ==
  /\ At({"SETLOCAL"})
  /\ SetHash(frame.locals, STK(1), STK(2))
  /\ Go(1, Popped(1))
  /\ UNCHANGED <<vecs, funcs>>

(* Members: of the object, else of its parents depth first, in order.        *)
Found(v) == <<"found", v>>
Missing == <<"missing">>
Failed == <<"failed">>

GetMember(obj, name, count) ==
  LET find[n \in 0..count] ==
        LET Of(h) ==
              LET parents == VecOf(h[Str("parents")])
                  Up(k) == IF IsA(parents[k], "hash") THEN find[n - 1][parents[k][2]] ELSE Failed
                  ends == {k \in DOMAIN parents : Up(k) # Missing}
              IN  IF n = 0 THEN Failed
                  ELSE IF name \in DOMAIN h THEN Found(h[name])
                  ELSE IF Str("parents") \notin DOMAIN h THEN Missing
                  ELSE IF ~IsA(h[Str("parents")], "vec") THEN Failed
                  ELSE IF ends = {} THEN Missing ELSE Up(Min(ends))
        IN  [i \in DOMAIN hashes |-> Of(hashes[i])]
  IN  IF IsA(obj, "hash") THEN find[count][obj[2]] ELSE Failed

Member ==
  /\ At({"MEMBER"})
  /\ LET r == GetMember(STK(1), Const, MAX_PARENTS)
     IN  IF IsA(r, "found") THEN Go(2, Append(Popped(1), r[2]))
         ELSE Throw("no such member", me.dieArg)
  /\ UNCHANGED heap

SetMember ==
  /\ At({"SETMEMBER"})
  /\ IF IsA(STK(2), "hash")
     THEN SetHash(STK(2), STK(1), STK(3)) /\ Go(1, Popped(2))
     ELSE Throw("not an object", me.dieArg) /\ UNCHANGED hashes
  /\ UNCHANGED <<vecs, funcs>>

-----------------------------------------------------------------------------
(* Elements of vectors and hashes.  Strings, whose bytes can be read and     *)
(* sometimes written by index, are whole here.                               *)
CanIndex(box, key) ==
  \/ IsA(box, "hash") /\ IsScalar(key)
  \/ IsA(box, "vec") /\ IsScalar(key) /\ InBounds(Len(VecOf(box)), key)

ElementAt(v, key) == VecOf(v)[Index(Len(VecOf(v)), key) + 1]

ContainerGet(box, key) ==
  IF IsA(box, "vec") THEN ElementAt(box, key)
  ELSE IF key \in DOMAIN HashOf(box) THEN HashOf(box)[key] ELSE Nil

Extract ==
  /\ At({"EXTRACT"})
  /\ IF CanIndex(STK(2), STK(1))
     THEN Go(1, Append(Popped(2), ContainerGet(STK(2), STK(1))))
     ELSE Throw("bad index", me.dieArg)
  /\ UNCHANGED heap

Insert ==
  /\ At({"INSERT"})
  /\ IF ~CanIndex(STK(2), STK(1))
     THEN Throw("bad index", me.dieArg) /\ UNCHANGED <<vecs, hashes>>
     ELSE /\ IF IsA(STK(2), "hash")
             THEN SetHash(STK(2), STK(1), STK(3)) /\ UNCHANGED vecs
             ELSE /\ vecs' = [vecs EXCEPT ![STK(2)[2]] =
                                [@ EXCEPT ![Index(Len(@), STK(1)) + 1] = STK(3)]]
                  /\ UNCHANGED hashes
          /\ Go(1, Popped(2))
  /\ UNCHANGED funcs

(* A slice adds to the vector under its bounds, from the one under that; a   *)
(* missing bound is the first element or the last.                           *)
AppendTo(v, elems) == vecs' = [vecs EXCEPT ![v[2]] = @ \o elems]

Slice ==
  /\ At({"SLICE"})
  /\ IF IsA(STK(3), "vec") /\ InBounds(Len(VecOf(STK(3))), STK(1))
     THEN AppendTo(STK(2), <<ElementAt(STK(3), STK(1))>>) /\ Go(1, Popped(1))
     ELSE Throw("bad slice", me.dieArg) /\ UNCHANGED vecs
  /\ UNCHANGED <<hashes, funcs>>

BoundOK(n, b) == b = Nil \/ InBounds(n, b)
Bound(n, b, missing) ==
  IF b # Nil THEN Index(n, b) ELSE IF missing < 0 /\ n > 0 THEN missing + n ELSE missing

Slice2 ==
  /\ At({"SLICE2"})
  /\ LET src == VecOf(STK(4))
         n == Len(src)
     IN  IF IsA(STK(4), "vec") /\ BoundOK(n, STK(2)) /\ BoundOK(n, STK(1))
         THEN /\ AppendTo(STK(3), SubSeq(src, Bound(n, STK(2), 0) + 1, Bound(n, STK(1), 0 - 1) + 1))
              /\ Go(1, Popped(2))
         ELSE Throw("bad slice", me.dieArg) /\ UNCHANGED vecs
  /\ UNCHANGED <<hashes, funcs>>

Unpack ==
  /\ At({"UNPACK"})
  /\ IF IsA(STK(1), "vec") /\ Len(VecOf(STK(1))) >= CodeArg
     THEN Go(2, Popped(1) \o Reverse(SubSeq(VecOf(STK(1)), 1, CodeArg)))
     ELSE Throw("bad vector", me.dieArg)
  /\ UNCHANGED heap

-----------------------------------------------------------------------------
(* Jumps and loops.                                                          *)
Jump == At({"JMP", "JMPLOOP"}) /\ Goto(CodeArg, me.ops) /\ UNCHANGED heap

JumpIfEnd ==
  /\ At({"JIFEND"})
  /\ IF STK(1) = End THEN Goto(CodeArg, Popped(1)) ELSE Go(2, me.ops)
  /\ UNCHANGED heap

JumpIf ==
  /\ At({"JIFTRUE", "JIFNOT", "JIFNOTPOP"})
  /\ LET left == IF CodeOp = "JIFNOTPOP" THEN Popped(1) ELSE me.ops
     IN  IF ~CanBoolify(STK(1)) THEN Throw("not a scalar", me.dieArg)
         ELSE IF Boolify(STK(1)) <=> CodeOp = "JIFTRUE" THEN Goto(CodeArg, left)
         ELSE Go(2, left)
  /\ UNCHANGED heap

Each ==
  /\ At({"EACH", "INDEX"})
  /\ IF ~IsA(STK(2), "vec") THEN Throw("not a vector", me.dieArg)
     ELSE IF STK(1)[2] >= Len(VecOf(STK(2))) THEN Go(1, Append(me.ops, End))
     ELSE Go(1, Popped(1) \o <<Num(STK(1)[2] + 1),
                               IF CodeOp = "INDEX" THEN STK(1) ELSE ElementAt(STK(2), STK(1))>>)
  /\ UNCHANGED heap

SetMarks(marks, ops) ==
  /\ ctxs' = [ctxs EXCEPT ![cur].frames = Frames(frame.ip + 1), ![cur].marks = marks,
                          ![cur].ops = ops]
  /\ UNCHANGED <<prog, mode, result, free, cur, heap>>

Mark ==
  /\ At({"MARK"})
  /\ IF Len(me.marks) >= MAX_MARK_DEPTH THEN Error_("mark stack overflow")
     ELSE SetMarks(Append(me.marks, Len(me.ops)), me.ops)

(* (mutant: the mark stays).                                                 *)
Unmark_Keeps == At({"UNMARK"}) /\ SetMarks(me.marks, me.ops)
Unmark == At({"UNMARK"}) /\ SetMarks(Front(me.marks), me.ops)

Break ==
  /\ At({"BREAK", "BREAK2"})
  /\ SetMarks(IF CodeOp = "BREAK" THEN me.marks ELSE Front(me.marks),
              SubSeq(me.ops, 1, Last(me.marks)))

-----------------------------------------------------------------------------
(* Calls of functions written in Nasal.                                      *)
(* Names with their values; of two with one name the first counts.           *)
Bind(names, vals) ==
  [n \in ToSet(names) |-> vals[SelectInSeq(names, LAMBDA m : m = n)]]

OptNames(c) == [i \in DOMAIN c.opts |-> c.opts[i][1]]
OptVals(c)  == [i \in DOMAIN c.opts |-> c.opts[i][2]]

(* setupArgs: the values of the named arguments; what is left over is put    *)
(* into a vector.                                                            *)
RestVec(c, args) == SubSeq(args, Len(c.args) + Len(c.opts) + 1, Len(args))
NeedsRest(c, args) == c.vector \/ RestVec(c, args) # <<>>

NamedArgs(c, args) ==
  LET na == Len(c.args)
  IN  Filled(Bind(c.args, args),
           Bind(OptNames(c), [i \in DOMAIN c.opts |-> IF na + i <= Len(args) THEN args[na + i]
                                                     ELSE c.opts[i][2]]))

(* A frame for func with the given locals, a hash that is already there or   *)
(* the next one; obj # Nil is what it is called on.                          *)
Me(obj) == IF obj = Nil THEN <<>> ELSE One(Str("me"), obj)

NewFrame(func, locals, bp) == [func |-> func, locals |-> locals, ip |-> 0, bp |-> bp]

(* The locals of a call by position, and the vectors with the rest.          *)
CallLocals(c, args, obj, v) ==
  Filled(Filled(Me(obj), NamedArgs(c, args)), IF NeedsRest(c, args) THEN One(c.rest, Vec(v)) ELSE <<>>)

(* The frame of a caller goes on behind the call, whose operands go away when*)
(* the callee's frame is there.                                              *)
EnterFrame(f, bp, n) ==
  /\ ctxs' = [ctxs EXCEPT ![cur].frames = Append(Frames(frame.ip + n), f),
                          ![cur].ops = SubSeq(@, 1, bp), ![cur].opFrame = bp]
  /\ UNCHANGED <<prog, mode, result, free, cur>>

Callee(nargs) == me.ops[Len(me.ops) - nargs]
Args(nargs) == SubSeq(me.ops, Len(me.ops) - nargs + 1, Len(me.ops))
IsMethodCall == CodeOp \in {"MCALL", "MCALLH"}
Object(nargs) == IF IsMethodCall THEN me.ops[Len(me.ops) - nargs - 1] ELSE Nil
Base(nargs) == Len(me.ops) - nargs - (IF IsMethodCall THEN 2 ELSE 1)

ByPosition == {"FCALL", "MCALL"}
ByName == {"FCALLH", "MCALLH"}

Call ==
  LET func == Callee(CodeArg)
      c == FuncOf(func).code
      args == Args(CodeArg)
  IN  /\ At(ByPosition)
      /\ ~IsA(func, "native")
      /\ IF ~IsA(func, "func") THEN Error_("uncallable")
         ELSE IF Len(me.frames) >= MAX_RECURSION THEN Error_("call stack overflow")
         ELSE IF Len(args) < Len(c.args) THEN Error_("too few args")
         ELSE /\ vecs' = IF NeedsRest(c, args) THEN Append(vecs, RestVec(c, args)) ELSE vecs
              /\ hashes' = Append(hashes, CallLocals(c, args, Object(CodeArg), Len(vecs')))
              /\ EnterFrame(NewFrame(func, Hash(Len(hashes')), Base(CodeArg)), Base(CodeArg), 2)
              /\ UNCHANGED funcs

(* checkNamedArgs: the hash of a call by name becomes the locals, with what  *)
(* it lacks.  Its keys are names here, which the code tells by identity; a   *)
(* string that reads the same is none, and no program passes one.            *)
CallByName ==
  LET func == Callee(1)
      c == FuncOf(func).code
      given == STK(1)
      needs == c.vector /\ c.rest \notin DOMAIN HashOf(given)
      locals == Filled(Filled(HashOf(given), Bind(OptNames(c), OptVals(c))),
                     IF needs THEN One(c.rest, Vec(Len(vecs) + 1)) ELSE <<>>)
  IN  /\ At(ByName)
      /\ ~IsA(func, "native")
      /\ IF ~IsA(func, "func") THEN Error_("uncallable")
         ELSE IF Len(me.frames) >= MAX_RECURSION THEN Error_("call stack overflow")
         ELSE IF ~(ToSet(c.args) \subseteq DOMAIN HashOf(given) \cup DOMAIN Me(Object(1)))
         THEN Throw("missing arg", me.dieArg) /\ UNCHANGED <<vecs, funcs>>
              /\ hashes' = [hashes EXCEPT ![given[2]] = Filled(Me(Object(1)), @)]
         ELSE /\ vecs' = IF needs THEN Append(vecs, <<>>) ELSE vecs
              /\ hashes' = [hashes EXCEPT ![given[2]] = Filled(Me(Object(1)), locals)]
              /\ EnterFrame(NewFrame(func, given, Base(1)), Base(1), 1)
              /\ UNCHANGED funcs

(* The end of a function: the value under the caller's operands.             *)
Return ==
  LET freed == FreeChild([ctxs EXCEPT ![cur].dieArg = Nil, ![cur].frames = Front(@)], free, cur)
  IN  /\ At({"RETURN"})
      /\ free' = freed.fr
      /\ IF Len(me.frames) = 1
         THEN ctxs' = freed.cs /\ mode' = "back" /\ result' = STK(1)
         ELSE /\ ctxs' = [freed.cs EXCEPT ![cur].ops =
                            Append(SubSeq(me.ops, 1, frame.bp), STK(1))]
              /\ UNCHANGED <<mode, result>>
      /\ UNCHANGED <<prog, cur, heap>>

-----------------------------------------------------------------------------
(* Calls of library functions, from code or right under call().  What one    *)
(* returns and makes of the objects, as <<kind of error or "", value, vectors,*)
(* hashes>>.                                                                 *)
Gives(v) == <<"", v, vecs, hashes>>
Refuses(kind) == <<kind, Nil, vecs, hashes>>
WithVec(v, elems, ret) == <<"", ret, [vecs EXCEPT ![v[2]] = elems], hashes>>

SizeOf(v) == IF IsA(v, "hash") THEN Cardinality(DOMAIN HashOf(v))
             ELSE IF IsA(v, "vec") THEN Len(VecOf(v)) ELSE Len(v[2])

TypeName(v) == CASE IsFunc(v) -> "func" [] IsScalar(v) -> "scalar" [] v = Nil -> "nil"
                 [] IsA(v, "vec") -> "vector" [] IsA(v, "hash") -> "hash"

FSize(args) ==
  IF args = <<>> THEN Refuses("bad argument")
  ELSE IF args[1][1] \in {"str", "vec", "hash"} THEN Gives(Num(SizeOf(args[1])))
  ELSE Refuses("no size")

FAppend(args) ==
  IF Len(args) < 2 \/ ~IsA(args[1], "vec") THEN Refuses("bad argument")
  ELSE WithVec(args[1], VecOf(args[1]) \o Tail(args), args[1])

FPop(args) ==
  IF args = <<>> \/ ~IsA(args[1], "vec") THEN Refuses("bad argument")
  ELSE IF VecOf(args[1]) = <<>> THEN Gives(Nil)
  ELSE WithVec(args[1], Front(VecOf(args[1])), Last(VecOf(args[1])))

(* A number as an int; what has none gives one that is negative, and a vector *)
(* of a negative size is taken as empty.                                     *)
AsInt(v) == IF IsNumeric(v) /\ Numify(v) \in Int THEN Numify(v) ELSE 0 - 1

FSetsize(args) ==
  IF Len(args) < 2 \/ ~IsA(args[1], "vec") THEN Refuses("bad argument")
  ELSE WithVec(args[1], [i \in 1..AsInt(args[2]) |-> IF i <= SizeOf(args[1]) THEN VecOf(args[1])[i]
                                                     ELSE Nil], args[1])

FSubvec(args) ==
  LET n == SizeOf(args[1])
      start == AsInt(args[2])
      rest == Len(args) = 2 \/ ~IsNumeric(args[3])
      len == IF rest THEN n - start ELSE AsInt(args[3])
  IN  IF Len(args) < 2 THEN Gives(Nil)
      ELSE IF ~IsA(args[1], "vec") \/ start < 0 \/ start > n \/ len < 0 THEN Refuses("bad argument")
      ELSE <<"", Vec(Len(vecs) + 1),
             Append(vecs, SubSeq(VecOf(args[1]), start + 1,
                                 start + (IF len > n - start THEN n - start ELSE len))), hashes>>

FDelete(args) ==
  IF Len(args) < 2 \/ ~IsA(args[1], "hash") THEN Refuses("bad argument")
  ELSE <<"", args[1], vecs,
         [hashes EXCEPT ![args[1][2]] = [k \in DOMAIN @ \ {args[2]} |-> @[k]]]>>

FContains(args) ==
  IF Len(args) < 2 \/ Nil \in {args[1], args[2]} THEN Refuses("bad argument")
  ELSE IF IsA(args[1], "hash") THEN Gives(Bool(args[2] \in DOMAIN HashOf(args[1])))
  ELSE Gives(Nil)

FNum(args) ==
  Gives(IF args = <<>> \/ ~IsNumeric(args[1]) THEN Nil ELSE Num(Numify(args[1])))

FStreq(args) ==
  Gives(IF Len(args) < 2 THEN Nil ELSE Bool(IsA(args[1], "str") /\ args[1] = args[2]))

FTypeof(args) == Gives(Str(IF args = <<>> THEN "nil" ELSE TypeName(args[1])))

Library(name, args) ==
  CASE name = "size" -> FSize(args)         [] name = "append" -> FAppend(args)
    [] name = "pop" -> FPop(args)           [] name = "setsize" -> FSetsize(args)
    [] name = "subvec" -> FSubvec(args)     [] name = "delete" -> FDelete(args)
    [] name = "contains" -> FContains(args) [] name = "num" -> FNum(args)
    [] name = "streq" -> FStreq(args)       [] name = "typeof" -> FTypeof(args)

LibraryNames == {"size", "append", "pop", "setsize", "subvec", "delete", "contains", "num",
                 "streq", "typeof"}

NArgs == IF CodeOp \in ByName THEN 1 ELSE CodeArg
CellsOf == IF CodeOp \in ByName THEN 1 ELSE 2
Calls(names) ==
  /\ At(ByPosition \cup ByName)
  /\ IsA(Callee(NArgs), "native") /\ Callee(NArgs)[2] \in names

CallLibrary ==
  /\ Calls(LibraryNames)
  /\ LET r == Library(Callee(NArgs)[2], Args(NArgs))
     IN  /\ vecs' = r[3] /\ hashes' = r[4] /\ UNCHANGED funcs
         /\ IF r[1] # "" THEN Throw(r[1], me.dieArg)
            ELSE IF CodeOp \in ByName THEN Throw("no named arguments", me.dieArg)
            ELSE Go(CellsOf, Append(SubSeq(me.ops, 1, Base(NArgs)), r[2]))

(* die(): of what the last call() caught, that error goes on; else a new one.*)
DieArg(args) == IF args = <<>> THEN Nil ELSE Head(args)

Die ==
  LET arg == DieArg(Args(NArgs))
      child == ctxs[me.child]
  IN  /\ Calls({"die"})
      /\ IF arg # Nil /\ me.child # NoContext /\ child.dieArg = arg
         THEN Throw(child.error, child.dieArg) ELSE Throw("__die__", arg)
      /\ UNCHANGED heap

(* call(): a subcontext in which naCall starts the function (call() itself is *)
(* not among those that it calls here).                                      *)
ArgOr(args, i, ok(_)) == IF Len(args) >= i /\ ok(args[i]) THEN args[i] ELSE Nil

CallOK(args) ==
  /\ args # <<>> /\ IsFunc(args[1])
  /\ Len(args) < 2 \/ args[2] = Nil \/ IsA(args[2], "vec")

(* naCall in the context c of cs, of a function with its arguments and       *)
(* optionally an object and locals, whose entries hide arguments of the same *)
(* name (naiHash_newsym adds a second entry that is not found).              *)
NaCall(cs, c, func, args, obj, locals) ==
  LET code_ == FuncOf(func).code
      h == IF locals = Nil THEN Len(hashes) + 1 ELSE locals[2]
      old == Filled(Me(obj), IF locals = Nil THEN <<>> ELSE HashOf(locals))
      started == [cs EXCEPT ![c].frames = <<NewFrame(func, Hash(h), 0)>>]
      few == Len(args) < Len(code_.args)
  IN  /\ vecs' = IF ~few /\ NeedsRest(code_, args) THEN Append(vecs, RestVec(code_, args)) ELSE vecs
      /\ LET new == IF few THEN old ELSE Filled(old, CallLocals(code_, args, Nil, Len(vecs')))
         IN  hashes' = IF locals = Nil THEN Append(hashes, new) ELSE [hashes EXCEPT ![h] = new]
      /\ ctxs' = IF few THEN [started EXCEPT ![c].error = "too few args"] ELSE started
      /\ mode' = IF few THEN "back" ELSE "run"
      /\ result' = Nil
      /\ UNCHANGED funcs

(* The same of a library function: it runs at once.                          *)
NaCallLibrary(cs, c, name, args) ==
  LET r == IF name = "die" THEN <<"__die__", Nil, vecs, hashes>> ELSE Library(name, args)
  IN  /\ vecs' = r[3] /\ hashes' = r[4] /\ UNCHANGED funcs
      /\ ctxs' = [cs EXCEPT ![c].error = r[1],
                            ![c].dieArg = IF name = "die" THEN DieArg(args) ELSE Nil]
      /\ result' = r[2] /\ mode' = "back"

CallCall ==
  LET args == Args(NArgs)
      callargs == IF Len(args) < 2 \/ args[2] = Nil THEN <<>> ELSE VecOf(args[2])
      IsHash(v) == IsA(v, "hash")
      waiting == [SubContext.cs EXCEPT ![cur].waits = args, ![cur].opFrame = Base(NArgs),
                                       ![cur].frames = Frames(frame.ip + CellsOf)]
  IN  /\ Calls({"call"}) /\ (CallOK(args) => args[1] # Native("call"))
      /\ IF ~CallOK(args) THEN Error_("bad argument")
         ELSE /\ cur' = NewContext /\ free' = SubContext.fr /\ UNCHANGED prog
              /\ IF IsA(args[1], "native")
                 THEN NaCallLibrary(waiting, NewContext, args[1][2], callargs)
                 ELSE NaCall(waiting, NewContext, args[1], callargs,
                             ArgOr(args, 3, IsHash), ArgOr(args, 4, IsHash))

-----------------------------------------------------------------------------
(* Back in f_call when the naCall of its subcontext is over.                 *)
HasFailed(c) == ctxs[c].error # "" \/ IsA(ctxs[c].dieArg, "str")

Outer == me.parent
OuterGoesOn(cs, v) ==
  ctxs' = [cs EXCEPT ![Outer].ops = Append(SubSeq(@, 1, cs[Outer].opFrame), v),
                     ![Outer].waits = <<>>]

CallReturns ==
  LET freed == FreeContext(ctxs, free, cur)
  IN  /\ mode = "back" /\ Outer # NoContext /\ ~HasFailed(cur)
      /\ OuterGoesOn(freed.cs, result)
      /\ free' = freed.fr /\ cur' = Outer /\ mode' = "run"
      /\ UNCHANGED <<prog, result, heap>>

(* The error goes to the vector given for it, with a place in the source for *)
(* each frame; the subcontext stays, for die().                              *)
ErrorVec == IF Len(ctxs[Outer].waits) > 2 THEN Last(ctxs[Outer].waits) ELSE Nil
Depth(c) == Cardinality(UNION {{x} \X DOMAIN ctxs[x].frames : x \in ToSet(Lineage(ctxs, c))})
ErrorOf(c) == IF ctxs[c].dieArg # Nil THEN ctxs[c].dieArg ELSE Str(ctxs[c].error)
Trace(n) == [i \in 1..(2 * n) |-> Str(IF i % 2 = 1 THEN "file" ELSE "line")]

CallCatches ==
  /\ mode = "back" /\ Outer # NoContext /\ HasFailed(cur) /\ IsA(ErrorVec, "vec")
  /\ AppendTo(ErrorVec, <<ErrorOf(cur)>> \o Trace(Depth(cur)))
  /\ OuterGoesOn(ctxs, Nil)
  /\ cur' = Outer /\ mode' = "run"
  /\ UNCHANGED <<prog, result, free, hashes, funcs>>

(* naRethrowError.                                                           *)
Rethrow ==
  /\ mode = "back" /\ Outer # NoContext /\ HasFailed(cur) /\ ~IsA(ErrorVec, "vec")
  /\ ctxs' = [ctxs EXCEPT ![Outer].error = me.error, ![Outer].dieArg = me.dieArg,
                          ![Outer].waits = <<>>]
  /\ cur' = Outer
  /\ UNCHANGED <<prog, mode, result, free, heap>>

-----------------------------------------------------------------------------
(* main(): one context has been used and freed by initGlobals; the program   *)
(* is compiled and called in the namespace of the library.                   *)
Namespace == [k \in {Str(n) : n \in LibraryNames \cup {"die", "call"}} |-> Native(k[2])]

Init ==
  /\ prog \in DOMAIN Codes
  /\ mode = "parse" /\ result = Nil
  /\ ctxs = <<NewFields>> /\ free = <<1>> /\ cur = NoContext
  /\ vecs = <<>> /\ hashes = <<Namespace>> /\ funcs = <<>>

Load(c) ==
  IF IsA(c, "bad")
  THEN mode' = "done" /\ result' = <<"bad">> /\ UNCHANGED <<ctxs, free, cur, heap>>
  ELSE /\ mode' = "run" /\ cur' = NewContext /\ free' = WithNewContext.fr
       /\ funcs' = <<[code |-> c[2], ns |-> Hash(1), next |-> Nil]>>
       /\ vecs' = <<(<<>>)>>
       /\ hashes' = Append(hashes, One(c[2].rest, Vec(1)))
       /\ ctxs' = [WithNewContext.cs EXCEPT
                     ![NewContext].frames = <<NewFrame(Func(1), Hash(2), 0)>>]
       /\ UNCHANGED result

Start == mode = "parse" /\ Load(Codes[prog]) /\ UNCHANGED prog

Finish ==
  LET freed == FreeContext(ctxs, free, cur)
  IN  /\ mode = "back" /\ Outer = NoContext
      /\ mode' = "done"
      /\ result' = IF HasFailed(cur) THEN <<"error", ErrorOf(cur)>> ELSE result
      /\ ctxs' = freed.cs /\ free' = freed.fr /\ cur' = NoContext
      /\ UNCHANGED <<prog, heap>>

Done == mode = "done" /\ UNCHANGED vars

Next ==
  \/ Start \/ Finish \/ Done
  \/ Pop \/ Dup \/ Dup2 \/ Xchg \/ Xchg2 \/ BinOp \/ Equality \/ Cat \/ Neg \/ Not
  \/ PushConst \/ Push \/ NewVec \/ NewHash \/ VAppend \/ HAppend
  \/ GetLocal \/ SetSym \/ SetLocal \/ Member \/ SetMember
  \/ Extract \/ Insert \/ Slice \/ Slice2 \/ Unpack
  \/ Jump \/ JumpIfEnd \/ JumpIf \/ Each \/ Mark \/ Unmark \/ Break
  \/ Call \/ CallByName \/ Return \/ CallLibrary \/ Die \/ CallCall
  \/ CallReturns \/ CallCatches \/ Rethrow

Spec == Init /\ [][Next]_vars /\ WF_vars(Next)

-----------------------------------------------------------------------------
(* Every context is in use once or free once: call() neither loses one nor    *)
(* frees one twice, whatever errors leave it (naSubContext, naFreeContext).  *)
InUse == IF cur = NoContext THEN {}
         ELSE {c \in DOMAIN ctxs : cur \in ToSet(Lineage(ctxs, c))} \cup ToSet(Lineage(ctxs, cur))

ContextsPartition ==
  mode # "parse" =>
    /\ InUse \cap ToSet(free) = {} /\ InUse \cup ToSet(free) = DOMAIN ctxs
    /\ IsInjective(free)

(* The types of the state: every operand refers to an object, and no stack    *)
(* is larger than its array (code.h).                                        *)
Refers(v) == CASE IsA(v, "vec") -> v[2] \in DOMAIN vecs
               [] IsA(v, "hash") -> v[2] \in DOMAIN hashes
               [] IsA(v, "func") -> v[2] \in DOMAIN funcs
               [] OTHER -> v[1] \in {"num", "str", "nil", "end", "native"}

TypeOK ==
  /\ mode \in {"parse", "run", "back", "done"}
  /\ cur \in 0..Len(ctxs) /\ ToSet(free) \subseteq DOMAIN ctxs
  /\ \A c \in DOMAIN ctxs :
       /\ Len(ctxs[c].ops) <= MAX_STACK_DEPTH /\ Len(ctxs[c].frames) <= MAX_RECURSION
       /\ Len(ctxs[c].marks) <= MAX_MARK_DEPTH
       /\ \A i \in DOMAIN ctxs[c].ops : Refers(ctxs[c].ops[i])

(* The code respects its stacks: a function ends with one value above those  *)
(* of its caller, however its loops were left, no loop's mark outlives the   *)
(* program, and a break finds the mark of a loop of its own function.        *)
StacksBalance ==
  mode = "run" =>
    /\ CodeOp = "RETURN" => Len(me.ops) > frame.bp
    /\ CodeOp = "RETURN" /\ frame.ip + 1 = Len(code.code) => Len(me.ops) = frame.bp + 1
    /\ CodeOp = "RETURN" /\ Len(me.frames) = 1 => me.marks = <<>>
    /\ CodeOp \in {"BREAK", "BREAK2"} => me.marks # <<>> /\ Last(me.marks) >= frame.bp

(* Every jump lands on an operation, never on an argument or past the end    *)
(* (fixJumpTarget, genBreakContinue).                                        *)
AtAnOperation ==
  mode = "run" => frame.ip < Len(code.code) /\ IsA(code.code[frame.ip + 1], "op")
=============================================================================
