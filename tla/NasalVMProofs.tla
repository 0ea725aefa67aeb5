----------------------------- MODULE NasalVMProofs -----------------------------
(***************************************************************************)
(* The Nasal virtual machine, for any programs and any limits.  First its    *)
(* contexts: call() neither loses one nor frees one twice, whatever errors   *)
(* leave them (naSubContext, naFreeContext, naRethrowError).                 *)
(*                                                                         *)
(* The argument: the contexts in use are one chain, each the child of the  *)
(* one before it, from the context of main() to the last child, and the    *)
(* context that runs is in it; the free ones are linked to none (Pool).    *)
(* Freeing a context frees the end of the chain that begins with it, in    *)
(* order, and a new context is put behind the one that runs, once what was *)
(* behind it is freed.  The other steps leave the links alone (SameTree).  *)
(*                                                                         *)
(* Then what the machine relies on and does not check while it runs code    *)
(* that is verified (CodeIsVerified of NasalShape): it is at an operation,  *)
(* its stacks balance and stay in their arrays, and every value refers to   *)
(* an object there is.  The argument: each frame of each context in use has *)
(* its part of the operand stack and of the marks, and the part has the     *)
(* shape of the place where the frame is; the last frame of the context that*)
(* runs has all the rest, every other frame waits for one value on top of   *)
(* its part, and so does every context before the one that runs (Framed,     *)
(* RunsAs, WaitsAs, Well).  An operation takes and leaves operands as       *)
(* Takes and Leaves say, so it lands in the shape After gives, which fits   *)
(* the one the code has there; a call puts a frame of an empty shape on top.*)
(***************************************************************************)
EXTENDS NasalShape, FiniteSetTheorems, SequenceTheorems, TLAPS

(* A set of natural numbers has a least element; induction on the numbers.  *)
LEMMA NatMin ==
  ASSUME NEW T, T \subseteq Nat, T # {}
  PROVE  \E n \in T : \A m \in T : n <= m
<1>1. PICK x \in T : \A y \in T : ~(<<y, x>> \in OpToRel(<, Nat))
  BY NatLessThanWellFounded, WFMin
<1>2. ASSUME NEW y \in T PROVE x <= y
  <2>1. ~(<<y, x>> \in {ss \in Nat \X Nat : ss[1] < ss[2]})
    BY <1>1 DEF OpToRel
  <2> QED
    BY <2>1
<1> QED
  BY <1>2

LEMMA NatInd ==
  ASSUME NEW T, 0 \in T, \A n \in Nat : n \in T => n + 1 \in T
  PROVE  Nat \subseteq T
<1> DEFINE U == Nat \ T
<1>1. ASSUME U # {} PROVE FALSE
  <2>1. PICK n \in U : \A m \in U : n <= m
    BY <1>1, NatMin
  <2>2. n # 0 /\ n - 1 \in Nat
    BY <2>1
  <2>3. n - 1 \in T
    BY <2>1, <2>2
  <2> QED
    BY <2>2, <2>3
<1> QED
  BY <1>1

-----------------------------------------------------------------------------
(* What a context is made of.                                               *)
Fields == {"frames", "ops", "marks", "opFrame", "parent", "child", "dieArg", "error", "waits"}

Contexts(cs) == (\E S : cs \in Seq(S)) /\ \A c \in DOMAIN cs : DOMAIN cs[c] = Fields

(* A chain of calls: each context is the child of the one before it.        *)
Chain(cs, ch) ==
  /\ ch \in Seq(DOMAIN cs) /\ IsInjective(ch)
  /\ \A i \in DOMAIN ch :
       /\ cs[ch[i]].parent = IF i = 1 THEN NoContext ELSE ch[i - 1]
       /\ cs[ch[i]].child = IF i = Len(ch) THEN NoContext ELSE ch[i + 1]

Unlinked(cs, X) == \A x \in X : cs[x].child = NoContext

(* Every context is in the chain ch, or free, or in X, the set of those just *)
(* taken; and in one of them only.                                          *)
Pool(cs, fr, ch, X) ==
  /\ Contexts(cs) /\ Chain(cs, ch)
  /\ fr \in Seq(DOMAIN cs) /\ IsInjective(fr)
  /\ Unlinked(cs, ToSet(fr) \cup X)
  /\ \A x \in X : cs[x].parent = NoContext
  /\ ToSet(ch) \cap ToSet(fr) = {} /\ ToSet(ch) \cap X = {} /\ ToSet(fr) \cap X = {}
  /\ ToSet(ch) \cup ToSet(fr) \cup X = DOMAIN cs

(* The inductive invariant.                                                 *)
PoolInv ==
  \E ch : /\ Pool(ctxs, free, ch, {})
          /\ IF mode \in {"run", "back"} THEN cur \in ToSet(ch) ELSE cur = NoContext /\ ch = <<>>

LEMMA NoSelf ==
  ASSUME NEW cs, Contexts(cs)
  PROVE  NoContext \notin DOMAIN cs /\ Len(cs) \in Nat /\ DOMAIN cs = 1..Len(cs)
BY DEF Contexts, NoContext

(* An injective sequence of contexts is not longer than there are contexts. *)
LEMMA NotLonger ==
  ASSUME NEW cs, Contexts(cs), NEW ch \in Seq(DOMAIN cs), IsInjective(ch)
  PROVE  Len(ch) <= Len(cs)
<1>1. Len(cs) \in Nat /\ DOMAIN cs = 1..Len(cs) /\ Len(ch) \in Nat
  BY NoSelf
<1>2. ASSUME Len(ch) > Len(cs) PROVE FALSE
  <2> DEFINE S == 1..Len(ch)  T == 1..Len(cs)
  <2>1. IsFiniteSet(S) /\ IsFiniteSet(T) /\ Cardinality(T) = Len(cs) /\ Cardinality(S) = Len(ch)
    <3>1. \A n \in Nat : IsFiniteSet(1..n) /\ Cardinality(1..n) = n
      <4>1. ASSUME NEW n \in Nat PROVE IsFiniteSet(1..n) /\ Cardinality(1..n) = n
        <5>1. 1 \in Int /\ n \in Int
          OBVIOUS
        <5>2. IsFiniteSet(1..n) /\ Cardinality(1..n) = IF 1 > n THEN 0 ELSE n - 1 + 1
          BY <5>1, FS_Interval
        <5> QED
          BY <5>2
      <4> QED
        BY <4>1
    <3> QED
      BY <1>1, <3>1
  <2>2. ch \in [S -> T]
    BY <1>1
  <2>3. Cardinality(T) < Cardinality(S)
    BY <1>1, <1>2, <2>1
  <2> HIDE DEF S, T
  <2>4. PICK x \in S, y \in S : x # y /\ ch[x] = ch[y]
    BY <2>1, <2>2, <2>3, FS_PigeonHole
  <2> QED
    BY <2>4 DEF S, IsInjective
<1> QED
  BY <1>1, <1>2

(* The lineage of a context is the path down its children to the last.      *)
LEMMA LineageIsPath ==
  ASSUME NEW cs, Contexts(cs), NEW p, p \in Seq(DOMAIN cs), p # <<>>, IsInjective(p),
         \A i \in DOMAIN p : cs[p[i]].child = IF i = Len(p) THEN NoContext ELSE p[i + 1]
  PROVE  Lineage(cs, p[1]) = p
<1> DEFINE N == Len(cs)
           L == Len(p)
           c == p[1]
           body(f, n) == LET line == IF n = 0 THEN <<c>> ELSE f[n - 1]
                         IN  IF n = 0 \/ cs[Last(line)].child = NoContext THEN line
                             ELSE Append(line, cs[Last(line)].child)
           upTo == CHOOSE f : f = [n \in 0..N |-> body(f, n)]
           g == [n \in 0..N |-> SubSeq(p, 1, IF n + 1 <= L THEN n + 1 ELSE L)]
<1>1. N \in Nat /\ L \in Nat /\ L >= 1 /\ L <= N /\ NoContext \notin DOMAIN cs
  BY NoSelf, NotLonger
<1>2. ASSUME NEW n \in 0..N PROVE g[n] = body(g, n)
  <2>1. CASE n = 0
    <3>1. g[n] = SubSeq(p, 1, 1)
      BY <1>1, <2>1
    <3>2. SubSeq(p, 1, 1) = <<c>>
      <4>1. 1 \in 1..Len(p)
        BY <1>1
      <4>2. SubSeq(p, 1, 1) \in Seq(DOMAIN cs) /\ <<c>> \in Seq(DOMAIN cs)
        BY <1>1
      <4>3. Len(SubSeq(p, 1, 1)) = 1 /\ SubSeq(p, 1, 1)[1] = c /\ Len(<<c>>) = 1
        BY <1>1
      <4> HIDE DEF c
      <4>4. \A i \in 1..Len(SubSeq(p, 1, 1)) : SubSeq(p, 1, 1)[i] = <<c>>[i]
        BY <4>3
      <4> QED
        BY <4>2, <4>3, <4>4, SeqEqual
    <3> HIDE DEF g
    <3> QED
      BY <2>1, <3>1, <3>2
  <2>2. CASE n # 0
    <3>1. PICK m \in 1..L : m = IF n <= L THEN n ELSE L
      BY <1>1, <2>2
    <3>2. g[n - 1] = SubSeq(p, 1, m)
      BY <1>1, <2>2, <3>1
    <3>3. Last(g[n - 1]) = p[m] /\ p[m] \in DOMAIN cs
      BY <1>1, <3>1, <3>2 DEF Last
    <3>4. cs[p[m]].child = IF m = L THEN NoContext ELSE p[m + 1]
      BY <1>1, <3>1
    <3>5. CASE m = L
      <4>1. g[n] = SubSeq(p, 1, L)
        BY <1>1, <3>1, <3>5
      <4> HIDE DEF g
      <4> QED
        BY <2>2, <3>2, <3>3, <3>4, <3>5, <4>1
    <3>6. CASE m # L
      <4>1. g[n] = SubSeq(p, 1, m + 1)
        BY <1>1, <3>1, <3>6
      <4>2. SubSeq(p, 1, m + 1) = Append(SubSeq(p, 1, m), p[m + 1])
        BY <1>1, <3>1, <3>6
      <4>3. cs[p[m]].child # NoContext
        BY <1>1, <3>1, <3>4, <3>6
      <4> HIDE DEF g
      <4> QED
        BY <2>2, <3>2, <3>3, <3>4, <3>6, <4>1, <4>2, <4>3
    <3> QED
      BY <3>5, <3>6
  <2> QED
    BY <2>1, <2>2
<1>3. g = [n \in 0..N |-> body(g, n)]
  BY <1>2
<1>4. upTo = [n \in 0..N |-> body(upTo, n)]
  <2> HIDE DEF g, body
  <2> QED
    BY <1>3
<1> HIDE DEF upTo
<1> DEFINE T == {n \in Nat : n \in 0..N => upTo[n] = g[n]}
<1>5. 0 \in T
  BY <1>1, <1>2, <1>4
<1>6. ASSUME NEW n \in Nat, n \in T PROVE n + 1 \in T
  <2>1. SUFFICES ASSUME n + 1 \in 0..N PROVE upTo[n + 1] = g[n + 1]
    OBVIOUS
  <2>2. upTo[n] = g[n] /\ (n + 1) - 1 = n /\ n + 1 # 0
    BY <1>1, <1>6, <2>1
  <2>3. upTo[n + 1] = body(upTo, n + 1) /\ g[n + 1] = body(g, n + 1)
    BY <1>2, <1>4, <2>1, Zenon
  <2>4. body(upTo, n + 1) = body(g, n + 1)
    <3> HIDE DEF g
    <3> QED
      BY <2>2
  <2> QED
    BY <2>3, <2>4
<1>7. N \in T
  <2> HIDE DEF T
  <2> QED
    BY <1>1, <1>5, <1>6, NatInd
<1>8. upTo[N] = SubSeq(p, 1, L)
  <2>1. upTo[N] = g[N]
    BY <1>1, <1>7
  <2> QED
    BY <1>1, <2>1
<1>9. SubSeq(p, 1, L) = p
  BY <1>1
<1>10. Lineage(cs, c) = upTo[N]
  BY DEF Lineage, upTo
<1> QED
  BY <1>8, <1>9, <1>10

(* A pool depends on the links only.                                        *)
LEMMA SameLinks ==
  ASSUME NEW cs, NEW fr, NEW ch, NEW X, Pool(cs, fr, ch, X),
         NEW cs2, Contexts(cs2), DOMAIN cs2 = DOMAIN cs,
         \A c \in DOMAIN cs : cs2[c].child = cs[c].child /\ cs2[c].parent = cs[c].parent
  PROVE  Pool(cs2, fr, ch, X)
<1>1. \A i \in DOMAIN ch : ch[i] \in DOMAIN cs
  BY DEF Pool, Chain
<1>2. Chain(cs2, ch)
  BY <1>1 DEF Pool, Chain
<1>3. \A x \in ToSet(fr) \cup X : x \in DOMAIN cs
  BY DEF Pool, ToSet
<1> QED
  BY <1>2, <1>3 DEF Pool, Unlinked

(* Changing one context.                                                    *)
LEMMA OneContext ==
  ASSUME NEW cs, Contexts(cs), NEW c \in DOMAIN cs, NEW r, DOMAIN r = Fields
  PROVE  Contexts([cs EXCEPT ![c] = r]) /\ DOMAIN [cs EXCEPT ![c] = r] = DOMAIN cs
<1>1. PICK S : cs \in Seq(S)
  BY DEF Contexts
<1>2. cs \in Seq(S \cup {r})
  BY <1>1
<1>3. [cs EXCEPT ![c] = r] \in Seq(S \cup {r})
  BY <1>1, <1>2
<1> QED
  BY <1>3 DEF Contexts

(* The lineage of a context of the chain is the chain from it on.           *)
LEMMA ChainLineage ==
  ASSUME NEW cs, Contexts(cs), NEW ch, Chain(cs, ch), NEW i \in DOMAIN ch
  PROVE  LET p == SubSeq(ch, i, Len(ch))
         IN  /\ p \in Seq(DOMAIN cs) /\ IsInjective(p)
             /\ ToSet(p) = {ch[k] : k \in i..Len(ch)}
             /\ Lineage(cs, ch[i]) = p
<1> DEFINE D == DOMAIN cs
           L == Len(ch)
           p == SubSeq(ch, i, L)
<1>0. L \in Nat /\ DOMAIN ch = 1..L /\ i \in 1..L /\ i \in Nat
  <2>1. ch \in Seq(D)
    BY DEF Chain
  <2> HIDE DEF D
  <2>2. Len(ch) \in Nat /\ DOMAIN ch = 1..Len(ch)
    BY <2>1
  <2> QED
    BY <2>2
<1>1. /\ ch \in Seq(D) /\ IsInjective(ch)
      /\ \A j \in 1..L : cs[ch[j]].child = IF j = L THEN NoContext ELSE ch[j + 1]
  BY <1>0, Zenon DEF Chain
<1>2. /\ p \in Seq(D) /\ Len(p) = L - i + 1 /\ DOMAIN p = 1..(L - i + 1)
      /\ \A j \in 1..(L - i + 1) : p[j] = ch[j + i - 1]
  <2>1. ch \in Seq(D)
    BY <1>1
  <2> HIDE DEF D
  <2> QED
    BY <1>0, <2>1
<1> HIDE DEF p, L
<1>4. IsInjective(p)
  <2>0. \A j, k \in 1..L : ch[j] = ch[k] => j = k
    BY <1>0, <1>1 DEF IsInjective
  <2>1. ASSUME NEW j \in DOMAIN p, NEW k \in DOMAIN p, p[j] = p[k] PROVE j = k
    <3>1. j \in Int /\ k \in Int /\ j + i - 1 \in 1..L /\ k + i - 1 \in 1..L
      BY <1>0, <1>2
    <3>2. ch[j + i - 1] = ch[k + i - 1]
      BY <1>2, <2>1
    <3>3. j + i - 1 = k + i - 1
      BY <2>0, <3>1, <3>2
    <3> QED
      BY <1>0, <3>1, <3>3
  <2> QED
    BY <2>1 DEF IsInjective
<1>5. Lineage(cs, ch[i]) = p
  <2>0. 1 \in 1..(L - i + 1) /\ (1 + i) - 1 = i
    BY <1>0
  <2>1. p # <<>> /\ p[1] = ch[i]
    <3>1. p[1] = ch[i]
      <4>1. PICK k : k = 1 + i - 1
        OBVIOUS
      <4>2. p[1] = ch[k]
        BY <1>2, <2>0, <4>1
      <4>3. k = i
        BY <1>0, <4>1
      <4> QED
        BY <4>2, <4>3
    <3>2. p # <<>>
      BY <1>2, <2>0
    <3> QED
      BY <3>1, <3>2
  <2>2. ASSUME NEW j \in DOMAIN p
        PROVE  cs[p[j]].child = IF j = Len(p) THEN NoContext ELSE p[j + 1]
    <3>1. PICK k \in 1..L : k = j + i - 1
      BY <1>0, <1>2
    <3>2. p[j] = ch[k] /\ (j = Len(p) <=> k = L)
      BY <1>0, <1>2, <3>1
    <3>3. j # Len(p) => p[j + 1] = ch[k + 1]
      <4>1. j # Len(p) => j + 1 \in 1..(L - i + 1) /\ (j + 1) + i - 1 = k + 1
        BY <1>0, <1>2, <3>1
      <4> QED
        BY <1>2, <4>1
    <3> QED
      BY <1>1, <3>2, <3>3
  <2>3. Contexts(cs) /\ p \in Seq(D) /\ IsInjective(p)
    BY <1>2, <1>4
  <2>4. Lineage(cs, p[1]) = p
    BY <2>1, <2>2, <2>3, LineageIsPath
  <2> QED
    BY <2>1, <2>4
<1>6. ToSet(p) = {ch[k] : k \in i..L}
  <2>1. ASSUME NEW k \in i..L PROVE ch[k] \in ToSet(p)
    <3>1. PICK j \in 1..(L - i + 1) : j + i - 1 = k
      <4>1. k - i + 1 \in 1..(L - i + 1) /\ (k - i + 1) + i - 1 = k
        BY <1>0
      <4> QED
        BY <4>1
    <3> QED
      BY <1>2, <3>1 DEF ToSet
  <2>2. ASSUME NEW j \in DOMAIN p PROVE p[j] \in {ch[k] : k \in i..L}
    <3>1. j + i - 1 \in i..L /\ p[j] = ch[j + i - 1]
      BY <1>0, <1>1, <1>2
    <3> QED
      BY <3>1
  <2> QED
    BY <2>1, <2>2 DEF ToSet
<1> QED
  BY <1>2, <1>4, <1>5, <1>6 DEF p, L

(* naFreeContext takes the end of the chain to the free list.               *)
LEMMA FreeTail ==
  ASSUME NEW cs, NEW fr, NEW ch, NEW X, Pool(cs, fr, ch, X), NEW i \in DOMAIN ch
  PROVE  LET r == FreeContext(cs, fr, ch[i])
         IN  Pool(r.cs, r.fr, SubSeq(ch, 1, i - 1), X)
<1> DEFINE D == DOMAIN cs
           L == Len(ch)
           p == SubSeq(ch, i, L)
           q == SubSeq(ch, 1, i - 1)
           cs2 == [x \in D |-> IF \E y \in ToSet(p) : cs[y].parent = x
                               THEN [cs[x] EXCEPT !.child = NoContext] ELSE cs[x]]
           fr2 == p \o fr
<1>0. L \in Nat /\ DOMAIN ch = 1..L /\ i \in 1..L /\ i \in Nat
  <2>1. ch \in Seq(D)
    BY DEF Pool, Chain
  <2> HIDE DEF D
  <2>2. Len(ch) \in Nat /\ DOMAIN ch = 1..Len(ch)
    BY <2>1
  <2> QED
    BY <2>2
<1>1. /\ Contexts(cs) /\ ch \in Seq(D) /\ IsInjective(ch) /\ fr \in Seq(D) /\ IsInjective(fr)
      /\ NoContext \notin D
      /\ \A j \in 1..L : /\ cs[ch[j]].parent = IF j = 1 THEN NoContext ELSE ch[j - 1]
                         /\ cs[ch[j]].child = IF j = L THEN NoContext ELSE ch[j + 1]
                         /\ ch[j] \in D
  <2>1. /\ Contexts(cs) /\ ch \in Seq(D) /\ IsInjective(ch) /\ fr \in Seq(D) /\ IsInjective(fr)
        /\ \A j \in DOMAIN ch : /\ cs[ch[j]].parent = IF j = 1 THEN NoContext ELSE ch[j - 1]
                                /\ cs[ch[j]].child = IF j = Len(ch) THEN NoContext ELSE ch[j + 1]
    BY DEF Pool, Chain
  <2>2. NoContext \notin D
    BY <2>1, NoSelf
  <2> HIDE DEF D
  <2>3. \A j \in DOMAIN ch : ch[j] \in D
    BY <2>1
  <2> QED
    BY <1>0, <2>1, <2>2, <2>3, Zenon
<1>2. /\ p \in Seq(D) /\ IsInjective(p) /\ ToSet(p) = {ch[k] : k \in i..L}
      /\ Lineage(cs, ch[i]) = p
  BY ChainLineage DEF Pool
<1>3. /\ q \in Seq(D) /\ Len(q) = i - 1 /\ DOMAIN q = 1..(i - 1)
      /\ \A j \in 1..(i - 1) : q[j] = ch[j]
  <2>1. ch \in Seq(D)
    BY <1>1
  <2> HIDE DEF D
  <2> QED
    BY <1>0, <2>1
<1> HIDE DEF p, q, L
<1>4. IsInjective(q)
  <2>0. \A j, k \in 1..L : ch[j] = ch[k] => j = k
    BY <1>0, <1>1 DEF IsInjective
  <2>1. ASSUME NEW j \in DOMAIN q, NEW k \in DOMAIN q, q[j] = q[k] PROVE j = k
    <3>1. j \in 1..L /\ k \in 1..L
      BY <1>0, <1>3
    <3>2. ch[j] = ch[k]
      BY <1>3, <2>1
    <3> QED
      BY <2>0, <3>1, <3>2
  <2> QED
    BY <2>1 DEF IsInjective
<1>6. FreeContext(cs, fr, ch[i]) = [cs |-> cs2, fr |-> fr2]
  BY <1>2 DEF FreeContext
<1>7. ToSet(q) = {ch[k] : k \in 1..(i - 1)}
  BY <1>3 DEF ToSet
<1>8. ASSUME NEW j \in 1..L
      PROVE  (\E y \in ToSet(p) : cs[y].parent = ch[j]) <=> j \in (i - 1)..(L - 1)
  <2>1. ASSUME NEW k \in i..L, cs[ch[k]].parent = ch[j] PROVE j = k - 1
    <3>1. k # 1 /\ ch[k - 1] = ch[j] /\ k - 1 \in 1..L
      BY <1>0, <1>1, <2>1
    <3> QED
      BY <1>0, <1>1, <3>1 DEF IsInjective
  <2>2. ASSUME j \in (i - 1)..(L - 1) PROVE j + 1 \in i..L /\ cs[ch[j + 1]].parent = ch[j]
    BY <1>0, <1>1, <2>2
  <2> QED
    BY <1>0, <1>1, <1>2, <1>7, <2>1, <2>2
<1>9. /\ Contexts(cs2) /\ DOMAIN cs2 = D
      /\ \A x \in D : /\ cs2[x].parent = cs[x].parent
                      /\ cs2[x].child = IF \E y \in ToSet(p) : cs[y].parent = x
                                        THEN NoContext ELSE cs[x].child
  <2>1. \A x \in D : DOMAIN cs[x] = Fields
    BY <1>0, <1>1 DEF Contexts
  <2>2. \A x \in D : DOMAIN cs2[x] = Fields
    BY <2>1
  <2>3. cs2 \in Seq({cs2[x] : x \in D})
    <3>1. D = 1..Len(cs) /\ Len(cs) \in Nat
      BY <1>0, <1>1, NoSelf
    <3>2. cs2 \in [1..Len(cs) -> {cs2[x] : x \in D}]
      BY <3>1
    <3> HIDE DEF cs2
    <3> QED
      BY <3>1, <3>2, SeqDef
  <2> QED
    BY <2>1, <2>2, <2>3 DEF Contexts, Fields
<1>10. Chain(cs2, q)
  <2>1. ASSUME NEW j \in 1..(i - 1)
        PROVE  /\ cs2[q[j]].parent = IF j = 1 THEN NoContext ELSE q[j - 1]
               /\ cs2[q[j]].child = IF j = i - 1 THEN NoContext ELSE q[j + 1]
    <3>0. j \in 1..L
      BY <1>0
    <3>1. j \in 1..L /\ q[j] = ch[j] /\ ch[j] \in D
      BY <1>0, <1>1, <1>3, <3>0
    <3>2. cs2[ch[j]].parent = IF j = 1 THEN NoContext ELSE ch[j - 1]
      BY <1>0, <1>1, <1>9, <3>1
    <3>3. cs2[ch[j]].child = IF j = i - 1 THEN NoContext ELSE ch[j + 1]
      BY <1>0, <1>1, <1>8, <1>9, <3>1
    <3> QED
      BY <1>0, <1>1, <1>3, <3>1, <3>2, <3>3
  <2>2. q \in Seq(DOMAIN cs2) /\ IsInjective(q)
    BY <1>3, <1>4, <1>9
  <2> HIDE DEF cs2
  <2> QED
    BY <1>3, <2>1, <2>2 DEF Chain
<1>11. ToSet(p) \cap ToSet(fr) = {} /\ ToSet(p) \cap X = {} /\ ToSet(q) \cap X = {}
       /\ ToSet(q) \cap ToSet(fr) = {} /\ ToSet(q) \cap ToSet(p) = {}
       /\ ToSet(q) \cup ToSet(p) = ToSet(ch)
  <2>1. ToSet(ch) = {ch[k] : k \in 1..L}
    BY <1>0, <1>1 DEF ToSet
  <2>2. ToSet(q) \cup ToSet(p) = ToSet(ch)
    BY <1>0, <1>2, <1>7, <2>1
  <2>3. ToSet(q) \cap ToSet(p) = {}
    <3>1. ASSUME NEW j \in 1..(i - 1), NEW k \in i..L PROVE ch[j] # ch[k]
      <4>1. j \in 1..L /\ k \in 1..L /\ j # k
        BY <1>0
      <4> QED
        BY <1>0, <1>1, <4>1 DEF IsInjective
    <3> QED
      BY <1>2, <1>7, <3>1
  <2> QED
    BY <2>2, <2>3 DEF Pool
<1>12. fr2 \in Seq(D) /\ IsInjective(fr2) /\ ToSet(fr2) = ToSet(p) \cup ToSet(fr)
  <2>1. /\ fr2 \in Seq(D) /\ Len(fr2) = Len(p) + Len(fr)
        /\ \A k \in 1..(Len(p) + Len(fr)) : fr2[k] = IF k <= Len(p) THEN p[k] ELSE fr[k - Len(p)]
    <3>1. p \in Seq(D) /\ fr \in Seq(D)
      BY <1>0, <1>1, <1>2
    <3> HIDE DEF D
    <3> QED
      BY <3>1, ConcatProperties
  <2>2. Len(p) \in Nat /\ Len(fr) \in Nat /\ DOMAIN p = 1..Len(p) /\ DOMAIN fr = 1..Len(fr)
        /\ DOMAIN fr2 = 1..(Len(p) + Len(fr))
    <3>1. p \in Seq(D) /\ fr \in Seq(D) /\ fr2 \in Seq(D)
      BY <1>0, <1>1, <1>2, <2>1
    <3> HIDE DEF D, fr2
    <3> QED
      BY <2>1, <3>1
  <2> HIDE DEF fr2
  <2>3. \A a \in DOMAIN p, b \in DOMAIN fr : p[a] # fr[b]
    BY <1>11 DEF ToSet
  <2>4. IsInjective(fr2)
    <3> SUFFICES ASSUME NEW a \in DOMAIN fr2, NEW b \in DOMAIN fr2, fr2[a] = fr2[b] PROVE a = b
      BY DEF IsInjective
    <3>1. CASE a <= Len(p) /\ b <= Len(p)
      BY <1>2, <2>1, <2>2, <3>1 DEF IsInjective
    <3>2. CASE ~(a <= Len(p)) /\ ~(b <= Len(p))
      <4>1. a - Len(p) \in DOMAIN fr /\ b - Len(p) \in DOMAIN fr /\ fr[a - Len(p)] = fr[b - Len(p)]
        BY <2>1, <2>2, <3>2
      <4>2. a - Len(p) = b - Len(p)
        BY <1>0, <1>1, <4>1 DEF IsInjective
      <4> QED
        BY <2>2, <4>2
    <3>3. CASE a <= Len(p) /\ ~(b <= Len(p))
      BY <2>1, <2>2, <2>3, <3>3
    <3>4. CASE ~(a <= Len(p)) /\ b <= Len(p)
      <4>1. a - Len(p) \in DOMAIN fr /\ b \in DOMAIN p
        BY <2>2, <3>4
      <4>2. fr2[a] = fr[a - Len(p)] /\ fr2[b] = p[b]
        BY <2>1, <2>2, <3>4
      <4> QED
        BY <2>3, <4>1, <4>2
    <3> QED
      BY <3>1, <3>2, <3>3, <3>4
  <2>5. ToSet(fr2) = ToSet(p) \cup ToSet(fr)
    <3>1. ASSUME NEW k \in DOMAIN fr2 PROVE fr2[k] \in ToSet(p) \cup ToSet(fr)
      <4>1. CASE k <= Len(p)
        BY <2>1, <2>2, <4>1 DEF ToSet
      <4>2. CASE ~(k <= Len(p))
        <5>1. k - Len(p) \in DOMAIN fr /\ fr2[k] = fr[k - Len(p)]
          BY <2>1, <2>2, <4>2
        <5> QED
          BY <5>1 DEF ToSet
      <4> QED
        BY <4>1, <4>2
    <3>2. ASSUME NEW k \in DOMAIN p PROVE p[k] \in ToSet(fr2)
      <4>1. k \in DOMAIN fr2 /\ fr2[k] = p[k]
        BY <2>1, <2>2
      <4> QED
        BY <4>1 DEF ToSet
    <3>3. ASSUME NEW k \in DOMAIN fr PROVE fr[k] \in ToSet(fr2)
      <4>1. k + Len(p) \in DOMAIN fr2 /\ fr2[k + Len(p)] = fr[k]
        BY <2>1, <2>2
      <4> QED
        BY <4>1 DEF ToSet
    <3> QED
      BY <3>1, <3>2, <3>3 DEF ToSet
  <2> QED
    BY <2>1, <2>4, <2>5
<1>13. Unlinked(cs2, ToSet(fr2) \cup X)
  <2>1. ASSUME NEW x \in ToSet(fr) \cup X PROVE cs2[x].child = NoContext
    <3>1. x \in D /\ cs[x].child = NoContext
      BY DEF Pool, Unlinked
    <3> QED
      BY <1>9, <3>1
  <2>2. ASSUME NEW x \in ToSet(p) PROVE cs2[x].child = NoContext
    <3>1. PICK k \in i..L : x = ch[k]
      BY <1>2, <1>7
    <3>0. k \in 1..L
      BY <1>0
    <3>2. k \in 1..L /\ x \in D
      BY <1>0, <1>1, <3>0, <3>1
    <3>3. CASE k = L
      BY <1>0, <1>1, <1>9, <3>1, <3>2, <3>3
    <3>4. CASE k # L
      <4>0. k \in (i - 1)..(L - 1)
        BY <1>0, <3>4
      <4>1. \E y \in ToSet(p) : cs[y].parent = ch[k]
        BY <1>8, <3>2, <4>0
      <4> QED
        BY <1>9, <3>1, <3>2, <4>1
    <3> QED
      BY <3>3, <3>4
  <2> QED
    BY <1>12, <2>1, <2>2 DEF Unlinked
<1>14. \A x \in X : cs2[x].parent = NoContext
  <2>1. \A x \in X : x \in D /\ cs[x].parent = NoContext
    BY DEF Pool
  <2> QED
    BY <1>9, <2>1
<1>15. Pool(cs2, fr2, q, X)
  <2>1. ToSet(q) \cup ToSet(fr2) \cup X = D
    BY <1>11, <1>12 DEF Pool
  <2>2. ToSet(q) \cap ToSet(fr2) = {} /\ ToSet(fr2) \cap X = {}
    <3>1. ToSet(fr) \cap X = {}
      BY DEF Pool
    <3> QED
      BY <1>11, <1>12, <3>1
  <2> HIDE DEF cs2, fr2
  <2> QED
    BY <1>9, <1>10, <1>11, <1>12, <1>13, <1>14, <2>1, <2>2 DEF Pool
<1> QED
  BY <1>6, <1>15 DEF q

(* The same contexts with the same links, whatever else changes.            *)
SameTree(cs, cs2) ==
  /\ cs2 = [x \in DOMAIN cs |-> cs2[x]]
  /\ \A c \in DOMAIN cs : /\ DOMAIN cs2[c] = DOMAIN cs[c]
                          /\ cs2[c].child = cs[c].child /\ cs2[c].parent = cs[c].parent

LEMMA SameTreePool ==
  ASSUME NEW cs, NEW fr, NEW ch, NEW X, Pool(cs, fr, ch, X), NEW cs2, SameTree(cs, cs2)
  PROVE  Pool(cs2, fr, ch, X)
<1>1. Contexts(cs) /\ DOMAIN cs2 = DOMAIN cs
  BY DEF Pool, SameTree
<1>2. DOMAIN cs = 1..Len(cs) /\ Len(cs) \in Nat
  BY <1>1, NoSelf
<1>3. cs2 \in [1..Len(cs) -> {cs2[x] : x \in 1..Len(cs)}]
  BY <1>2 DEF SameTree
<1>4. cs2 \in Seq({cs2[x] : x \in 1..Len(cs)})
  BY <1>2, <1>3, SeqDef
<1>5. \A c \in DOMAIN cs2 : DOMAIN cs2[c] = Fields
  BY <1>1 DEF SameTree, Contexts
<1>6. Contexts(cs2)
  BY <1>4, <1>5 DEF Contexts
<1> QED
  BY <1>1, <1>6, SameLinks DEF SameTree

LEMMA TreeTransitive ==
  ASSUME NEW a, NEW b, NEW c, SameTree(a, b), SameTree(b, c)
  PROVE  SameTree(a, c)
<1>1. DOMAIN b = DOMAIN a
  BY DEF SameTree
<1> QED
  BY <1>1 DEF SameTree

(* The assignments of the steps.                                            *)
LEMMA Assignments ==
  ASSUME NEW cs, Contexts(cs), NEW c, NEW v, NEW w, NEW u
  PROVE  /\ SameTree(cs, [cs EXCEPT ![c].error = v, ![c].dieArg = w])
         /\ SameTree(cs, [cs EXCEPT ![c].frames = v, ![c].ops = w])
         /\ SameTree(cs, [cs EXCEPT ![c].frames = v, ![c].marks = w, ![c].ops = u])
         /\ SameTree(cs, [cs EXCEPT ![c].frames = v, ![c].ops = w, ![c].opFrame = u])
         /\ SameTree(cs, [cs EXCEPT ![c].dieArg = v, ![c].frames = w])
         /\ SameTree(cs, [cs EXCEPT ![c].ops = v])
         /\ SameTree(cs, [cs EXCEPT ![c].waits = v, ![c].opFrame = w, ![c].frames = u])
         /\ SameTree(cs, [cs EXCEPT ![c].frames = v])
         /\ SameTree(cs, [cs EXCEPT ![c].error = v])
         /\ SameTree(cs, [cs EXCEPT ![c].ops = v, ![c].waits = w])
         /\ SameTree(cs, [cs EXCEPT ![c].error = v, ![c].dieArg = w, ![c].waits = u])
<1>0. \A x \in DOMAIN cs : DOMAIN cs[x] = Fields
  BY DEF Contexts
<1>1. SameTree(cs, [cs EXCEPT ![c].error = v, ![c].dieArg = w])
  BY <1>0 DEF SameTree, Fields
<1>2. SameTree(cs, [cs EXCEPT ![c].frames = v, ![c].ops = w])
  BY <1>0 DEF SameTree, Fields
<1>3. SameTree(cs, [cs EXCEPT ![c].frames = v, ![c].marks = w, ![c].ops = u])
  BY <1>0 DEF SameTree, Fields
<1>4. SameTree(cs, [cs EXCEPT ![c].frames = v, ![c].ops = w, ![c].opFrame = u])
  BY <1>0 DEF SameTree, Fields
<1>5. SameTree(cs, [cs EXCEPT ![c].dieArg = v, ![c].frames = w])
  BY <1>0 DEF SameTree, Fields
<1>6. SameTree(cs, [cs EXCEPT ![c].ops = v])
  BY <1>0 DEF SameTree, Fields
<1>7. SameTree(cs, [cs EXCEPT ![c].waits = v, ![c].opFrame = w, ![c].frames = u])
  BY <1>0 DEF SameTree, Fields
<1>8. SameTree(cs, [cs EXCEPT ![c].frames = v])
  BY <1>0 DEF SameTree, Fields
<1>9. SameTree(cs, [cs EXCEPT ![c].error = v])
  BY <1>0 DEF SameTree, Fields
<1>10. SameTree(cs, [cs EXCEPT ![c].ops = v, ![c].waits = w])
  BY <1>0 DEF SameTree, Fields
<1>11. SameTree(cs, [cs EXCEPT ![c].error = v, ![c].dieArg = w, ![c].waits = u])
  BY <1>0 DEF SameTree, Fields
<1> QED
  BY <1>1, <1>2, <1>3, <1>4, <1>5, <1>6, <1>7, <1>8, <1>9, <1>10, <1>11

(* What follows a context in the chain is freed, if anything does.          *)
LEMMA FreeChildOf ==
  ASSUME NEW cs, NEW fr, NEW ch, NEW X, Pool(cs, fr, ch, X), NEW i \in DOMAIN ch
  PROVE  LET r == FreeChild(cs, fr, ch[i])
         IN  Pool(r.cs, r.fr, SubSeq(ch, 1, i), X)
<1> DEFINE L == Len(ch)
<1>1. /\ ch \in Seq(DOMAIN cs) /\ Contexts(cs)
      /\ cs[ch[i]].child = IF i = Len(ch) THEN NoContext ELSE ch[i + 1]
  BY DEF Pool, Chain
<1>2. L \in Nat /\ DOMAIN ch = 1..L /\ i \in 1..L /\ i \in Nat
  <2> DEFINE D == DOMAIN cs
  <2>1. ch \in Seq(D)
    BY <1>1
  <2> HIDE DEF D
  <2> QED
    BY <2>1
<1>3. CASE i = L
  <2>1. SubSeq(ch, 1, i) = ch
    BY <1>1, <1>2, <1>3
  <2>2. FreeChild(cs, fr, ch[i]) = [cs |-> cs, fr |-> fr]
    BY <1>1, <1>3 DEF FreeChild
  <2>3. FreeChild(cs, fr, ch[i]).cs = cs /\ FreeChild(cs, fr, ch[i]).fr = fr
    BY <2>2
  <2>4. Pool(cs, fr, SubSeq(ch, 1, i), X)
    BY <2>1
  <2> QED
    BY <2>3, <2>4
<1>4. CASE i # L
  <2>1. PICK k \in DOMAIN ch : k = i + 1
    BY <1>2, <1>4
  <2>2. cs[ch[i]].child = ch[k] /\ ch[k] \in DOMAIN cs
    BY <1>1, <1>4, <2>1
  <2>3. FreeChild(cs, fr, ch[i]) = FreeContext(cs, fr, ch[k])
    BY <1>1, <2>2, NoSelf DEF FreeChild
  <2>4. k - 1 = i
    BY <1>2, <2>1
  <2> HIDE DEF L
  <2>5. LET r == FreeContext(cs, fr, ch[k])
        IN  Pool(r.cs, r.fr, SubSeq(ch, 1, k - 1), X)
    BY <2>1, FreeTail
  <2> QED
    BY <2>3, <2>4, <2>5
<1> QED
  BY <1>3, <1>4

(* A new context is in no list and has no links.                            *)
LEMMA TakeNew ==
  ASSUME NEW ch, Pool(ctxs, free, ch, {})
  PROVE  Pool(WithNewContext.cs, WithNewContext.fr, ch, {NewContext})
<1> DEFINE D == DOMAIN ctxs
           n == Len(ctxs) + 1
<1>1. /\ Contexts(ctxs) /\ Chain(ctxs, ch) /\ ch \in Seq(D)
      /\ free \in Seq(D) /\ IsInjective(free) /\ Unlinked(ctxs, ToSet(free))
      /\ ToSet(ch) \cap ToSet(free) = {} /\ ToSet(ch) \cup ToSet(free) = D
      /\ D = 1..Len(ctxs) /\ Len(ctxs) \in Nat /\ NoContext \notin D
  <2>1. Contexts(ctxs)
    BY DEF Pool
  <2>2. D = 1..Len(ctxs) /\ Len(ctxs) \in Nat /\ NoContext \notin D
    BY <2>1, NoSelf
  <2> HIDE DEF D
  <2> QED
    BY <2>1, <2>2 DEF Pool, Chain, Unlinked, D
<1>2. DOMAIN NewFields = Fields /\ NewFields.parent = NoContext /\ NewFields.child = NoContext
  BY DEF NewFields, Fields
<1>3. DOMAIN ch = 1..Len(ch) /\ Len(ch) \in Nat /\ \A i \in DOMAIN ch : ch[i] \in D
  <2>1. ch \in Seq(D)
    BY <1>1
  <2> HIDE DEF D
  <2> QED
    BY <2>1
<1>4. CASE free = <<>>
  <2> DEFINE cs2 == Append(ctxs, NewFields)
  <2>1. WithNewContext.cs = cs2 /\ WithNewContext.fr = <<>> /\ NewContext = n
    BY <1>4 DEF WithNewContext, NewContext
  <2>2. Contexts(cs2) /\ DOMAIN cs2 = D \cup {n} /\ cs2[n] = NewFields
        /\ \A x \in D : cs2[x] = ctxs[x]
    <3>1. PICK S : ctxs \in Seq(S)
      BY <1>1 DEF Contexts
    <3>2. ctxs \in Seq(S \cup {NewFields})
      BY <3>1
    <3> HIDE DEF D
    <3>3. cs2 \in Seq(S \cup {NewFields}) /\ DOMAIN cs2 = 1..(Len(ctxs) + 1)
          /\ cs2[n] = NewFields /\ \A x \in 1..Len(ctxs) : cs2[x] = ctxs[x]
      BY <3>2, <1>1
    <3>4. 1..(Len(ctxs) + 1) = 1..Len(ctxs) \cup {n}
      BY <1>1
    <3> HIDE DEF cs2
    <3>5. \A x \in DOMAIN cs2 : DOMAIN cs2[x] = Fields
      BY <1>1, <1>2, <3>3, <3>4 DEF Contexts, D
    <3> QED
      BY <1>1, <3>3, <3>4, <3>5 DEF Contexts
  <2> HIDE DEF cs2
  <2>3. n \notin D
    BY <1>1
  <2>4. ToSet(<<>>) = {} /\ <<>> \in Seq(DOMAIN cs2) /\ IsInjective(<<>>)
    BY DEF ToSet, IsInjective
  <2>5. ToSet(ch) = D
    BY <1>1, <1>4, <2>4
  <2>6. Chain(cs2, ch)
    <3>1. ch \in Seq(DOMAIN cs2)
      BY <1>1, <2>2, SMTT(30)
    <3> QED
      BY <1>1, <1>3, <2>2, <3>1 DEF Chain
  <2> HIDE DEF D, n
  <2> QED
    BY <1>2, <2>1, <2>2, <2>3, <2>4, <2>5, <2>6 DEF Pool, Unlinked
<1>5. CASE free # <<>>
  <2> DEFINE c == Head(free)
             cs2 == [ctxs EXCEPT ![c] = NewFields]
             fr2 == Tail(free)
  <2>1. WithNewContext.cs = cs2 /\ WithNewContext.fr = fr2 /\ NewContext = c
    BY <1>5 DEF WithNewContext, NewContext
  <2>2. /\ Len(free) \in Nat /\ Len(free) >= 1 /\ DOMAIN free = 1..Len(free)
        /\ c = free[1] /\ c \in D
        /\ fr2 \in Seq(D) /\ Len(fr2) = Len(free) - 1 /\ DOMAIN fr2 = 1..(Len(free) - 1)
        /\ \A k \in 1..(Len(free) - 1) : fr2[k] = free[k + 1]
    <3>1. free \in Seq(D)
      BY <1>1
    <3> HIDE DEF D
    <3> QED
      BY <1>5, <3>1
  <2> HIDE DEF c, fr2, n
  <2>3. Contexts(cs2) /\ DOMAIN cs2 = D
    BY <1>1, <1>2, <2>2, OneContext
  <2>4. \A x \in D : cs2[x] = IF x = c THEN NewFields ELSE ctxs[x]
    BY <2>2
  <2> HIDE DEF cs2
  <2>5. IsInjective(fr2) /\ c \notin ToSet(fr2) /\ ToSet(free) = {c} \cup ToSet(fr2)
    <3>1. \A j, k \in 1..Len(free) : free[j] = free[k] => j = k
      BY <1>1, <2>2 DEF IsInjective
    <3>2. ASSUME NEW j \in DOMAIN fr2
          PROVE  /\ j + 1 \in 1..Len(free) /\ j + 1 # 1
                 /\ fr2[j] = free[j + 1] /\ fr2[j] # c
      <4>1. j + 1 \in 1..Len(free) /\ j + 1 # 1 /\ 1 \in 1..Len(free)
        BY <2>2
      <4> QED
        BY <2>2, <3>1, <4>1
    <3>3. ASSUME NEW j \in DOMAIN fr2, NEW k \in DOMAIN fr2, fr2[j] = fr2[k] PROVE j = k
      <4>1. j + 1 = k + 1
        BY <3>1, <3>2, <3>3
      <4> QED
        BY <2>2, <4>1
    <3>4. ASSUME NEW j \in 1..Len(free) PROVE free[j] = c \/ \E k \in DOMAIN fr2 : fr2[k] = free[j]
      <4>1. CASE j = 1
        BY <2>2, <4>1
      <4>2. CASE j # 1
        <5>1. PICK k \in 1..(Len(free) - 1) : j = k + 1
          BY <2>2, <4>2
        <5> QED
          BY <2>2, <5>1
      <4> QED
        BY <4>1, <4>2
    <3>5. c \in ToSet(free) /\ \A j \in DOMAIN fr2 : fr2[j] \in ToSet(free)
      <4>1. 1 \in DOMAIN free
        BY <2>2
      <4> QED
        BY <2>2, <3>2, <4>1 DEF ToSet
    <3>6. ToSet(free) = {c} \cup ToSet(fr2)
      BY <2>2, <3>4, <3>5 DEF ToSet
    <3>7. c \notin ToSet(fr2)
      BY <3>2 DEF ToSet
    <3> QED
      BY <3>3, <3>6, <3>7 DEF IsInjective
  <2>6. c \notin ToSet(ch)
    BY <1>1, <2>5
  <2>7. Chain(cs2, ch)
    <3>1. \A i \in DOMAIN ch : ch[i] \in D /\ ch[i] # c
      BY <1>3, <2>6 DEF ToSet
    <3> QED
      BY <1>1, <2>3, <2>4, <3>1 DEF Chain
  <2>8. Unlinked(cs2, ToSet(fr2) \cup {c})
    BY <1>1, <1>2, <2>2, <2>4, <2>5 DEF Unlinked
  <2>9. cs2[c].parent = NoContext
    BY <1>2, <2>2, <2>4
  <2> HIDE DEF D
  <2> QED
    BY <1>1, <2>1, <2>2, <2>3, <2>5, <2>6, <2>7, <2>8, <2>9 DEF Pool
<1> QED
  BY <1>4, <1>5

(* It becomes the first of the chain, or the child of the last.             *)
LEMMA LinkFirst ==
  ASSUME NEW cs, NEW fr, NEW n, Pool(cs, fr, <<>>, {n})
  PROVE  Pool(cs, fr, <<n>>, {})
<1>1. ToSet(<<>>) = {} /\ ToSet(<<n>>) = {n} /\ n \in DOMAIN cs
  BY DEF Pool, ToSet
<1>2. Chain(cs, <<n>>)
  <2>1. cs[n].parent = NoContext /\ cs[n].child = NoContext
    BY DEF Pool, Unlinked
  <2>2. <<n>> \in Seq(DOMAIN cs) /\ IsInjective(<<n>>)
    BY <1>1 DEF IsInjective
  <2> QED
    BY <2>1, <2>2 DEF Chain
<1> QED
  BY <1>1, <1>2 DEF Pool, Unlinked

LEMMA LinkChild ==
  ASSUME NEW cs, NEW fr, NEW ch, NEW n, Pool(cs, fr, ch, {n}), ch # <<>>
  PROVE  Pool([cs EXCEPT ![ch[Len(ch)]].child = n, ![n].parent = ch[Len(ch)]], fr,
              Append(ch, n), {})
<1> DEFINE D == DOMAIN cs
           L == Len(ch)
           c == ch[L]
           ch2 == Append(ch, n)
           cs2 == [cs EXCEPT ![c].child = n, ![n].parent = c]
<1>1. /\ Contexts(cs) /\ ch \in Seq(D) /\ n \in D /\ fr \in Seq(D) /\ IsInjective(fr)
      /\ IsInjective(ch) /\ n \notin ToSet(ch)
      /\ cs[n].parent = NoContext /\ cs[n].child = NoContext
      /\ \A i \in DOMAIN ch : /\ cs[ch[i]].parent = IF i = 1 THEN NoContext ELSE ch[i - 1]
                              /\ cs[ch[i]].child = IF i = Len(ch) THEN NoContext ELSE ch[i + 1]
  BY DEF Pool, Chain, Unlinked
<1>2. /\ L \in Nat /\ L >= 1 /\ DOMAIN ch = 1..L /\ c \in D
      /\ ch2 \in Seq(D) /\ Len(ch2) = L + 1 /\ DOMAIN ch2 = 1..(L + 1) /\ ch2[L + 1] = n
      /\ \A i \in 1..L : ch2[i] = ch[i] /\ ch[i] \in D /\ ch[i] # n
  <2>1. ch \in Seq(D) /\ n \in D
    BY <1>1
  <2>2. \A i \in DOMAIN ch : ch[i] # n
    BY <1>1 DEF ToSet
  <2> HIDE DEF D
  <2> QED
    BY <2>1, <2>2
<1> HIDE DEF ch2, L
<1>3. c # n /\ c \in D
  BY <1>2
<1>4. Contexts(cs2) /\ DOMAIN cs2 = D
      /\ \A x \in D : /\ cs2[x].child = IF x = c THEN n ELSE cs[x].child
                      /\ cs2[x].parent = IF x = n THEN c ELSE cs[x].parent
  <2>1. \A x \in D : DOMAIN cs[x] = Fields
    BY <1>1 DEF Contexts
  <2> DEFINE r == [cs[c] EXCEPT !.child = n]
             q == [cs[n] EXCEPT !.parent = c]
             cs1 == [cs EXCEPT ![c] = r]
  <2>2. /\ DOMAIN r = Fields /\ DOMAIN q = Fields /\ r.child = n /\ r.parent = cs[c].parent
        /\ q.parent = c /\ q.child = cs[n].child
    BY <1>1, <1>3, <2>1 DEF Fields
  <2>3. Contexts(cs1) /\ DOMAIN cs1 = D
    BY <1>1, <1>3, <2>2, OneContext
  <2>4. cs2 = [cs1 EXCEPT ![n] = q]
    BY <1>1, <1>3
  <2>5. Contexts(cs2) /\ DOMAIN cs2 = D
    <3>1. Contexts([cs1 EXCEPT ![n] = q]) /\ DOMAIN [cs1 EXCEPT ![n] = q] = DOMAIN cs1
      <4> HIDE DEF cs1, q
      <4> QED
        BY <1>1, <2>2, <2>3, OneContext
    <3> HIDE DEF cs2, cs1, q
    <3> QED
      BY <2>3, <2>4, <3>1
  <2>6. \A x \in D : cs2[x] = IF x = n THEN q ELSE IF x = c THEN r ELSE cs[x]
    BY <1>1, <1>3
  <2> HIDE DEF cs2, cs1, q, r
  <2> QED
    BY <1>1, <1>3, <2>2, <2>5, <2>6
<1> HIDE DEF cs2
<1>5. Chain(cs2, ch2)
  <2>0. \A j, k \in 1..L : ch[j] = ch[k] => j = k
    BY <1>1, <1>2 DEF IsInjective
  <2>1. IsInjective(ch2)
    <3>1. ASSUME NEW j \in 1..(L + 1), NEW k \in 1..(L + 1), ch2[j] = ch2[k] PROVE j = k
      <4>1. CASE j \in 1..L /\ k \in 1..L
        BY <1>2, <2>0, <3>1, <4>1
      <4>2. CASE j = L + 1 \/ k = L + 1
        BY <1>2, <3>1, <4>2
      <4> QED
        BY <1>2, <4>1, <4>2
    <3> QED
      BY <1>2, <3>1 DEF IsInjective
  <2>2. ASSUME NEW i \in 1..(L + 1)
        PROVE  /\ cs2[ch2[i]].parent = IF i = 1 THEN NoContext ELSE ch2[i - 1]
               /\ cs2[ch2[i]].child = IF i = L + 1 THEN NoContext ELSE ch2[i + 1]
    <3>1. CASE i = L + 1
      <4>1. ch2[i] = n /\ i # 1
        BY <1>2, <3>1
      <4>2. PICK k \in 1..L : k = L /\ k = i - 1
        BY <1>2, <3>1
      <4>3. ch2[i - 1] = c
        BY <1>2, <4>2
      <4> QED
        BY <1>1, <1>3, <1>4, <3>1, <4>1, <4>3
    <3>2. CASE i \in 1..L
      <4>1. ch2[i] = ch[i] /\ ch[i] \in D /\ ch[i] # n /\ i # L + 1
        BY <1>2, <3>2
      <4>2. ch[i] = c <=> i = L
        BY <1>2, <2>0, <3>2
      <4>3. i # 1 => i - 1 \in 1..L /\ ch2[i - 1] = ch[i - 1]
        BY <1>2, <3>2
      <4>4. i # L => i + 1 \in 1..L /\ ch2[i + 1] = ch[i + 1]
        BY <1>2, <3>2
      <4>5. cs2[ch2[i]].parent = IF i = 1 THEN NoContext ELSE ch2[i - 1]
        <5>1. cs2[ch2[i]].parent = cs[ch[i]].parent
          BY <1>4, <4>1
        <5>2. cs[ch[i]].parent = IF i = 1 THEN NoContext ELSE ch[i - 1]
          BY <1>1, <1>2, <3>2
        <5> QED
          BY <4>3, <5>1, <5>2
      <4>6. i = L => ch2[i + 1] = n
        BY <1>2
      <4>7. cs2[ch2[i]].child = IF i = L THEN n ELSE cs[ch[i]].child
        BY <1>4, <4>1, <4>2
      <4>8. cs[ch[i]].child = IF i = L THEN NoContext ELSE ch[i + 1]
        BY <1>1, <1>2, <3>2, Zenon DEF L
      <4> QED
        BY <4>1, <4>4, <4>5, <4>6, <4>7, <4>8
    <3> QED
      BY <1>2, <3>1, <3>2
  <2> QED
    BY <1>2, <1>4, <2>1, <2>2 DEF Chain
<1>6. ToSet(ch2) = ToSet(ch) \cup {n}
  <2>1. \A i \in 1..(L + 1) : i \in 1..L \/ i = L + 1
    BY <1>2
  <2>2. L + 1 \in 1..(L + 1) /\ \A i \in 1..L : i \in 1..(L + 1)
    BY <1>2
  <2> QED
    BY <1>2, <2>1, <2>2 DEF ToSet
<1>7. Unlinked(cs2, ToSet(fr))
  <2>1. c \in ToSet(ch)
    BY <1>2 DEF ToSet
  <2>2. ASSUME NEW x \in ToSet(fr) PROVE x \in D /\ x # c /\ cs[x].child = NoContext
    BY <2>1 DEF Pool, Unlinked
  <2> QED
    BY <1>4, <2>2 DEF Unlinked
<1>8. Pool(cs2, fr, ch2, {})
  <2>1. /\ ToSet(ch) \cap ToSet(fr) = {} /\ ToSet(fr) \cap {n} = {}
        /\ ToSet(ch) \cup ToSet(fr) \cup {n} = D
    BY DEF Pool
  <2> HIDE DEF D
  <2> QED
    BY <1>1, <1>4, <1>5, <1>6, <1>7, <2>1 DEF Pool, Unlinked
<1> QED
  BY <1>8 DEF cs2, ch2, L

-----------------------------------------------------------------------------
Running == {"run", "back"}

(* The context that runs is one of the chain, called by the one before it.  *)
RunsIn(ch) ==
  /\ Pool(ctxs, free, ch, {}) /\ ch \in Seq(DOMAIN ctxs)
  /\ DOMAIN ch = 1..Len(ch) /\ Len(ch) \in Nat
  /\ cur \in DOMAIN ctxs /\ cur # NoContext
  /\ \E i \in DOMAIN ch :
       /\ cur = ch[i]
       /\ Outer = IF i = 1 THEN NoContext ELSE ch[i - 1]
       /\ i # 1 => i - 1 \in DOMAIN ch /\ Outer \in DOMAIN ctxs /\ Outer # NoContext

LEMMA InChain ==
  ASSUME PoolInv, mode \in Running
  PROVE  \E ch : RunsIn(ch)
<1>1. PICK ch : Pool(ctxs, free, ch, {}) /\ cur \in ToSet(ch)
  BY DEF PoolInv, Running
<1>2. PICK i \in DOMAIN ch : cur = ch[i]
  BY <1>1 DEF ToSet
<1> DEFINE D == DOMAIN ctxs
<1>3. ch \in Seq(D) /\ NoContext \notin D
      /\ \A j \in DOMAIN ch : ctxs[ch[j]].parent = IF j = 1 THEN NoContext ELSE ch[j - 1]
  BY <1>1, NoSelf DEF Pool, Chain
<1>4. Outer = IF i = 1 THEN NoContext ELSE ch[i - 1]
  BY <1>2, <1>3 DEF Outer, me
<1> HIDE DEF D
<1>5. i \in Nat /\ DOMAIN ch = 1..Len(ch) /\ Len(ch) \in Nat
  BY <1>2, <1>3
<1>6. cur \in D /\ (i # 1 => i - 1 \in DOMAIN ch)
  BY <1>2, <1>3, <1>5
<1>7. i # 1 => ch[i - 1] \in D
  BY <1>3, <1>6
<1> QED
  BY <1>1, <1>2, <1>3, <1>4, <1>5, <1>6, <1>7 DEF D, RunsIn

(* Steps that leave the links alone, in the context or back to its caller.  *)
LEMMA LinksStay ==
  ASSUME PoolInv, mode \in Running, SameTree(ctxs, ctxs'), free' = free, mode' \in Running,
         cur' = cur \/ (cur' = Outer /\ Outer # NoContext)
  PROVE  PoolInv'
<1>1. PICK ch : RunsIn(ch)
  BY InChain
<1>2. Pool(ctxs', free', ch, {})
  BY <1>1, SameTreePool DEF RunsIn
<1>3. cur' \in ToSet(ch)
  BY <1>1 DEF ToSet, RunsIn
<1> QED
  BY <1>2, <1>3 DEF PoolInv, Running

LEMMA CurIsContext ==
  ASSUME PoolInv, mode \in Running
  PROVE  Contexts(ctxs) /\ cur \in DOMAIN ctxs
<1>1. \E ch : Pool(ctxs, free, ch, {}) /\ cur \in DOMAIN ctxs
  BY InChain DEF RunsIn
<1> QED
  BY <1>1 DEF Pool

(* What the operations are made of.                                         *)
LEMMA ThrowStays ==
  ASSUME PoolInv, mode = "run", NEW k, NEW a, Throw(k, a)
  PROVE  PoolInv'
<1>1. mode \in Running /\ mode' \in Running /\ free' = free /\ cur' = cur
  BY DEF Throw, Running
<1>2. SameTree(ctxs, ctxs')
  BY <1>1, CurIsContext, Assignments, Zenon DEF Throw
<1> QED
  BY <1>1, <1>2, LinksStay

LEMMA GotoStays ==
  ASSUME PoolInv, mode = "run", NEW ip, NEW ops, Goto(ip, ops)
  PROVE  PoolInv'
<1>1. CASE Len(ops) > MAX_STACK_DEPTH
  BY <1>1, ThrowStays DEF Goto
<1>2. CASE ~(Len(ops) > MAX_STACK_DEPTH)
  <2>1. mode \in Running /\ mode' \in Running /\ free' = free /\ cur' = cur
    BY <1>2 DEF Goto, Running
  <2>2. SameTree(ctxs, ctxs')
    <3>1. ctxs' = [ctxs EXCEPT ![cur].frames = Frames(ip), ![cur].ops = ops]
      BY <1>2 DEF Goto
    <3> QED
      BY <2>1, <3>1, CurIsContext, Assignments, Zenon
  <2> QED
    BY <2>1, <2>2, LinksStay
<1> QED
  BY <1>1, <1>2

LEMMA MarksStay ==
  ASSUME PoolInv, mode = "run", NEW marks, NEW ops, SetMarks(marks, ops)
  PROVE  PoolInv'
<1>1. mode \in Running /\ mode' \in Running /\ free' = free /\ cur' = cur
  BY DEF SetMarks, Running
<1>2. SameTree(ctxs, ctxs')
  BY <1>1, CurIsContext, Assignments, Zenon DEF SetMarks
<1> QED
  BY <1>1, <1>2, LinksStay

LEMMA EnterStays ==
  ASSUME PoolInv, mode = "run", NEW f, NEW bp, NEW n, EnterFrame(f, bp, n)
  PROVE  PoolInv'
<1>1. mode \in Running /\ mode' \in Running /\ free' = free /\ cur' = cur
  BY DEF EnterFrame, Running
<1>2. SameTree(ctxs, ctxs')
  BY <1>1, CurIsContext, Assignments, Zenon DEF EnterFrame
<1> QED
  BY <1>1, <1>2, LinksStay

(* The steps that call no context and leave none.                           *)
Simple ==
  \/ Pop \/ Dup \/ Dup2 \/ Xchg \/ Xchg2 \/ BinOp \/ Equality \/ Cat \/ Neg \/ Not
  \/ PushConst \/ Push \/ NewVec \/ NewHash \/ VAppend \/ HAppend
  \/ GetLocal \/ SetSym \/ SetLocal \/ Member \/ SetMember
  \/ Extract \/ Insert \/ Slice \/ Slice2 \/ Unpack
  \/ Jump \/ JumpIfEnd \/ JumpIf \/ Each \/ Mark \/ Unmark \/ Break
  \/ Call \/ CallByName \/ CallLibrary \/ Die

LEMMA SimpleSteps == PoolInv /\ Simple => PoolInv'
<1> SUFFICES ASSUME PoolInv PROVE Simple => PoolInv'
  OBVIOUS
<1> USE GotoStays, ThrowStays DEF At, Go, GoIf
<1>1. Pop => PoolInv'
  BY DEF Pop
<1>2. Dup => PoolInv'
  BY DEF Dup
<1>3. Dup2 => PoolInv'
  BY DEF Dup2
<1>4. Xchg => PoolInv'
  BY DEF Xchg
<1>5. Xchg2 => PoolInv'
  BY DEF Xchg2
<1>6. BinOp => PoolInv'
  BY DEF BinOp
<1>7. Equality => PoolInv'
  BY DEF Equality
<1>8. Cat => PoolInv'
  BY DEF Cat
<1>9. Neg => PoolInv'
  BY DEF Neg
<1>10. Not => PoolInv'
  BY DEF Not
<1>11. PushConst => PoolInv'
  BY DEF PushConst
<1>12. Push => PoolInv'
  BY DEF Push
<1>13. NewVec => PoolInv'
  BY DEF NewVec
<1>14. NewHash => PoolInv'
  BY DEF NewHash
<1>15. VAppend => PoolInv'
  BY DEF VAppend
<1>16. HAppend => PoolInv'
  BY DEF HAppend
<1>17. GetLocal => PoolInv'
  BY DEF GetLocal
<1>18. SetSym => PoolInv'
  BY DEF SetSym
<1>19. SetLocal => PoolInv'
  BY DEF SetLocal
<1>20. Member => PoolInv'
  BY DEF Member
<1>21. SetMember => PoolInv'
  BY DEF SetMember
<1>22. Extract => PoolInv'
  BY DEF Extract
<1>23. Insert => PoolInv'
  BY DEF Insert
<1>24. Slice => PoolInv'
  BY DEF Slice
<1>25. Slice2 => PoolInv'
  BY DEF Slice2
<1>26. Unpack => PoolInv'
  BY DEF Unpack
<1>27. Jump => PoolInv'
  BY DEF Jump
<1>28. JumpIfEnd => PoolInv'
  BY DEF JumpIfEnd
<1>29. JumpIf => PoolInv'
  BY DEF JumpIf
<1>30. Each => PoolInv'
  BY DEF Each
<1>31. Mark => PoolInv'
  BY MarksStay DEF Mark, Error_
<1>32. Unmark => PoolInv'
  BY MarksStay DEF Unmark
<1>33. Break => PoolInv'
  BY MarksStay DEF Break
<1>34. Call => PoolInv'
  BY EnterStays DEF Call, Error_
<1>35. CallByName => PoolInv'
  BY EnterStays DEF CallByName, Error_
<1>36. CallLibrary => PoolInv'
  BY DEF CallLibrary, Calls
<1>37. Die => PoolInv'
  BY DEF Die, Calls
<1> QED
  BY <1>1, <1>2, <1>3, <1>4, <1>5, <1>6, <1>7, <1>8, <1>9, <1>10, <1>11, <1>12, <1>13, <1>14,
     <1>15, <1>16, <1>17, <1>18, <1>19, <1>20, <1>21, <1>22, <1>23, <1>24, <1>25, <1>26, <1>27,
     <1>28, <1>29, <1>30, <1>31, <1>32, <1>33, <1>34, <1>35, <1>36, <1>37 DEF Simple

(* The program starts, ends, and returns from its functions.                *)
LEMMA InitPool == Init => PoolInv
<1> SUFFICES ASSUME Init PROVE PoolInv
  OBVIOUS
<1>1. ctxs = <<NewFields>> /\ free = <<1>> /\ cur = NoContext /\ mode = "parse"
  BY DEF Init
<1>2. Contexts(ctxs) /\ DOMAIN ctxs = {1}
  <2>1. DOMAIN NewFields = Fields
    BY DEF NewFields, Fields
  <2>2. <<NewFields>> \in Seq({NewFields}) /\ DOMAIN <<NewFields>> = {1} /\ <<NewFields>>[1] = NewFields
    OBVIOUS
  <2> QED
    BY <1>1, <2>1, <2>2 DEF Contexts
<1>3. ToSet(<<>>) = {} /\ ToSet(<<1>>) = {1}
  BY DEF ToSet
<1>4. <<1>> \in Seq(DOMAIN ctxs) /\ IsInjective(<<1>>) /\ IsInjective(<<>>) /\ <<>> \in Seq(DOMAIN ctxs)
  BY <1>2 DEF IsInjective
<1>5. ctxs[1].child = NoContext
  BY <1>1 DEF NewFields
<1>6. Pool(ctxs, free, <<>>, {})
  BY <1>1, <1>2, <1>3, <1>4, <1>5 DEF Pool, Chain, Unlinked
<1> QED
  BY <1>1, <1>6 DEF PoolInv

LEMMA StartPool == PoolInv /\ Start => PoolInv'
<1> SUFFICES ASSUME PoolInv, Start PROVE PoolInv'
  OBVIOUS
<1>1. mode = "parse" /\ Load(Codes[prog])
  BY DEF Start
<1>2. cur = NoContext /\ Pool(ctxs, free, <<>>, {})
  BY <1>1 DEF PoolInv
<1>3. CASE IsA(Codes[prog], "bad")
  <2>1. mode' = "done" /\ ctxs' = ctxs /\ free' = free /\ cur' = cur
    BY <1>1, <1>3 DEF Load
  <2> QED
    BY <1>2, <2>1 DEF PoolInv
<1>4. CASE ~IsA(Codes[prog], "bad")
  <2>1. /\ mode' = "run" /\ cur' = NewContext /\ free' = WithNewContext.fr
        /\ ctxs' = [WithNewContext.cs EXCEPT
                      ![NewContext].frames = <<NewFrame(Func(1), Hash(2), 0)>>]
    BY <1>1, <1>4 DEF Load
  <2>2. Pool(WithNewContext.cs, WithNewContext.fr, <<>>, {NewContext})
    BY <1>2, TakeNew
  <2>3. Pool(WithNewContext.cs, WithNewContext.fr, <<NewContext>>, {})
    BY <2>2, LinkFirst
  <2>4. SameTree(WithNewContext.cs, ctxs')
    BY <2>1, <2>2, Assignments, Zenon DEF Pool
  <2>5. Pool(ctxs', free', <<NewContext>>, {})
    BY <2>1, <2>3, <2>4, SameTreePool
  <2>6. ToSet(<<NewContext>>) = {NewContext}
    BY DEF ToSet
  <2>7. cur' \in ToSet(<<NewContext>>)
    BY <2>1, <2>6
  <2> QED
    BY <2>1, <2>5, <2>7 DEF PoolInv
<1> QED
  BY <1>3, <1>4

LEMMA FinishPool == PoolInv /\ Finish => PoolInv'
<1> SUFFICES ASSUME PoolInv, Finish PROVE PoolInv'
  OBVIOUS
<1>1. PICK ch : RunsIn(ch)
  BY InChain DEF Finish, Running
<1>2. PICK i \in DOMAIN ch : cur = ch[i] /\ i = 1
  BY <1>1 DEF Finish, RunsIn
<1>3. LET r == FreeContext(ctxs, free, ch[i])
      IN  Pool(r.cs, r.fr, SubSeq(ch, 1, i - 1), {})
  BY <1>1, FreeTail DEF RunsIn
<1>4. i - 1 = 0 /\ SubSeq(ch, 1, 0) = <<>>
  <2>1. ch \in Seq(DOMAIN ctxs)
    BY <1>1 DEF RunsIn
  <2> QED
    BY <1>2, <2>1
<1>5. /\ mode' = "done" /\ cur' = NoContext
      /\ ctxs' = FreeContext(ctxs, free, ch[i]).cs /\ free' = FreeContext(ctxs, free, ch[i]).fr
  BY <1>2 DEF Finish
<1>6. Pool(ctxs', free', <<>>, {})
  BY <1>3, <1>4, <1>5
<1> QED
  BY <1>5, <1>6 DEF PoolInv

LEMMA ReturnPool == PoolInv /\ Return => PoolInv'
<1> SUFFICES ASSUME PoolInv, Return PROVE PoolInv'
  OBVIOUS
<1>0. mode = "run" /\ mode \in Running
  BY DEF Return, At, Running
<1>1. PICK ch : RunsIn(ch)
  BY <1>0, InChain
<1>2. PICK i \in DOMAIN ch : cur = ch[i]
  BY <1>1 DEF RunsIn
<1> DEFINE cs1 == [ctxs EXCEPT ![cur].dieArg = Nil, ![cur].frames = Front(@)]
           freed == FreeChild(cs1, free, cur)
           v == Append(SubSeq(me.ops, 1, frame.bp), STK(1))
<1>3. SameTree(ctxs, cs1)
  <2>1. \E w : cs1 = [ctxs EXCEPT ![cur].dieArg = Nil, ![cur].frames = w]
    <3>1. cs1 = [ctxs EXCEPT ![cur].dieArg = Nil, ![cur].frames = cs1[cur].frames]
      <4>1. cur \in DOMAIN ctxs /\ "frames" \in DOMAIN ctxs[cur]
        BY <1>0, CurIsContext DEF Contexts, Fields
      <4> QED
        BY <4>1
    <3> QED
      BY <3>1
  <2> QED
    BY <1>0, <2>1, CurIsContext, Assignments, Zenon
<1>4. Pool(cs1, free, ch, {})
  BY <1>1, <1>3, SameTreePool DEF RunsIn
<1> HIDE DEF cs1
<1>5. Pool(freed.cs, freed.fr, SubSeq(ch, 1, i), {})
  BY <1>2, <1>4, FreeChildOf
<1>6. /\ free' = freed.fr /\ cur' = cur /\ mode' \in Running
      /\ ctxs' = freed.cs \/ ctxs' = [freed.cs EXCEPT ![cur].ops = v]
  BY <1>0 DEF Return, cs1, Running
<1> HIDE DEF freed, v
<1>7. Pool(ctxs', free', SubSeq(ch, 1, i), {})
  <2>1. SameTree(freed.cs, [freed.cs EXCEPT ![cur].ops = v])
    BY <1>5, Assignments, Zenon DEF Pool
  <2> QED
    BY <1>5, <1>6, <2>1, SameTreePool
<1>8. cur \in ToSet(SubSeq(ch, 1, i))
  <2> DEFINE D == DOMAIN ctxs
             s == SubSeq(ch, 1, i)
  <2>1. ch \in Seq(D)
    BY <1>1 DEF RunsIn
  <2> HIDE DEF D
  <2>2. i \in DOMAIN s /\ s[i] = ch[i]
    BY <1>2, <2>1
  <2> HIDE DEF s
  <2>3. cur \in ToSet(s)
    BY <1>2, <2>2 DEF ToSet
  <2> QED
    BY <2>3 DEF s
<1> QED
  BY <1>6, <1>7, <1>8 DEF PoolInv, Running

(* call(), and the ways back from it.                                       *)
LEMMA SubContextPool ==
  ASSUME PoolInv, mode = "run"
  PROVE  \E ch : Pool(SubContext.cs, SubContext.fr, ch, {}) /\ NewContext \in ToSet(ch)
<1>1. PICK ch : RunsIn(ch)
  BY InChain DEF Running
<1>2. PICK i \in DOMAIN ch : cur = ch[i]
  BY <1>1 DEF RunsIn
<1> DEFINE cs1 == WithNewContext.cs
           fr1 == WithNewContext.fr
           n == NewContext
           freed == FreeChild(cs1, fr1, cur)
           q == SubSeq(ch, 1, i)
<1>3. Pool(cs1, fr1, ch, {n})
  BY <1>1, TakeNew DEF RunsIn
<1>4. Pool(freed.cs, freed.fr, q, {n})
  <2> HIDE DEF cs1, fr1, n, freed, q
  <2>1. LET r == FreeChild(cs1, fr1, ch[i]) IN Pool(r.cs, r.fr, SubSeq(ch, 1, i), {n})
    BY <1>3, FreeChildOf
  <2> QED
    BY <1>2, <2>1 DEF freed, q
<1>5. freed = [cs |-> freed.cs, fr |-> freed.fr]
  <2> HIDE DEF cs1, fr1
  <2> QED
    BY DEF FreeChild, FreeContext
<1>6. q # <<>> /\ q[Len(q)] = cur /\ Len(q) \in Nat /\ q \in Seq(DOMAIN ctxs)
  <2> DEFINE D == DOMAIN ctxs
  <2>1. ch \in Seq(D)
    BY <1>1 DEF RunsIn
  <2> HIDE DEF D
  <2>2. q # <<>> /\ q[Len(q)] = cur /\ Len(q) \in Nat /\ q \in Seq(D)
    BY <1>2, <2>1
  <2> QED
    BY <2>2 DEF D
<1>7. /\ SubContext.cs = [freed.cs EXCEPT ![cur].child = n, ![n].parent = cur]
      /\ SubContext.fr = freed.fr
  <2>1. SubContext = [freed EXCEPT !.cs[cur].child = n, !.cs[n].parent = cur]
    BY DEF SubContext
  <2> HIDE DEF freed, n
  <2> QED
    BY <1>5, <2>1
<1> HIDE DEF freed, q, n
<1>8. Pool(SubContext.cs, SubContext.fr, Append(q, n), {})
  <2>1. Pool([freed.cs EXCEPT ![q[Len(q)]].child = n, ![n].parent = q[Len(q)]], freed.fr,
             Append(q, n), {})
    BY <1>4, <1>6, LinkChild
  <2> QED
    BY <1>6, <1>7, <2>1
<1>9. n \in ToSet(Append(q, n))
  <2>1. Len(q) + 1 \in DOMAIN Append(q, n) /\ Append(q, n)[Len(q) + 1] = n
    BY <1>6
  <2> QED
    BY <2>1 DEF ToSet
<1> QED
  BY <1>8, <1>9 DEF n

LEMMA CallCallPool == PoolInv /\ CallCall => PoolInv'
<1> SUFFICES ASSUME PoolInv, CallCall PROVE PoolInv'
  OBVIOUS
<1> DEFINE args == Args(NArgs)
           waiting == [SubContext.cs EXCEPT ![cur].waits = args, ![cur].opFrame = Base(NArgs),
                                            ![cur].frames = Frames(frame.ip + CellsOf)]
<1>1. mode = "run"
  BY DEF CallCall, Calls, At
<1>2. CASE ~CallOK(args)
  BY <1>1, <1>2, ThrowStays DEF CallCall, Error_
<1>3. CASE CallOK(args)
  <2>1. PICK ch : Pool(SubContext.cs, SubContext.fr, ch, {}) /\ NewContext \in ToSet(ch)
    BY <1>1, SubContextPool
  <2>2. SameTree(SubContext.cs, waiting)
    BY <2>1, Assignments, Zenon DEF Pool
  <2>3. Pool(waiting, SubContext.fr, ch, {})
    BY <2>1, <2>2, SameTreePool
  <2>4. /\ cur' = NewContext /\ free' = SubContext.fr
        /\ \/ \E name, callargs : NaCallLibrary(waiting, NewContext, name, callargs)
           \/ \E func, callargs, obj, locals :
                NaCall(waiting, NewContext, func, callargs, obj, locals)
    BY <1>3 DEF CallCall
  <2> HIDE DEF waiting, args
  <2>5. Contexts(waiting)
    BY <2>3 DEF Pool
  <2>6. ASSUME NEW name, NEW callargs, NaCallLibrary(waiting, NewContext, name, callargs)
        PROVE  mode' \in Running /\ SameTree(waiting, ctxs')
    <3>1. mode' = "back"
      BY <2>6 DEF NaCallLibrary
    <3>2. PICK v, w : ctxs' = [waiting EXCEPT ![NewContext].error = v, ![NewContext].dieArg = w]
      BY <2>6 DEF NaCallLibrary
    <3>3. SameTree(waiting, [waiting EXCEPT ![NewContext].error = v, ![NewContext].dieArg = w])
      BY <2>5, Assignments, Zenon
    <3> QED
      BY <3>1, <3>2, <3>3 DEF Running
  <2>7. ASSUME NEW func, NEW callargs, NEW obj, NEW locals,
               NaCall(waiting, NewContext, func, callargs, obj, locals)
        PROVE  mode' \in Running /\ SameTree(waiting, ctxs')
    <3>1. PICK v : \/ ctxs' = [waiting EXCEPT ![NewContext].frames = v]
                   \/ ctxs' = [[waiting EXCEPT ![NewContext].frames = v]
                                 EXCEPT ![NewContext].error = "too few args"]
      BY <2>7 DEF NaCall
    <3>2. mode' \in Running
      BY <2>7 DEF NaCall, Running
    <3> DEFINE started == [waiting EXCEPT ![NewContext].frames = v]
    <3>3. SameTree(waiting, started)
      BY <2>5, Assignments, Zenon
    <3>4. Contexts(started)
      <4> HIDE DEF started
      <4>1. Pool(started, SubContext.fr, ch, {})
        BY <2>3, <3>3, SameTreePool
      <4> QED
        BY <4>1 DEF Pool
    <3> HIDE DEF started
    <3>5. SameTree(started, [started EXCEPT ![NewContext].error = "too few args"])
      BY <3>4, Assignments, Zenon
    <3>7. SameTree(waiting, [started EXCEPT ![NewContext].error = "too few args"])
      BY <3>3, <3>5, TreeTransitive
    <3>6. ctxs' = started \/ ctxs' = [started EXCEPT ![NewContext].error = "too few args"]
      BY <3>1 DEF started
    <3> QED
      BY <3>2, <3>3, <3>6, <3>7
  <2>8. mode' \in Running /\ SameTree(waiting, ctxs')
    BY <2>4, <2>6, <2>7
  <2>9. Pool(ctxs', free', ch, {})
    BY <2>3, <2>4, <2>8, SameTreePool
  <2> QED
    BY <2>1, <2>4, <2>8, <2>9 DEF PoolInv, Running
<1> QED
  BY <1>2, <1>3

LEMMA CallReturnsPool == PoolInv /\ CallReturns => PoolInv'
<1> SUFFICES ASSUME PoolInv, CallReturns PROVE PoolInv'
  OBVIOUS
<1>1. PICK ch : RunsIn(ch)
  BY InChain DEF CallReturns, Running
<1>2. PICK i \in DOMAIN ch : cur = ch[i] /\ i # 1 /\ Outer = ch[i - 1] /\ i - 1 \in DOMAIN ch
  BY <1>1 DEF CallReturns, RunsIn
<1> DEFINE freed == FreeContext(ctxs, free, cur)
           q == SubSeq(ch, 1, i - 1)
<1>3. Pool(freed.cs, freed.fr, q, {})
  <2>1. LET r == FreeContext(ctxs, free, ch[i]) IN Pool(r.cs, r.fr, SubSeq(ch, 1, i - 1), {})
    BY <1>1, FreeTail DEF RunsIn
  <2> QED
    BY <1>2, <2>1
<1>4. /\ free' = freed.fr /\ cur' = Outer /\ mode' = "run" /\ OuterGoesOn(freed.cs, result)
  BY DEF CallReturns
<1> HIDE DEF freed
<1>5. \E v, w : ctxs' = [freed.cs EXCEPT ![Outer].ops = v, ![Outer].waits = w]
  <2>1. Contexts(freed.cs)
    BY <1>3 DEF Pool
  <2>2. ctxs' = [freed.cs EXCEPT ![Outer].ops = Append(SubSeq(@, 1, freed.cs[Outer].opFrame), result),
                                 ![Outer].waits = <<>>]
    BY <1>4 DEF OuterGoesOn
  <2>3. ctxs' = [freed.cs EXCEPT ![Outer].ops =
                    Append(SubSeq(freed.cs[Outer].ops, 1, freed.cs[Outer].opFrame), result),
                                 ![Outer].waits = <<>>]
    BY <2>2
  <2> QED
    BY <2>3
<1>6. Pool(ctxs', free', q, {})
  <2>1. SameTree(freed.cs, ctxs')
    <3>1. PICK v, w : ctxs' = [freed.cs EXCEPT ![Outer].ops = v, ![Outer].waits = w]
      BY <1>5
    <3>2. Contexts(freed.cs)
      BY <1>3 DEF Pool
    <3>3. SameTree(freed.cs, [freed.cs EXCEPT ![Outer].ops = v, ![Outer].waits = w])
      BY <3>2, Assignments, Zenon
    <3> QED
      BY <3>1, <3>3
  <2> QED
    BY <1>3, <1>4, <2>1, SameTreePool
<1>7. Outer \in ToSet(q)
  <2> DEFINE D == DOMAIN ctxs
  <2>1. ch \in Seq(D)
    BY <1>1 DEF RunsIn
  <2> HIDE DEF D
  <2>2. i - 1 \in DOMAIN q /\ q[i - 1] = ch[i - 1]
    BY <1>2, <2>1
  <2> HIDE DEF q
  <2> QED
    BY <1>2, <2>2 DEF ToSet
<1> QED
  BY <1>4, <1>6, <1>7 DEF PoolInv

LEMMA CallCatchesPool == PoolInv /\ CallCatches => PoolInv'
<1> SUFFICES ASSUME PoolInv, CallCatches PROVE PoolInv'
  OBVIOUS
<1>1. mode \in Running /\ mode' \in Running /\ free' = free /\ cur' = Outer /\ Outer # NoContext
      /\ OuterGoesOn(ctxs, Nil)
  BY DEF CallCatches, Running
<1>2. \E v, w : ctxs' = [ctxs EXCEPT ![Outer].ops = v, ![Outer].waits = w]
  <2>1. ctxs' = [ctxs EXCEPT ![Outer].ops = Append(SubSeq(@, 1, ctxs[Outer].opFrame), Nil),
                             ![Outer].waits = <<>>]
    BY <1>1 DEF OuterGoesOn
  <2>2. ctxs' = [ctxs EXCEPT ![Outer].ops = Append(SubSeq(ctxs[Outer].ops, 1, ctxs[Outer].opFrame), Nil),
                             ![Outer].waits = <<>>]
    BY <2>1
  <2> QED
    BY <2>2
<1>3. SameTree(ctxs, ctxs')
  <2>1. PICK v, w : ctxs' = [ctxs EXCEPT ![Outer].ops = v, ![Outer].waits = w]
    BY <1>2
  <2>2. SameTree(ctxs, [ctxs EXCEPT ![Outer].ops = v, ![Outer].waits = w])
    BY <1>1, CurIsContext, Assignments, Zenon
  <2> QED
    BY <2>1, <2>2
<1> QED
  BY <1>1, <1>3, LinksStay

LEMMA RethrowPool == PoolInv /\ Rethrow => PoolInv'
<1> SUFFICES ASSUME PoolInv, Rethrow PROVE PoolInv'
  OBVIOUS
<1>1. mode \in Running /\ mode' \in Running /\ free' = free /\ cur' = Outer /\ Outer # NoContext
  BY DEF Rethrow, Running
<1>2. SameTree(ctxs, ctxs')
  BY <1>1, CurIsContext, Assignments, Zenon DEF Rethrow
<1> QED
  BY <1>1, <1>2, LinksStay

LEMMA PoolNext == PoolInv /\ [Next]_vars => PoolInv'
<1>1. ASSUME PoolInv, UNCHANGED vars PROVE PoolInv'
  BY <1>1 DEF PoolInv, vars
<1>2. ASSUME PoolInv, Done PROVE PoolInv'
  BY <1>1, <1>2 DEF Done
<1> QED
  BY <1>1, <1>2, StartPool, FinishPool, SimpleSteps, ReturnPool, CallCallPool, CallReturnsPool,
     CallCatchesPool, RethrowPool DEF Next, Simple

(* In a pool every context is in use once or free once.                     *)
LEMMA Partition == PoolInv => ContextsPartition
<1> SUFFICES ASSUME PoolInv PROVE ContextsPartition
  OBVIOUS
<1>1. PICK ch : /\ Pool(ctxs, free, ch, {})
                /\ IF mode \in Running THEN cur \in ToSet(ch) ELSE cur = NoContext /\ ch = <<>>
  BY DEF PoolInv, Running
<1> DEFINE D == DOMAIN ctxs
<1>2. /\ Contexts(ctxs) /\ Chain(ctxs, ch) /\ ch \in Seq(D) /\ NoContext \notin D
      /\ IsInjective(ch) /\ IsInjective(free) /\ free \in Seq(D)
      /\ ToSet(ch) \cap ToSet(free) = {} /\ ToSet(ch) \cup ToSet(free) = D
      /\ \A x \in ToSet(free) : ctxs[x].child = NoContext
  BY <1>1, NoSelf DEF Pool, Chain, Unlinked
<1>3. Len(ch) \in Nat /\ DOMAIN ch = 1..Len(ch)
  <2>1. ch \in Seq(D)
    BY <1>2
  <2> HIDE DEF D
  <2> QED
    BY <2>1
<1>4. CASE mode \notin Running
  <2>1. ToSet(ch) = {} /\ cur = NoContext
    BY <1>1, <1>4 DEF ToSet
  <2> QED
    BY <1>2, <2>1 DEF ContextsPartition, InUse
<1>5. CASE mode \in Running
  <2>1. PICK i \in DOMAIN ch : cur = ch[i]
    BY <1>1, <1>5 DEF ToSet
  <2>2. cur \in D /\ cur # NoContext
    BY <1>2, <2>1 DEF ToSet
  <2>3. ASSUME NEW j \in DOMAIN ch
        PROVE  ToSet(Lineage(ctxs, ch[j])) = {ch[k] : k \in j..Len(ch)}
    BY <1>2, ChainLineage
  <2>4. ASSUME NEW x \in ToSet(free) PROVE ToSet(Lineage(ctxs, x)) = {x}
    <3> DEFINE p == <<x>>
    <3>1. x \in D
      BY <1>2
    <3>2. p \in Seq(D) /\ p # <<>> /\ IsInjective(p) /\ Len(p) = 1 /\ DOMAIN p = {1} /\ p[1] = x
      BY <3>1 DEF IsInjective
    <3>3. \A k \in DOMAIN p : ctxs[p[k]].child = IF k = Len(p) THEN NoContext ELSE p[k + 1]
      BY <1>2, <3>2
    <3> HIDE DEF p
    <3>4. Lineage(ctxs, p[1]) = p
      BY <1>2, <3>2, <3>3, LineageIsPath
    <3> QED
      BY <3>2, <3>4 DEF ToSet
  <2>5. ASSUME NEW c \in D PROVE c \in InUse <=> c \in ToSet(ch)
    <3>1. c \in InUse <=> cur \in ToSet(Lineage(ctxs, c)) \/ c \in ToSet(Lineage(ctxs, cur))
      BY <2>2 DEF InUse
    <3>2. CASE c \in ToSet(free)
      <4>1. c \notin ToSet(ch) /\ c # cur
        BY <1>1, <1>2, <1>5, <3>2
      <4>2. ToSet(Lineage(ctxs, cur)) \subseteq ToSet(ch)
        <5>1. \A k \in i..Len(ch) : k \in DOMAIN ch
          BY <1>3, <2>1
        <5>2. ToSet(Lineage(ctxs, cur)) = {ch[k] : k \in i..Len(ch)}
          BY <2>1, <2>3
        <5> QED
          BY <5>1, <5>2 DEF ToSet
      <4> QED
        BY <2>4, <3>1, <3>2, <4>1, <4>2
    <3>3. CASE c \in ToSet(ch)
      <4>1. PICK j \in DOMAIN ch : c = ch[j]
        BY <3>3 DEF ToSet
      <4>2. ToSet(Lineage(ctxs, c)) = {ch[k] : k \in j..Len(ch)}
        BY <2>3, <4>1
      <4>3. ToSet(Lineage(ctxs, cur)) = {ch[k] : k \in i..Len(ch)}
        BY <2>1, <2>3
      <4>4. i \in j..Len(ch) \/ j \in i..Len(ch)
        BY <1>3
      <4> QED
        BY <2>1, <3>1, <3>3, <4>1, <4>2, <4>3, <4>4
    <3> QED
      BY <1>2, <3>2, <3>3
  <2>6. InUse \subseteq D
    <3>1. ToSet(Lineage(ctxs, cur)) \subseteq D
      <4>1. ToSet(Lineage(ctxs, cur)) = {ch[k] : k \in i..Len(ch)}
        BY <2>1, <2>3
      <4>2. \A k \in i..Len(ch) : k \in DOMAIN ch
        BY <1>3, <2>1
      <4>3. \A k \in DOMAIN ch : ch[k] \in D
        BY <1>2 DEF ToSet
      <4> QED
        BY <4>1, <4>2, <4>3
    <3> QED
      BY <2>2, <3>1 DEF InUse
  <2>7. InUse = ToSet(ch)
    BY <1>2, <2>5, <2>6
  <2> QED
    BY <1>2, <2>7 DEF ContextsPartition
<1> QED
  BY <1>4, <1>5

(* Every context is in use once or free once: however calls nest, return and *)
(* fail, naSubContext and naFreeContext neither lose one nor put one on the  *)
(* free list twice.                                                         *)
THEOREM ContextsNeitherLostNorFreedTwice == Spec => []ContextsPartition
<1>1. Spec => []PoolInv
  BY InitPool, PoolNext, PTL DEF Spec
<1> QED
  BY <1>1, Partition, PTL
-----------------------------------------------------------------------------
(* Values: the objects they refer to are among the nv vectors, nh hashes and *)
(* nf functions there are.                                                  *)
Sound(v, nv, nh, nf) ==
  /\ v[1] \in {"num", "str", "nil", "end", "native", "vec", "hash", "func"}
  /\ v[1] = "vec" => v[2] \in 1..nv
  /\ v[1] = "hash" => v[2] \in 1..nh
  /\ v[1] = "func" => v[2] \in 1..nf
  /\ v[1] = "native" => v \in {Native(n) : n \in LibraryNames \cup {"die", "call"}}

OfType(V, t) == {v \in V : IsA(v, t)}
Functions_(V) == [code : DOMAIN Shape, ns : OfType(V, "hash"), next : OfType(V, "func") \cup {Nil}]
CallFrames(V) == [func : OfType(V, "func"), locals : OfType(V, "hash"), ip : Nat, bp : Nat]

(* The objects hold values of V, which refer to them.                       *)
World(V, vs, hs, fs) ==
  /\ {Nil, End} \subseteq V
  /\ \A v \in V : Sound(v, Len(vs), Len(hs), Len(fs))
  /\ vs \in Seq(Seq(V))
  /\ \E S : hs \in Seq(S)
  /\ \A i \in DOMAIN hs : \A k \in DOMAIN hs[i] : hs[i][k] \in V
  /\ fs \in Seq(Functions_(V))

(* What a context holds, and that its stacks are in their limits.           *)
Body(x, V) ==
  /\ x.frames \in Seq(CallFrames(V)) /\ Len(x.frames) <= MAX_RECURSION
  /\ x.ops \in Seq(V) /\ Len(x.ops) <= MAX_STACK_DEPTH
  /\ x.marks \in Seq(Nat) /\ Len(x.marks) <= MAX_MARK_DEPTH
  /\ x.dieArg \in V /\ x.waits \in Seq(V)

(* The shape of a frame: that of its code where it is.                      *)
CodeIn(f, fs) == fs[f.func[2]].code
HasShape(f, ip, fs) == ip \in DOMAIN Shape[CodeIn(f, fs)]
ShapeIn(f, ip, fs) == Shape[CodeIn(f, fs)][ip]

OpsFit(ops, b, ts) == \A k \in DOMAIN ts : Is(ops[b + k], ts[k])
MarksFit(marks, m, b, ms) == \A k \in DOMAIN ms : marks[m + k] = b + ms[k]

(* The frames of a context, n of them, in the shapes sh: each has its part of*)
(* the operand stack, from bp on, and of the stack of marks, from mb[i] on;  *)
(* but for the last they wait for a value on top of theirs.                 *)
Waits(ts) == ts # <<>> /\ Last(ts) = "any"

Framed(x, n, sh, mb, fs) ==
  /\ n \in Nat /\ n = Len(x.frames) /\ n >= 1
  /\ sh \in [1..n -> Shapes] /\ mb \in [1..n -> Nat]
  /\ \A i \in 1..n :
       /\ HasShape(x.frames[i], x.frames[i].ip, fs)
       /\ sh[i] = ShapeIn(x.frames[i], x.frames[i].ip, fs)
       /\ OpsFit(x.ops, x.frames[i].bp, sh[i].ts)
       /\ MarksFit(x.marks, mb[i], x.frames[i].bp, sh[i].ms)
  /\ x.frames[1].bp = 0 /\ mb[1] = 0
  /\ \A i \in 1..(n - 1) :
       /\ Waits(sh[i].ts)
       /\ x.frames[i + 1].bp = x.frames[i].bp + Len(sh[i].ts) - 1
       /\ mb[i + 1] = mb[i] + Len(sh[i].ms)
  /\ \A i, j \in 1..n : i < j =>
       /\ x.frames[i].bp + Len(sh[i].ts) - 1 <= x.frames[j].bp
       /\ mb[i] + Len(sh[i].ms) <= mb[j]
  /\ Len(x.marks) = mb[n] + Len(sh[n].ms)

(* The last frame runs, or waits in call() for the value that goes to opFrame.*)
RunsAs(x, n, sh, mb, fs) ==
  /\ Framed(x, n, sh, mb, fs)
  /\ Len(x.ops) = x.frames[n].bp + Len(sh[n].ts)

WaitsAs(x, n, sh, mb, fs) ==
  /\ Framed(x, n, sh, mb, fs)
  /\ Waits(sh[n].ts)
  /\ x.opFrame = x.frames[n].bp + Len(sh[n].ts) - 1 /\ x.opFrame < Len(x.ops)

IsRunning(x, fs) == \E n, sh, mb : RunsAs(x, n, sh, mb, fs)
IsWaiting(x, fs) == \E n, sh, mb : WaitsAs(x, n, sh, mb, fs)

-----------------------------------------------------------------------------
(* The objects grow, and what is known of the values stays.                 *)
LEMMA SeqGrows ==
  ASSUME NEW V, NEW W, V \subseteq W
  PROVE  Seq(V) \subseteq Seq(W) /\ Seq(Seq(V)) \subseteq Seq(Seq(W))
<1>1. Seq(V) \subseteq Seq(W)
  OBVIOUS
<1> DEFINE A == Seq(V)  B == Seq(W)
<1>2. A \subseteq B
  BY <1>1
<1> HIDE DEF A, B
<1>3. Seq(A) \subseteq Seq(B)
  BY <1>2
<1> QED
  BY <1>1, <1>3 DEF A, B

LEMMA FunctionsGrow ==
  ASSUME NEW V, NEW W, V \subseteq W
  PROVE  /\ Functions_(V) \subseteq Functions_(W) /\ CallFrames(V) \subseteq CallFrames(W)
         /\ Seq(Functions_(V)) \subseteq Seq(Functions_(W))
         /\ Seq(CallFrames(V)) \subseteq Seq(CallFrames(W))
<1> DEFINE A == Functions_(V)  B == Functions_(W)  C == CallFrames(V)  D == CallFrames(W)
<1>1. A \subseteq B
  BY DEF Functions_, OfType
<1>2. C \subseteq D
  BY DEF CallFrames, OfType
<1> HIDE DEF A, B, C, D
<1>3. Seq(A) \subseteq Seq(B)
  BY <1>1
<1>4. Seq(C) \subseteq Seq(D)
  BY <1>2
<1> QED
  BY <1>1, <1>2, <1>3, <1>4 DEF A, B, C, D

LEMMA SoundGrows ==
  ASSUME NEW nv \in Nat, NEW nh \in Nat, NEW nf \in Nat, NEW mv \in Nat, NEW mh \in Nat, NEW mf \in Nat,
         nv <= mv, nh <= mh, nf <= mf, NEW v, Sound(v, nv, nh, nf)
  PROVE  Sound(v, mv, mh, mf)
BY DEF Sound

LEMMA Counts ==
  ASSUME NEW V, NEW vs, NEW hs, NEW fs, World(V, vs, hs, fs)
  PROVE  /\ Len(vs) \in Nat /\ DOMAIN vs = 1..Len(vs)
         /\ Len(hs) \in Nat /\ DOMAIN hs = 1..Len(hs)
         /\ Len(fs) \in Nat /\ DOMAIN fs = 1..Len(fs)
<1> DEFINE A == Seq(V)  B == Functions_(V)
<1>1. vs \in Seq(A) /\ fs \in Seq(B) /\ \E S : hs \in Seq(S)
  BY DEF World
<1> HIDE DEF A, B
<1> QED
  BY <1>1

(* More values, of the same objects.                                        *)
LEMMA MoreValues ==
  ASSUME NEW V, NEW vs, NEW hs, NEW fs, World(V, vs, hs, fs), NEW W, V \subseteq W,
         \A v \in W : Sound(v, Len(vs), Len(hs), Len(fs))
  PROVE  World(W, vs, hs, fs)
<1>1. vs \in Seq(Seq(W)) /\ fs \in Seq(Functions_(W))
  BY SeqGrows, FunctionsGrow DEF World
<1> QED
  BY <1>1 DEF World

LEMMA WithScalar ==
  ASSUME NEW V, NEW vs, NEW hs, NEW fs, World(V, vs, hs, fs), NEW v,
         v[1] \in {"num", "str", "nil", "end"}
  PROVE  World(V \cup {v}, vs, hs, fs)
<1>1. Sound(v, Len(vs), Len(hs), Len(fs))
  BY DEF Sound
<1>2. \A w \in V \cup {v} : Sound(w, Len(vs), Len(hs), Len(fs))
  BY <1>1 DEF World
<1> QED
  BY <1>2, MoreValues

(* What the values refer to.                                                *)
LEMMA VecThere ==
  ASSUME NEW V, NEW vs, NEW hs, NEW fs, World(V, vs, hs, fs), NEW v \in V, IsA(v, "vec")
  PROVE  v[2] \in DOMAIN vs /\ vs[v[2]] \in Seq(V)
<1> DEFINE A == Seq(V)
<1>1. vs \in Seq(A) /\ v[2] \in 1..Len(vs)
  BY DEF World, Sound, IsA
<1> HIDE DEF A
<1>2. v[2] \in DOMAIN vs /\ vs[v[2]] \in A
  BY <1>1
<1> QED
  BY <1>2 DEF A

LEMMA HashThere ==
  ASSUME NEW V, NEW vs, NEW hs, NEW fs, World(V, vs, hs, fs), NEW v \in V, IsA(v, "hash")
  PROVE  v[2] \in DOMAIN hs /\ \A k \in DOMAIN hs[v[2]] : hs[v[2]][k] \in V
<1>1. v[2] \in 1..Len(hs)
  BY DEF World, Sound, IsA
<1>2. v[2] \in DOMAIN hs
  BY <1>1, Counts
<1> QED
  BY <1>2 DEF World

LEMMA FuncThere ==
  ASSUME NEW V, NEW vs, NEW hs, NEW fs, World(V, vs, hs, fs), NEW v \in V, IsA(v, "func")
  PROVE  v[2] \in DOMAIN fs /\ fs[v[2]] \in Functions_(V)
<1> DEFINE A == Functions_(V)
<1>1. fs \in Seq(A) /\ v[2] \in 1..Len(fs)
  BY DEF World, Sound, IsA
<1> HIDE DEF A
<1>2. v[2] \in DOMAIN fs /\ fs[v[2]] \in A
  BY <1>1
<1> QED
  BY <1>2 DEF A

(* A vector or a hash changes.                                              *)
LEMMA PutVec ==
  ASSUME NEW V, NEW vs, NEW hs, NEW fs, World(V, vs, hs, fs), NEW i \in DOMAIN vs, NEW s \in Seq(V)
  PROVE  World(V, [vs EXCEPT ![i] = s], hs, fs)
<1> DEFINE A == Seq(V)
           vs2 == [vs EXCEPT ![i] = s]
<1>1. vs \in Seq(A) /\ s \in A
  BY DEF World
<1> HIDE DEF A
<1>2. vs2 \in Seq(A) /\ Len(vs2) = Len(vs)
  BY <1>1
<1> HIDE DEF vs2
<1>3. World(V, vs2, hs, fs)
  BY <1>2 DEF World, A
<1> QED
  BY <1>3 DEF vs2

LEMMA PutHash ==
  ASSUME NEW V, NEW vs, NEW hs, NEW fs, World(V, vs, hs, fs), NEW i \in DOMAIN hs, NEW h,
         \A k \in DOMAIN h : h[k] \in V
  PROVE  World(V, vs, [hs EXCEPT ![i] = h], fs)
<1> DEFINE hs2 == [hs EXCEPT ![i] = h]
<1>1. PICK S : hs \in Seq(S)
  BY DEF World
<1>2. hs2 \in Seq(S \cup {h}) /\ Len(hs2) = Len(hs)
  BY <1>1
<1>3. \A j \in DOMAIN hs2 : \A k \in DOMAIN hs2[j] : hs2[j][k] \in V
  BY DEF World
<1> HIDE DEF hs2
<1>4. World(V, vs, hs2, fs)
  BY <1>2, <1>3 DEF World
<1> QED
  BY <1>4 DEF hs2

(* A new one.                                                               *)
LEMMA AddVec ==
  ASSUME NEW V, NEW vs, NEW hs, NEW fs, World(V, vs, hs, fs), NEW s \in Seq(V)
  PROVE  World(V \cup {Vec(Len(vs) + 1)}, Append(vs, s), hs, fs)
<1> DEFINE A == Seq(V)
           W == V \cup {Vec(Len(vs) + 1)}
           vs2 == Append(vs, s)
<1>1. vs \in Seq(A) /\ s \in A
  BY DEF World
<1>2. vs2 \in Seq(A) /\ Len(vs2) = Len(vs) + 1
  <2> HIDE DEF A
  <2> QED
    BY <1>1
<1>3. Len(vs) \in Nat /\ Len(hs) \in Nat /\ Len(fs) \in Nat
  BY Counts
<1>4. \A v \in V : Sound(v, Len(vs2), Len(hs), Len(fs))
  <2> HIDE DEF vs2
  <2>1. PICK n, m, nh, nf : n = Len(vs) /\ m = Len(vs2) /\ nh = Len(hs) /\ nf = Len(fs)
    OBVIOUS
  <2>2. n \in Nat /\ m \in Nat /\ nh \in Nat /\ nf \in Nat /\ n <= m
    BY <1>2, <1>3, <2>1
  <2> SUFFICES ASSUME NEW v \in V PROVE Sound(v, m, nh, nf)
    BY <2>1
  <2>3. Sound(v, n, nh, nf)
    BY <2>1 DEF World
  <2> QED
    BY <2>2, <2>3, SoundGrows
<1>5. Sound(Vec(Len(vs) + 1), Len(vs2), Len(hs), Len(fs))
  BY <1>2, <1>3 DEF Sound, Vec
<1>6. World(V, vs2, hs, fs)
  BY <1>2, <1>4 DEF World
<1> HIDE DEF vs2
<1>7. World(W, vs2, hs, fs)
  BY <1>4, <1>5, <1>6, MoreValues
<1> QED
  BY <1>7 DEF vs2

LEMMA AddHash ==
  ASSUME NEW V, NEW vs, NEW hs, NEW fs, World(V, vs, hs, fs), NEW h, \A k \in DOMAIN h : h[k] \in V
  PROVE  World(V \cup {Hash(Len(hs) + 1)}, vs, Append(hs, h), fs)
<1> DEFINE W == V \cup {Hash(Len(hs) + 1)}
           hs2 == Append(hs, h)
<1>1. PICK S : hs \in Seq(S)
  BY DEF World
<1>2. hs2 \in Seq(S \cup {h}) /\ Len(hs2) = Len(hs) + 1
  BY <1>1
<1>3. Len(vs) \in Nat /\ Len(hs) \in Nat /\ DOMAIN hs = 1..Len(hs) /\ Len(fs) \in Nat
  BY Counts
<1>4. \A v \in V : Sound(v, Len(vs), Len(hs2), Len(fs))
  <2>1. \A v \in V : Sound(v, Len(vs), Len(hs), Len(fs))
    BY DEF World
  <2> QED
    BY <1>2, <1>3, <2>1, SoundGrows, SMTT(30)
<1>5. Sound(Hash(Len(hs) + 1), Len(vs), Len(hs2), Len(fs))
  BY <1>2, <1>3 DEF Sound, Hash
<1>6. ASSUME NEW j \in DOMAIN hs2 PROVE \A k \in DOMAIN hs2[j] : hs2[j][k] \in V
  <2>1. CASE j \in DOMAIN hs
    <3>1. hs2[j] = hs[j]
      BY <1>1, <2>1
    <3> QED
      BY <2>1, <3>1 DEF World
  <2>2. CASE j \notin DOMAIN hs
    <3>1. hs2[j] = h
      BY <1>1, <1>3, <2>2
    <3> QED
      BY <3>1
  <2> QED
    BY <2>1, <2>2
<1> HIDE DEF hs2
<1>7. World(V, vs, hs2, fs)
  BY <1>2, <1>4, <1>6 DEF World
<1>8. World(W, vs, hs2, fs)
  BY <1>4, <1>5, <1>7, MoreValues
<1> QED
  BY <1>8 DEF hs2

LEMMA AddFunc ==
  ASSUME NEW V, NEW vs, NEW hs, NEW fs, World(V, vs, hs, fs), NEW f \in Functions_(V)
  PROVE  World(V \cup {Func(Len(fs) + 1)}, vs, hs, Append(fs, f))
<1> DEFINE A == Functions_(V)
           W == V \cup {Func(Len(fs) + 1)}
           fs2 == Append(fs, f)
<1>1. fs \in Seq(A) /\ f \in A
  BY DEF World
<1>2. fs2 \in Seq(A) /\ Len(fs2) = Len(fs) + 1
  <2> HIDE DEF A
  <2> QED
    BY <1>1
<1>3. Len(vs) \in Nat /\ Len(hs) \in Nat /\ Len(fs) \in Nat
  BY Counts
<1>4. \A v \in V : Sound(v, Len(vs), Len(hs), Len(fs2))
  <2>1. \A v \in V : Sound(v, Len(vs), Len(hs), Len(fs))
    BY DEF World
  <2> QED
    BY <1>2, <1>3, <2>1, SoundGrows
<1>5. Sound(Func(Len(fs) + 1), Len(vs), Len(hs), Len(fs2))
  BY <1>2, <1>3 DEF Sound, Func
<1>6. World(V, vs, hs, fs2)
  BY <1>2, <1>4 DEF World
<1> HIDE DEF fs2
<1>7. World(W, vs, hs, fs2)
  BY <1>4, <1>5, <1>6, MoreValues
<1> QED
  BY <1>7 DEF fs2

-----------------------------------------------------------------------------
(* The frames of a context, when only other values and functions come.       *)
Extends_(fs, fs2) == DOMAIN fs \subseteq DOMAIN fs2 /\ \A i \in DOMAIN fs : fs2[i] = fs[i]

LEMMA ExtendsAppend ==
  ASSUME NEW S, NEW fs \in Seq(S), NEW f
  PROVE  Extends_(fs, fs) /\ Extends_(fs, Append(fs, f))
BY DEF Extends_

LEMMA BodyGrows ==
  ASSUME NEW V, NEW W, V \subseteq W, NEW x, Body(x, V)
  PROVE  Body(x, W)
<1>1. x.frames \in Seq(CallFrames(W))
  BY FunctionsGrow DEF Body
<1>2. x.ops \in Seq(W) /\ x.waits \in Seq(W)
  BY SeqGrows DEF Body
<1> QED
  BY <1>1, <1>2 DEF Body

LEMMA FramesThere ==
  ASSUME NEW V, NEW vs, NEW hs, NEW fs, World(V, vs, hs, fs), NEW x,
         x.frames \in Seq(CallFrames(V)),
         NEW i \in 1..Len(x.frames)
  PROVE  /\ x.frames[i] \in CallFrames(V)
         /\ x.frames[i].func \in V /\ IsA(x.frames[i].func, "func")
         /\ x.frames[i].func[2] \in DOMAIN fs
         /\ x.frames[i].locals \in V /\ IsA(x.frames[i].locals, "hash")
         /\ x.frames[i].ip \in Nat /\ x.frames[i].bp \in Nat
         /\ CodeIn(x.frames[i], fs) \in DOMAIN Shape
<1> DEFINE C == CallFrames(V)
<1>1. x.frames \in Seq(C)
  OBVIOUS
<1> HIDE DEF C
<1>2. x.frames[i] \in C
  BY <1>1
<1>3. /\ x.frames[i] \in CallFrames(V)
      /\ x.frames[i].func \in V /\ IsA(x.frames[i].func, "func")
      /\ x.frames[i].locals \in V /\ IsA(x.frames[i].locals, "hash")
      /\ x.frames[i].ip \in Nat /\ x.frames[i].bp \in Nat
  BY <1>2 DEF C, CallFrames, OfType
<1>4. x.frames[i].func[2] \in DOMAIN fs /\ fs[x.frames[i].func[2]] \in Functions_(V)
  BY <1>3, FuncThere
<1> QED
  BY <1>3, <1>4 DEF Functions_, CodeIn

LEMMA FramedGrows ==
  ASSUME NEW V, NEW vs, NEW hs, NEW fs, World(V, vs, hs, fs), NEW x,
         x.frames \in Seq(CallFrames(V)), NEW fs2, Extends_(fs, fs2)
  PROVE  /\ \A n, sh, mb : Framed(x, n, sh, mb, fs) => Framed(x, n, sh, mb, fs2)
         /\ IsRunning(x, fs) => IsRunning(x, fs2)
         /\ IsWaiting(x, fs) => IsWaiting(x, fs2)
<1>1. ASSUME NEW n, NEW sh, NEW mb, Framed(x, n, sh, mb, fs)
      PROVE  Framed(x, n, sh, mb, fs2)
  <2>1. \A i \in 1..n : fs2[x.frames[i].func[2]] = fs[x.frames[i].func[2]]
    BY <1>1, FramesThere DEF Framed, Extends_
  <2>2. \A i \in 1..n :
           /\ HasShape(x.frames[i], x.frames[i].ip, fs2)
           /\ sh[i] = ShapeIn(x.frames[i], x.frames[i].ip, fs2)
    BY <1>1, <2>1, Zenon DEF Framed, ShapeIn, HasShape, CodeIn
  <2> QED
    BY <1>1, <2>2 DEF Framed
<1> QED
  BY <1>1 DEF IsRunning, IsWaiting, RunsAs, WaitsAs

(* A frame goes to another address.                                         *)
GoneTo(f, ip) == [func |-> f.func, locals |-> f.locals, ip |-> ip, bp |-> f.bp]

WithIp(frames, n, ip) == [frames EXCEPT ![n].ip = ip]

LEMMA FrameGoes ==
  ASSUME NEW V, NEW frames \in Seq(CallFrames(V)), NEW n \in DOMAIN frames, NEW ip
  PROVE  WithIp(frames, n, ip) = [frames EXCEPT ![n] = GoneTo(frames[n], ip)]
<1> DEFINE C == CallFrames(V)
           w == GoneTo(frames[n], ip)
<1>1. frames[n] \in C
  <2>1. frames \in Seq(C)
    OBVIOUS
  <2> HIDE DEF C
  <2> QED
    BY <2>1
<1>2. [frames[n] EXCEPT !.ip = ip] = w
  <2>1. PICK f : f = frames[n] /\ f \in [func : OfType(V, "func"), locals : OfType(V, "hash"), ip : Nat, bp : Nat]
    BY <1>1 DEF CallFrames
  <2>2. f = [func |-> f.func, locals |-> f.locals, ip |-> f.ip, bp |-> f.bp]
    BY <2>1
  <2>3. [f EXCEPT !.ip = ip] = GoneTo(f, ip)
    BY <2>2 DEF GoneTo
  <2> QED
    BY <2>1, <2>3
<1> HIDE DEF w
<1>3. [frames EXCEPT ![n].ip = ip] = [frames EXCEPT ![n] = w]
  BY <1>2
<1>4. WithIp(frames, n, ip) = [frames EXCEPT ![n] = w]
  BY <1>3 DEF WithIp
<1> QED
  BY <1>4 DEF w

(* The last frame goes there, with operands that fit ts from b on and marks   *)
(* that fit ms from m on.                                                   *)
SameTo(s, t, n) == \A j \in 1..n : t[j] = s[j]

TopGoes(x, x2, n, b, m, ip2, ts, ms) ==
  /\ x2.frames = [x.frames EXCEPT ![n] = GoneTo(x.frames[n], ip2)]
  /\ SameTo(x.ops, x2.ops, b) /\ OpsFit(x2.ops, b, ts)
  /\ SameTo(x.marks, x2.marks, m) /\ MarksFit(x2.marks, m, b, ms)
  /\ Len(x2.marks) = m + Len(ms)

LEMMA TopFramed ==
  ASSUME NEW V, NEW vs, NEW hs, NEW fs, World(V, vs, hs, fs), NEW x, Body(x, V),
         NEW n, NEW sh, NEW mb, Framed(x, n, sh, mb, fs),
         NEW ip2, HasShape(x.frames[n], ip2, fs), NEW s2 \in Shapes, s2 = ShapeIn(x.frames[n], ip2, fs),
         NEW x2, TopGoes(x, x2, n, x.frames[n].bp, mb[n], ip2, s2.ts, s2.ms)
  PROVE  Framed(x2, n, [sh EXCEPT ![n] = s2], mb, fs)
<1> DEFINE sh2 == [sh EXCEPT ![n] = s2]
           B(i) == x.frames[i].bp
<1>1. /\ n \in Nat /\ n = Len(x.frames) /\ n >= 1 /\ sh \in [1..n -> Shapes] /\ mb \in [1..n -> Nat]
      /\ \A i \in 1..n : x.frames[i] \in CallFrames(V) /\ B(i) \in Nat
  BY FramesThere DEF Framed, Body
<1>2. /\ sh2 \in [1..n -> Shapes] /\ sh2[n] = s2 /\ \A i \in 1..(n - 1) : sh2[i] = sh[i]
  BY <1>1
<1>3. /\ Len(x2.frames) = n
      /\ \A i \in 1..n : /\ x2.frames[i].bp = B(i) /\ x2.frames[i].func = x.frames[i].func
                         /\ i # n => x2.frames[i] = x.frames[i]
      /\ x2.frames[n].ip = ip2
  <2> DEFINE C == CallFrames(V)
  <2>0. x2.frames = [x.frames EXCEPT ![n] = GoneTo(x.frames[n], ip2)]
    BY DEF TopGoes
  <2>1. x.frames \in Seq(C)
    BY DEF Body
  <2> HIDE DEF C
  <2>3. DOMAIN x.frames = 1..n
    BY <1>1, <2>1
  <2>4. Len(x2.frames) = n
    BY <1>1, <2>0, <2>1
  <2>5. x2.frames[n] = GoneTo(x.frames[n], ip2)
    BY <1>1, <2>0, <2>3
  <2>6. \A i \in 1..n : i # n => x2.frames[i] = x.frames[i]
    BY <2>0, <2>3
  <2> QED
    BY <2>4, <2>5, <2>6 DEF GoneTo
<1>4. ASSUME NEW i \in 1..(n - 1)
      PROVE  /\ OpsFit(x2.ops, B(i), sh[i].ts)
             /\ MarksFit(x2.marks, mb[i], B(i), sh[i].ms)
  <2>9. i \in 1..n /\ n \in 1..n /\ i < n /\ i \in 1..(n - 1)
    BY <1>1
  <2>8. B(i) + Len(sh[i].ts) - 1 <= B(n) /\ mb[i] + Len(sh[i].ms) <= mb[n]
    <3> HIDE DEF B
    <3>1. \A p, q \in 1..n : p < q => B(p) + Len(sh[p].ts) - 1 <= B(q) /\ mb[p] + Len(sh[p].ms) <= mb[q]
      BY DEF Framed, B
    <3> QED
      BY <2>9, <3>1
  <2>1. OpsFit(x.ops, B(i), sh[i].ts) /\ MarksFit(x.marks, mb[i], B(i), sh[i].ms) /\ Waits(sh[i].ts)
    BY <2>9 DEF Framed
  <2>7. B(i) \in Nat /\ B(n) \in Nat /\ mb[i] \in Nat /\ mb[n] \in Nat
    BY <1>1, <2>9
  <2>2. sh[i] \in Shapes /\ i \in 1..n
    BY <1>1
  <2>3. /\ Len(sh[i].ts) \in Nat /\ DOMAIN sh[i].ts = 1..Len(sh[i].ts)
        /\ Len(sh[i].ms) \in Nat /\ DOMAIN sh[i].ms = 1..Len(sh[i].ms)
    BY <2>2 DEF Shapes
  <2>0. SameTo(x.ops, x2.ops, B(n)) /\ SameTo(x.marks, x2.marks, mb[n])
    BY DEF TopGoes
  <2>4. OpsFit(x2.ops, B(i), sh[i].ts)
    <3>1. SUFFICES ASSUME NEW k \in DOMAIN sh[i].ts PROVE Is(x2.ops[B(i) + k], sh[i].ts[k])
      BY DEF OpsFit
    <3>2. CASE k = Len(sh[i].ts)
      BY <2>1, <3>2 DEF Waits, Last, Is
    <3>3. CASE k # Len(sh[i].ts)
      <4>1. B(i) + k \in 1..B(n)
        <5> DEFINE bi == B(i)  bn == B(n)  l == Len(sh[i].ts)
        <5>1. bi \in Nat /\ bn \in Nat /\ l \in Nat /\ bi + l - 1 <= bn /\ k \in 1..l /\ k # l
          BY <2>3, <2>7, <2>8, <3>3
        <5> HIDE DEF bi, bn, l
        <5>2. bi + k \in 1..bn
          BY <5>1
        <5> QED
          BY <5>2 DEF bi, bn
      <4> QED
        BY <2>0, <2>1, <4>1 DEF OpsFit, SameTo
    <3> QED
      BY <3>2, <3>3
  <2>5. MarksFit(x2.marks, mb[i], B(i), sh[i].ms)
    <3>1. SUFFICES ASSUME NEW k \in DOMAIN sh[i].ms PROVE x2.marks[mb[i] + k] = B(i) + sh[i].ms[k]
      BY DEF MarksFit
    <3>2. mb[i] + k \in 1..mb[n]
      <4> DEFINE mi == mb[i]  mn == mb[n]  l == Len(sh[i].ms)
      <4>1. mi \in Nat /\ mn \in Nat /\ l \in Nat /\ mi + l <= mn /\ k \in 1..l
        BY <2>3, <2>7, <2>8
      <4> HIDE DEF mi, mn, l
      <4>2. mi + k \in 1..mn
        BY <4>1
      <4> QED
        BY <4>2 DEF mi, mn
    <3> QED
      BY <2>0, <2>1, <3>2 DEF MarksFit, SameTo
  <2> QED
    BY <2>4, <2>5
<1>5. ASSUME NEW i \in 1..n
      PROVE  /\ HasShape(x2.frames[i], x2.frames[i].ip, fs)
             /\ sh2[i] = ShapeIn(x2.frames[i], x2.frames[i].ip, fs)
             /\ OpsFit(x2.ops, x2.frames[i].bp, sh2[i].ts)
             /\ MarksFit(x2.marks, mb[i], x2.frames[i].bp, sh2[i].ms)
  <2>1. CASE i = n
    BY <1>2, <1>3, <2>1, Zenon DEF ShapeIn, HasShape, CodeIn, TopGoes
  <2>2. CASE i # n
    <3>1. i \in 1..(n - 1)
      BY <1>1, <2>2
    <3>2. /\ HasShape(x.frames[i], x.frames[i].ip, fs)
          /\ sh[i] = ShapeIn(x.frames[i], x.frames[i].ip, fs)
      BY DEF Framed
    <3>3. sh2[i] = sh[i] /\ x2.frames[i] = x.frames[i]
      BY <1>2, <1>3, <2>2, <3>1
    <3> QED
      BY <1>4, <3>1, <3>2, <3>3
  <2> QED
    BY <2>1, <2>2
<1>6. ASSUME NEW i \in 1..n, NEW j \in 1..n, i < j
      PROVE  /\ x2.frames[i].bp + Len(sh2[i].ts) - 1 <= x2.frames[j].bp
             /\ mb[i] + Len(sh2[i].ms) <= mb[j]
  <2>1. i \in 1..(n - 1)
    BY <1>1, <1>6
  <2>2. sh2[i] = sh[i] /\ x2.frames[i].bp = B(i) /\ x2.frames[j].bp = B(j)
    BY <1>2, <1>3, <2>1
  <2>3. B(i) + Len(sh[i].ts) - 1 <= B(j) /\ mb[i] + Len(sh[i].ms) <= mb[j]
    BY <1>6 DEF Framed
  <2> QED
    BY <2>2, <2>3
<1>7. ASSUME NEW i \in 1..(n - 1)
      PROVE  /\ Waits(sh2[i].ts)
             /\ x2.frames[i + 1].bp = x2.frames[i].bp + Len(sh2[i].ts) - 1
             /\ mb[i + 1] = mb[i] + Len(sh2[i].ms)
  <2>1. sh2[i] = sh[i] /\ x2.frames[i].bp = B(i) /\ x2.frames[i + 1].bp = B(i + 1)
    BY <1>1, <1>2, <1>3
  <2>2. Waits(sh[i].ts) /\ B(i + 1) = B(i) + Len(sh[i].ts) - 1 /\ mb[i + 1] = mb[i] + Len(sh[i].ms)
    BY DEF Framed
  <2> QED
    BY <2>1, <2>2
<1>8. x2.frames[1].bp = 0 /\ mb[1] = 0
  BY <1>1, <1>3 DEF Framed
<1> HIDE DEF sh2, B
<1>10. Len(x2.marks) = mb[n] + Len(sh2[n].ms)
  BY <1>2, SMTT(30) DEF TopGoes, sh2
<1>9. Framed(x2, n, sh2, mb, fs)
  BY <1>1, <1>2, <1>3, <1>5, <1>6, <1>7, <1>8, <1>10 DEF Framed
<1> QED
  BY <1>9 DEF sh2

-----------------------------------------------------------------------------
(* What the verification says of the place where a context is.              *)
LEMMA Verified ==
  ASSUME NEW V, NEW vs, NEW hs, NEW fs, World(V, vs, hs, fs), NEW x, Body(x, V),
         NEW n, NEW sh, NEW mb, Framed(x, n, sh, mb, fs), NEW f, f = x.frames[n],
         NEW c, c = CodeIn(f, fs), NEW s, s = sh[n]
  PROVE  /\ n \in 1..Len(x.frames) /\ f \in CallFrames(V)
         /\ c \in DOMAIN Shape /\ CodeFits(c) /\ f.ip \in Nat /\ f.bp \in Nat /\ mb[n] \in Nat
         /\ f.ip < Len(c.code) /\ IsA(c.code[f.ip + 1], "op")
         /\ s \in Shapes /\ Ready(c, f.ip, s)
         /\ \A y \in After(c, f.ip, s) : Fits(Shape[c], y)
<1>1. n \in Nat /\ n = Len(x.frames) /\ n >= 1 /\ sh \in [1..n -> Shapes] /\ mb \in [1..n -> Nat]
  BY DEF Framed
<1>2. n \in 1..Len(x.frames) /\ s \in Shapes /\ mb[n] \in Nat
  BY <1>1
<1>3. HasShape(f, f.ip, fs) /\ s = ShapeIn(f, f.ip, fs)
  BY <1>1, <1>2 DEF Framed
<1>4. f \in CallFrames(V) /\ c \in DOMAIN Shape /\ f.ip \in Nat /\ f.bp \in Nat
  BY <1>2, FramesThere DEF Body
<1>5. CodeFits(c) /\ ShapeFits(c, Shape[c])
  BY <1>4, CodeIsVerified
<1>6. f.ip \in DOMAIN Shape[c] /\ s = Shape[c][f.ip]
  BY <1>3 DEF HasShape, ShapeIn
<1> QED
  BY <1>2, <1>4, <1>5, <1>6 DEF ShapeFits

(* Where the operation leads there is a shape that fits.                     *)
LandsIn(x2, n, mb, fs, ts) ==
  \E sh2 : /\ Framed(x2, n, sh2, mb, fs) /\ Len(sh2[n].ts) = Len(ts)
           /\ Waits(ts) => Waits(sh2[n].ts)

LEMMA Lands ==
  ASSUME NEW V, NEW vs, NEW hs, NEW fs, World(V, vs, hs, fs), NEW x, Body(x, V),
         NEW n, NEW sh, NEW mb, Framed(x, n, sh, mb, fs), NEW f, f = x.frames[n],
         NEW c, c = CodeIn(f, fs), NEW s, s = sh[n],
         NEW y \in After(c, f.ip, s), y.ts \in Seq(Types),
         NEW x2, TopGoes(x, x2, n, f.bp, mb[n], y.ip, y.ts, y.ms)
  PROVE  LandsIn(x2, n, mb, fs, y.ts)
<1> DEFINE s2 == Shape[c][y.ip]
           sh2 == [sh EXCEPT ![n] = s2]
<1>1. /\ c \in DOMAIN Shape /\ Fits(Shape[c], y)
  BY Verified
<1>2. y.ip \in DOMAIN Shape[c]
  BY <1>1 DEF Fits
<1>3. s2 \in Shapes
  BY <1>1, <1>2, CodeIsVerified DEF ShapeFits
<1>4. HasShape(f, y.ip, fs) /\ s2 = ShapeIn(f, y.ip, fs)
  BY <1>2 DEF HasShape, ShapeIn
<1>5. s2.ms = y.ms /\ Len(y.ts) = Len(s2.ts) /\ \A i \in DOMAIN y.ts : s2.ts[i] \in {"any", y.ts[i]}
  BY <1>1 DEF Fits
<1> HIDE DEF s2
<1>6. DOMAIN y.ts = DOMAIN s2.ts /\ Len(s2.ts) \in Nat /\ DOMAIN s2.ts = 1..Len(s2.ts)
  BY <1>3, <1>5 DEF Shapes
<1>7. TopGoes(x, x2, n, f.bp, mb[n], y.ip, s2.ts, s2.ms)
  <2>1. OpsFit(x2.ops, f.bp, y.ts)
    BY DEF TopGoes
  <2>2. ASSUME NEW k \in DOMAIN s2.ts PROVE Is(x2.ops[f.bp + k], s2.ts[k])
    <3>1. Is(x2.ops[f.bp + k], y.ts[k]) /\ s2.ts[k] \in {"any", y.ts[k]}
      BY <1>5, <1>6, <2>1 DEF OpsFit
    <3> QED
      BY <3>1 DEF Is
  <2>3. OpsFit(x2.ops, f.bp, s2.ts)
    BY <2>2 DEF OpsFit
  <2> QED
    BY <1>5, <2>3 DEF TopGoes
<1>8. Framed(x2, n, sh2, mb, fs)
  BY <1>3, <1>4, <1>7, TopFramed
<1>9. n \in DOMAIN sh
  BY DEF Framed
<1>10. sh2[n] = s2
  BY <1>9
<1>11. ASSUME Waits(y.ts) PROVE Waits(s2.ts)
  <2>1. y.ts # <<>> /\ Last(y.ts) = "any" /\ Len(y.ts) \in Nat /\ Len(y.ts) >= 1
    BY <1>11 DEF Waits
  <2>2. s2.ts[Len(s2.ts)] = "any"
    <3>1. Len(y.ts) \in DOMAIN y.ts
      BY <2>1, SMTT(30)
    <3> QED
      BY <1>5, <2>1, <3>1 DEF Last
  <2> QED
    BY <1>5, <2>1, <2>2 DEF Waits, Last
<1> HIDE DEF sh2
<1> QED
  BY <1>5, <1>8, <1>10, <1>11 DEF LandsIn

(* The operands that an operation finds.                                     *)
LEMMA Operands ==
  ASSUME NEW V, NEW vs, NEW hs, NEW fs, World(V, vs, hs, fs), NEW x, Body(x, V),
         NEW n, NEW sh, NEW mb, RunsAs(x, n, sh, mb, fs), NEW f, f = x.frames[n],
         NEW c, c = CodeIn(f, fs), NEW t \in Seq(Types), t = Takes(OpAt(c, f.ip), ArgAt(c, f.ip))
  PROVE  /\ Len(t) <= Len(x.ops) - f.bp
         /\ \A k \in 1..Len(t) : Is(x.ops[Len(x.ops) - Len(t) + k], t[k])
<1> DEFINE s == sh[n]
<1>0. Framed(x, n, sh, mb, fs) /\ Len(x.ops) = f.bp + Len(s.ts)
  BY DEF RunsAs
<1>1. s \in Shapes /\ Ready(c, f.ip, s) /\ f.bp \in Nat /\ n \in 1..Len(x.frames)
  BY <1>0, Verified
<1> HIDE DEF s
<1>2. /\ Len(s.ts) - Len(t) >= 0
      /\ \A i \in DOMAIN t : t[i] \in {"any", s.ts[Len(s.ts) - Len(t) + i]}
  BY <1>1 DEF Ready
<1>3. Len(s.ts) \in Nat /\ DOMAIN s.ts = 1..Len(s.ts) /\ Len(t) \in Nat /\ DOMAIN t = 1..Len(t)
  BY <1>1 DEF Shapes
<1>4. OpsFit(x.ops, f.bp, s.ts)
  BY <1>0, <1>1 DEF Framed, s
<1>5. ASSUME NEW k \in 1..Len(t) PROVE Is(x.ops[Len(x.ops) - Len(t) + k], t[k])
  <2> DEFINE j == Len(s.ts) - Len(t) + k
  <2>1. j \in DOMAIN s.ts /\ f.bp + j = Len(x.ops) - Len(t) + k
    <3> DEFINE p == f.bp  q == Len(s.ts)  r == Len(t)  z == Len(x.ops)
    <3>1. p \in Nat /\ q \in Nat /\ r \in Nat /\ q - r >= 0 /\ z = p + q /\ k \in 1..r
      BY <1>0, <1>1, <1>2, <1>3, SMTT(30)
    <3> HIDE DEF p, q, r, z
    <3>2. q - r + k \in 1..q /\ p + (q - r + k) = z - r + k
      BY <3>1
    <3> QED
      BY <1>3, <3>2 DEF p, q, r, z
  <2>2. Is(x.ops[f.bp + j], s.ts[j])
    BY <1>4, <2>1 DEF OpsFit
  <2>3. t[k] \in {"any", s.ts[j]}
    BY <1>2, <1>3
  <2> HIDE DEF j
  <2>4. Is(x.ops[f.bp + j], t[k])
    BY <2>2, <2>3 DEF Is
  <2> QED
    BY <2>1, <2>4
<1> QED
  BY <1>0, <1>1, <1>2, <1>3, <1>5

(* The top k operands of s give way to others, of the types l.               *)
Replaces(s, t, k, l) ==
  /\ Len(t) = Len(s) - k + Len(l)
  /\ SameTo(s, t, Len(s) - k)
  /\ \A j \in 1..Len(l) : Is(t[Len(s) - k + j], l[j])

(* In what other frames and marks of the context stay.                      *)
KeepsMarks(x, x2, n, ip) ==
  /\ x2.frames = [x.frames EXCEPT ![n] = GoneTo(x.frames[n], ip)]
  /\ x2.marks = x.marks

LEMMA StackGoes ==
  ASSUME NEW V, NEW vs, NEW hs, NEW fs, World(V, vs, hs, fs), NEW x, Body(x, V),
         NEW n, NEW sh, NEW mb, RunsAs(x, n, sh, mb, fs), NEW f, f = x.frames[n],
         NEW c, c = CodeIn(f, fs), NEW s, s = sh[n], NEW k \in Nat, k <= Len(s.ts),
         NEW l \in Seq(Types), NEW ip,
         [ip |-> ip, ts |-> Less(s.ts, k) \o l, ms |-> s.ms] \in After(c, f.ip, s),
         NEW x2, KeepsMarks(x, x2, n, ip), Replaces(x.ops, x2.ops, k, l)
  PROVE  \E sh2 : RunsAs(x2, n, sh2, mb, fs)
<1> DEFINE ts == Less(s.ts, k) \o l
           y == [ip |-> ip, ts |-> ts, ms |-> s.ms]
           u == Len(s.ts) - k
           b == f.bp
<1>0. Framed(x, n, sh, mb, fs) /\ Len(x.ops) = b + Len(s.ts)
  BY DEF RunsAs
<1>1. s \in Shapes /\ b \in Nat /\ n \in 1..Len(x.frames) /\ f \in CallFrames(V) /\ mb[n] \in Nat
  BY <1>0, Verified
<1>2. s.ts \in Seq(Types) /\ Len(s.ts) \in Nat /\ DOMAIN s.ts = 1..Len(s.ts) /\ u \in Nat /\ Len(l) \in Nat
  BY <1>1 DEF Shapes
<1>3. /\ ts \in Seq(Types) /\ Len(ts) = u + Len(l) /\ DOMAIN ts = 1..(u + Len(l))
      /\ \A j \in 1..u : ts[j] = s.ts[j]
      /\ \A j \in 1..Len(l) : ts[u + j] = l[j]
  <2> DEFINE r == SubSeq(s.ts, 1, u)
  <2>1. r \in Seq(Types) /\ Len(r) = u /\ \A j \in 1..u : r[j] = s.ts[j]
    BY <1>2
  <2>2. ts = r \o l
    BY DEF Less
  <2> HIDE DEF r, ts, u
  <2>3. ts \in Seq(Types) /\ Len(ts) = u + Len(l)
    <3>1. r \o l \in Seq(Types) /\ Len(r \o l) = Len(r) + Len(l)
      BY <2>1, ConcatProperties
    <3> QED
      BY <2>1, <2>2, <3>1
  <2>4. \A j \in 1..u : ts[j] = s.ts[j]
    BY <1>2, <2>1, <2>2
  <2>5. \A j \in 1..Len(l) : ts[u + j] = l[j]
    BY <1>2, <2>1, <2>2
  <2>6. DOMAIN ts = 1..(u + Len(l))
    BY <2>3
  <2> QED
    BY <2>3, <2>4, <2>5, <2>6
<1>4. x.ops \in Seq(V) /\ Len(x.ops) - k = b + u
  <2>1. x.ops \in Seq(V)
    BY DEF Body
  <2>2. \A h, i, j \in Nat : (h + i) - j = h + (i - j)
    OBVIOUS
  <2>3. Len(x.ops) - k = b + u
    <3>1. PICK h, i, o : h = b /\ i = Len(s.ts) /\ o = Len(x.ops)
      OBVIOUS
    <3>2. h \in Nat /\ i \in Nat /\ o = h + i
      BY <1>0, <1>1, <1>2, <3>1
    <3>3. o - k = h + (i - k)
      BY <2>2, <3>2
    <3> QED
      BY <3>1, <3>3
  <2> QED
    BY <2>1, <2>3
<1>5. /\ Len(x2.ops) = b + u + Len(l) /\ \A j \in 1..(b + u) : x2.ops[j] = x.ops[j]
      /\ \A j \in 1..Len(l) : Is(x2.ops[b + u + j], l[j])
  BY <1>4 DEF Replaces, SameTo
<1>6. OpsFit(x.ops, b, s.ts) /\ MarksFit(x.marks, mb[n], b, s.ms) /\ Len(x.marks) = mb[n] + Len(s.ms)
  BY <1>0, <1>1 DEF Framed
<1> HIDE DEF ts, u, b
<1>7. ASSUME NEW j \in DOMAIN ts PROVE Is(x2.ops[b + j], ts[j])
  <2>1. CASE j \in 1..u
    <3>1. b + j \in 1..(b + u)
      <4>1. b \in Nat /\ u \in Nat
        BY <1>1, <1>2 DEF b
      <4> QED
        BY <2>1, <4>1
    <3>2. j \in DOMAIN s.ts
      BY <1>2, <2>1 DEF u
    <3> QED
      BY <1>3, <1>5, <1>6, <2>1, <3>1, <3>2 DEF OpsFit
  <2>2. CASE j \notin 1..u
    <3>1. PICK k2 \in 1..Len(l) : j = u + k2
      <4>1. j \in 1..(u + Len(l))
        BY <1>3
      <4>2. j - u \in 1..Len(l) /\ j = u + (j - u)
        BY <1>2, <2>2, <4>1
      <4> QED
        BY <4>2
    <3>2. b + j = b + u + k2
      BY <1>1, <1>2, <3>1 DEF b
    <3> QED
      BY <1>3, <1>5, <3>1, <3>2
  <2> QED
    BY <2>1, <2>2
<1>8. OpsFit(x2.ops, b, ts)
  BY <1>7 DEF OpsFit
<1>9. SameTo(x.ops, x2.ops, b)
  <2>1. \A j \in 1..b : j \in 1..(b + u)
    BY <1>1, <1>2, SMTT(30) DEF b
  <2> QED
    BY <1>5, <2>1 DEF SameTo
<1>10. y \in After(c, f.ip, s) /\ y.ts = ts /\ y.ip = ip /\ y.ms = s.ms
  BY DEF ts
<1> HIDE DEF y
<1>11. TopGoes(x, x2, n, b, mb[n], y.ip, y.ts, y.ms)
  BY <1>6, <1>8, <1>9, <1>10 DEF TopGoes, KeepsMarks, SameTo, MarksFit
<1>12. PICK sh2 : Framed(x2, n, sh2, mb, fs) /\ Len(sh2[n].ts) = Len(y.ts)
  <2>1. y.ts \in Seq(Types)
    BY <1>3, <1>10
  <2>2. TopGoes(x, x2, n, f.bp, mb[n], y.ip, y.ts, y.ms)
    BY <1>11 DEF b
  <2> QED
    <3>1. LandsIn(x2, n, mb, fs, y.ts)
      <4>1. y \in After(c, f.ip, s)
        BY <1>10
      <4> QED
        BY <1>0, <2>1, <2>2, <4>1, Lands
    <3> QED
      BY <3>1 DEF LandsIn
<1>13. x2.frames[n].bp = b
  <2> DEFINE C == CallFrames(V)
  <2>1. x.frames \in Seq(C)
    BY DEF Body
  <2> HIDE DEF C
  <2>2. n \in DOMAIN x.frames
    BY <1>1, <2>1
  <2>3. x2.frames[n] = GoneTo(f, ip)
    BY <2>2 DEF KeepsMarks
  <2> QED
    BY <2>3 DEF GoneTo, b
<1>14. Len(x2.ops) = x2.frames[n].bp + Len(sh2[n].ts)
  <2>1. Len(sh2[n].ts) = u + Len(l)
    BY <1>3, <1>10, <1>12
  <2>2. b \in Nat
    BY <1>1 DEF b
  <2> QED
    BY <1>2, <1>5, <1>13, <2>1, <2>2
<1> QED
  BY <1>12, <1>14 DEF RunsAs

-----------------------------------------------------------------------------
(* The invariant while a program runs: ch is the chain of contexts, cur its   *)
(* i-th; V are the values there are; the contexts before cur wait in call(). *)
Well(ch, i, V) ==
  /\ mode \in Running /\ Pool(ctxs, free, ch, {})
  /\ i \in DOMAIN ch /\ cur = ch[i] /\ result \in V
  /\ World(V, vecs, hashes, funcs)
  /\ \A c \in DOMAIN ctxs : Body(ctxs[c], V)
  /\ mode = "run" => IsRunning(ctxs[cur], funcs)
  /\ \A j \in 1..(i - 1) : IsWaiting(ctxs[ch[j]], funcs)

LEMMA WellChain ==
  ASSUME NEW ch, NEW i, NEW V, Well(ch, i, V)
  PROVE  /\ Contexts(ctxs) /\ cur \in DOMAIN ctxs /\ NoContext \notin DOMAIN ctxs
         /\ ch \in Seq(DOMAIN ctxs) /\ Len(ch) \in Nat /\ DOMAIN ch = 1..Len(ch)
         /\ i \in Nat /\ i >= 1 /\ i <= Len(ch)
         /\ \A j \in DOMAIN ch : ch[j] \in DOMAIN ctxs
         /\ \A j \in 1..(i - 1) : j \in DOMAIN ch /\ ch[j] # cur
         /\ DOMAIN ctxs[cur] = Fields /\ me = ctxs[cur] /\ Body(me, V)
<1> DEFINE D == DOMAIN ctxs
<1>1. Contexts(ctxs) /\ ch \in Seq(D) /\ IsInjective(ch) /\ NoContext \notin D
  BY NoSelf DEF Well, Pool, Chain
<1> HIDE DEF D
<1>2. Len(ch) \in Nat /\ DOMAIN ch = 1..Len(ch) /\ \A j \in DOMAIN ch : ch[j] \in D
  BY <1>1
<1>3. i \in DOMAIN ch /\ cur = ch[i]
  BY DEF Well
<1>4. i \in Nat /\ i >= 1 /\ i <= Len(ch) /\ cur \in D
  BY <1>2, <1>3
<1>5. ASSUME NEW j \in 1..(i - 1) PROVE j \in DOMAIN ch /\ ch[j] # cur
  <2>1. j \in DOMAIN ch /\ j # i
    BY <1>2, <1>4
  <2> QED
    BY <1>1, <1>3, <2>1 DEF IsInjective
<1>6. Body(ctxs[cur], V) /\ DOMAIN ctxs[cur] = Fields
  BY <1>1, <1>4 DEF Well, D, Contexts
<1> QED
  BY <1>1, <1>2, <1>4, <1>5, <1>6 DEF D, me

(* A step of the context that runs.                                         *)
LEMMA OneStep ==
  ASSUME NEW ch, NEW i, NEW V, Well(ch, i, V), NEW W, V \subseteq W,
         World(W, vecs', hashes', funcs'), Extends_(funcs, funcs'),
         SameTree(ctxs, ctxs'), \A c \in DOMAIN ctxs : c # cur => ctxs'[c] = ctxs[c],
         Body(ctxs'[cur], W), cur' = cur, free' = free, mode' \in Running, result' \in W,
         mode' = "run" => IsRunning(ctxs'[cur], funcs')
  PROVE  Well(ch, i, W)'
<1>1. Pool(ctxs', free', ch, {}) /\ i \in DOMAIN ch /\ cur' = ch[i]
  BY SameTreePool DEF Well
<1>2. DOMAIN ctxs' = DOMAIN ctxs
  BY DEF SameTree
<1>3. \A c \in DOMAIN ctxs' : Body(ctxs'[c], W)
  BY <1>2, BodyGrows DEF Well
<1>4. ASSUME NEW j \in 1..(i - 1) PROVE IsWaiting(ctxs'[ch[j]], funcs')
  <2>1. ch[j] \in DOMAIN ctxs /\ ch[j] # cur
    BY WellChain
  <2>2. ctxs'[ch[j]] = ctxs[ch[j]]
    BY <2>1
  <2>3. IsWaiting(ctxs[ch[j]], funcs) /\ Body(ctxs[ch[j]], V) /\ World(V, vecs, hashes, funcs)
    BY <2>1 DEF Well
  <2> QED
    BY <2>2, <2>3, FramedGrows DEF Body
<1> QED
  BY <1>1, <1>3, <1>4 DEF Well

(* The assignments of the steps, on the fields of the context.              *)
Others(cs, cs2, c) == SameTree(cs, cs2) /\ \A x \in DOMAIN cs : x # c => cs2[x] = cs[x]

Left(cs, r, c, w) ==
  /\ Others(cs, r, c) /\ r[c].dieArg = w /\ r[c].frames = cs[c].frames
  /\ r[c].ops = cs[c].ops /\ r[c].marks = cs[c].marks /\ r[c].waits = cs[c].waits

Moved(cs, r, c, frames, marks, ops) ==
  /\ Others(cs, r, c) /\ r[c].frames = frames /\ r[c].ops = ops
  /\ r[c].marks = marks /\ r[c].waits = cs[c].waits /\ r[c].dieArg = cs[c].dieArg

LEMMA AssignLeft ==
  ASSUME NEW cs, Contexts(cs), NEW c \in DOMAIN cs, NEW v, NEW w
  PROVE  Left(cs, [cs EXCEPT ![c].error = v, ![c].dieArg = w], c, w)
<1>0. DOMAIN cs[c] = Fields
  BY DEF Contexts
<1> QED
  BY <1>0, Assignments, Zenon DEF Others, Fields, Left

LEMMA AssignMoved ==
  ASSUME NEW cs, Contexts(cs), NEW c \in DOMAIN cs, NEW v, NEW w
  PROVE  Moved(cs, [cs EXCEPT ![c].frames = v, ![c].ops = w], c, v, cs[c].marks, w)
<1>0. DOMAIN cs[c] = Fields
  BY DEF Contexts
<1> QED
  BY <1>0, Assignments, Zenon DEF Others, Fields, Moved

LEMMA AssignMarked ==
  ASSUME NEW cs, Contexts(cs), NEW c \in DOMAIN cs, NEW v, NEW w, NEW u
  PROVE  Moved(cs, [cs EXCEPT ![c].frames = v, ![c].marks = w, ![c].ops = u], c, v, w, u)
<1>0. DOMAIN cs[c] = Fields
  BY DEF Contexts
<1> QED
  BY <1>0, Assignments, Zenon DEF Others, Fields, Moved

LEMMA AssignEntered ==
  ASSUME NEW cs, Contexts(cs), NEW c \in DOMAIN cs, NEW v, NEW w, NEW u
  PROVE  Moved(cs, [cs EXCEPT ![c].frames = v, ![c].ops = w, ![c].opFrame = u], c, v, cs[c].marks, w)
<1>0. DOMAIN cs[c] = Fields
  BY DEF Contexts
<1> QED
  BY <1>0, Assignments, Zenon DEF Others, Fields, Moved

-----------------------------------------------------------------------------
(* Where the program is, as the lemmas about contexts have it.              *)
LEMMA InRun ==
  ASSUME NEW ch, NEW i, NEW V, Well(ch, i, V), mode = "run"
  PROVE  \E n, sh, mb :
           /\ RunsAs(me, n, sh, mb, funcs) /\ n = Len(me.frames) /\ n \in DOMAIN me.frames
           /\ frame = me.frames[n] /\ code = CodeIn(frame, funcs)
           /\ CodeOp = OpAt(code, frame.ip) /\ CodeArg = ArgAt(code, frame.ip)
<1>1. PICK n, sh, mb : RunsAs(me, n, sh, mb, funcs)
  BY WellChain DEF Well, IsRunning
<1>2. n = Len(me.frames) /\ n \in Nat /\ n >= 1
  BY <1>1 DEF RunsAs, Framed
<1>3. n \in DOMAIN me.frames
  <2> DEFINE C == CallFrames(V)
  <2>1. me.frames \in Seq(C)
    BY WellChain DEF Body
  <2> HIDE DEF C
  <2> QED
    BY <1>2, <2>1
<1>4. frame = me.frames[n]
  BY <1>2 DEF frame, Last
<1>5. code = CodeIn(frame, funcs) /\ CodeOp = OpAt(code, frame.ip) /\ CodeArg = ArgAt(code, frame.ip)
  BY DEF code, FuncOf, CodeIn, CodeOp, CodeArg, OpAt, ArgAt
<1> QED
  BY <1>1, <1>2, <1>3, <1>4, <1>5

LEMMA AtOp ==
  ASSUME NEW ch, NEW i, NEW V, Well(ch, i, V), mode = "run"
  PROVE  /\ World(V, vecs, hashes, funcs) /\ Body(me, V) /\ me.ops \in Seq(V) /\ Len(me.ops) \in Nat
         /\ code \in DOMAIN Shape /\ CodeFits(code) /\ CodeOp \in Operations
         /\ frame.ip \in Nat /\ frame.bp \in Nat /\ frame.bp <= Len(me.ops)
         /\ frame \in CallFrames(V)
         /\ CodeOp \in WithArgument => CodeArg \in Nat
         /\ CodeOp = "PUSHCONST" => CodeArg \in DOMAIN code.consts
<1>1. PICK n, sh, mb :
        /\ RunsAs(me, n, sh, mb, funcs) /\ n = Len(me.frames) /\ n \in DOMAIN me.frames
        /\ frame = me.frames[n] /\ code = CodeIn(frame, funcs)
        /\ CodeOp = OpAt(code, frame.ip) /\ CodeArg = ArgAt(code, frame.ip)
  BY InRun
<1>2. World(V, vecs, hashes, funcs) /\ Body(me, V)
  BY WellChain DEF Well
<1>3. Framed(me, n, sh, mb, funcs) /\ Len(me.ops) = frame.bp + Len(sh[n].ts)
  BY <1>1 DEF RunsAs
<1>4. /\ frame \in CallFrames(V) /\ code \in DOMAIN Shape /\ CodeFits(code)
      /\ frame.ip \in Nat /\ frame.bp \in Nat /\ sh[n] \in Shapes /\ Ready(code, frame.ip, sh[n])
  BY <1>1, <1>2, <1>3, Verified, SMTT(30)
<1>5. /\ CodeOp \in Operations /\ (CodeOp \in WithArgument => CodeArg \in Nat)
      /\ CodeOp = "PUSHCONST" => CodeArg \in DOMAIN code.consts
  BY <1>1, <1>4 DEF Ready
<1>6. me.ops \in Seq(V) /\ Len(me.ops) \in Nat
  BY <1>2 DEF Body
<1>7. frame.bp <= Len(me.ops)
  <2>1. Len(sh[n].ts) \in Nat
    BY <1>4 DEF Shapes
  <2> QED
    BY <1>3, <1>4, <2>1
<1> QED
  BY <1>2, <1>4, <1>5, <1>6, <1>7

LEMMA OnStack ==
  ASSUME NEW ch, NEW i, NEW V, Well(ch, i, V), mode = "run",
         NEW t \in Seq(Types), t = Takes(CodeOp, CodeArg)
  PROVE  /\ Len(t) \in Nat /\ Len(t) <= Len(me.ops) - frame.bp /\ Len(t) <= Len(me.ops)
         /\ \A k \in 1..Len(t) : STK(k) \in V /\ Is(STK(k), t[Len(t) + 1 - k])
<1>1. PICK n, sh, mb :
        /\ RunsAs(me, n, sh, mb, funcs) /\ n = Len(me.frames) /\ n \in DOMAIN me.frames
        /\ frame = me.frames[n] /\ code = CodeIn(frame, funcs)
        /\ CodeOp = OpAt(code, frame.ip) /\ CodeArg = ArgAt(code, frame.ip)
  BY InRun
<1>2. /\ World(V, vecs, hashes, funcs) /\ Body(me, V) /\ me.ops \in Seq(V) /\ Len(me.ops) \in Nat
      /\ frame.bp \in Nat
  BY AtOp
<1>3. /\ Len(t) <= Len(me.ops) - frame.bp
      /\ \A k \in 1..Len(t) : Is(me.ops[Len(me.ops) - Len(t) + k], t[k])
  <2>1. t = Takes(OpAt(code, frame.ip), ArgAt(code, frame.ip))
    BY <1>1
  <2>2. /\ World(V, vecs, hashes, funcs) /\ Body(me, V) /\ RunsAs(me, n, sh, mb, funcs)
        /\ frame = me.frames[n] /\ code = CodeIn(frame, funcs)
    BY <1>1, <1>2
  <2> QED
    BY <2>1, <2>2, Operands
<1>4. Len(t) \in Nat /\ Len(t) <= Len(me.ops)
  BY <1>2, <1>3
<1>5. ASSUME NEW k \in 1..Len(t) PROVE STK(k) \in V /\ Is(STK(k), t[Len(t) + 1 - k])
  <2> DEFINE z == Len(me.ops)  l == Len(t)
  <2>1. z \in Nat /\ l \in Nat /\ l <= z /\ k \in 1..l
    BY <1>2, <1>4
  <2> HIDE DEF z, l
  <2>2. z + 1 - k \in 1..z /\ l + 1 - k \in 1..l /\ z - l + (l + 1 - k) = z + 1 - k
    BY <2>1
  <2>3. STK(k) = me.ops[z + 1 - k]
    BY DEF STK, z
  <2>4. me.ops[z + 1 - k] \in V
    BY <1>2, <2>2 DEF z
  <2>5. Is(me.ops[z - l + (l + 1 - k)], t[l + 1 - k])
    BY <1>3, <2>2 DEF z, l
  <2> QED
    BY <2>2, <2>3, <2>4, <2>5 DEF l
<1> QED
  BY <1>3, <1>4, <1>5

(* An error leaves the context.                                              *)
LEMMA ThrowWell ==
  ASSUME NEW ch, NEW i, NEW V, Well(ch, i, V), mode = "run", NEW W, V \subseteq W,
         World(W, vecs', hashes', funcs'), Extends_(funcs, funcs'),
         NEW kind, NEW arg \in W, Throw(kind, arg)
  PROVE  Well(ch, i, W)'
<1>1. /\ ctxs' = [ctxs EXCEPT ![cur].error = kind, ![cur].dieArg = arg]
      /\ mode' = "back" /\ result' = Nil /\ cur' = cur /\ free' = free
  BY DEF Throw
<1>2. Contexts(ctxs) /\ cur \in DOMAIN ctxs /\ me = ctxs[cur] /\ Body(me, V)
  BY WellChain
<1>3. /\ Others(ctxs, ctxs', cur) /\ ctxs'[cur].dieArg = arg /\ ctxs'[cur].frames = me.frames
      /\ ctxs'[cur].ops = me.ops /\ ctxs'[cur].marks = me.marks /\ ctxs'[cur].waits = me.waits
  <2>1. Left(ctxs, ctxs', cur, arg)
    BY <1>1, <1>2, AssignLeft
  <2> QED
    BY <1>2, <2>1 DEF Left
<1>4. Body(ctxs'[cur], W)
  <2>1. Body(me, W)
    BY <1>2, BodyGrows
  <2> QED
    BY <1>3, <2>1 DEF Body
<1>5. result' \in W /\ mode' \in Running /\ mode' # "run"
  BY <1>1 DEF World, Running
<1> QED
  BY <1>1, <1>3, <1>4, <1>5, OneStep DEF Others

(* The last frame goes to ip.                                               *)
LEMMA FramesIp ==
  ASSUME NEW ch, NEW i, NEW V, Well(ch, i, V), mode = "run", NEW ip \in Nat
  PROVE  /\ Frames(ip) = [me.frames EXCEPT ![Len(me.frames)] = GoneTo(me.frames[Len(me.frames)], ip)]
         /\ Frames(ip) \in Seq(CallFrames(V)) /\ Len(Frames(ip)) = Len(me.frames)
<1> DEFINE n == Len(me.frames)
           fr == me.frames
           g == GoneTo(fr[n], ip)
           C == CallFrames(V)
<1>1. fr \in Seq(CallFrames(V)) /\ n \in DOMAIN fr
  BY WellChain, InRun DEF Body
<1>2. Frames(ip) = [fr EXCEPT ![n] = g]
  <2>1. Frames(ip) = WithIp(fr, n, ip)
    BY DEF Frames, WithIp
  <2> HIDE DEF n, fr, g
  <2>2. WithIp(fr, n, ip) = [fr EXCEPT ![n] = GoneTo(fr[n], ip)]
    BY <1>1, FrameGoes
  <2> QED
    BY <2>1, <2>2 DEF g
<1>3. fr[n] \in C /\ fr \in Seq(C)
  <2>1. fr \in Seq(C)
    BY <1>1
  <2> HIDE DEF C, fr, n
  <2> QED
    BY <1>1, <2>1
<1>4. g \in C
  BY <1>3 DEF GoneTo, CallFrames
<1> HIDE DEF C, g
<1>5. [fr EXCEPT ![n] = g] \in Seq(C) /\ Len([fr EXCEPT ![n] = g]) = n
  BY <1>1, <1>3, <1>4
<1> QED
  BY <1>2, <1>5 DEF C, g

(* The context goes on at ip with the operands ops.                         *)
LEMMA GotoWell ==
  ASSUME NEW ch, NEW i, NEW V, Well(ch, i, V), mode = "run", NEW W, V \subseteq W,
         World(W, vecs', hashes', funcs'), Extends_(funcs, funcs'),
         NEW ip \in Nat, NEW ops \in Seq(W), Goto(ip, ops),
         \A x2 : KeepsMarks(me, x2, Len(me.frames), ip) /\ x2.ops = ops => IsRunning(x2, funcs)
  PROVE  Well(ch, i, W)'
<1>0. Contexts(ctxs) /\ cur \in DOMAIN ctxs /\ me = ctxs[cur] /\ Body(me, V)
  BY WellChain
<1>1. CASE Len(ops) > MAX_STACK_DEPTH
  <2>1. Throw("stack overflow", me.dieArg) /\ me.dieArg \in W
    BY <1>0, <1>1 DEF Goto, Body
  <2> QED
    BY <2>1, ThrowWell
<1>2. CASE ~(Len(ops) > MAX_STACK_DEPTH)
  <2>1. /\ ctxs' = [ctxs EXCEPT ![cur].frames = Frames(ip), ![cur].ops = ops]
        /\ mode' = "run" /\ result' = result /\ cur' = cur /\ free' = free
    BY <1>2 DEF Goto
  <2> DEFINE x2 == ctxs'[cur]
  <2>2. /\ Others(ctxs, ctxs', cur) /\ x2.frames = Frames(ip) /\ x2.ops = ops
        /\ x2.marks = me.marks /\ x2.waits = me.waits /\ x2.dieArg = me.dieArg
    <3>1. Moved(ctxs, ctxs', cur, Frames(ip), ctxs[cur].marks, ops)
      BY <1>0, <2>1, AssignMoved
    <3> QED
      BY <1>0, <3>1 DEF Moved
  <2> HIDE DEF x2
  <2>4. /\ Frames(ip) = [me.frames EXCEPT ![Len(me.frames)] = GoneTo(me.frames[Len(me.frames)], ip)]
        /\ x2.frames \in Seq(CallFrames(V)) /\ Len(x2.frames) = Len(me.frames)
    BY <2>2, FramesIp
  <2>6. Body(x2, W)
    <3>1. Body(me, W)
      BY <1>0, BodyGrows
    <3>2. x2.frames \in Seq(CallFrames(W))
      BY <2>4, FunctionsGrow
    <3>3. Len(ops) <= MAX_STACK_DEPTH
      BY <1>2, BoundsAssumption
    <3> QED
      BY <2>2, <2>4, <3>1, <3>2, <3>3 DEF Body
  <2>7. IsRunning(x2, funcs)
    BY <2>2, <2>4 DEF KeepsMarks
  <2>8. IsRunning(x2, funcs')
    <3>1. World(V, vecs, hashes, funcs)
      BY DEF Well
    <3> QED
      BY <2>4, <2>7, <3>1, FramedGrows
  <2>9. result' \in W /\ mode' \in Running
    BY <2>1 DEF Well, Running
  <2> QED
    BY <2>1, <2>2, <2>6, <2>8, <2>9, OneStep DEF Others, x2
<1> QED
  BY <1>1, <1>2

-----------------------------------------------------------------------------
(* The operands after an operation.                                         *)
LEMMA Kept ==
  ASSUME NEW V, NEW W, V \subseteq W, NEW s \in Seq(V), NEW k \in Nat, k <= Len(s), NEW m \in Nat, m <= k,
         NEW r \in Seq(W), NEW l \in Seq(Types), Len(l) = k - m + Len(r),
         \A j \in 1..(k - m) : Is(s[Len(s) - k + j], l[j]),
         \A j \in 1..Len(r) : Is(r[j], l[k - m + j])
  PROVE  /\ SubSeq(s, 1, Len(s) - m) \o r \in Seq(W)
         /\ Replaces(s, SubSeq(s, 1, Len(s) - m) \o r, k, l)
<1> DEFINE z == Len(s)
           p == SubSeq(s, 1, z - m)
           t == p \o r
<1>1. z \in Nat /\ Len(r) \in Nat /\ Len(l) \in Nat /\ z - m \in Nat
  <2>1. z \in Nat /\ k <= z
    OBVIOUS
  <2> HIDE DEF z
  <2> QED
    BY <2>1
<1>2. p \in Seq(V) /\ Len(p) = z - m /\ \A j \in 1..(z - m) : p[j] = s[j]
  BY <1>1
<1>3. p \in Seq(W) /\ s \in Seq(W)
  BY <1>2, SeqGrows
<1> HIDE DEF p
<1>4. /\ t \in Seq(W) /\ Len(t) = z - m + Len(r)
      /\ \A j \in 1..(z - m) : t[j] = s[j]
      /\ \A j \in 1..Len(r) : t[z - m + j] = r[j]
  <2>1. t \in Seq(W) /\ Len(t) = Len(p) + Len(r)
    BY <1>3, ConcatProperties
  <2> DEFINE u == z - m
  <2>0. u \in Nat /\ Len(p) = u /\ \A j \in 1..u : p[j] = s[j]
    BY <1>1, <1>2
  <2> HIDE DEF z, u
  <2>2. \A j \in 1..u : t[j] = s[j]
    BY <1>1, <1>3, <2>0
  <2>3. \A j \in 1..Len(r) : t[u + j] = r[j]
    BY <1>1, <1>3, <2>0
  <2> QED
    BY <2>0, <2>1, <2>2, <2>3 DEF u
<1> HIDE DEF t
<1>5. Len(t) = z - k + Len(l)
  <2> DEFINE a == Len(r)  b == Len(l)  q == Len(t)
  <2>1. a \in Nat /\ b \in Nat /\ z \in Nat /\ b = k - m + a /\ q = z - m + a
    BY <1>1, <1>4
  <2> HIDE DEF a, b, z, q
  <2>2. q = z - k + b
    BY <2>1
  <2> QED
    BY <2>2 DEF q, b
<1>6. SameTo(s, t, z - k)
  <2>1. \A j \in 1..(z - k) : j \in 1..(z - m)
    <3> HIDE DEF z
    <3> QED
      BY <1>1
  <2> QED
    BY <1>4, <2>1 DEF SameTo
<1>7. ASSUME NEW j \in 1..Len(l) PROVE Is(t[z - k + j], l[j])
  <2>1. CASE j <= k - m
    <3>1. j \in 1..(k - m) /\ z - k + j \in 1..(z - m)
      <4>1. z \in Nat /\ k <= z
        BY <1>1
      <4> HIDE DEF z
      <4> QED
        BY <2>1, <4>1
    <3> QED
      BY <1>4, <3>1
  <2>2. CASE ~(j <= k - m)
    <3>1. PICK h \in 1..Len(r) : j = k - m + h
      <4> DEFINE a == Len(r)
      <4>1. a \in Nat /\ j \in 1..(k - m + a)
        BY <1>1
      <4> HIDE DEF a
      <4>2. j - (k - m) \in 1..a /\ j = k - m + (j - (k - m))
        BY <2>2, <4>1
      <4> QED
        BY <4>2 DEF a
    <3>2. z - k + j = z - m + h
      <4>1. z \in Nat
        BY <1>1
      <4> HIDE DEF z
      <4> QED
        BY <3>1, <4>1
    <3> QED
      BY <1>4, <3>1, <3>2
  <2> QED
    BY <2>1, <2>2
<1>8. Replaces(s, t, k, l)
  BY <1>5, <1>6, <1>7 DEF Replaces
<1> QED
  BY <1>4, <1>8 DEF t, p

(* To where the operation leads with the top k operands replaced by l.       *)
LeadsTo(ip, k, l) ==
  \A s \in Shapes : Ready(code, frame.ip, s) =>
    k <= Len(s.ts) /\ [ip |-> ip, ts |-> Less(s.ts, k) \o l, ms |-> s.ms] \in After(code, frame.ip, s)

LEMMA MovesWell ==
  ASSUME NEW ch, NEW i, NEW V, Well(ch, i, V), mode = "run", NEW W, V \subseteq W,
         World(W, vecs', hashes', funcs'), Extends_(funcs, funcs'),
         NEW ip \in Nat, NEW k \in Nat, NEW l \in Seq(Types), LeadsTo(ip, k, l),
         NEW ops \in Seq(W), Replaces(me.ops, ops, k, l), Goto(ip, ops)
  PROVE  Well(ch, i, W)'
<1>1. PICK n, sh, mb :
        /\ RunsAs(me, n, sh, mb, funcs) /\ n = Len(me.frames) /\ n \in DOMAIN me.frames
        /\ frame = me.frames[n] /\ code = CodeIn(frame, funcs)
  BY InRun
<1>2. World(V, vecs, hashes, funcs) /\ Body(me, V)
  BY AtOp
<1>3. sh[n] \in Shapes /\ Ready(code, frame.ip, sh[n])
  BY <1>1, <1>2, Verified DEF RunsAs
<1> DEFINE s == sh[n]
<1>4. /\ k <= Len(s.ts)
      /\ [ip |-> ip, ts |-> Less(s.ts, k) \o l, ms |-> s.ms] \in After(code, frame.ip, s)
  BY <1>3 DEF LeadsTo
<1> HIDE DEF s
<1>5. ASSUME NEW x2, KeepsMarks(me, x2, Len(me.frames), ip), x2.ops = ops
      PROVE  IsRunning(x2, funcs)
  <2>1. KeepsMarks(me, x2, n, ip) /\ Replaces(me.ops, x2.ops, k, l)
    BY <1>1, <1>5
  <2>2. \E sh2 : RunsAs(x2, n, sh2, mb, funcs)
    <3>1. s = sh[n]
      BY DEF s
    <3> QED
      BY <1>1, <1>2, <1>4, <2>1, <3>1, StackGoes
  <2> QED
    BY <2>2 DEF IsRunning
<1> QED
  BY <1>5, GotoWell

(* An operation that goes on behind itself: it pops m operands and pushes r;  *)
(* what it takes below these it leaves.                                     *)
LEMMA AnysTypes == ASSUME NEW n \in Nat PROVE Anys(n) \in Seq(Types) /\ Len(Anys(n)) = n
BY DEF Anys, Types

LEMMA ShortTypes ==
  /\ <<>> \in Seq(Types) /\ <<"any">> \in Seq(Types) /\ <<"any", "any">> \in Seq(Types)
  /\ <<"any", "any", "any">> \in Seq(Types) /\ <<"vec", "any">> \in Seq(Types)
  /\ <<"hash", "any", "any">> \in Seq(Types) /\ <<"any", "vec", "any">> \in Seq(Types)
  /\ <<"any", "vec", "any", "any">> \in Seq(Types) /\ <<"any", "index">> \in Seq(Types)
  /\ <<"any", "hash">> \in Seq(Types) /\ <<"any", "any", "hash">> \in Seq(Types)
  /\ <<"index">> \in Seq(Types) /\ <<"vec">> \in Seq(Types) /\ <<"hash">> \in Seq(Types)
  /\ <<"any", "vec">> \in Seq(Types) /\ <<"any", "index", "any">> \in Seq(Types)
<1> DEFINE T == Types
<1>1. "any" \in T /\ "vec" \in T /\ "hash" \in T /\ "index" \in T
  BY DEF Types
<1> HIDE DEF T
<1>2. /\ <<>> \in Seq(T) /\ <<"any">> \in Seq(T) /\ <<"any", "any">> \in Seq(T)
  BY <1>1
<1>3. /\ <<"any", "any", "any">> \in Seq(T) /\ <<"vec", "any">> \in Seq(T)
      /\ <<"hash", "any", "any">> \in Seq(T) /\ <<"any", "vec", "any">> \in Seq(T)
  BY <1>1
<1>4. /\ <<"any", "vec", "any", "any">> \in Seq(T) /\ <<"any", "index">> \in Seq(T)
      /\ <<"any", "hash">> \in Seq(T) /\ <<"any", "any", "hash">> \in Seq(T)
  BY <1>1
<1>5. /\ <<"index">> \in Seq(T) /\ <<"vec">> \in Seq(T) /\ <<"hash">> \in Seq(T)
      /\ <<"any", "vec">> \in Seq(T) /\ <<"any", "index", "any">> \in Seq(T)
  BY <1>1
<1> QED
  BY <1>2, <1>3, <1>4, <1>5 DEF T

LEMMA TakesTypes ==
  ASSUME NEW o, NEW a, o \in ByPosition \cup {"UNPACK"} => a \in Nat
  PROVE  /\ Takes(o, a) \in Seq(Types) /\ Len(Takes(o, a)) \in Nat
         /\ Leaves(o, a) \in Seq(Types) /\ Len(Leaves(o, a)) \in Nat
<1>1. \/ o \in ByPosition /\ Takes(o, a) \in {Anys(a + 1), Anys(a + 2)}
      \/ Takes(o, a) \in
           {<<"any">>, <<"any", "any">>, <<"any", "any", "any">>, <<"vec", "any">>,
            <<"hash", "any", "any">>, <<"any", "vec", "any">>, <<"any", "vec", "any", "any">>,
            <<"any", "index">>, <<"any", "hash">>, <<"any", "any", "hash">>, <<>>}
  BY DEF Takes, ByPosition
<1>2. \/ o = "UNPACK" /\ Leaves(o, a) = Anys(a)
      \/ Leaves(o, a) \in
           {<<"any">>, <<"any", "any">>, Anys(4), Anys(3), <<"index">>, <<"vec">>, <<"hash">>,
            <<"any", "vec">>, <<"any", "index", "any">>, <<>>}
  BY DEF Leaves
<1>3. Takes(o, a) \in Seq(Types)
  <2>1. CASE o \in ByPosition /\ Takes(o, a) \in {Anys(a + 1), Anys(a + 2)}
    BY <2>1, AnysTypes
  <2>2. CASE ~(o \in ByPosition /\ Takes(o, a) \in {Anys(a + 1), Anys(a + 2)})
    BY <1>1, <2>2, ShortTypes
  <2> QED
    BY <2>1, <2>2
<1>4. Leaves(o, a) \in Seq(Types)
  <2>1. CASE o = "UNPACK" /\ Leaves(o, a) = Anys(a)
    BY <2>1, AnysTypes
  <2>2. Anys(4) \in Seq(Types) /\ Anys(3) \in Seq(Types)
    BY AnysTypes
  <2>3. CASE ~(o = "UNPACK" /\ Leaves(o, a) = Anys(a))
    BY <1>2, <2>2, <2>3, ShortTypes
  <2> QED
    BY <2>1, <2>3
<1> QED
  BY <1>3, <1>4

LEMMA StraightAfter ==
  ASSUME NEW c, NEW ip, NEW s, OpAt(c, ip) \in Straight,
         NEW t, t = Takes(OpAt(c, ip), ArgAt(c, ip)), NEW l, l = Leaves(OpAt(c, ip), ArgAt(c, ip)),
         NEW k, k = Cells(OpAt(c, ip))
  PROVE  [ip |-> ip + k, ts |-> Less(s.ts, Len(t)) \o l, ms |-> s.ms] \in After(c, ip, s)
<1>1. OpAt(c, ip) \notin Jumps \cup Branching \cup OnMarks \cup {"RETURN"}
  BY DEF Jumps, Branching, OnMarks, Straight, OneToOne, TwoToOne, ThreeToOne, PushesOne,
         ByPosition, ByName, ArithOps
<1> QED
  BY <1>1 DEF After, Branching, OnMarks

LEMMA ReadyTakes ==
  ASSUME NEW c, NEW ip, NEW s \in Shapes, Ready(c, ip, s),
         NEW t \in Seq(Types), t = Takes(OpAt(c, ip), ArgAt(c, ip))
  PROVE  Len(t) <= Len(s.ts)
<1>1. Len(s.ts) - Len(t) >= 0
  BY DEF Ready
<1>2. Len(s.ts) \in Nat /\ Len(t) \in Nat
  BY DEF Shapes
<1> QED
  BY <1>1, <1>2

LEMMA StraightLeads ==
  ASSUME CodeOp \in Straight, CodeOp = OpAt(code, frame.ip), CodeArg = ArgAt(code, frame.ip),
         NEW t \in Seq(Types), t = Takes(CodeOp, CodeArg), NEW l, l = Leaves(CodeOp, CodeArg)
  PROVE  LeadsTo(frame.ip + Cells(CodeOp), Len(t), l)
<1>1. SUFFICES ASSUME NEW s \in Shapes, Ready(code, frame.ip, s)
               PROVE  /\ Len(t) <= Len(s.ts)
                      /\ [ip |-> frame.ip + Cells(CodeOp), ts |-> Less(s.ts, Len(t)) \o l, ms |-> s.ms]
                           \in After(code, frame.ip, s)
  BY DEF LeadsTo
<1>2. Len(t) <= Len(s.ts)
  BY <1>1, ReadyTakes
<1>3. [ip |-> frame.ip + Cells(CodeOp), ts |-> Less(s.ts, Len(t)) \o l, ms |-> s.ms]
        \in After(code, frame.ip, s)
  <2>1. /\ OpAt(code, frame.ip) \in Straight /\ t = Takes(OpAt(code, frame.ip), ArgAt(code, frame.ip))
        /\ l = Leaves(OpAt(code, frame.ip), ArgAt(code, frame.ip))
        /\ Cells(CodeOp) = Cells(OpAt(code, frame.ip))
    OBVIOUS
  <2> QED
    BY <2>1, StraightAfter
<1> QED
  BY <1>2, <1>3

LEMMA CellsNat ==
  ASSUME NEW o
  PROVE  Cells(o) \in {1, 2}
BY DEF Cells

LEMMA StraightGo ==
  ASSUME NEW ch, NEW i, NEW V, Well(ch, i, V), mode = "run", NEW W, V \subseteq W,
         World(W, vecs', hashes', funcs'), Extends_(funcs, funcs'), CodeOp \in Straight,
         NEW t \in Seq(Types), t = Takes(CodeOp, CodeArg),
         NEW l \in Seq(Types), l = Leaves(CodeOp, CodeArg),
         NEW m \in Nat, m <= Len(t), NEW r \in Seq(W), Len(l) = Len(t) - m + Len(r),
         \A j \in 1..(Len(t) - m) : l[j] \in {"any", t[j]},
         \A j \in 1..Len(r) : Is(r[j], l[Len(t) - m + j]),
         Go(Cells(CodeOp), Popped(m) \o r)
  PROVE  Well(ch, i, W)'
<1> DEFINE ops == Popped(m) \o r
           ip == frame.ip + Cells(CodeOp)
           s == me.ops
<1>1. /\ CodeOp = OpAt(code, frame.ip) /\ CodeArg = ArgAt(code, frame.ip)
  BY Zenon DEF OpAt, ArgAt, CodeOp, CodeArg
<1>2. LeadsTo(ip, Len(t), l)
  BY <1>1, StraightLeads
<1>3. ip \in Nat
  BY AtOp, CellsNat
<1>4. s \in Seq(V) /\ Len(s) \in Nat
  BY AtOp
<1>5. /\ Len(t) \in Nat /\ Len(t) <= Len(s)
      /\ \A k \in 1..Len(t) : Is(STK(k), t[Len(t) + 1 - k])
  BY OnStack
<1>6. ASSUME NEW j \in 1..(Len(t) - m) PROVE Is(s[Len(s) - Len(t) + j], l[j])
  <2> DEFINE z == Len(s)  y == Len(t)
  <2>1. z \in Nat /\ y \in Nat /\ y <= z /\ j \in 1..(y - m)
    BY <1>4, <1>5
  <2> HIDE DEF z, y
  <2>2. y + 1 - j \in 1..y /\ z + 1 - (y + 1 - j) = z - y + j /\ y + 1 - (y + 1 - j) = j
    BY <2>1
  <2>3. Is(STK(y + 1 - j), t[j])
    BY <1>5, <2>2 DEF y
  <2>4. STK(y + 1 - j) = s[z - y + j]
    BY <2>2 DEF STK, z
  <2>5. Is(s[z - y + j], t[j])
    BY <2>3, <2>4
  <2>6. l[j] \in {"any", t[j]}
    OBVIOUS
  <2>7. Is(s[z - y + j], l[j])
    BY <2>5, <2>6 DEF Is
  <2> QED
    BY <2>7 DEF z, y
<1>7. ops = SubSeq(s, 1, Len(s) - m) \o r
  BY DEF Popped
<1> HIDE DEF ops, s, ip
<1>8. ops \in Seq(W) /\ Replaces(s, ops, Len(t), l)
  <2> DEFINE y == Len(t)
  <2>1. y \in Nat /\ y <= Len(s) /\ m <= y /\ Len(l) = y - m + Len(r)
    BY <1>5
  <2>2. \A j \in 1..(y - m) : Is(s[Len(s) - y + j], l[j])
    BY <1>6
  <2>3. \A j \in 1..Len(r) : Is(r[j], l[y - m + j])
    OBVIOUS
  <2> HIDE DEF y
  <2>4. ops \in Seq(W) /\ Replaces(s, ops, y, l)
    BY <1>4, <1>7, <2>1, <2>2, <2>3, Kept
  <2> QED
    BY <2>4 DEF y
<1>9. Goto(ip, ops)
  BY DEF Go, ip, ops
<1> QED
  BY <1>2, <1>3, <1>5, <1>8, <1>9, MovesWell DEF s

(* An operation that leaves the objects as they are.                        *)
LEMMA SameHeap ==
  ASSUME NEW ch, NEW i, NEW V, Well(ch, i, V), UNCHANGED heap
  PROVE  World(V, vecs', hashes', funcs') /\ Extends_(funcs, funcs')
BY DEF Well, heap, Extends_

(* Operands with values on top.                                             *)
LEMMA OnTop ==
  ASSUME NEW ch, NEW i, NEW V, Well(ch, i, V), mode = "run",
         NEW m \in Nat, m <= Len(me.ops), NEW v
  PROVE  /\ Append(Popped(m), v) = Popped(m) \o <<v>> /\ Append(me.ops, v) = Popped(0) \o <<v>>
         /\ Popped(m) = Popped(m) \o <<>> /\ me.ops = Popped(0)
         /\ Popped(m) \in Seq(V)
<1> DEFINE s == me.ops
<1>1. s \in Seq(V) /\ Len(s) \in Nat
  BY AtOp
<1>2. Popped(m) = SubSeq(s, 1, Len(s) - m) /\ Popped(0) = SubSeq(s, 1, Len(s) - 0)
  BY DEF Popped
<1> HIDE DEF s
<1>3. SubSeq(s, 1, Len(s) - m) \in Seq(V) /\ SubSeq(s, 1, Len(s) - 0) = s
  <2>1. Len(s) - m \in Nat /\ Len(s) - m <= Len(s)
    BY <1>1 DEF s
  <2> QED
    BY <1>1, <2>1
<1>4. \A q \in Seq(V) : Append(q, v) = q \o <<v>> /\ q = q \o <<>>
  OBVIOUS
<1> QED
  BY <1>1, <1>2, <1>3, <1>4 DEF s

-----------------------------------------------------------------------------
(* The operations that go on behind themselves.                             *)
Row(o, a, t, l) == o \in Straight /\ Takes(o, a) = t /\ Leaves(o, a) = l

LEMMA Table ==
  ASSUME NEW o, NEW a
  PROVE  /\ o \in OneToOne => Row(o, a, <<"any">>, <<"any">>)
         /\ o \in TwoToOne => Row(o, a, <<"any", "any">>, <<"any">>)
         /\ o \in ThreeToOne => Row(o, a, <<"any", "any", "any">>, <<"any">>)
         /\ o \in PushesOne => Row(o, a, <<>>, <<"any">>)
         /\ o \in {"PUSHONE", "PUSHZERO"} => Row(o, a, <<>>, <<"index">>)
         /\ o = "NEWVEC" => Row(o, a, <<>>, <<"vec">>)
         /\ o = "NEWHASH" => Row(o, a, <<>>, <<"hash">>)
         /\ o = "VAPPEND" => Row(o, a, <<"vec", "any">>, <<"vec">>)
         /\ o = "HAPPEND" => Row(o, a, <<"hash", "any", "any">>, <<"hash">>)
         /\ o = "SLICE" => Row(o, a, <<"any", "vec", "any">>, <<"any", "vec">>)
         /\ o = "SLICE2" => Row(o, a, <<"any", "vec", "any", "any">>, <<"any", "vec">>)
<1> USE DEF Row, Straight, Takes, Leaves, OneToOne, TwoToOne, ThreeToOne, PushesOne, Branching,
            ByPosition, ByName, ArithOps
<1>1. /\ o \in OneToOne => Row(o, a, <<"any">>, <<"any">>)
      /\ o \in TwoToOne => Row(o, a, <<"any", "any">>, <<"any">>)
  OBVIOUS
<1>2. /\ o \in ThreeToOne => Row(o, a, <<"any", "any", "any">>, <<"any">>)
      /\ o \in PushesOne => Row(o, a, <<>>, <<"any">>)
      /\ o \in {"PUSHONE", "PUSHZERO"} => Row(o, a, <<>>, <<"index">>)
  OBVIOUS
<1>3. /\ o = "NEWVEC" => Row(o, a, <<>>, <<"vec">>)
      /\ o = "NEWHASH" => Row(o, a, <<>>, <<"hash">>)
      /\ o = "VAPPEND" => Row(o, a, <<"vec", "any">>, <<"vec">>)
      /\ o = "HAPPEND" => Row(o, a, <<"hash", "any", "any">>, <<"hash">>)
  OBVIOUS
<1>4. /\ o = "SLICE" => Row(o, a, <<"any", "vec", "any">>, <<"any", "vec">>)
      /\ o = "SLICE2" => Row(o, a, <<"any", "vec", "any", "any">>, <<"any", "vec">>)
  OBVIOUS
<1> HIDE DEF Row
<1> QED
  BY <1>1, <1>2, <1>3, <1>4

LEMMA MoreTable ==
  ASSUME NEW o, NEW a
  PROVE  /\ o = "POP" => Row(o, a, <<"any">>, <<>>)
         /\ o = "DUP" => Row(o, a, <<"any">>, <<"any", "any">>)
         /\ o = "XCHG" => Row(o, a, <<"any", "any">>, <<"any", "any">>)
         /\ o = "DUP2" => Row(o, a, <<"any", "any">>, Anys(4))
         /\ o = "XCHG2" => Row(o, a, <<"any", "any", "any">>, Anys(3))
         /\ o \in {"EACH", "INDEX"} => Row(o, a, <<"any", "index">>, <<"any", "index", "any">>)
         /\ o = "UNPACK" => Row(o, a, <<"any">>, Anys(a))
<1> USE DEF Row, Straight, Takes, Leaves, OneToOne, TwoToOne, ThreeToOne, PushesOne, Branching,
            ByPosition, ByName, ArithOps
<1>1. /\ o = "POP" => Row(o, a, <<"any">>, <<>>)
      /\ o = "DUP" => Row(o, a, <<"any">>, <<"any", "any">>)
      /\ o = "XCHG" => Row(o, a, <<"any", "any">>, <<"any", "any">>)
  OBVIOUS
<1>2. /\ o = "DUP2" => Row(o, a, <<"any", "any">>, Anys(4))
      /\ o = "XCHG2" => Row(o, a, <<"any", "any", "any">>, Anys(3))
      /\ o = "UNPACK" => Row(o, a, <<"any">>, Anys(a))
  OBVIOUS
<1>3. o \in {"EACH", "INDEX"} => Row(o, a, <<"any", "index">>, <<"any", "index", "any">>)
  OBVIOUS
<1> HIDE DEF Row
<1> QED
  BY <1>1, <1>2, <1>3

LEMMA CellsTable ==
  ASSUME NEW o
  PROVE  Cells(o) = IF o \in {"PUSHCONST", "LOCAL", "MEMBER", "UNPACK"} \cup ByPosition \cup Branching \cup Jumps
                    THEN 2 ELSE 1
BY DEF Cells, WithArgument

(* All that may happen to the operands: they make way for one value, or an    *)
(* error leaves the context; or some of them go away.                       *)
GoOrThrow(ops) == Go(Cells(CodeOp), ops) \/ \E kind : Throw(kind, me.dieArg)

Grows(V, W) == V \subseteq W /\ World(W, vecs', hashes', funcs') /\ Extends_(funcs, funcs')

LEMMA StraightWell ==
  ASSUME NEW ch, NEW i, NEW V, Well(ch, i, V), mode = "run", NEW W, Grows(V, W),
         NEW t \in Seq(Types), NEW l \in Seq(Types), Row(CodeOp, CodeArg, t, l),
         NEW m \in Nat, m <= Len(t), NEW r \in Seq(W), Len(l) = Len(t) - m + Len(r),
         \A j \in 1..(Len(t) - m) : l[j] \in {"any", t[j]},
         \A j \in 1..Len(r) : Is(r[j], l[Len(t) - m + j]),
         GoOrThrow(Popped(m) \o r)
  PROVE  Well(ch, i, W)'
<1>1. /\ V \subseteq W /\ World(W, vecs', hashes', funcs') /\ Extends_(funcs, funcs')
  BY DEF Grows
<1>2. CASE Go(Cells(CodeOp), Popped(m) \o r)
  <2>1. CodeOp \in Straight /\ t = Takes(CodeOp, CodeArg) /\ l = Leaves(CodeOp, CodeArg)
    BY DEF Row
  <2> QED
    BY <1>1, <1>2, <2>1, StraightGo
<1>3. CASE \E kind : Throw(kind, me.dieArg)
  <2>1. me.dieArg \in W
    BY <1>1, WellChain DEF Body
  <2> QED
    BY <1>1, <1>3, <2>1, ThrowWell
<1> QED
  BY <1>2, <1>3 DEF GoOrThrow

LEMMA OneOut ==
  ASSUME NEW ch, NEW i, NEW V, Well(ch, i, V), mode = "run", NEW W, Grows(V, W),
         NEW t \in Seq(Types), NEW y \in Types, Row(CodeOp, CodeArg, t, <<y>>),
         NEW v \in W, Is(v, y), GoOrThrow(Append(Popped(Len(t)), v))
  PROVE  Well(ch, i, W)'
<1> DEFINE l == <<y>>
           m == Len(t)
           r == <<v>>
<1>1. l \in Seq(Types) /\ Len(l) = 1 /\ l[1] = y /\ r \in Seq(W) /\ Len(r) = 1 /\ r[1] = v /\ m \in Nat
  OBVIOUS
<1>2. m <= Len(me.ops)
  BY OnStack DEF Row
<1>3. GoOrThrow(Popped(m) \o r)
  <2>1. Append(Popped(m), v) = Popped(m) \o <<v>>
    BY <1>1, <1>2, OnTop
  <2> QED
    BY <2>1
<1>4. Row(CodeOp, CodeArg, t, l) /\ m = Len(t)
  OBVIOUS
<1> HIDE DEF l, r, m
<1>5. /\ m <= Len(t) /\ Len(l) = Len(t) - m + Len(r) /\ Len(t) - m = 0
  BY <1>1, <1>4
<1>6. \A j \in 1..(Len(t) - m) : l[j] \in {"any", t[j]}
  BY <1>5
<1>7. \A j \in 1..Len(r) : Is(r[j], l[Len(t) - m + j])
  BY <1>1, <1>5
<1> QED
  BY <1>1, <1>3, <1>4, <1>5, <1>6, <1>7, StraightWell

LEMMA SomeOut ==
  ASSUME NEW ch, NEW i, NEW V, Well(ch, i, V), mode = "run", NEW W, Grows(V, W),
         NEW t \in Seq(Types), NEW l \in Seq(Types), Row(CodeOp, CodeArg, t, l),
         NEW m \in Nat, Len(l) = Len(t) - m, \A j \in 1..Len(l) : l[j] \in {"any", t[j]},
         GoOrThrow(Popped(m))
  PROVE  Well(ch, i, W)'
<1> DEFINE r == <<>>
<1>1. Len(t) \in Nat /\ Len(l) \in Nat /\ r \in Seq(W) /\ Len(r) = 0
  OBVIOUS
<1>2. m <= Len(t) /\ Len(t) <= Len(me.ops) /\ Len(me.ops) \in Nat
  <2>1. Len(t) <= Len(me.ops) /\ Len(me.ops) \in Nat
    BY AtOp, OnStack DEF Row
  <2>2. m <= Len(t)
    BY <1>1
  <2> QED
    BY <2>1, <2>2
<1>3. GoOrThrow(Popped(m) \o r)
  <2>1. m <= Len(me.ops)
    BY <1>1, <1>2
  <2>2. Popped(m) = Popped(m) \o <<>>
    BY <2>1, OnTop
  <2> QED
    BY <2>2
<1> HIDE DEF r
<1>4. Len(l) = Len(t) - m + Len(r)
  BY <1>1
<1>5. \A j \in 1..Len(r) : Is(r[j], l[Len(t) - m + j])
  BY <1>1
<1> QED
  BY <1>1, <1>2, <1>3, <1>4, <1>5, StraightWell

-----------------------------------------------------------------------------
(* The operations on the operand stack.                                      *)
IsWell == \E ch, i, V : Well(ch, i, V)

LEMMA AtRuns == ASSUME NEW ops, At(ops) PROVE mode = "run" /\ CodeOp \in ops
BY DEF At, CodeOp

LEMMA GrowsSame ==
  ASSUME NEW ch, NEW i, NEW V, Well(ch, i, V), UNCHANGED heap
  PROVE  Grows(V, V)
BY SameHeap DEF Grows

LEMMA GrowsScalar ==
  ASSUME NEW ch, NEW i, NEW V, Well(ch, i, V), UNCHANGED heap, NEW v,
         v[1] \in {"num", "str", "nil", "end"}
  PROVE  Grows(V, V \cup {v})
<1>1. World(V, vecs', hashes', funcs') /\ Extends_(funcs, funcs')
  BY SameHeap
<1>2. World(V \cup {v}, vecs', hashes', funcs')
  BY <1>1, WithScalar
<1> QED
  BY <1>1, <1>2 DEF Grows

(* The values on top of the stack that an operation takes.                  *)
LEMMA Tops ==
  ASSUME NEW ch, NEW i, NEW V, Well(ch, i, V), mode = "run",
         NEW t, NEW l, Row(CodeOp, CodeArg, t, l), t \in Seq(Types)
  PROVE  /\ \A k \in 1..Len(t) : STK(k) \in V /\ Is(STK(k), t[Len(t) + 1 - k])
         /\ Len(t) \in Nat /\ Len(t) <= Len(me.ops) /\ Len(me.ops) \in Nat
<1>1. t = Takes(CodeOp, CodeArg)
  BY DEF Row
<1> QED
  BY <1>1, OnStack, AtOp

(* Operands that are only put in another order.                             *)
LEMMA Exchanged ==
  ASSUME NEW ch, NEW i, NEW V, Well(ch, i, V), mode = "run", Grows(V, V),
         NEW t \in Seq(Types), NEW l \in Seq(Types), Row(CodeOp, CodeArg, t, l), Len(l) = Len(t),
         \A j \in 1..Len(l) : l[j] = "any",
         NEW r \in Seq(V), Len(r) = Len(t), GoOrThrow(Popped(Len(t)) \o r)
  PROVE  Well(ch, i, V)'
<1> DEFINE m == Len(t)
<1>1. m \in Nat /\ m <= Len(t) /\ Len(t) - m = 0 /\ Len(l) = Len(t) - m + Len(r)
  OBVIOUS
<1>2. GoOrThrow(Popped(m) \o r)
  OBVIOUS
<1>3. \A j \in 1..(Len(t) - m) : l[j] \in {"any", t[j]}
  BY <1>1
<1>4. \A j \in 1..Len(r) : Is(r[j], l[Len(t) - m + j])
  <2>1. ASSUME NEW j \in 1..Len(r) PROVE Len(t) - m + j = j /\ l[j] = "any"
    OBVIOUS
  <2> QED
    BY <2>1 DEF Is
<1> HIDE DEF m
<1> QED
  BY <1>1, <1>2, <1>3, <1>4, StraightWell

(* Operations that make a scalar of their operands.                         *)
LEMMA ScalarOut ==
  ASSUME NEW ch, NEW i, NEW V, Well(ch, i, V), mode = "run", UNCHANGED heap,
         NEW t \in Seq(Types), Row(CodeOp, CodeArg, t, <<"any">>),
         NEW v, v[1] \in {"num", "str", "nil", "end"}, GoOrThrow(Append(Popped(Len(t)), v))
  PROVE  IsWell'
<1>1. Grows(V, V \cup {v})
  BY GrowsScalar
<1>2. v \in V \cup {v} /\ "any" \in Types /\ Is(v, "any")
  BY DEF Types, Is
<1> DEFINE W == V \cup {v}
<1>3. Grows(V, W) /\ v \in W
  BY <1>1, <1>2
<1> HIDE DEF W
<1>4. Well(ch, i, W)'
  <2>1. \A y \in Types : Row(CodeOp, CodeArg, t, <<y>>) /\ Is(v, y) => Well(ch, i, W)'
    BY <1>3, OneOut
  <2> QED
    BY <1>2, <2>1
<1> QED
  BY <1>4 DEF IsWell

LEMMA PopWell ==
  ASSUME NEW ch, NEW i, NEW V, Well(ch, i, V), Pop
  PROVE  IsWell'
<1>1. mode = "run" /\ CodeOp = "POP"
  <2>1. At({"POP"})
    BY DEF Pop
  <2> QED
    BY <2>1, AtRuns
<1>2. PICK t, l : /\ t \in Seq(Types) /\ l \in Seq(Types) /\ Row(CodeOp, CodeArg, t, l)
                  /\ Len(t) = 1 /\ Len(l) = 0
  <2>1. Row(CodeOp, CodeArg, <<"any">>, <<>>)
    BY <1>1, MoreTable
  <2>2. <<"any">> \in Seq(Types) /\ <<>> \in Seq(Types)
    BY ShortTypes, AnysTypes
  <2>3. Len(<<"any">>) = 1 /\ Len(<<>>) = 0
    BY AnysTypes DEF Anys
  <2> QED
    BY <2>1, <2>2, <2>3
<1>3. Len(t) = 1 /\ Len(l) = 0
  BY <1>2
<1>4. GoOrThrow(Popped(1)) /\ Grows(V, V)
  BY <1>1, GrowsSame DEF Pop, GoOrThrow, Cells, WithArgument, ByPosition, Branching, Jumps
<1>5. Well(ch, i, V)'
  <2>1. Len(l) = Len(t) - 1 /\ (\A j \in 1..Len(l) : l[j] \in {"any", t[j]}) /\ 1 \in Nat
    BY <1>3
  <2> QED
    BY <1>1, <1>2, <1>4, <2>1, SomeOut
<1> QED
  BY <1>5 DEF IsWell

LEMMA DupWell ==
  ASSUME NEW ch, NEW i, NEW V, Well(ch, i, V), Dup
  PROVE  IsWell'
<1>1. mode = "run" /\ CodeOp = "DUP"
  <2>1. At({"DUP"})
    BY DEF Dup
  <2> QED
    BY <2>1, AtRuns
<1>2. PICK t, l : /\ t \in Seq(Types) /\ l \in Seq(Types) /\ Row(CodeOp, CodeArg, t, l)
                  /\ Len(t) = 1 /\ Len(l) = 2 /\ \A j \in 1..2 : l[j] = "any"
  <2>1. Row(CodeOp, CodeArg, <<"any">>, <<"any", "any">>)
    BY <1>1, MoreTable
  <2>2. <<"any">> \in Seq(Types) /\ <<"any", "any">> \in Seq(Types)
    BY ShortTypes, AnysTypes
  <2>3. Len(<<"any">>) = 1 /\ Len(<<"any", "any">>) = 2 /\ \A j \in 1..2 : <<"any", "any">>[j] = "any"
    BY AnysTypes DEF Anys
  <2> QED
    BY <2>1, <2>2, <2>3
<1>3. /\ Len(t) = 1 /\ Len(l) = 2 /\ \A j \in 1..2 : l[j] = "any"
  BY <1>2
<1>4. PICK r : r = <<STK(1)>> /\ r \in Seq(V) /\ Len(r) = 1
  <2>0. \A k \in 1..Len(t) : STK(k) \in V
    BY <1>1, <1>2, Tops
  <2>1. STK(1) \in V
    BY <1>3, <2>0
  <2>2. <<STK(1)>> \in Seq(V) /\ Len(<<STK(1)>>) = 1
    BY <2>1
  <2> QED
    BY <2>2
<1>5. GoOrThrow(Popped(0) \o r) /\ Grows(V, V)
  <2>1. 0 <= Len(me.ops)
    BY <1>1, AtOp
  <2>2. me.ops = Popped(0) /\ Append(me.ops, STK(1)) = Popped(0) \o <<STK(1)>>
    BY <1>1, <2>1, OnTop
  <2>3. Cells(CodeOp) = 1
    BY <1>1 DEF Cells, WithArgument, ByPosition, Branching, Jumps
  <2>4. Go(1, Popped(0) \o r)
    BY <1>4, <2>2 DEF Dup
  <2> QED
    BY <2>3, <2>4, GrowsSame DEF Dup, GoOrThrow
<1>6. Len(l) = Len(t) - 0 + Len(r) /\ \A j \in 1..(Len(t) - 0) : l[j] \in {"any", t[j]}
  BY <1>3, <1>4
<1>7. \A j \in 1..Len(r) : Is(r[j], l[Len(t) - 0 + j])
  BY <1>3, <1>4 DEF Is
<1>8. Well(ch, i, V)'
  <2>1. 0 \in Nat /\ 0 <= Len(t)
    BY <1>3
  <2> QED
    BY <1>1, <1>2, <1>4, <1>5, <1>6, <1>7, <2>1, StraightWell
<1> QED
  BY <1>8 DEF IsWell

LEMMA Dup2Well ==
  ASSUME NEW ch, NEW i, NEW V, Well(ch, i, V), Dup2
  PROVE  IsWell'
<1>1. mode = "run" /\ CodeOp = "DUP2"
  <2>1. At({"DUP2"})
    BY DEF Dup2
  <2> QED
    BY <2>1, AtRuns
<1>2. PICK t, l : /\ t \in Seq(Types) /\ l \in Seq(Types) /\ Row(CodeOp, CodeArg, t, l)
                  /\ Len(t) = 2 /\ Len(l) = 4 /\ \A j \in 1..4 : l[j] = "any"
  <2>1. Row(CodeOp, CodeArg, <<"any", "any">>, Anys(4))
    BY <1>1, MoreTable
  <2>2. <<"any", "any">> \in Seq(Types) /\ Anys(4) \in Seq(Types)
    BY ShortTypes, AnysTypes
  <2>3. Len(<<"any", "any">>) = 2 /\ Len(Anys(4)) = 4 /\ \A j \in 1..4 : Anys(4)[j] = "any"
    BY AnysTypes DEF Anys
  <2> QED
    BY <2>1, <2>2, <2>3
<1>3. /\ Len(t) = 2 /\ Len(l) = 4 /\ \A j \in 1..4 : l[j] = "any"
  BY <1>2
<1>4. PICK r : r = <<STK(2), STK(1)>> /\ r \in Seq(V) /\ Len(r) = 2
  <2>0. \A k \in 1..Len(t) : STK(k) \in V
    BY <1>1, <1>2, Tops
  <2>1. STK(1) \in V /\ STK(2) \in V
    BY <1>3, <2>0
  <2>2. <<STK(2), STK(1)>> \in Seq(V) /\ Len(<<STK(2), STK(1)>>) = 2
    BY <2>1
  <2> QED
    BY <2>2
<1>5. GoOrThrow(Popped(0) \o r) /\ Grows(V, V)
  <2>1. 0 <= Len(me.ops)
    BY <1>1, AtOp
  <2>2. me.ops = Popped(0) /\ Append(me.ops, STK(1)) = Popped(0) \o <<STK(1)>>
    BY <1>1, <2>1, OnTop
  <2>3. Cells(CodeOp) = 1
    BY <1>1 DEF Cells, WithArgument, ByPosition, Branching, Jumps
  <2>4. Go(1, Popped(0) \o r)
    BY <1>4, <2>2 DEF Dup2
  <2> QED
    BY <2>3, <2>4, GrowsSame DEF Dup2, GoOrThrow
<1>6. Len(l) = Len(t) - 0 + Len(r) /\ \A j \in 1..(Len(t) - 0) : l[j] \in {"any", t[j]}
  BY <1>3, <1>4
<1>7. \A j \in 1..Len(r) : Is(r[j], l[Len(t) - 0 + j])
  BY <1>3, <1>4 DEF Is
<1>8. Well(ch, i, V)'
  <2>1. 0 \in Nat /\ 0 <= Len(t)
    BY <1>3
  <2> QED
    BY <1>1, <1>2, <1>4, <1>5, <1>6, <1>7, <2>1, StraightWell
<1> QED
  BY <1>8 DEF IsWell

LEMMA XchgWell ==
  ASSUME NEW ch, NEW i, NEW V, Well(ch, i, V), Xchg
  PROVE  IsWell'
<1>1. mode = "run" /\ CodeOp = "XCHG"
  <2>1. At({"XCHG"})
    BY DEF Xchg
  <2> QED
    BY <2>1, AtRuns
<1>2. PICK t, l : /\ t \in Seq(Types) /\ l \in Seq(Types) /\ Row(CodeOp, CodeArg, t, l)
                  /\ Len(t) = 2 /\ Len(l) = 2 /\ \A j \in 1..2 : l[j] = "any"
  <2>1. Row(CodeOp, CodeArg, <<"any", "any">>, <<"any", "any">>)
    BY <1>1, MoreTable
  <2>2. <<"any", "any">> \in Seq(Types) /\ <<"any", "any">> \in Seq(Types)
    BY ShortTypes, AnysTypes
  <2>3. Len(<<"any", "any">>) = 2 /\ Len(<<"any", "any">>) = 2 /\ \A j \in 1..2 : <<"any", "any">>[j] = "any"
    BY AnysTypes DEF Anys
  <2> QED
    BY <2>1, <2>2, <2>3
<1>3. /\ Len(t) = 2 /\ Len(l) = 2 /\ \A j \in 1..Len(l) : l[j] = "any"
  BY <1>2
<1>4. PICK r : r = <<STK(1), STK(2)>> /\ r \in Seq(V) /\ Len(r) = Len(t)
  <2>0. \A k \in 1..Len(t) : STK(k) \in V
    BY <1>1, <1>2, Tops
  <2>1. STK(1) \in V /\ STK(2) \in V
    BY <1>3, <2>0
  <2>2. <<STK(1), STK(2)>> \in Seq(V) /\ Len(<<STK(1), STK(2)>>) = 2
    BY <2>1 DEF Rotated
  <2> QED
    BY <1>3, <2>2
<1>5. GoOrThrow(Popped(Len(t)) \o r) /\ Grows(V, V)
  <2>1. Cells(CodeOp) = 1
    BY <1>1 DEF Cells, WithArgument, ByPosition, Branching, Jumps
  <2>2. Go(1, Popped(Len(t)) \o r)
    BY <1>3, <1>4 DEF Xchg
  <2> QED
    BY <2>1, <2>2, GrowsSame DEF Xchg, GoOrThrow
<1>6. Well(ch, i, V)'
  BY <1>1, <1>2, <1>3, <1>4, <1>5, Exchanged
<1> QED
  BY <1>6 DEF IsWell

LEMMA Xchg2Well ==
  ASSUME NEW ch, NEW i, NEW V, Well(ch, i, V), Xchg2
  PROVE  IsWell'
<1>1. mode = "run" /\ CodeOp = "XCHG2"
  <2>1. At({"XCHG2"})
    BY DEF Xchg2
  <2> QED
    BY <2>1, AtRuns
<1>2. PICK t, l : /\ t \in Seq(Types) /\ l \in Seq(Types) /\ Row(CodeOp, CodeArg, t, l)
                  /\ Len(t) = 3 /\ Len(l) = 3 /\ \A j \in 1..3 : l[j] = "any"
  <2>1. Row(CodeOp, CodeArg, <<"any", "any", "any">>, Anys(3))
    BY <1>1, MoreTable
  <2>2. <<"any", "any", "any">> \in Seq(Types) /\ Anys(3) \in Seq(Types)
    BY ShortTypes, AnysTypes
  <2>3. Len(<<"any", "any", "any">>) = 3 /\ Len(Anys(3)) = 3 /\ \A j \in 1..3 : Anys(3)[j] = "any"
    BY AnysTypes DEF Anys
  <2> QED
    BY <2>1, <2>2, <2>3
<1>3. /\ Len(t) = 3 /\ Len(l) = 3 /\ \A j \in 1..Len(l) : l[j] = "any"
  BY <1>2
<1>4. PICK r : r = Rotated /\ r \in Seq(V) /\ Len(r) = Len(t)
  <2>0. \A k \in 1..Len(t) : STK(k) \in V
    BY <1>1, <1>2, Tops
  <2>1. STK(1) \in V /\ STK(2) \in V /\ STK(3) \in V
    BY <1>3, <2>0
  <2>2. Rotated \in Seq(V) /\ Len(Rotated) = 3
    BY <2>1 DEF Rotated
  <2> QED
    BY <1>3, <2>2
<1>5. GoOrThrow(Popped(Len(t)) \o r) /\ Grows(V, V)
  <2>1. Cells(CodeOp) = 1
    BY <1>1 DEF Cells, WithArgument, ByPosition, Branching, Jumps
  <2>2. Go(1, Popped(Len(t)) \o r)
    BY <1>3, <1>4 DEF Xchg2
  <2> QED
    BY <2>1, <2>2, GrowsSame DEF Xchg2, GoOrThrow
<1>6. Well(ch, i, V)'
  BY <1>1, <1>2, <1>3, <1>4, <1>5, Exchanged
<1> QED
  BY <1>6 DEF IsWell

LEMMA BinOpWell ==
  ASSUME NEW ch, NEW i, NEW V, Well(ch, i, V), BinOp
  PROVE  IsWell'
<1>1. mode = "run" /\ CodeOp \in ArithOps
  <2>1. At(ArithOps)
    BY DEF BinOp
  <2> QED
    BY <2>1, AtRuns
<1>2. PICK t : /\ t \in Seq(Types) /\ Row(CodeOp, CodeArg, t, <<"any">>) /\ Len(t) = 2
  <2>1. Row(CodeOp, CodeArg, <<"any", "any">>, <<"any">>)
    BY <1>1, Table DEF TwoToOne
  <2>2. <<"any", "any">> \in Seq(Types) /\ Len(<<"any", "any">>) = 2
    BY ShortTypes
  <2> QED
    BY <2>1, <2>2
<1>3. PICK v : v = Arith(CodeOp, Numify(STK(2)), Numify(STK(1))) /\ v[1] = "num"
  <2>1. Arith(CodeOp, Numify(STK(2)), Numify(STK(1)))[1] = "num"
    BY <1>1 DEF ArithOps, Arith, Num, Bool
  <2> QED
    BY <2>1
<1>4. GoOrThrow(Append(Popped(2), v))
  <2>1. Cells(CodeOp) = 1
    BY <1>1 DEF Cells, WithArgument, ByPosition, Branching, Jumps, ArithOps
  <2> QED
    BY <1>3, <2>1 DEF BinOp, GoOrThrow
<1>5. UNCHANGED heap
  BY DEF BinOp
<1>6. v[1] \in {"num", "str", "nil", "end"} /\ GoOrThrow(Append(Popped(Len(t)), v))
  BY <1>2, <1>3, <1>4
<1>7. mode = "run" /\ t \in Seq(Types) /\ Row(CodeOp, CodeArg, t, <<"any">>)
  BY <1>1, <1>2
<1> QED
  BY <1>5, <1>6, <1>7, ScalarOut

LEMMA EqualityWell ==
  ASSUME NEW ch, NEW i, NEW V, Well(ch, i, V), Equality
  PROVE  IsWell'
<1>1. mode = "run" /\ CodeOp \in {"EQ", "NEQ"}
  <2>1. At({"EQ", "NEQ"})
    BY DEF Equality
  <2> QED
    BY <2>1, AtRuns
<1>2. PICK t : /\ t \in Seq(Types) /\ Row(CodeOp, CodeArg, t, <<"any">>) /\ Len(t) = 2
  <2>1. Row(CodeOp, CodeArg, <<"any", "any">>, <<"any">>)
    BY <1>1, Table DEF TwoToOne
  <2>2. <<"any", "any">> \in Seq(Types) /\ Len(<<"any", "any">>) = 2
    BY ShortTypes
  <2> QED
    BY <2>1, <2>2
<1>3. PICK v : v = Bool(NaEqual(STK(2), STK(1)) <=> CodeOp = "EQ") /\ v[1] = "num"
  <2>1. Bool(NaEqual(STK(2), STK(1)) <=> CodeOp = "EQ")[1] = "num"
    BY <1>1 DEF Num, Bool
  <2> QED
    BY <2>1
<1>4. GoOrThrow(Append(Popped(2), v))
  <2>1. Cells(CodeOp) = 1
    BY <1>1 DEF Cells, WithArgument, ByPosition, Branching, Jumps, ArithOps
  <2> QED
    BY <1>3, <2>1 DEF Equality, GoOrThrow
<1>5. UNCHANGED heap
  BY DEF Equality
<1>6. v[1] \in {"num", "str", "nil", "end"} /\ GoOrThrow(Append(Popped(Len(t)), v))
  BY <1>2, <1>3, <1>4
<1>7. mode = "run" /\ t \in Seq(Types) /\ Row(CodeOp, CodeArg, t, <<"any">>)
  BY <1>1, <1>2
<1> QED
  BY <1>5, <1>6, <1>7, ScalarOut

LEMMA NegWell ==
  ASSUME NEW ch, NEW i, NEW V, Well(ch, i, V), Neg
  PROVE  IsWell'
<1>1. mode = "run" /\ CodeOp = "NEG"
  <2>1. At({"NEG"})
    BY DEF Neg
  <2> QED
    BY <2>1, AtRuns
<1>2. PICK t : /\ t \in Seq(Types) /\ Row(CodeOp, CodeArg, t, <<"any">>) /\ Len(t) = 1
  <2>1. Row(CodeOp, CodeArg, <<"any">>, <<"any">>)
    BY <1>1, Table DEF OneToOne
  <2>2. <<"any">> \in Seq(Types) /\ Len(<<"any">>) = 1
    BY ShortTypes
  <2> QED
    BY <2>1, <2>2
<1>3. PICK v : v = Num(0 - Numify(STK(1))) /\ v[1] = "num"
  <2>1. Num(0 - Numify(STK(1)))[1] = "num"
    BY <1>1 DEF Num
  <2> QED
    BY <2>1
<1>4. GoOrThrow(Append(Popped(1), v))
  <2>1. Cells(CodeOp) = 1
    BY <1>1 DEF Cells, WithArgument, ByPosition, Branching, Jumps, ArithOps
  <2> QED
    BY <1>3, <2>1 DEF Neg, GoOrThrow
<1>5. UNCHANGED heap
  BY DEF Neg
<1>6. v[1] \in {"num", "str", "nil", "end"} /\ GoOrThrow(Append(Popped(Len(t)), v))
  BY <1>2, <1>3, <1>4
<1>7. mode = "run" /\ t \in Seq(Types) /\ Row(CodeOp, CodeArg, t, <<"any">>)
  BY <1>1, <1>2
<1> QED
  BY <1>5, <1>6, <1>7, ScalarOut

LEMMA NotWell ==
  ASSUME NEW ch, NEW i, NEW V, Well(ch, i, V), Not
  PROVE  IsWell'
<1>1. mode = "run" /\ CodeOp = "NOT"
  <2>1. At({"NOT"})
    BY DEF Not
  <2> QED
    BY <2>1, AtRuns
<1>2. PICK t : /\ t \in Seq(Types) /\ Row(CodeOp, CodeArg, t, <<"any">>) /\ Len(t) = 1
  <2>1. Row(CodeOp, CodeArg, <<"any">>, <<"any">>)
    BY <1>1, Table DEF OneToOne
  <2>2. <<"any">> \in Seq(Types) /\ Len(<<"any">>) = 1
    BY ShortTypes
  <2> QED
    BY <2>1, <2>2
<1>3. PICK v : v = Bool(~Boolify(STK(1))) /\ v[1] = "num"
  <2>1. Bool(~Boolify(STK(1)))[1] = "num"
    BY <1>1 DEF Num, Bool
  <2> QED
    BY <2>1
<1>4. GoOrThrow(Append(Popped(1), v))
  <2>1. Cells(CodeOp) = 1
    BY <1>1 DEF Cells, WithArgument, ByPosition, Branching, Jumps, ArithOps
  <2> QED
    BY <1>3, <2>1 DEF Not, GoIf, GoOrThrow
<1>5. UNCHANGED heap
  BY DEF Not
<1>6. v[1] \in {"num", "str", "nil", "end"} /\ GoOrThrow(Append(Popped(Len(t)), v))
  BY <1>2, <1>3, <1>4
<1>7. mode = "run" /\ t \in Seq(Types) /\ Row(CodeOp, CodeArg, t, <<"any">>)
  BY <1>1, <1>2
<1> QED
  BY <1>5, <1>6, <1>7, ScalarOut

LEMMA PushWell ==
  ASSUME NEW ch, NEW i, NEW V, Well(ch, i, V), Push
  PROVE  IsWell'
<1>1. mode = "run" /\ CodeOp \in {"PUSHONE", "PUSHZERO", "PUSHNIL", "PUSHEND"}
  <2>1. At({"PUSHONE", "PUSHZERO", "PUSHNIL", "PUSHEND"})
    BY DEF Push, Pushes
  <2> QED
    BY <2>1, AtRuns
<1>2. PICK v, y, t, l : /\ v = Pushes[CodeOp] /\ y \in Types /\ t = <<>> /\ l = <<y>> /\ Is(v, y)
                        /\ v[1] \in {"num", "nil", "end"} /\ Row(CodeOp, CodeArg, t, l)
  <2>1. CASE CodeOp \in {"PUSHONE", "PUSHZERO"}
    <3>1. Row(CodeOp, CodeArg, <<>>, <<"index">>)
      BY <2>1, Table
    <3>2. Is(Pushes[CodeOp], "index") /\ Pushes[CodeOp][1] = "num" /\ "index" \in Types
      BY <2>1 DEF Pushes, Num, Is, IsA, Types
    <3> QED
      BY <3>1, <3>2
  <2>2. CASE CodeOp \in {"PUSHNIL", "PUSHEND"}
    <3>1. Row(CodeOp, CodeArg, <<>>, <<"any">>)
      BY <2>2, Table DEF PushesOne
    <3>2. Is(Pushes[CodeOp], "any") /\ Pushes[CodeOp][1] \in {"nil", "end"} /\ "any" \in Types
      BY <2>2 DEF Pushes, Nil, End, Is, IsA, Types
    <3> QED
      BY <3>1, <3>2
  <2> QED
    BY <1>1, <2>1, <2>2
<1>3. GoOrThrow(Append(Popped(Len(t)), v)) /\ UNCHANGED heap /\ t \in Seq(Types)
  <2>1. Cells(CodeOp) = 1
    BY <1>1 DEF Cells, WithArgument, ByPosition, Branching, Jumps
  <2>2. 0 <= Len(me.ops)
    BY <1>1, AtOp
  <2>3. me.ops = Popped(0)
    BY <1>1, <2>2, OnTop
  <2>4. Len(t) = 0 /\ t \in Seq(Types)
    BY <1>2
  <2>5. Go(1, Append(Popped(0), v)) /\ UNCHANGED heap
    BY <1>2, <2>3 DEF Push
  <2> QED
    BY <2>1, <2>4, <2>5 DEF GoOrThrow
<1>4. PICK W : W = V \cup {v} /\ Grows(V, W) /\ v \in W
  <2>1. Grows(V, V \cup {v})
    BY <1>2, <1>3, GrowsScalar
  <2> QED
    BY <2>1
<1>5. Row(CodeOp, CodeArg, t, <<y>>)
  BY <1>2
<1>6. Well(ch, i, W)'
  BY <1>1, <1>2, <1>3, <1>4, <1>5, OneOut
<1> QED
  BY <1>6 DEF IsWell

-----------------------------------------------------------------------------
(* The objects that an operation makes or changes.                          *)
LEMMA FilledIn ==
  ASSUME NEW V, NEW f, NEW g, \A k \in DOMAIN f : f[k] \in V, \A k \in DOMAIN g : g[k] \in V
  PROVE  \A k \in DOMAIN Filled(f, g) : Filled(f, g)[k] \in V
BY DEF Filled

LEMMA OneIn ==
  ASSUME NEW V, NEW k, NEW v \in V
  PROVE  \A x \in DOMAIN One(k, v) : One(k, v)[x] \in V
BY DEF One

LEMMA GrowsVec ==
  ASSUME NEW ch, NEW i, NEW V, Well(ch, i, V), NEW s \in Seq(V), vecs' = Append(vecs, s),
         UNCHANGED <<hashes, funcs>>
  PROVE  /\ Grows(V, V \cup {Vec(Len(vecs) + 1)}) /\ Len(vecs') = Len(vecs) + 1
<1>1. World(V, vecs, hashes, funcs)
  BY DEF Well
<1>2. World(V \cup {Vec(Len(vecs) + 1)}, Append(vecs, s), hashes, funcs)
  BY <1>1, AddVec
<1>3. Len(Append(vecs, s)) = Len(vecs) + 1
  <2> DEFINE A == Seq(V)
  <2>1. vecs \in Seq(A)
    BY <1>1 DEF World
  <2> HIDE DEF A
  <2> QED
    BY <2>1
<1> QED
  BY <1>2, <1>3 DEF Grows, Extends_

LEMMA GrowsHash ==
  ASSUME NEW ch, NEW i, NEW V, Well(ch, i, V), NEW h, \A k \in DOMAIN h : h[k] \in V,
         hashes' = Append(hashes, h), UNCHANGED <<vecs, funcs>>
  PROVE  /\ Grows(V, V \cup {Hash(Len(hashes) + 1)}) /\ Len(hashes') = Len(hashes) + 1
<1>1. World(V, vecs, hashes, funcs)
  BY DEF Well
<1>2. World(V \cup {Hash(Len(hashes) + 1)}, vecs, Append(hashes, h), funcs)
  BY <1>1, AddHash
<1>3. Len(Append(hashes, h)) = Len(hashes) + 1
  <2>1. PICK S : hashes \in Seq(S)
    BY <1>1 DEF World
  <2> QED
    BY <2>1
<1> QED
  BY <1>2, <1>3 DEF Grows, Extends_

LEMMA GrowsFunc ==
  ASSUME NEW ch, NEW i, NEW V, Well(ch, i, V), NEW f \in Functions_(V),
         funcs' = Append(funcs, f), UNCHANGED <<vecs, hashes>>
  PROVE  /\ Grows(V, V \cup {Func(Len(funcs) + 1)}) /\ Len(funcs') = Len(funcs) + 1
<1>1. World(V, vecs, hashes, funcs)
  BY DEF Well
<1>2. World(V \cup {Func(Len(funcs) + 1)}, vecs, hashes, Append(funcs, f))
  BY <1>1, AddFunc
<1> DEFINE A == Functions_(V)
<1>3. funcs \in Seq(A)
  BY <1>1 DEF World
<1> HIDE DEF A
<1>4. Len(Append(funcs, f)) = Len(funcs) + 1 /\ Extends_(funcs, Append(funcs, f))
  BY <1>3, ExtendsAppend
<1> QED
  BY <1>2, <1>4 DEF Grows

LEMMA PutsVec ==
  ASSUME NEW ch, NEW i, NEW V, Well(ch, i, V), NEW v \in V, IsA(v, "vec"), NEW s \in Seq(V),
         vecs' = [vecs EXCEPT ![v[2]] = s], UNCHANGED <<hashes, funcs>>
  PROVE  Grows(V, V)
<1>1. World(V, vecs, hashes, funcs)
  BY DEF Well
<1>2. v[2] \in DOMAIN vecs
  BY <1>1, VecThere
<1>3. World(V, [vecs EXCEPT ![v[2]] = s], hashes, funcs)
  BY <1>1, <1>2, PutVec
<1> QED
  BY <1>3 DEF Grows, Extends_

LEMMA PutsHash ==
  ASSUME NEW ch, NEW i, NEW V, Well(ch, i, V), NEW h \in V, IsA(h, "hash"), NEW k, NEW v \in V,
         SetHash(h, k, v), UNCHANGED <<vecs, funcs>>
  PROVE  Grows(V, V)
<1> DEFINE new == Filled(One(k, v), hashes[h[2]])
<1>1. World(V, vecs, hashes, funcs)
  BY DEF Well
<1>2. h[2] \in DOMAIN hashes /\ \A x \in DOMAIN hashes[h[2]] : hashes[h[2]][x] \in V
  BY <1>1, HashThere
<1>3. \A x \in DOMAIN new : new[x] \in V
  BY <1>2, FilledIn, OneIn
<1>4. hashes' = [hashes EXCEPT ![h[2]] = new]
  BY DEF SetHash
<1> HIDE DEF new
<1>5. World(V, vecs, hashes', funcs)
  BY <1>1, <1>2, <1>3, <1>4, PutHash
<1> QED
  BY <1>5 DEF Grows, Extends_

(* The values in the objects.                                               *)
LEMMA VecHas ==
  ASSUME NEW ch, NEW i, NEW V, Well(ch, i, V), NEW v \in V, IsA(v, "vec")
  PROVE  v[2] \in DOMAIN vecs /\ VecOf(v) \in Seq(V) /\ Len(VecOf(v)) \in Nat
<1>1. v[2] \in DOMAIN vecs /\ vecs[v[2]] \in Seq(V)
  BY VecThere DEF Well
<1> QED
  BY <1>1 DEF VecOf

LEMMA HashHas ==
  ASSUME NEW ch, NEW i, NEW V, Well(ch, i, V), NEW v \in V, IsA(v, "hash")
  PROVE  v[2] \in DOMAIN hashes /\ \A k \in DOMAIN HashOf(v) : HashOf(v)[k] \in V
BY HashThere DEF Well, HashOf

(* The element at an index that is in bounds.                               *)
LEMMA Numbers ==
  ASSUME NEW v, NEW n \in Nat, InBounds(n, v)
  PROVE  Index(n, v) \in 0..(n - 1)
BY DEF InBounds

LEMMA ElementIn ==
  ASSUME NEW ch, NEW i, NEW V, Well(ch, i, V), NEW v \in V, IsA(v, "vec"), NEW key,
         InBounds(Len(VecOf(v)), key)
  PROVE  ElementAt(v, key) \in V /\ Index(Len(VecOf(v)), key) + 1 \in 1..Len(VecOf(v))
<1> DEFINE x == VecOf(v)
           a == Index(Len(x), key)
<1>1. x \in Seq(V) /\ Len(x) \in Nat
  BY VecHas
<1>2. a \in 0..(Len(x) - 1)
  BY <1>1, Numbers
<1>3. ElementAt(v, key) = x[a + 1]
  BY DEF ElementAt
<1> HIDE DEF x, a
<1>4. a + 1 \in 1..Len(x)
  BY <1>1, <1>2
<1>5. x[a + 1] \in V
  BY <1>1, <1>4
<1> QED
  BY <1>3, <1>4, <1>5 DEF x, a

-----------------------------------------------------------------------------
LEMMA ValueOut ==
  ASSUME NEW ch, NEW i, NEW V, Well(ch, i, V), mode = "run", NEW W, Grows(V, W),
         NEW t \in Seq(Types), NEW y \in Types, Row(CodeOp, CodeArg, t, <<y>>),
         NEW v \in W, Is(v, y), GoOrThrow(Append(Popped(Len(t)), v))
  PROVE  IsWell'
<1>1. Well(ch, i, W)'
  BY OneOut
<1> QED
  BY <1>1 DEF IsWell

LEMMA LessOut ==
  ASSUME NEW ch, NEW i, NEW V, Well(ch, i, V), mode = "run", Grows(V, V),
         NEW t \in Seq(Types), NEW l \in Seq(Types), Row(CodeOp, CodeArg, t, l),
         NEW m \in Nat, Len(l) = Len(t) - m, \A j \in 1..Len(l) : l[j] \in {"any", t[j]},
         GoOrThrow(Popped(m))
  PROVE  IsWell'
<1>1. Well(ch, i, V)'
  BY SomeOut
<1> QED
  BY <1>1 DEF IsWell

LEMMA Thrown ==
  ASSUME NEW ch, NEW i, NEW V, Well(ch, i, V), mode = "run", NEW W, Grows(V, W),
         NEW kind, Throw(kind, me.dieArg)
  PROVE  IsWell'
<1>1. V \subseteq W /\ World(W, vecs', hashes', funcs') /\ Extends_(funcs, funcs')
  BY DEF Grows
<1>2. me.dieArg \in W
  BY <1>1, WellChain DEF Body
<1>3. Well(ch, i, W)'
  BY <1>1, <1>2, ThrowWell
<1> QED
  BY <1>3 DEF IsWell

LEMMA TypeNames == "any" \in Types /\ "vec" \in Types /\ "hash" \in Types /\ "index" \in Types
BY DEF Types

LEMMA Cell == CodeOp \in Straight \ WithArgument => Cells(CodeOp) = 1
BY DEF Cells

(* Operations that make or change vectors and hashes.                       *)
LEMMA CatWell ==
  ASSUME NEW ch, NEW i, NEW V, Well(ch, i, V), Cat
  PROVE  IsWell'
<1>1. mode = "run" /\ CodeOp = "CAT"
  <2>1. At({"CAT"})
    BY DEF Cat
  <2> QED
    BY <2>1, AtRuns
<1>2. PICK t : /\ t \in Seq(Types) /\ Row(CodeOp, CodeArg, t, <<"any">>) /\ Len(t) = 2
  <2>1. Row(CodeOp, CodeArg, <<"any", "any">>, <<"any">>)
    BY <1>1, Table DEF TwoToOne
  <2>2. <<"any", "any">> \in Seq(Types) /\ Len(<<"any", "any">>) = 2
    BY ShortTypes
  <2> QED
    BY <2>1, <2>2
<1>3. STK(1) \in V /\ STK(2) \in V
  <2>1. \A k \in 1..Len(t) : STK(k) \in V
    BY <1>1, <1>2, Tops
  <2> QED
    BY <1>2, <2>1
<1>4. Cells(CodeOp) = 1
  BY <1>1 DEF Cells, WithArgument, ByPosition, Branching, Jumps
<1>5. CASE IsA(STK(2), "vec") /\ IsA(STK(1), "vec")
  <2>1. PICK s : s = VecOf(STK(2)) \o VecOf(STK(1)) /\ s \in Seq(V)
    <3>1. VecOf(STK(2)) \in Seq(V) /\ VecOf(STK(1)) \in Seq(V)
      BY <1>3, <1>5, VecHas
    <3>2. VecOf(STK(2)) \o VecOf(STK(1)) \in Seq(V)
      BY <3>1, ConcatProperties
    <3> QED
      BY <3>2
  <2>2. vecs' = Append(vecs, s) /\ UNCHANGED <<hashes, funcs>>
    BY <1>5, <2>1 DEF Cat
  <2>3. PICK v, W : v = Vec(Len(vecs) + 1) /\ W = V \cup {v} /\ Grows(V, W) /\ Len(vecs') = Len(vecs) + 1
    BY <2>1, <2>2, GrowsVec
  <2>4. Go(1, Append(Popped(2), Vec(Len(vecs'))))
    BY <1>5 DEF Cat
  <2>5. GoOrThrow(Append(Popped(Len(t)), v)) /\ v \in W /\ Is(v, "any")
    BY <1>2, <1>4, <2>3, <2>4 DEF GoOrThrow, Is
  <2>6. mode = "run" /\ t \in Seq(Types) /\ Row(CodeOp, CodeArg, t, <<"any">>) /\ Grows(V, W)
    BY <1>1, <1>2, <2>3
  <2> QED
    BY <2>5, <2>6, TypeNames, ValueOut
<1>6. CASE ~(IsA(STK(2), "vec") /\ IsA(STK(1), "vec"))
  <2>1. UNCHANGED heap
    BY <1>6 DEF Cat, heap
  <2>2. PICK v : v = Str(Stringify(STK(2)) \o Stringify(STK(1))) /\ v[1] \in {"num", "str", "nil", "end"}
    <3>1. Str(Stringify(STK(2)) \o Stringify(STK(1)))[1] = "str"
      BY DEF Str
    <3> QED
      BY <3>1
  <2>3. Go(1, Append(Popped(2), v)) \/ \E kind : Throw(kind, me.dieArg)
    BY <1>6, <2>2 DEF Cat
  <2>4. GoOrThrow(Append(Popped(Len(t)), v))
    BY <1>2, <1>4, <2>3 DEF GoOrThrow
  <2>5. mode = "run" /\ t \in Seq(Types) /\ Row(CodeOp, CodeArg, t, <<"any">>)
    BY <1>1, <1>2
  <2> QED
    BY <2>1, <2>2, <2>4, <2>5, ScalarOut
<1> QED
  BY <1>5, <1>6

LEMMA NewVecWell ==
  ASSUME NEW ch, NEW i, NEW V, Well(ch, i, V), NewVec
  PROVE  IsWell'
<1>1. mode = "run" /\ CodeOp = "NEWVEC"
  <2>1. At({"NEWVEC"})
    BY DEF NewVec
  <2> QED
    BY <2>1, AtRuns
<1>2. PICK t : /\ t \in Seq(Types) /\ Row(CodeOp, CodeArg, t, <<"vec">>) /\ Len(t) = 0
  <2>1. Row(CodeOp, CodeArg, <<>>, <<"vec">>)
    BY <1>1, Table
  <2>2. <<>> \in Seq(Types) /\ Len(<<>>) = 0
    BY ShortTypes
  <2> QED
    BY <2>1, <2>2
<1>3. PICK h : h = <<>> /\ h \in Seq(V)
  <2>1. <<>> \in Seq(V) /\ \A k \in DOMAIN <<>> : <<>>[k] \in V
    OBVIOUS
  <2> QED
    BY <2>1
<1>4. vecs' = Append(vecs, h) /\ UNCHANGED <<hashes, funcs>>
  BY <1>3 DEF NewVec
<1>5. PICK v, W : v = Vec(Len(vecs) + 1) /\ W = V \cup {v} /\ Grows(V, W) /\ Len(vecs') = Len(vecs) + 1
  BY <1>3, <1>4, GrowsVec
<1>6. GoOrThrow(Append(Popped(Len(t)), v)) /\ v \in W /\ Is(v, "vec")
  <2>1. Go(1, Append(me.ops, Vec(Len(vecs'))))
    BY DEF NewVec
  <2>2. Cells(CodeOp) = 1
    BY <1>1 DEF Cells, WithArgument, ByPosition, Branching, Jumps
  <2>3. 0 <= Len(me.ops)
    BY <1>1, AtOp
  <2>4. me.ops = Popped(0)
    BY <1>1, <2>3, OnTop
  <2>5. Go(1, Append(Popped(Len(t)), v))
    BY <1>2, <1>5, <2>1, <2>4
  <2> QED
    BY <1>5, <2>2, <2>5 DEF GoOrThrow, Is, IsA, Vec
<1>7. mode = "run" /\ t \in Seq(Types) /\ Row(CodeOp, CodeArg, t, <<"vec">>) /\ Grows(V, W)
  BY <1>1, <1>2, <1>5
<1> QED
  BY <1>6, <1>7, TypeNames, ValueOut

LEMMA NewHashWell ==
  ASSUME NEW ch, NEW i, NEW V, Well(ch, i, V), NewHash
  PROVE  IsWell'
<1>1. mode = "run" /\ CodeOp = "NEWHASH"
  <2>1. At({"NEWHASH"})
    BY DEF NewHash
  <2> QED
    BY <2>1, AtRuns
<1>2. PICK t : /\ t \in Seq(Types) /\ Row(CodeOp, CodeArg, t, <<"hash">>) /\ Len(t) = 0
  <2>1. Row(CodeOp, CodeArg, <<>>, <<"hash">>)
    BY <1>1, Table
  <2>2. <<>> \in Seq(Types) /\ Len(<<>>) = 0
    BY ShortTypes
  <2> QED
    BY <2>1, <2>2
<1>3. PICK h : h = <<>> /\ \A k \in DOMAIN h : h[k] \in V
  <2>1. <<>> \in Seq(V) /\ \A k \in DOMAIN <<>> : <<>>[k] \in V
    OBVIOUS
  <2> QED
    BY <2>1
<1>4. hashes' = Append(hashes, h) /\ UNCHANGED <<vecs, funcs>>
  BY <1>3 DEF NewHash
<1>5. PICK v, W : v = Hash(Len(hashes) + 1) /\ W = V \cup {v} /\ Grows(V, W) /\ Len(hashes') = Len(hashes) + 1
  BY <1>3, <1>4, GrowsHash
<1>6. GoOrThrow(Append(Popped(Len(t)), v)) /\ v \in W /\ Is(v, "hash")
  <2>1. Go(1, Append(me.ops, Hash(Len(hashes'))))
    BY DEF NewHash
  <2>2. Cells(CodeOp) = 1
    BY <1>1 DEF Cells, WithArgument, ByPosition, Branching, Jumps
  <2>3. 0 <= Len(me.ops)
    BY <1>1, AtOp
  <2>4. me.ops = Popped(0)
    BY <1>1, <2>3, OnTop
  <2>5. Go(1, Append(Popped(Len(t)), v))
    BY <1>2, <1>5, <2>1, <2>4
  <2> QED
    BY <1>5, <2>2, <2>5 DEF GoOrThrow, Is, IsA, Hash
<1>7. mode = "run" /\ t \in Seq(Types) /\ Row(CodeOp, CodeArg, t, <<"hash">>) /\ Grows(V, W)
  BY <1>1, <1>2, <1>5
<1> QED
  BY <1>6, <1>7, TypeNames, ValueOut

LEMMA VAppendWell ==
  ASSUME NEW ch, NEW i, NEW V, Well(ch, i, V), VAppend
  PROVE  IsWell'
<1>1. mode = "run" /\ CodeOp = "VAPPEND"
  <2>1. At({"VAPPEND"})
    BY DEF VAppend
  <2> QED
    BY <2>1, AtRuns
<1>2. PICK t, l : /\ t \in Seq(Types) /\ l \in Seq(Types) /\ Row(CodeOp, CodeArg, t, l)
                  /\ t = <<"vec", "any">> /\ l = <<"vec">>
  <2>1. Row(CodeOp, CodeArg, <<"vec", "any">>, <<"vec">>)
    BY <1>1, Table
  <2>2. <<"vec", "any">> \in Seq(Types) /\ <<"vec">> \in Seq(Types)
    BY ShortTypes
  <2> QED
    BY <2>1, <2>2
<1>3. Len(t) = 2 /\ Len(l) = 1 /\ Len(l) = Len(t) - 1 /\ \A j \in 1..Len(l) : l[j] \in {"any", t[j]}
  BY <1>2
<1>4. STK(1) \in V /\ STK(2) \in V /\ IsA(STK(2), "vec")
  <2>1. \A k \in 1..Len(t) : STK(k) \in V /\ Is(STK(k), t[Len(t) + 1 - k])
    BY <1>1, <1>2, Tops
  <2>2. STK(1) \in V /\ STK(2) \in V /\ Is(STK(2), "vec")
    BY <1>2, <1>3, <2>1
  <2> QED
    BY <2>2 DEF Is
<1>7. Grows(V, V)
  <2>1. PICK s : s = Append(VecOf(STK(2)), STK(1)) /\ s \in Seq(V)
    <3>1. VecOf(STK(2)) \in Seq(V)
      BY <1>4, VecHas
    <3>2. Append(VecOf(STK(2)), STK(1)) \in Seq(V)
      BY <1>4, <3>1
    <3> QED
      BY <3>2
  <2>2. vecs' = [vecs EXCEPT ![STK(2)[2]] = s] /\ UNCHANGED <<hashes, funcs>>
    BY <2>1 DEF VAppend, VecOf
  <2> QED
    BY <1>4, <2>1, <2>2, PutsVec
<1>8. GoOrThrow(Popped(1))
  <2>1. Go(1, Popped(1)) \/ \E kind : Throw(kind, me.dieArg)
    BY DEF VAppend
  <2>2. Cells(CodeOp) = 1
    BY <1>1 DEF Cells, WithArgument, ByPosition, Branching, Jumps
  <2> QED
    BY <2>1, <2>2 DEF GoOrThrow
<1>9. /\ mode = "run" /\ t \in Seq(Types) /\ l \in Seq(Types) /\ Row(CodeOp, CodeArg, t, l)
      /\ Len(l) = Len(t) - 1 /\ \A j \in 1..Len(l) : l[j] \in {"any", t[j]}
      /\ 1 \in Nat
  BY <1>1, <1>2, <1>3
<1> QED
  BY <1>7, <1>8, <1>9, LessOut

LEMMA HAppendWell ==
  ASSUME NEW ch, NEW i, NEW V, Well(ch, i, V), HAppend
  PROVE  IsWell'
<1>1. mode = "run" /\ CodeOp = "HAPPEND"
  <2>1. At({"HAPPEND"})
    BY DEF HAppend
  <2> QED
    BY <2>1, AtRuns
<1>2. PICK t, l : /\ t \in Seq(Types) /\ l \in Seq(Types) /\ Row(CodeOp, CodeArg, t, l)
                  /\ t = <<"hash", "any", "any">> /\ l = <<"hash">>
  <2>1. Row(CodeOp, CodeArg, <<"hash", "any", "any">>, <<"hash">>)
    BY <1>1, Table
  <2>2. <<"hash", "any", "any">> \in Seq(Types) /\ <<"hash">> \in Seq(Types)
    BY ShortTypes
  <2> QED
    BY <2>1, <2>2
<1>3. Len(t) = 3 /\ Len(l) = 1 /\ Len(l) = Len(t) - 2 /\ \A j \in 1..Len(l) : l[j] \in {"any", t[j]}
  BY <1>2
<1>4. STK(1) \in V /\ STK(2) \in V /\ STK(3) \in V /\ IsA(STK(3), "hash")
  <2>1. \A k \in 1..Len(t) : STK(k) \in V /\ Is(STK(k), t[Len(t) + 1 - k])
    BY <1>1, <1>2, Tops
  <2>2. STK(1) \in V /\ STK(2) \in V /\ STK(3) \in V /\ Is(STK(3), "hash")
    BY <1>2, <1>3, <2>1
  <2> QED
    BY <2>2 DEF Is
<1>7. Grows(V, V)
  <2>1. SetHash(STK(3), STK(2), STK(1)) /\ UNCHANGED <<vecs, funcs>>
    BY DEF HAppend
  <2> QED
    BY <1>4, <2>1, PutsHash
<1>8. GoOrThrow(Popped(2))
  <2>1. Go(1, Popped(2)) \/ \E kind : Throw(kind, me.dieArg)
    BY DEF HAppend
  <2>2. Cells(CodeOp) = 1
    BY <1>1 DEF Cells, WithArgument, ByPosition, Branching, Jumps
  <2> QED
    BY <2>1, <2>2 DEF GoOrThrow
<1>9. /\ mode = "run" /\ t \in Seq(Types) /\ l \in Seq(Types) /\ Row(CodeOp, CodeArg, t, l)
      /\ Len(l) = Len(t) - 2 /\ \A j \in 1..Len(l) : l[j] \in {"any", t[j]}
      /\ 2 \in Nat
  BY <1>1, <1>2, <1>3
<1> QED
  BY <1>7, <1>8, <1>9, LessOut

LEMMA SetLocalWell ==
  ASSUME NEW ch, NEW i, NEW V, Well(ch, i, V), SetLocal
  PROVE  IsWell'
<1>1. mode = "run" /\ CodeOp = "SETLOCAL"
  <2>1. At({"SETLOCAL"})
    BY DEF SetLocal
  <2> QED
    BY <2>1, AtRuns
<1>2. PICK t, l : /\ t \in Seq(Types) /\ l \in Seq(Types) /\ Row(CodeOp, CodeArg, t, l)
                  /\ t = <<"any", "any">> /\ l = <<"any">>
  <2>1. Row(CodeOp, CodeArg, <<"any", "any">>, <<"any">>)
    BY <1>1, Table
    DEF TwoToOne
  <2>2. <<"any", "any">> \in Seq(Types) /\ <<"any">> \in Seq(Types)
    BY ShortTypes
  <2> QED
    BY <2>1, <2>2
<1>3. Len(t) = 2 /\ Len(l) = 1 /\ Len(l) = Len(t) - 1 /\ \A j \in 1..Len(l) : l[j] \in {"any", t[j]}
  BY <1>2
<1>4. STK(1) \in V /\ STK(2) \in V
  <2>1. \A k \in 1..Len(t) : STK(k) \in V /\ Is(STK(k), t[Len(t) + 1 - k])
    BY <1>1, <1>2, Tops
  <2>2. STK(1) \in V /\ STK(2) \in V
    BY <1>2, <1>3, <2>1
  <2> QED
    BY <2>2 DEF Is
<1>5. frame.locals \in V /\ IsA(frame.locals, "hash")
  BY <1>1, AtOp DEF CallFrames, OfType
<1>7. Grows(V, V)
  <2>1. SetHash(frame.locals, STK(1), STK(2)) /\ UNCHANGED <<vecs, funcs>>
    BY DEF SetLocal
  <2> QED
    BY <1>4, <1>5, <2>1, PutsHash
<1>8. GoOrThrow(Popped(1))
  <2>1. Go(1, Popped(1)) \/ \E kind : Throw(kind, me.dieArg)
    BY DEF SetLocal
  <2>2. Cells(CodeOp) = 1
    BY <1>1 DEF Cells, WithArgument, ByPosition, Branching, Jumps
  <2> QED
    BY <2>1, <2>2 DEF GoOrThrow
<1>9. /\ mode = "run" /\ t \in Seq(Types) /\ l \in Seq(Types) /\ Row(CodeOp, CodeArg, t, l)
      /\ Len(l) = Len(t) - 1 /\ \A j \in 1..Len(l) : l[j] \in {"any", t[j]}
      /\ 1 \in Nat
  BY <1>1, <1>2, <1>3
<1> QED
  BY <1>7, <1>8, <1>9, LessOut

LEMMA SetMemberWell ==
  ASSUME NEW ch, NEW i, NEW V, Well(ch, i, V), SetMember
  PROVE  IsWell'
<1>1. mode = "run" /\ CodeOp = "SETMEMBER"
  <2>1. At({"SETMEMBER"})
    BY DEF SetMember
  <2> QED
    BY <2>1, AtRuns
<1>2. PICK t, l : /\ t \in Seq(Types) /\ l \in Seq(Types) /\ Row(CodeOp, CodeArg, t, l)
                  /\ t = <<"any", "any", "any">> /\ l = <<"any">>
  <2>1. Row(CodeOp, CodeArg, <<"any", "any", "any">>, <<"any">>)
    BY <1>1, Table
    DEF ThreeToOne
  <2>2. <<"any", "any", "any">> \in Seq(Types) /\ <<"any">> \in Seq(Types)
    BY ShortTypes
  <2> QED
    BY <2>1, <2>2
<1>3. Len(t) = 3 /\ Len(l) = 1 /\ Len(l) = Len(t) - 2 /\ \A j \in 1..Len(l) : l[j] \in {"any", t[j]}
  BY <1>2
<1>4. STK(1) \in V /\ STK(2) \in V /\ STK(3) \in V
  <2>1. \A k \in 1..Len(t) : STK(k) \in V /\ Is(STK(k), t[Len(t) + 1 - k])
    BY <1>1, <1>2, Tops
  <2>2. STK(1) \in V /\ STK(2) \in V /\ STK(3) \in V
    BY <1>2, <1>3, <2>1
  <2> QED
    BY <2>2 DEF Is
<1>7. Grows(V, V)
  <2>1. CASE IsA(STK(2), "hash")
    <3>1. SetHash(STK(2), STK(1), STK(3)) /\ UNCHANGED <<vecs, funcs>>
      BY <2>1 DEF SetMember
    <3> QED
      BY <1>4, <2>1, <3>1, PutsHash
  <2>2. CASE ~IsA(STK(2), "hash")
    <3>1. UNCHANGED heap
      BY <2>2 DEF SetMember, heap
    <3> QED
      BY <3>1, GrowsSame
  <2> QED
    BY <2>1, <2>2
<1>8. GoOrThrow(Popped(2))
  <2>1. Go(1, Popped(2)) \/ \E kind : Throw(kind, me.dieArg)
    BY DEF SetMember
  <2>2. Cells(CodeOp) = 1
    BY <1>1 DEF Cells, WithArgument, ByPosition, Branching, Jumps
  <2> QED
    BY <2>1, <2>2 DEF GoOrThrow
<1>9. /\ mode = "run" /\ t \in Seq(Types) /\ l \in Seq(Types) /\ Row(CodeOp, CodeArg, t, l)
      /\ Len(l) = Len(t) - 2 /\ \A j \in 1..Len(l) : l[j] \in {"any", t[j]}
      /\ 2 \in Nat
  BY <1>1, <1>2, <1>3
<1> QED
  BY <1>7, <1>8, <1>9, LessOut

LEMMA ExtractWell ==
  ASSUME NEW ch, NEW i, NEW V, Well(ch, i, V), Extract
  PROVE  IsWell'
<1>1. mode = "run" /\ CodeOp = "EXTRACT"
  <2>1. At({"EXTRACT"})
    BY DEF Extract
  <2> QED
    BY <2>1, AtRuns
<1>2. PICK t : /\ t \in Seq(Types) /\ Row(CodeOp, CodeArg, t, <<"any">>) /\ Len(t) = 2
  <2>1. Row(CodeOp, CodeArg, <<"any", "any">>, <<"any">>)
    BY <1>1, Table DEF TwoToOne
  <2>2. <<"any", "any">> \in Seq(Types) /\ Len(<<"any", "any">>) = 2
    BY ShortTypes
  <2> QED
    BY <2>1, <2>2
<1>3. STK(1) \in V /\ STK(2) \in V
  <2>1. \A k \in 1..Len(t) : STK(k) \in V
    BY <1>1, <1>2, Tops
  <2> QED
    BY <1>2, <2>1
<1>4. Grows(V, V)
  BY GrowsSame DEF Extract
<1>5. CASE CanIndex(STK(2), STK(1))
  <2>1. PICK v : v = ContainerGet(STK(2), STK(1)) /\ v \in V
    <3>1. CASE IsA(STK(2), "vec")
      <4>1. InBounds(Len(VecOf(STK(2))), STK(1))
        BY <1>5, <3>1 DEF CanIndex, IsA
      <4>2. ElementAt(STK(2), STK(1)) \in V
        BY <1>3, <3>1, <4>1, ElementIn
      <4> QED
        BY <3>1, <4>2 DEF ContainerGet
    <3>2. CASE ~IsA(STK(2), "vec")
      <4>1. IsA(STK(2), "hash")
        BY <1>5, <3>2 DEF CanIndex
      <4>2. \A k \in DOMAIN HashOf(STK(2)) : HashOf(STK(2))[k] \in V
        BY <1>3, <4>1, HashHas
      <4>3. Nil \in V
        BY DEF Well, World
      <4> QED
        BY <3>2, <4>2, <4>3 DEF ContainerGet
    <3> QED
      BY <3>1, <3>2
  <2>2. Go(1, Append(Popped(2), v))
    BY <1>5, <2>1 DEF Extract
  <2>3. GoOrThrow(Append(Popped(Len(t)), v)) /\ Is(v, "any")
    BY <1>1, <1>2, <2>2 DEF GoOrThrow, Is, Cells, WithArgument, ByPosition, Branching, Jumps
  <2>4. mode = "run" /\ t \in Seq(Types) /\ Row(CodeOp, CodeArg, t, <<"any">>) /\ v \in V
    BY <1>1, <1>2, <2>1
  <2> QED
    BY <1>4, <2>3, <2>4, TypeNames, ValueOut
<1>6. CASE ~CanIndex(STK(2), STK(1))
  <2>1. Throw("bad index", me.dieArg)
    BY <1>6 DEF Extract
  <2> QED
    BY <1>1, <1>4, <2>1, Thrown
<1> QED
  BY <1>5, <1>6

LEMMA InsertWell ==
  ASSUME NEW ch, NEW i, NEW V, Well(ch, i, V), Insert
  PROVE  IsWell'
<1>1. mode = "run" /\ CodeOp = "INSERT"
  <2>1. At({"INSERT"})
    BY DEF Insert
  <2> QED
    BY <2>1, AtRuns
<1>2. PICK t, l : /\ t \in Seq(Types) /\ l \in Seq(Types) /\ Row(CodeOp, CodeArg, t, l)
                  /\ t = <<"any", "any", "any">> /\ l = <<"any">>
  <2>1. Row(CodeOp, CodeArg, <<"any", "any", "any">>, <<"any">>)
    BY <1>1, Table
    DEF ThreeToOne
  <2>2. <<"any", "any", "any">> \in Seq(Types) /\ <<"any">> \in Seq(Types)
    BY ShortTypes
  <2> QED
    BY <2>1, <2>2
<1>3. Len(t) = 3 /\ Len(l) = 1 /\ Len(l) = Len(t) - 2 /\ \A j \in 1..Len(l) : l[j] \in {"any", t[j]}
  BY <1>2
<1>4. STK(1) \in V /\ STK(2) \in V /\ STK(3) \in V
  <2>1. \A k \in 1..Len(t) : STK(k) \in V /\ Is(STK(k), t[Len(t) + 1 - k])
    BY <1>1, <1>2, Tops
  <2>2. STK(1) \in V /\ STK(2) \in V /\ STK(3) \in V
    BY <1>2, <1>3, <2>1
  <2> QED
    BY <2>2 DEF Is
<1>7. Grows(V, V)
  <2>1. CASE ~CanIndex(STK(2), STK(1))
    <3>1. UNCHANGED heap
      BY <2>1 DEF Insert, heap
    <3> QED
      BY <3>1, GrowsSame
  <2>2. CASE CanIndex(STK(2), STK(1)) /\ IsA(STK(2), "hash")
    <3>1. SetHash(STK(2), STK(1), STK(3)) /\ UNCHANGED <<vecs, funcs>>
      BY <2>2 DEF Insert
    <3> QED
      BY <1>4, <2>2, <3>1, PutsHash
  <2>3. CASE CanIndex(STK(2), STK(1)) /\ ~IsA(STK(2), "hash")
    <3>1. IsA(STK(2), "vec") /\ InBounds(Len(VecOf(STK(2))), STK(1))
      BY <2>3 DEF CanIndex
    <3>2. PICK x, a : x = VecOf(STK(2)) /\ a = Index(Len(x), STK(1)) + 1 /\ x \in Seq(V) /\ a \in 1..Len(x)
      BY <1>4, <3>1, ElementIn, VecHas
    <3>3. PICK s : s = [x EXCEPT ![a] = STK(3)] /\ s \in Seq(V)
      <4>1. [x EXCEPT ![a] = STK(3)] \in Seq(V)
        BY <1>4, <3>2
      <4> QED
        BY <4>1
    <3>4. vecs' = [vecs EXCEPT ![STK(2)[2]] = s] /\ UNCHANGED <<hashes, funcs>>
      BY <2>3, <3>2, <3>3 DEF Insert, VecOf
    <3> QED
      BY <1>4, <3>1, <3>3, <3>4, PutsVec
  <2> QED
    BY <2>1, <2>2, <2>3
<1>8. GoOrThrow(Popped(2))
  <2>1. Go(1, Popped(2)) \/ \E kind : Throw(kind, me.dieArg)
    BY DEF Insert
  <2>2. Cells(CodeOp) = 1
    BY <1>1 DEF Cells, WithArgument, ByPosition, Branching, Jumps
  <2> QED
    BY <2>1, <2>2 DEF GoOrThrow
<1>9. /\ mode = "run" /\ t \in Seq(Types) /\ l \in Seq(Types) /\ Row(CodeOp, CodeArg, t, l)
      /\ Len(l) = Len(t) - 2 /\ \A j \in 1..Len(l) : l[j] \in {"any", t[j]}
      /\ 2 \in Nat
  BY <1>1, <1>2, <1>3
<1> QED
  BY <1>7, <1>8, <1>9, LessOut

-----------------------------------------------------------------------------
(* Slices, unpacking and loops.                                             *)
LEMMA PartIn ==
  ASSUME NEW V, NEW s \in Seq(V), NEW a \in Int, NEW b \in Int, a >= 1, b <= Len(s)
  PROVE  SubSeq(s, a, b) \in Seq(V)
<1>1. CASE a <= b
  BY <1>1
<1>2. CASE ~(a <= b)
  BY <1>2
<1> QED
  BY <1>1, <1>2

LEMMA PutsMore ==
  ASSUME NEW ch, NEW i, NEW V, Well(ch, i, V), NEW v \in V, IsA(v, "vec"), NEW e \in Seq(V),
         AppendTo(v, e), UNCHANGED <<hashes, funcs>>
  PROVE  Grows(V, V)
<1>1. VecOf(v) \in Seq(V)
  BY VecHas
<1>2. PICK s : s = VecOf(v) \o e /\ s \in Seq(V)
  <2>1. VecOf(v) \o e \in Seq(V)
    BY <1>1, ConcatProperties
  <2> QED
    BY <2>1
<1>3. vecs' = [vecs EXCEPT ![v[2]] = s]
  BY <1>2 DEF AppendTo, VecOf
<1> QED
  BY <1>2, <1>3, PutsVec

LEMMA BoundsIn ==
  ASSUME NEW n \in Nat, NEW b, BoundOK(n, b)
  PROVE  /\ Bound(n, b, 0) \in Int /\ Bound(n, b, 0) >= 0
         /\ Bound(n, b, 0 - 1) \in Int /\ Bound(n, b, 0 - 1) < n
<1>1. CASE b = Nil
  <2>1. Bound(n, b, 0) = 0
    BY <1>1 DEF Bound
  <2>2. Bound(n, b, 0 - 1) = n - 1
    <3>1. CASE n > 0
      <4>1. Bound(n, b, 0 - 1) = (0 - 1) + n
        BY <1>1, <3>1 DEF Bound
      <4> QED
        BY <4>1
    <3>2. CASE ~(n > 0)
      <4>1. Bound(n, b, 0 - 1) = 0 - 1 /\ n = 0
        BY <1>1, <3>2 DEF Bound
      <4> QED
        BY <4>1
    <3> QED
      BY <3>1, <3>2
  <2> QED
    BY <2>1, <2>2
<1>2. CASE b # Nil
  <2>1. Index(n, b) \in 0..(n - 1)
    BY <1>2, Numbers DEF BoundOK
  <2>2. Bound(n, b, 0) = Index(n, b) /\ Bound(n, b, 0 - 1) = Index(n, b)
    BY <1>2 DEF Bound
  <2> QED
    BY <2>1, <2>2
<1> QED
  BY <1>1, <1>2

LEMMA SliceWell ==
  ASSUME NEW ch, NEW i, NEW V, Well(ch, i, V), Slice
  PROVE  IsWell'
<1>1. mode = "run" /\ CodeOp = "SLICE"
  <2>1. At({"SLICE"})
    BY DEF Slice
  <2> QED
    BY <2>1, AtRuns
<1>2. PICK t, l : /\ t \in Seq(Types) /\ l \in Seq(Types) /\ Row(CodeOp, CodeArg, t, l)
                  /\ t = <<"any", "vec", "any">> /\ l = <<"any", "vec">>
  <2>1. Row(CodeOp, CodeArg, <<"any", "vec", "any">>, <<"any", "vec">>)
    BY <1>1, Table
  <2>2. <<"any", "vec", "any">> \in Seq(Types) /\ <<"any", "vec">> \in Seq(Types)
    BY ShortTypes
  <2> QED
    BY <2>1, <2>2
<1>3. Len(t) = 3 /\ Len(l) = 2 /\ Len(l) = Len(t) - 1 /\ \A j \in 1..Len(l) : l[j] \in {"any", t[j]}
  BY <1>2
<1>4. STK(1) \in V /\ STK(2) \in V /\ STK(3) \in V /\ IsA(STK(2), "vec")
  <2>1. \A k \in 1..Len(t) : STK(k) \in V /\ Is(STK(k), t[Len(t) + 1 - k])
    BY <1>1, <1>2, Tops
  <2>2. STK(1) \in V /\ STK(2) \in V /\ STK(3) \in V /\ Is(STK(2), "vec")
    BY <1>2, <1>3, <2>1
  <2> QED
    BY <2>2 DEF Is
<1>7. Grows(V, V)
  <2>1. CASE IsA(STK(3), "vec") /\ InBounds(Len(VecOf(STK(3))), STK(1))
    <3>1. PICK e : e = <<ElementAt(STK(3), STK(1))>> /\ e \in Seq(V)
      <4>1. ElementAt(STK(3), STK(1)) \in V
        BY <1>4, <2>1, ElementIn
      <4>2. <<ElementAt(STK(3), STK(1))>> \in Seq(V)
        BY <4>1
      <4> QED
        BY <4>2
    <3>2. AppendTo(STK(2), e) /\ UNCHANGED <<hashes, funcs>>
      BY <2>1, <3>1 DEF Slice
    <3> QED
      BY <1>4, <3>1, <3>2, PutsMore
  <2>2. CASE ~(IsA(STK(3), "vec") /\ InBounds(Len(VecOf(STK(3))), STK(1)))
    <3>1. UNCHANGED heap
      BY <2>2 DEF Slice, heap
    <3> QED
      BY <3>1, GrowsSame
  <2> QED
    BY <2>1, <2>2
<1>8. GoOrThrow(Popped(1))
  <2>1. Go(1, Popped(1)) \/ \E kind : Throw(kind, me.dieArg)
    BY DEF Slice
  <2>2. Cells(CodeOp) = 1
    BY <1>1 DEF Cells, WithArgument, ByPosition, Branching, Jumps
  <2> QED
    BY <2>1, <2>2 DEF GoOrThrow
<1>9. /\ mode = "run" /\ t \in Seq(Types) /\ l \in Seq(Types) /\ Row(CodeOp, CodeArg, t, l)
      /\ Len(l) = Len(t) - 1 /\ \A j \in 1..Len(l) : l[j] \in {"any", t[j]}
      /\ 1 \in Nat
  BY <1>1, <1>2, <1>3
<1> QED
  BY <1>7, <1>8, <1>9, LessOut

LEMMA Slice2Well ==
  ASSUME NEW ch, NEW i, NEW V, Well(ch, i, V), Slice2
  PROVE  IsWell'
<1>1. mode = "run" /\ CodeOp = "SLICE2"
  <2>1. At({"SLICE2"})
    BY DEF Slice2
  <2> QED
    BY <2>1, AtRuns
<1>2. PICK t, l : /\ t \in Seq(Types) /\ l \in Seq(Types) /\ Row(CodeOp, CodeArg, t, l)
                  /\ t = <<"any", "vec", "any", "any">> /\ l = <<"any", "vec">>
  <2>1. Row(CodeOp, CodeArg, <<"any", "vec", "any", "any">>, <<"any", "vec">>)
    BY <1>1, Table
  <2>2. <<"any", "vec", "any", "any">> \in Seq(Types) /\ <<"any", "vec">> \in Seq(Types)
    BY ShortTypes
  <2> QED
    BY <2>1, <2>2
<1>3. Len(t) = 4 /\ Len(l) = 2 /\ Len(l) = Len(t) - 2 /\ \A j \in 1..Len(l) : l[j] \in {"any", t[j]}
  BY <1>2
<1>4. STK(1) \in V /\ STK(2) \in V /\ STK(3) \in V /\ STK(4) \in V /\ IsA(STK(3), "vec")
  <2>1. \A k \in 1..Len(t) : STK(k) \in V /\ Is(STK(k), t[Len(t) + 1 - k])
    BY <1>1, <1>2, Tops
  <2>2. STK(1) \in V /\ STK(2) \in V /\ STK(3) \in V /\ STK(4) \in V /\ Is(STK(3), "vec")
    BY <1>2, <1>3, <2>1
  <2> QED
    BY <2>2 DEF Is
<1>5. PICK src, n : src = VecOf(STK(4)) /\ n = Len(src)
  OBVIOUS
<1>7. Grows(V, V)
  <2>1. CASE IsA(STK(4), "vec") /\ BoundOK(n, STK(2)) /\ BoundOK(n, STK(1))
    <3>1. src \in Seq(V) /\ n \in Nat
      BY <1>4, <1>5, <2>1, VecHas
    <3>2. PICK a, b : /\ a = Bound(n, STK(2), 0) /\ b = Bound(n, STK(1), 0 - 1)
                      /\ a \in Int /\ a >= 0 /\ b \in Int /\ b < n
      BY <2>1, <3>1, BoundsIn
    <3>3. PICK e : e = SubSeq(src, a + 1, b + 1) /\ e \in Seq(V)
      <4>1. a + 1 \in Int /\ b + 1 \in Int /\ a + 1 >= 1 /\ b + 1 <= Len(src)
        BY <1>5, <3>1, <3>2
      <4>2. SubSeq(src, a + 1, b + 1) \in Seq(V)
        BY <3>1, <4>1, PartIn
      <4> QED
        BY <4>2
    <3>4. AppendTo(STK(3), e) /\ UNCHANGED <<hashes, funcs>>
      BY <1>5, <2>1, <3>2, <3>3 DEF Slice2
    <3> QED
      BY <1>4, <3>3, <3>4, PutsMore
  <2>2. CASE ~(IsA(STK(4), "vec") /\ BoundOK(n, STK(2)) /\ BoundOK(n, STK(1)))
    <3>1. UNCHANGED heap
      BY <1>5, <2>2 DEF Slice2, heap
    <3> QED
      BY <3>1, GrowsSame
  <2> QED
    BY <2>1, <2>2
<1>8. GoOrThrow(Popped(2))
  <2>1. Go(1, Popped(2)) \/ \E kind : Throw(kind, me.dieArg)
    BY DEF Slice2
  <2>2. Cells(CodeOp) = 1
    BY <1>1 DEF Cells, WithArgument, ByPosition, Branching, Jumps
  <2> QED
    BY <2>1, <2>2 DEF GoOrThrow
<1>9. /\ mode = "run" /\ t \in Seq(Types) /\ l \in Seq(Types) /\ Row(CodeOp, CodeArg, t, l)
      /\ Len(l) = Len(t) - 2 /\ \A j \in 1..Len(l) : l[j] \in {"any", t[j]}
      /\ 2 \in Nat
  BY <1>1, <1>2, <1>3
<1> QED
  BY <1>7, <1>8, <1>9, LessOut

LEMMA UnpackWell ==
  ASSUME NEW ch, NEW i, NEW V, Well(ch, i, V), Unpack
  PROVE  IsWell'
<1>1. mode = "run" /\ CodeOp = "UNPACK"
  <2>1. At({"UNPACK"})
    BY DEF Unpack
  <2> QED
    BY <2>1, AtRuns
<1>2. PICK t, l : /\ t \in Seq(Types) /\ l \in Seq(Types) /\ Row(CodeOp, CodeArg, t, l)
                  /\ Len(t) = 1 /\ Len(l) = CodeArg /\ (\A j \in 1..Len(l) : l[j] = "any") /\ CodeArg \in Nat
  <2>1. Row(CodeOp, CodeArg, <<"any">>, Anys(CodeArg))
    BY <1>1, MoreTable
  <2>2. CodeArg \in Nat
    BY <1>1, AtOp DEF WithArgument
  <2>3. <<"any">> \in Seq(Types) /\ Anys(CodeArg) \in Seq(Types) /\ Len(<<"any">>) = 1
    BY <2>2, ShortTypes, AnysTypes
  <2>4. Len(Anys(CodeArg)) = CodeArg /\ \A j \in 1..Len(Anys(CodeArg)) : Anys(CodeArg)[j] = "any"
    BY <2>2, AnysTypes DEF Anys
  <2> QED
    BY <2>1, <2>2, <2>3, <2>4
<1>3. STK(1) \in V
  <2>1. \A k \in 1..Len(t) : STK(k) \in V
    BY <1>1, <1>2, Tops
  <2> QED
    BY <1>2, <2>1
<1>4. Grows(V, V)
  BY GrowsSame DEF Unpack
<1>5. CASE IsA(STK(1), "vec") /\ Len(VecOf(STK(1))) >= CodeArg
  <2>1. PICK r : r = Reverse(SubSeq(VecOf(STK(1)), 1, CodeArg)) /\ r \in Seq(V) /\ Len(r) = CodeArg
    <3>1. PICK s, a : /\ s = SubSeq(VecOf(STK(1)), 1, CodeArg) /\ a = CodeArg
                      /\ s \in Seq(V) /\ Len(s) = a /\ a \in Nat
      <4>1. VecOf(STK(1)) \in Seq(V) /\ Len(VecOf(STK(1))) \in Nat
        BY <1>3, <1>5, VecHas
      <4>2. SubSeq(VecOf(STK(1)), 1, CodeArg) \in Seq(V) /\ Len(SubSeq(VecOf(STK(1)), 1, CodeArg)) = CodeArg
        BY <1>2, <1>5, <4>1
      <4> QED
        BY <1>2, <4>2
    <3>2. Reverse(s) \in Seq(V) /\ Len(Reverse(s)) = a
      BY <3>1 DEF Reverse
    <3> QED
      BY <3>1, <3>2
  <2>2. GoOrThrow(Popped(1) \o r)
    <3>1. Go(2, Popped(1) \o r)
      BY <1>5, <2>1 DEF Unpack
    <3>2. Cells(CodeOp) = 2
      BY <1>1 DEF Cells, WithArgument
    <3> QED
      BY <3>1, <3>2 DEF GoOrThrow
  <2>3. /\ 1 \in Nat /\ 1 <= Len(t) /\ Len(l) = Len(t) - 1 + Len(r)
        /\ \A j \in 1..(Len(t) - 1) : l[j] \in {"any", t[j]}
    BY <1>2, <2>1
  <2>4. \A j \in 1..Len(r) : Is(r[j], l[Len(t) - 1 + j])
    <3>1. ASSUME NEW j \in 1..Len(r) PROVE Len(t) - 1 + j = j /\ l[j] = "any"
      BY <1>2, <2>1
    <3> QED
      BY <3>1 DEF Is
  <2>5. mode = "run" /\ t \in Seq(Types) /\ l \in Seq(Types) /\ Row(CodeOp, CodeArg, t, l) /\ r \in Seq(V)
    BY <1>1, <1>2, <2>1
  <2>6. Well(ch, i, V)'
    BY <1>4, <2>2, <2>3, <2>4, <2>5, StraightWell
  <2> QED
    BY <2>6 DEF IsWell
<1>6. CASE ~(IsA(STK(1), "vec") /\ Len(VecOf(STK(1))) >= CodeArg)
  <2>1. Throw("bad vector", me.dieArg)
    BY <1>6 DEF Unpack
  <2> QED
    BY <1>1, <1>4, <2>1, Thrown
<1> QED
  BY <1>5, <1>6

LEMMA EachWell ==
  ASSUME NEW ch, NEW i, NEW V, Well(ch, i, V), Each
  PROVE  IsWell'
<1>1. mode = "run" /\ CodeOp \in {"EACH", "INDEX"}
  <2>1. At({"EACH", "INDEX"})
    BY DEF Each
  <2> QED
    BY <2>1, AtRuns
<1>2. PICK t, l : /\ t \in Seq(Types) /\ l \in Seq(Types) /\ Row(CodeOp, CodeArg, t, l)
                  /\ Len(t) = 2 /\ t[1] = "any" /\ t[2] = "index"
                  /\ Len(l) = 3 /\ l[1] = "any" /\ l[2] = "index" /\ l[3] = "any"
  <2>1. Row(CodeOp, CodeArg, <<"any", "index">>, <<"any", "index", "any">>)
    BY <1>1, MoreTable
  <2>2. <<"any", "index">> \in Seq(Types) /\ <<"any", "index", "any">> \in Seq(Types)
    BY ShortTypes
  <2>3. PICK t, l : t = <<"any", "index">> /\ l = <<"any", "index", "any">>
    OBVIOUS
  <2>4. t \in Seq(Types) /\ l \in Seq(Types) /\ Row(CodeOp, CodeArg, t, l)
    BY <2>1, <2>2, <2>3
  <2>5. /\ Len(t) = 2 /\ t[1] = "any" /\ t[2] = "index"
        /\ Len(l) = 3 /\ l[1] = "any" /\ l[2] = "index" /\ l[3] = "any"
    BY <2>3
  <2> QED
    BY <2>4, <2>5
<1>3. STK(1) \in V /\ STK(2) \in V /\ IsA(STK(1), "num") /\ STK(1)[2] \in Nat
  <2>1. \A k \in 1..Len(t) : STK(k) \in V /\ Is(STK(k), t[Len(t) + 1 - k])
    BY <1>1, <1>2, Tops
  <2>2. STK(1) \in V /\ STK(2) \in V /\ Is(STK(1), "index")
    BY <1>2, <2>1
  <2> QED
    BY <2>2 DEF Is
<1>4. Grows(V, V) /\ Cells(CodeOp) = 1
  BY <1>1, GrowsSame DEF Each, Cells, WithArgument, ByPosition, Branching, Jumps
<1>5. CASE ~IsA(STK(2), "vec")
  <2>1. Throw("not a vector", me.dieArg)
    BY <1>5 DEF Each
  <2> QED
    BY <1>1, <1>4, <2>1, Thrown
<1>6. CASE IsA(STK(2), "vec") /\ STK(1)[2] >= Len(VecOf(STK(2)))
  <2>1. PICK r : r = <<End>> /\ r \in Seq(V) /\ Len(r) = 1
    <3>1. End \in V
      BY DEF Well, World
    <3>2. <<End>> \in Seq(V) /\ Len(<<End>>) = 1
      BY <3>1
    <3> QED
      BY <3>2
  <2>2. GoOrThrow(Popped(0) \o r)
    <3>1. 0 <= Len(me.ops)
      BY <1>1, AtOp
    <3>2. Append(me.ops, End) = Popped(0) \o <<End>>
      BY <1>1, <3>1, OnTop
    <3>3. Go(1, Append(me.ops, End))
      BY <1>6 DEF Each
    <3> QED
      BY <1>4, <2>1, <3>2, <3>3 DEF GoOrThrow
  <2>3. /\ 0 \in Nat /\ 0 <= Len(t) /\ Len(l) = Len(t) - 0 + Len(r)
        /\ \A j \in 1..(Len(t) - 0) : l[j] \in {"any", t[j]}
    BY <1>2, <2>1
  <2>4. \A j \in 1..Len(r) : Is(r[j], l[Len(t) - 0 + j])
    BY <1>2, <2>1 DEF Is
  <2>5. mode = "run" /\ t \in Seq(Types) /\ l \in Seq(Types) /\ Row(CodeOp, CodeArg, t, l) /\ r \in Seq(V)
    BY <1>1, <1>2, <2>1
  <2>6. Well(ch, i, V)'
    BY <1>4, <2>2, <2>3, <2>4, <2>5, StraightWell
  <2> QED
    BY <2>6 DEF IsWell
<1>7. CASE IsA(STK(2), "vec") /\ ~(STK(1)[2] >= Len(VecOf(STK(2))))
  <2>1. PICK e : e = (IF CodeOp = "INDEX" THEN STK(1) ELSE ElementAt(STK(2), STK(1))) /\ e \in V
    <3>1. VecOf(STK(2)) \in Seq(V) /\ Len(VecOf(STK(2))) \in Nat
      BY <1>3, <1>7, VecHas
    <3>2. InBounds(Len(VecOf(STK(2))), STK(1))
      <4>1. IsNumeric(STK(1)) /\ Numify(STK(1)) = STK(1)[2]
        BY <1>3 DEF IsNumeric, Numify
      <4>2. Index(Len(VecOf(STK(2))), STK(1)) = STK(1)[2]
        BY <1>3, <4>1 DEF Index
      <4> QED
        BY <1>3, <1>7, <3>1, <4>1, <4>2 DEF InBounds
    <3>3. ElementAt(STK(2), STK(1)) \in V
      BY <1>3, <1>7, <3>2, ElementIn
    <3> QED
      BY <1>3, <3>3
  <2>2. PICK v, W : v = Num(STK(1)[2] + 1) /\ W = V \cup {v} /\ Grows(V, W) /\ Is(v, "index")
    <3>1. Num(STK(1)[2] + 1)[1] = "num" /\ Is(Num(STK(1)[2] + 1), "index")
      BY <1>3 DEF Num, Is, IsA
    <3>2. UNCHANGED heap
      BY DEF Each
    <3>3. Grows(V, V \cup {Num(STK(1)[2] + 1)})
      BY <3>1, <3>2, GrowsScalar
    <3> QED
      BY <3>1, <3>3
  <2>3. PICK r : r = <<v, e>> /\ r \in Seq(W) /\ Len(r) = 2
    <3>1. <<v, e>> \in Seq(W) /\ Len(<<v, e>>) = 2
      BY <2>1, <2>2
    <3> QED
      BY <3>1
  <2>4. GoOrThrow(Popped(1) \o r)
    <3>1. Go(1, Popped(1) \o r)
      BY <1>7, <2>1, <2>2, <2>3 DEF Each
    <3> QED
      BY <1>4, <3>1 DEF GoOrThrow
  <2>5. /\ 1 \in Nat /\ 1 <= Len(t) /\ Len(l) = Len(t) - 1 + Len(r)
        /\ \A j \in 1..(Len(t) - 1) : l[j] \in {"any", t[j]}
    BY <1>2, <2>3
  <2>6. \A j \in 1..Len(r) : Is(r[j], l[Len(t) - 1 + j])
    <3>1. r[1] = v /\ r[2] = e
      BY <2>3
    <3>2. Is(r[1], l[2]) /\ Is(r[2], l[3])
      BY <1>2, <2>2, <3>1 DEF Is
    <3>3. \A j \in 1..2 : j = 1 \/ j = 2
      OBVIOUS
    <3> QED
      BY <1>2, <2>3, <3>2, <3>3
  <2>7. mode = "run" /\ t \in Seq(Types) /\ l \in Seq(Types) /\ Row(CodeOp, CodeArg, t, l) /\ Grows(V, W)
    BY <1>1, <1>2, <2>2
  <2>8. Well(ch, i, W)'
    BY <2>3, <2>4, <2>5, <2>6, <2>7, StraightWell
  <2> QED
    BY <2>8 DEF IsWell
<1> QED
  BY <1>5, <1>6, <1>7

-----------------------------------------------------------------------------
(* Constants, and the functions made of them.                               *)
LEMMA PushConstWell ==
  ASSUME NEW ch, NEW i, NEW V, Well(ch, i, V), PushConst
  PROVE  IsWell'
<1>1. mode = "run" /\ CodeOp = "PUSHCONST"
  <2>1. At({"PUSHCONST"})
    BY DEF PushConst
  <2> QED
    BY <2>1, AtRuns
<1>2. PICK t : t \in Seq(Types) /\ Row(CodeOp, CodeArg, t, <<"any">>) /\ Len(t) = 0
  <2>1. Row(CodeOp, CodeArg, <<>>, <<"any">>)
    BY <1>1, Table DEF PushesOne
  <2>2. <<>> \in Seq(Types) /\ Len(<<>>) = 0
    BY ShortTypes
  <2> QED
    BY <2>1, <2>2
<1>3. Cells(CodeOp) = 2
  BY <1>1 DEF Cells, WithArgument
<1>4. me.ops = Popped(0)
  <2>1. 0 <= Len(me.ops)
    BY <1>1, AtOp
  <2> QED
    BY <1>1, <2>1, OnTop
<1>5. IsStatic(Const) \/ (IsA(Const, "code") /\ Const[2] \in DOMAIN Shape)
  <2>1. CodeFits(code) /\ CodeArg \in DOMAIN code.consts
    BY <1>1, AtOp
  <2> QED
    BY <2>1 DEF CodeFits, Const
<1>6. mode = "run" /\ t \in Seq(Types) /\ Row(CodeOp, CodeArg, t, <<"any">>)
  BY <1>1, <1>2
<1>7. CASE IsA(Const, "code")
  <2>1. PICK f : f = BindFunction(Const, frame) /\ f \in Functions_(V)
    <3>1. frame.locals \in OfType(V, "hash") /\ frame.func \in OfType(V, "func")
      <4>1. frame \in CallFrames(V)
        BY <1>1, AtOp
      <4> QED
        BY <4>1 DEF CallFrames
    <3>2. Const[2] \in DOMAIN Shape
      BY <1>5, <1>7 DEF IsStatic, IsA
    <3>3. BindFunction(Const, frame) \in Functions_(V)
      BY <3>1, <3>2 DEF BindFunction, Functions_
    <3> QED
      BY <3>3
  <2>2. funcs' = Append(funcs, f) /\ UNCHANGED <<vecs, hashes>>
    BY <1>7, <2>1 DEF PushConst
  <2>3. PICK v, W : v = Func(Len(funcs) + 1) /\ W = V \cup {v} /\ Grows(V, W) /\ Len(funcs') = Len(funcs) + 1
    BY <2>1, <2>2, GrowsFunc
  <2>4. Go(2, Append(me.ops, v))
    BY <1>7, <2>3 DEF PushConst
  <2>5. GoOrThrow(Append(Popped(Len(t)), v)) /\ v \in W /\ Is(v, "any")
    BY <1>2, <1>3, <1>4, <2>3, <2>4 DEF GoOrThrow, Is
  <2> QED
    BY <1>6, <2>3, <2>5, TypeNames, ValueOut
<1>8. CASE ~IsA(Const, "code")
  <2>1. UNCHANGED heap
    BY <1>8 DEF PushConst, heap
  <2>2. PICK v : v = Const /\ v[1] \in {"num", "str", "nil", "end"}
    BY <1>5, <1>8 DEF IsStatic
  <2>3. Go(2, Append(me.ops, v))
    BY <1>8, <2>2 DEF PushConst
  <2>4. GoOrThrow(Append(Popped(Len(t)), v))
    BY <1>2, <1>3, <1>4, <2>3 DEF GoOrThrow
  <2> QED
    BY <1>6, <2>1, <2>2, <2>4, ScalarOut
<1> QED
  BY <1>7, <1>8

-----------------------------------------------------------------------------
(* Jumps: the operands stay, or the top one goes away.                      *)
LEMMA LessTypes ==
  ASSUME NEW s \in Seq(Types), NEW k \in Nat, k <= Len(s)
  PROVE  Less(s, k) \o <<>> = Less(s, k) /\ Less(s, 0) = s
<1>1. SubSeq(s, 1, Len(s) - k) \in Seq(Types) /\ SubSeq(s, 1, Len(s) - 0) = s
  <2>1. Len(s) - k \in Nat /\ Len(s) - k <= Len(s)
    OBVIOUS
  <2> QED
    BY <2>1
<1>2. \A q \in Seq(Types) : q \o <<>> = q
  OBVIOUS
<1> QED
  BY <1>1, <1>2 DEF Less

LEMMA TakesOne ==
  ASSUME NEW o \in Branching, NEW a
  PROVE  Takes(o, a) = <<"any">>
BY DEF Takes, Branching, OneToOne, TwoToOne, ThreeToOne, ArithOps

LEMMA JumpsLead ==
  ASSUME NEW k \in {0, 1}, NEW ip, CodeOp \in Branching \cup Jumps,
         \/ CodeOp \in Jumps \cup {"JIFTRUE", "JIFNOT"} /\ k = 0 /\ ip = CodeArg
         \/ CodeOp \in {"JIFTRUE", "JIFNOT", "JIFEND"} /\ k = 0 /\ ip = frame.ip + 2
         \/ CodeOp \in {"JIFEND", "JIFNOTPOP"} /\ k = 1 /\ ip = CodeArg
         \/ CodeOp = "JIFNOTPOP" /\ k = 1 /\ ip = frame.ip + 2
  PROVE  LeadsTo(ip, k, <<>>)
<1>1. SUFFICES ASSUME NEW s \in Shapes, Ready(code, frame.ip, s)
               PROVE  /\ k <= Len(s.ts)
                      /\ [ip |-> ip, ts |-> Less(s.ts, k) \o <<>>, ms |-> s.ms] \in After(code, frame.ip, s)
  BY DEF LeadsTo
<1>2. CodeOp = OpAt(code, frame.ip) /\ CodeArg = ArgAt(code, frame.ip)
  BY DEF OpAt, ArgAt, CodeOp, CodeArg
<1>3. k <= Len(s.ts) /\ s.ts \in Seq(Types)
  <2>1. s.ts \in Seq(Types)
    BY DEF Shapes
  <2>2. CASE k = 1
    <3>1. Takes(CodeOp, CodeArg) = <<"any">>
      BY <2>2, TakesOne DEF Branching
    <3>2. PICK t : t = Takes(CodeOp, CodeArg) /\ t \in Seq(Types) /\ Len(t) = 1
      <4>1. <<"any">> \in Seq(Types) /\ Len(<<"any">>) = 1
        BY ShortTypes
      <4> QED
        BY <3>1, <4>1
    <3>3. Len(t) <= Len(s.ts)
      BY <1>1, <1>2, <3>2, ReadyTakes
    <3> QED
      BY <2>1, <2>2, <3>2, <3>3
  <2>3. CASE k = 0
    BY <2>1, <2>3
  <2> QED
    BY <2>2, <2>3
<1>4. Less(s.ts, k) \o <<>> = Less(s.ts, k) /\ Less(s.ts, 0) = s.ts
  BY <1>3, LessTypes
<1>5. [ip |-> ip, ts |-> Less(s.ts, k), ms |-> s.ms] \in After(code, frame.ip, s)
  <2>1. CodeOp \notin Straight
    BY DEF Jumps, Branching, Straight, OneToOne, TwoToOne, ThreeToOne, PushesOne, ByPosition, ByName,
           ArithOps
  <2>2. CASE CodeOp \in Jumps
    BY <1>2, <1>4, <2>1, <2>2 DEF After, Jumps
  <2>3. CASE CodeOp = "JIFEND"
    BY <1>2, <1>4, <2>1, <2>3 DEF After, Jumps
  <2>4. CASE CodeOp = "JIFNOTPOP"
    BY <1>2, <1>4, <2>1, <2>4 DEF After, Jumps
  <2>5. CASE CodeOp \in {"JIFTRUE", "JIFNOT"}
    BY <1>2, <1>4, <2>1, <2>5 DEF After, Jumps
  <2> QED
    BY <2>2, <2>3, <2>4, <2>5 DEF Branching
<1> QED
  BY <1>3, <1>4, <1>5

LEMMA LessWell ==
  ASSUME NEW ch, NEW i, NEW V, Well(ch, i, V), mode = "run", UNCHANGED heap,
         NEW ip \in Nat, NEW k \in {0, 1}, k <= Len(me.ops), LeadsTo(ip, k, <<>>), Goto(ip, Popped(k))
  PROVE  IsWell'
<1> DEFINE s == me.ops
<1>1. s \in Seq(V) /\ Len(s) \in Nat /\ k \in Nat /\ Popped(k) = SubSeq(s, 1, Len(s) - k)
  BY AtOp DEF Popped
<1>2. PICK l : l = <<>> /\ l \in Seq(Types) /\ Len(l) = 0
  <2>1. <<>> \in Seq(Types) /\ Len(<<>>) = 0
    BY ShortTypes
  <2> QED
    BY <2>1
<1>3. PICK ops : ops = Popped(k) /\ ops \in Seq(V) /\ Len(ops) = Len(s) - k /\ SameTo(s, ops, Len(s) - k)
  <2> HIDE DEF s
  <2>1. Len(s) - k \in Nat /\ Len(s) - k <= Len(s)
    BY <1>1 DEF s
  <2>2. SubSeq(s, 1, Len(s) - k) \in Seq(V) /\ Len(SubSeq(s, 1, Len(s) - k)) = Len(s) - k
    BY <1>1, <2>1
  <2>3. \A j \in 1..(Len(s) - k) : SubSeq(s, 1, Len(s) - k)[j] = s[j]
    BY <1>1, <2>1
  <2> QED
    BY <1>1, <2>2, <2>3 DEF SameTo
<1>4. Replaces(s, ops, k, l)
  <2> HIDE DEF s
  <2> QED
    BY <1>1, <1>2, <1>3 DEF Replaces
<1>5. World(V, vecs', hashes', funcs') /\ Extends_(funcs, funcs')
  BY SameHeap
<1>6. LeadsTo(ip, k, l) /\ Goto(ip, ops) /\ V \subseteq V
  BY <1>2, <1>3
<1>7. Well(ch, i, V)'
  BY <1>1, <1>2, <1>3, <1>4, <1>5, <1>6, MovesWell DEF s
<1> QED
  BY <1>7 DEF IsWell

LEMMA TopsOf ==
  ASSUME NEW ch, NEW i, NEW V, Well(ch, i, V), mode = "run", CodeOp \in Branching
  PROVE  1 <= Len(me.ops) /\ STK(1) \in V
<1>1. Takes(CodeOp, CodeArg) = <<"any">>
  BY TakesOne
<1>2. PICK t : t = Takes(CodeOp, CodeArg) /\ t \in Seq(Types) /\ Len(t) = 1
  <2>1. <<"any">> \in Seq(Types) /\ Len(<<"any">>) = 1
    BY ShortTypes
  <2> QED
    BY <1>1, <2>1
<1>3. Len(t) <= Len(me.ops) /\ \A k \in 1..Len(t) : STK(k) \in V
  BY <1>2, OnStack
<1> QED
  BY <1>2, <1>3

LEMMA JumpWell ==
  ASSUME NEW ch, NEW i, NEW V, Well(ch, i, V), Jump
  PROVE  IsWell'
<1>1. mode = "run" /\ CodeOp \in {"JMP", "JMPLOOP"}
  <2>1. At({"JMP", "JMPLOOP"})
    BY DEF Jump
  <2> QED
    BY <2>1, AtRuns
<1>2. 0 <= Len(me.ops) /\ CodeArg \in Nat
  BY <1>1, AtOp DEF WithArgument, Jumps
<1>3. me.ops = Popped(0)
  BY <1>1, <1>2, OnTop
<1>4. LeadsTo(CodeArg, 0, <<>>)
  BY <1>1, JumpsLead DEF Jumps
<1>5. Goto(CodeArg, Popped(0)) /\ UNCHANGED heap
  BY <1>3 DEF Jump
<1> QED
  BY <1>1, <1>2, <1>4, <1>5, LessWell

LEMMA JumpIfEndWell ==
  ASSUME NEW ch, NEW i, NEW V, Well(ch, i, V), JumpIfEnd
  PROVE  IsWell'
<1>1. mode = "run" /\ CodeOp = "JIFEND"
  <2>1. At({"JIFEND"})
    BY DEF JumpIfEnd
  <2> QED
    BY <2>1, AtRuns
<1>2. 0 <= Len(me.ops) /\ 1 <= Len(me.ops) /\ CodeArg \in Nat /\ frame.ip + 2 \in Nat
  BY <1>1, AtOp, TopsOf DEF WithArgument, Branching
<1>3. me.ops = Popped(0) /\ UNCHANGED heap
  BY <1>1, <1>2, OnTop DEF JumpIfEnd
<1>4. CASE STK(1) = End
  <2>1. LeadsTo(CodeArg, 1, <<>>)
    BY <1>1, JumpsLead DEF Branching
  <2>2. Goto(CodeArg, Popped(1))
    BY <1>4 DEF JumpIfEnd
  <2> QED
    BY <1>1, <1>2, <1>3, <2>1, <2>2, LessWell
<1>5. CASE STK(1) # End
  <2>1. LeadsTo(frame.ip + 2, 0, <<>>)
    BY <1>1, JumpsLead DEF Branching
  <2>2. Goto(frame.ip + 2, Popped(0))
    BY <1>3, <1>5 DEF JumpIfEnd, Go
  <2> QED
    BY <1>1, <1>2, <1>3, <2>1, <2>2, LessWell
<1> QED
  BY <1>4, <1>5

LEMMA JumpIfWell ==
  ASSUME NEW ch, NEW i, NEW V, Well(ch, i, V), JumpIf
  PROVE  IsWell'
<1>1. mode = "run" /\ CodeOp \in {"JIFTRUE", "JIFNOT", "JIFNOTPOP"}
  <2>1. At({"JIFTRUE", "JIFNOT", "JIFNOTPOP"})
    BY DEF JumpIf
  <2> QED
    BY <2>1, AtRuns
<1>2. 0 <= Len(me.ops) /\ 1 <= Len(me.ops) /\ CodeArg \in Nat /\ frame.ip + 2 \in Nat
  BY <1>1, AtOp, TopsOf DEF WithArgument, Branching
<1>3. me.ops = Popped(0) /\ UNCHANGED heap
  BY <1>1, <1>2, OnTop DEF JumpIf
<1>4. PICK k \in {0, 1} : k = IF CodeOp = "JIFNOTPOP" THEN 1 ELSE 0
  OBVIOUS
<1>5. LeadsTo(CodeArg, k, <<>>) /\ LeadsTo(frame.ip + 2, k, <<>>)
  BY <1>1, <1>4, JumpsLead DEF Branching
<1>6. k <= Len(me.ops)
  BY <1>2, <1>4
<1>7. Popped(k) = IF CodeOp = "JIFNOTPOP" THEN Popped(1) ELSE me.ops
  BY <1>3, <1>4
<1>8. CASE ~CanBoolify(STK(1))
  <2>1. Throw("not a scalar", me.dieArg)
    BY <1>8 DEF JumpIf
  <2> QED
    BY <1>1, <1>3, <2>1, GrowsSame, Thrown
<1>9. CASE CanBoolify(STK(1)) /\ (Boolify(STK(1)) <=> CodeOp = "JIFTRUE")
  <2>1. Goto(CodeArg, Popped(k))
    BY <1>7, <1>9 DEF JumpIf
  <2> QED
    BY <1>1, <1>2, <1>3, <1>5, <1>6, <2>1, LessWell
<1>10. CASE CanBoolify(STK(1)) /\ ~(Boolify(STK(1)) <=> CodeOp = "JIFTRUE")
  <2>1. Goto(frame.ip + 2, Popped(k))
    BY <1>7, <1>10 DEF JumpIf, Go
  <2> QED
    BY <1>1, <1>2, <1>3, <1>5, <1>6, <2>1, LessWell
<1> QED
  BY <1>8, <1>9, <1>10

-----------------------------------------------------------------------------
(* Marks: the last frame goes on behind itself, with other marks.           *)
MarksGo(x2, marks, ops) ==
  /\ x2.frames = [me.frames EXCEPT ![Len(me.frames)] = GoneTo(me.frames[Len(me.frames)], frame.ip + 1)]
  /\ x2.marks = marks /\ x2.ops = ops

LEMMA MarksWell ==
  ASSUME NEW ch, NEW i, NEW V, Well(ch, i, V), mode = "run",
         NEW marks \in Seq(Nat), Len(marks) <= MAX_MARK_DEPTH,
         NEW ops \in Seq(V), Len(ops) <= MAX_STACK_DEPTH, SetMarks(marks, ops),
         \A x2 : MarksGo(x2, marks, ops) => IsRunning(x2, funcs)
  PROVE  IsWell'
<1>0. Contexts(ctxs) /\ cur \in DOMAIN ctxs /\ me = ctxs[cur] /\ Body(me, V) /\ frame.ip + 1 \in Nat
  BY WellChain, AtOp
<1>1. /\ ctxs' = [ctxs EXCEPT ![cur].frames = Frames(frame.ip + 1), ![cur].marks = marks, ![cur].ops = ops]
      /\ mode' = mode /\ result' = result /\ cur' = cur /\ free' = free /\ UNCHANGED heap
  BY DEF SetMarks
<1> DEFINE x2 == ctxs'[cur]
<1>2. /\ Others(ctxs, ctxs', cur) /\ x2.frames = Frames(frame.ip + 1) /\ x2.ops = ops
      /\ x2.marks = marks /\ x2.waits = me.waits /\ x2.dieArg = me.dieArg
  <2>1. Moved(ctxs, ctxs', cur, Frames(frame.ip + 1), marks, ops)
    BY <1>0, <1>1, AssignMarked
  <2> QED
    BY <1>0, <2>1 DEF Moved
<1> HIDE DEF x2
<1>3. /\ Frames(frame.ip + 1)
           = [me.frames EXCEPT ![Len(me.frames)] = GoneTo(me.frames[Len(me.frames)], frame.ip + 1)]
      /\ x2.frames \in Seq(CallFrames(V)) /\ Len(x2.frames) = Len(me.frames)
  <2>1. PICK ip : ip = frame.ip + 1
    OBVIOUS
  <2>2. ip \in Nat
    BY <1>0, <2>1
  <2>3. /\ Frames(ip) = [me.frames EXCEPT ![Len(me.frames)] = GoneTo(me.frames[Len(me.frames)], ip)]
        /\ Frames(ip) \in Seq(CallFrames(V)) /\ Len(Frames(ip)) = Len(me.frames)
    BY <2>2, FramesIp
  <2> QED
    BY <1>2, <2>1, <2>3
<1>4. Body(x2, V)
  BY <1>0, <1>2, <1>3 DEF Body
<1>5. MarksGo(x2, marks, ops)
  BY <1>2, <1>3 DEF MarksGo
<1>6. IsRunning(x2, funcs)
  BY <1>5
<1>7. World(V, vecs', hashes', funcs') /\ Extends_(funcs, funcs')
  BY <1>1, SameHeap
<1>8. funcs' = funcs /\ result' \in V /\ mode' \in Running
  BY <1>1 DEF heap, Well, Running
<1>9. Well(ch, i, V)'
  BY <1>1, <1>2, <1>4, <1>6, <1>7, <1>8, OneStep DEF Others, x2
<1> QED
  BY <1>9 DEF IsWell

(* Where the frame goes in a shape with the operands ts and the marks ms.    *)
LEMMA MarksLand ==
  ASSUME NEW ch, NEW i, NEW V, Well(ch, i, V), mode = "run", NEW n, NEW sh, NEW mb,
         RunsAs(me, n, sh, mb, funcs), n = Len(me.frames), frame = me.frames[n],
         code = CodeIn(frame, funcs), NEW s, s = sh[n],
         NEW ts \in Seq(Types), NEW ms,
         [ip |-> frame.ip + 1, ts |-> ts, ms |-> ms] \in After(code, frame.ip, s),
         NEW marks, NEW ops, Len(ops) = frame.bp + Len(ts),
         SameTo(me.ops, ops, frame.bp), OpsFit(ops, frame.bp, ts),
         SameTo(me.marks, marks, mb[n]), MarksFit(marks, mb[n], frame.bp, ms),
         Len(marks) = mb[n] + Len(ms)
  PROVE  \A x2 : MarksGo(x2, marks, ops) => IsRunning(x2, funcs)
<1> SUFFICES ASSUME NEW x2, MarksGo(x2, marks, ops) PROVE IsRunning(x2, funcs)
  OBVIOUS
<1> DEFINE y == [ip |-> frame.ip + 1, ts |-> ts, ms |-> ms]
<1>1. y \in After(code, frame.ip, s) /\ y.ip = frame.ip + 1 /\ y.ts = ts /\ y.ms = ms
  OBVIOUS
<1> HIDE DEF y
<1>2. /\ x2.frames = [me.frames EXCEPT ![n] = GoneTo(me.frames[n], y.ip)]
      /\ x2.marks = marks /\ x2.ops = ops
  BY <1>1 DEF MarksGo
<1>3. TopGoes(me, x2, n, frame.bp, mb[n], y.ip, y.ts, y.ms)
  BY <1>1, <1>2 DEF TopGoes
<1>4. World(V, vecs, hashes, funcs) /\ Body(me, V) /\ Framed(me, n, sh, mb, funcs)
  BY AtOp DEF RunsAs
<1>5. y.ts \in Seq(Types)
  BY <1>1
<1>6. LandsIn(x2, n, mb, funcs, y.ts)
  BY <1>1, <1>3, <1>4, <1>5, Lands
<1>7. PICK sh2 : Framed(x2, n, sh2, mb, funcs) /\ Len(sh2[n].ts) = Len(ts)
  BY <1>1, <1>6 DEF LandsIn
<1>8. x2.frames[n].bp = frame.bp
  <2> DEFINE C == CallFrames(V)
  <2>1. me.frames \in Seq(C)
    BY <1>4 DEF Body
  <2> HIDE DEF C
  <2>2. n \in DOMAIN me.frames
    BY <1>4, <2>1 DEF Framed
  <2>3. x2.frames[n] = GoneTo(frame, y.ip)
    BY <1>2, <2>1, <2>2
  <2> QED
    BY <2>3 DEF GoneTo
<1>9. RunsAs(x2, n, sh2, mb, funcs)
  BY <1>2, <1>7, <1>8 DEF RunsAs
<1> QED
  BY <1>9 DEF IsRunning

(* What the code's operation finds: the shape, and the marks that it has.    *)
MarksAt(V, n, sh, mb, s) ==
  /\ RunsAs(me, n, sh, mb, funcs) /\ n = Len(me.frames) /\ frame = me.frames[n]
  /\ code = CodeIn(frame, funcs) /\ s = sh[n]
  /\ s.ts \in Seq(Types) /\ s.ms \in Seq(Nat) /\ Ready(code, frame.ip, s)
  /\ CodeOp = OpAt(code, frame.ip)
  /\ frame.bp \in Nat /\ mb[n] \in Nat /\ frame.ip \in Nat
  /\ me.ops \in Seq(V) /\ Len(me.ops) = frame.bp + Len(s.ts) /\ Len(me.ops) <= MAX_STACK_DEPTH
  /\ me.marks \in Seq(Nat) /\ Len(me.marks) = mb[n] + Len(s.ms) /\ Len(me.marks) <= MAX_MARK_DEPTH
  /\ OpsFit(me.ops, frame.bp, s.ts) /\ MarksFit(me.marks, mb[n], frame.bp, s.ms)

LEMMA InMarks ==
  ASSUME NEW ch, NEW i, NEW V, Well(ch, i, V), mode = "run"
  PROVE  \E n, sh, mb, s : MarksAt(V, n, sh, mb, s)
<1>1. PICK n, sh, mb :
        /\ RunsAs(me, n, sh, mb, funcs) /\ n = Len(me.frames) /\ n \in DOMAIN me.frames
        /\ frame = me.frames[n] /\ code = CodeIn(frame, funcs)
        /\ CodeOp = OpAt(code, frame.ip) /\ CodeArg = ArgAt(code, frame.ip)
  BY InRun
<1>2. World(V, vecs, hashes, funcs) /\ Body(me, V)
  BY AtOp
<1>3. Framed(me, n, sh, mb, funcs) /\ Len(me.ops) = frame.bp + Len(sh[n].ts)
  BY <1>1 DEF RunsAs
<1>4. /\ frame.ip \in Nat /\ frame.bp \in Nat /\ mb[n] \in Nat
      /\ sh[n] \in Shapes /\ Ready(code, frame.ip, sh[n])
  BY <1>1, <1>2, <1>3, Verified
<1>5. /\ OpsFit(me.ops, frame.bp, sh[n].ts) /\ MarksFit(me.marks, mb[n], frame.bp, sh[n].ms)
      /\ Len(me.marks) = mb[n] + Len(sh[n].ms)
  <2>1. n \in 1..n
    BY <1>3 DEF Framed
  <2> QED
    BY <1>1, <1>3, <2>1 DEF Framed
<1>6. sh[n].ts \in Seq(Types) /\ sh[n].ms \in Seq(Nat)
  BY <1>4 DEF Shapes
<1>7. MarksAt(V, n, sh, mb, sh[n])
  BY <1>1, <1>2, <1>3, <1>4, <1>5, <1>6 DEF MarksAt, Body
<1> QED
  BY <1>7

LEMMA OnMarksOnly ==
  ASSUME NEW c, NEW ip, NEW s, OpAt(c, ip) \in OnMarks
  PROVE  /\ OpAt(c, ip) = "MARK" => [ip |-> ip + 1, ts |-> s.ts, ms |-> Append(s.ms, Len(s.ts))] \in After(c, ip, s)
         /\ OpAt(c, ip) = "UNMARK" => [ip |-> ip + 1, ts |-> s.ts, ms |-> Front(s.ms)] \in After(c, ip, s)
         /\ OpAt(c, ip) = "BREAK" =>
              [ip |-> ip + 1, ts |-> SubSeq(s.ts, 1, Last(s.ms)), ms |-> s.ms] \in After(c, ip, s)
         /\ OpAt(c, ip) = "BREAK2" =>
              [ip |-> ip + 1, ts |-> SubSeq(s.ts, 1, Last(s.ms)), ms |-> Front(s.ms)] \in After(c, ip, s)
<1>1. OpAt(c, ip) \notin Straight \cup Jumps
  BY DEF OnMarks, Jumps, Branching, Straight, OneToOne, TwoToOne, ThreeToOne, PushesOne, ByPosition,
         ByName, ArithOps
<1>2. /\ OpAt(c, ip) = "MARK" => [ip |-> ip + 1, ts |-> s.ts, ms |-> Append(s.ms, Len(s.ts))] \in After(c, ip, s)
      /\ OpAt(c, ip) = "UNMARK" => [ip |-> ip + 1, ts |-> s.ts, ms |-> Front(s.ms)] \in After(c, ip, s)
  BY <1>1 DEF After
<1>3. /\ OpAt(c, ip) = "BREAK" =>
              [ip |-> ip + 1, ts |-> SubSeq(s.ts, 1, Last(s.ms)), ms |-> s.ms] \in After(c, ip, s)
      /\ OpAt(c, ip) = "BREAK2" =>
              [ip |-> ip + 1, ts |-> SubSeq(s.ts, 1, Last(s.ms)), ms |-> Front(s.ms)] \in After(c, ip, s)
  BY <1>1 DEF After
<1> QED
  BY <1>2, <1>3

LEMMA MarkWell ==
  ASSUME NEW ch, NEW i, NEW V, Well(ch, i, V), Mark
  PROVE  IsWell'
<1>1. mode = "run" /\ CodeOp = "MARK"
  <2>1. At({"MARK"})
    BY DEF Mark
  <2> QED
    BY <2>1, AtRuns
<1>2. PICK n, sh, mb, s : MarksAt(V, n, sh, mb, s)
  BY <1>1, InMarks
<1>3. CASE Len(me.marks) >= MAX_MARK_DEPTH
  <2>1. Throw("mark stack overflow", me.dieArg) /\ UNCHANGED heap
    BY <1>3 DEF Mark, Error_
  <2> QED
    BY <1>1, <2>1, GrowsSame, Thrown
<1>4. CASE ~(Len(me.marks) >= MAX_MARK_DEPTH)
  <2>1. PICK marks, ms, b, m :
          /\ marks = Append(me.marks, Len(me.ops)) /\ ms = Append(s.ms, Len(s.ts))
          /\ b = frame.bp /\ m = mb[n]
    OBVIOUS
  <2>2. SetMarks(marks, me.ops)
    BY <1>4, <2>1 DEF Mark
  <2>3. /\ me.marks \in Seq(Nat) /\ s.ms \in Seq(Nat) /\ Len(me.marks) = m + Len(s.ms) /\ m \in Nat
        /\ Len(me.ops) = b + Len(s.ts) /\ Len(me.ops) \in Nat /\ b \in Nat /\ Len(s.ts) \in Nat
        /\ MarksFit(me.marks, m, b, s.ms)
    <3>1. /\ me.marks \in Seq(Nat) /\ s.ms \in Seq(Nat) /\ Len(me.marks) = mb[n] + Len(s.ms) /\ mb[n] \in Nat
          /\ Len(me.ops) = frame.bp + Len(s.ts) /\ me.ops \in Seq(V) /\ frame.bp \in Nat
          /\ s.ts \in Seq(Types) /\ MarksFit(me.marks, mb[n], frame.bp, s.ms)
      BY <1>2 DEF MarksAt
    <3>2. Len(me.ops) \in Nat /\ Len(s.ts) \in Nat
      BY <3>1
    <3> QED
      BY <2>1, <3>1, <3>2
  <2>4. marks \in Seq(Nat) /\ Len(marks) = Len(me.marks) + 1 /\ Len(ms) = Len(s.ms) + 1 /\ DOMAIN ms = 1..Len(ms)
    BY <2>1, <2>3
  <2>5. MAX_MARK_DEPTH \in Nat /\ Len(marks) <= MAX_MARK_DEPTH
    BY <1>4, <2>3, <2>4, BoundsAssumption
  <2>6. MarksFit(marks, m, b, ms)
    <3>1. SUFFICES ASSUME NEW k \in DOMAIN ms PROVE marks[m + k] = b + ms[k]
      BY DEF MarksFit
    <3>2. CASE k = Len(ms)
      <4>1. marks[Len(me.marks) + 1] = Len(me.ops) /\ ms[Len(s.ms) + 1] = Len(s.ts)
        BY <2>1, <2>3
      <4>2. m + k = Len(me.marks) + 1
        BY <2>3, <2>4, <3>2
      <4> QED
        BY <2>3, <2>4, <3>2, <4>1, <4>2
    <3>3. CASE k # Len(ms)
      <4>0. Len(s.ms) \in Nat /\ DOMAIN s.ms = 1..Len(s.ms) /\ k \in 1..(Len(s.ms) + 1) /\ k # Len(s.ms) + 1
        BY <2>3, <2>4, <3>1, <3>3
      <4>1. k \in 1..Len(s.ms) /\ k \in DOMAIN s.ms /\ m + k \in 1..Len(me.marks)
        <5> DEFINE p == Len(s.ms)  q == Len(me.marks)
        <5>1. p \in Nat /\ m \in Nat /\ q = m + p /\ k \in 1..(p + 1) /\ k # p + 1 /\ DOMAIN s.ms = 1..p
          BY <2>3, <4>0
        <5> HIDE DEF p, q
        <5>2. k \in 1..p /\ k \in DOMAIN s.ms /\ m + k \in 1..q
          BY <5>1
        <5> QED
          BY <5>2 DEF p, q
      <4>2. marks[m + k] = me.marks[m + k] /\ ms[k] = s.ms[k]
        BY <2>1, <2>3, <4>1
      <4>3. me.marks[m + k] = b + s.ms[k]
        BY <2>3, <4>1 DEF MarksFit
      <4> QED
        BY <4>2, <4>3
    <3> QED
      BY <3>2, <3>3
  <2>7. SameTo(me.marks, marks, m)
    <3>1. \A k \in 1..m : k \in 1..Len(me.marks)
      BY <2>3
    <3> QED
      BY <2>1, <2>3, <3>1 DEF SameTo
  <2>8. Len(marks) = m + Len(ms)
    BY <2>3, <2>4
  <2>9. [ip |-> frame.ip + 1, ts |-> s.ts, ms |-> ms] \in After(code, frame.ip, s)
    <3>1. OpAt(code, frame.ip) = "MARK" /\ OpAt(code, frame.ip) \in OnMarks
      BY <1>1, <1>2 DEF MarksAt, OnMarks
    <3> QED
      BY <2>1, <3>1, OnMarksOnly
  <2>10. OpsFit(me.ops, frame.bp, s.ts) /\ SameTo(me.ops, me.ops, frame.bp)
    BY <1>2 DEF MarksAt, SameTo
  <2>11. /\ RunsAs(me, n, sh, mb, funcs) /\ n = Len(me.frames) /\ frame = me.frames[n]
         /\ code = CodeIn(frame, funcs) /\ s = sh[n] /\ s.ts \in Seq(Types)
    BY <1>2 DEF MarksAt
  <2>12. \A x2 : MarksGo(x2, marks, me.ops) => IsRunning(x2, funcs)
    BY <1>1, <2>1, <2>3, <2>6, <2>7, <2>8, <2>9, <2>10, <2>11, MarksLand, Zenon
  <2>13. me.ops \in Seq(V) /\ Len(me.ops) <= MAX_STACK_DEPTH
    BY <1>2 DEF MarksAt
  <2> QED
    BY <1>1, <2>2, <2>4, <2>5, <2>12, <2>13, MarksWell
<1> QED
  BY <1>3, <1>4

LEMMA FrontOf ==
  ASSUME NEW V, NEW z \in Seq(V), Len(z) >= 1
  PROVE  /\ Front(z) \in Seq(V) /\ Len(Front(z)) = Len(z) - 1 /\ DOMAIN Front(z) = 1..Len(Front(z))
         /\ \A k \in 1..(Len(z) - 1) : Front(z)[k] = z[k]
<1> DEFINE n == Len(z) - 1
<1>1. Front(z) = SubSeq(z, 1, n)
  BY DEF Front
<1>4. n \in Nat /\ n <= Len(z)
  OBVIOUS
<1> HIDE DEF n
<1>2. SubSeq(z, 1, n) \in Seq(V) /\ Len(SubSeq(z, 1, n)) = n
  BY <1>4
<1>3. \A k \in 1..n : SubSeq(z, 1, n)[k] = z[k]
  BY <1>4
<1>5. DOMAIN SubSeq(z, 1, n) = 1..n
  BY <1>2
<1> USE DEF n
<1> QED
  BY <1>1, <1>2, <1>3, <1>5

(* The last mark is that of the shape; without it the marks fit still.       *)
LEMMA LastMark ==
  ASSUME NEW V, NEW n, NEW sh, NEW mb, NEW s, MarksAt(V, n, sh, mb, s), s.ms # <<>>
  PROVE  /\ Last(me.marks) = frame.bp + Last(s.ms) /\ Last(s.ms) \in Nat
         /\ Front(me.marks) \in Seq(Nat) /\ Len(Front(me.marks)) <= MAX_MARK_DEPTH
         /\ SameTo(me.marks, Front(me.marks), mb[n])
         /\ MarksFit(Front(me.marks), mb[n], frame.bp, Front(s.ms))
         /\ Len(Front(me.marks)) = mb[n] + Len(Front(s.ms))
<1>1. PICK mk, ms, b, m : mk = me.marks /\ ms = s.ms /\ b = frame.bp /\ m = mb[n]
  OBVIOUS
<1>2. /\ mk \in Seq(Nat) /\ ms \in Seq(Nat) /\ Len(mk) = m + Len(ms) /\ m \in Nat /\ b \in Nat
      /\ MarksFit(mk, m, b, ms) /\ ms # <<>> /\ Len(mk) <= MAX_MARK_DEPTH
  BY <1>1 DEF MarksAt
<1>3. Len(ms) \in Nat /\ Len(ms) >= 1 /\ DOMAIN ms = 1..Len(ms)
  BY <1>2
<1>4. Last(mk) = b + Last(ms) /\ Last(ms) \in Nat
  <2>1. Len(ms) \in DOMAIN ms
    BY <1>3
  <2>2. mk[m + Len(ms)] = b + ms[Len(ms)]
    BY <1>2, <2>1 DEF MarksFit
  <2> QED
    BY <1>2, <1>3, <2>1, <2>2 DEF Last
<1>5. PICK fk, fs : /\ fk = Front(mk) /\ fs = Front(ms)
                    /\ fk \in Seq(Nat) /\ Len(fk) = Len(mk) - 1 /\ Len(fs) = Len(ms) - 1 /\ DOMAIN fs = 1..Len(fs)
                    /\ (\A k \in 1..(Len(mk) - 1) : fk[k] = mk[k]) /\ (\A k \in 1..(Len(ms) - 1) : fs[k] = ms[k])
  <2>1. Len(mk) >= 1
    BY <1>2, <1>3
  <2>2. /\ Front(mk) \in Seq(Nat) /\ Len(Front(mk)) = Len(mk) - 1
        /\ \A k \in 1..(Len(mk) - 1) : Front(mk)[k] = mk[k]
    BY <1>2, <2>1, FrontOf
  <2>3. /\ Len(Front(ms)) = Len(ms) - 1 /\ DOMAIN Front(ms) = 1..Len(Front(ms))
        /\ \A k \in 1..(Len(ms) - 1) : Front(ms)[k] = ms[k]
    BY <1>2, <1>3, FrontOf, Zenon
  <2> QED
    BY <2>2, <2>3
<1>6. SameTo(mk, fk, m)
  <2>1. \A k \in 1..m : k \in 1..(Len(mk) - 1)
    BY <1>2, <1>3
  <2> QED
    BY <1>5, <2>1 DEF SameTo
<1>7. MarksFit(fk, m, b, fs)
  <2>1. SUFFICES ASSUME NEW k \in DOMAIN fs PROVE fk[m + k] = b + fs[k]
    BY DEF MarksFit
  <2>2. k \in 1..(Len(ms) - 1)
    BY <1>5, <2>1
  <2>3. k \in DOMAIN ms /\ m + k \in 1..(Len(mk) - 1)
    <3> DEFINE p == Len(ms)  q == Len(mk)
    <3>1. p \in Nat /\ m \in Nat /\ q = m + p /\ k \in 1..(p - 1) /\ DOMAIN ms = 1..p
      BY <1>2, <1>3, <2>2
    <3> HIDE DEF p, q
    <3> QED
      BY <3>1 DEF q
  <2>4. mk[m + k] = b + ms[k]
    BY <1>2, <2>3 DEF MarksFit
  <2>5. fk[m + k] = mk[m + k] /\ fs[k] = ms[k]
    BY <1>5, <2>2, <2>3
  <2> QED
    BY <2>4, <2>5
<1>8. Len(fk) = m + Len(fs)
  BY <1>2, <1>3, <1>5
<1>9. Len(fk) <= MAX_MARK_DEPTH
  <2>1. MAX_MARK_DEPTH \in Nat
    BY BoundsAssumption
  <2> QED
    BY <1>2, <1>3, <1>5, <2>1
<1> QED
  BY <1>1, <1>4, <1>5, <1>6, <1>7, <1>8, <1>9

LEMMA UnmarkWell ==
  ASSUME NEW ch, NEW i, NEW V, Well(ch, i, V), Unmark
  PROVE  IsWell'
<1>1. mode = "run" /\ CodeOp = "UNMARK"
  <2>1. At({"UNMARK"})
    BY DEF Unmark
  <2> QED
    BY <2>1, AtRuns
<1>2. PICK n, sh, mb, s : MarksAt(V, n, sh, mb, s)
  BY <1>1, InMarks, SMTT(30)
<1>3. s.ms # <<>>
  BY <1>1, <1>2 DEF MarksAt, Ready, OnMarks
<1>4. PICK marks, ms : marks = Front(me.marks) /\ ms = Front(s.ms)
  OBVIOUS
<1>5. /\ marks \in Seq(Nat) /\ Len(marks) <= MAX_MARK_DEPTH /\ SameTo(me.marks, marks, mb[n])
      /\ MarksFit(marks, mb[n], frame.bp, ms) /\ Len(marks) = mb[n] + Len(ms)
  BY <1>2, <1>3, <1>4, LastMark
<1>6. [ip |-> frame.ip + 1, ts |-> s.ts, ms |-> ms] \in After(code, frame.ip, s)
  <2>1. OpAt(code, frame.ip) = "UNMARK" /\ OpAt(code, frame.ip) \in OnMarks
    BY <1>1, <1>2 DEF MarksAt, OnMarks
  <2> QED
    BY <1>4, <2>1, OnMarksOnly
<1>7. OpsFit(me.ops, frame.bp, s.ts) /\ SameTo(me.ops, me.ops, frame.bp) /\ Len(me.ops) = frame.bp + Len(s.ts)
  BY <1>2 DEF MarksAt, SameTo
<1>8. /\ RunsAs(me, n, sh, mb, funcs) /\ n = Len(me.frames) /\ frame = me.frames[n]
      /\ code = CodeIn(frame, funcs) /\ s = sh[n] /\ s.ts \in Seq(Types)
  BY <1>2 DEF MarksAt
<1>9. \A x2 : MarksGo(x2, marks, me.ops) => IsRunning(x2, funcs)
  BY <1>1, <1>5, <1>6, <1>7, <1>8, MarksLand
<1>10. me.ops \in Seq(V) /\ Len(me.ops) <= MAX_STACK_DEPTH
  BY <1>2 DEF MarksAt
<1>11. SetMarks(marks, me.ops)
  BY <1>4 DEF Unmark
<1> QED
  BY <1>1, <1>5, <1>9, <1>10, <1>11, MarksWell

LEMMA BreakWell ==
  ASSUME NEW ch, NEW i, NEW V, Well(ch, i, V), Break
  PROVE  IsWell'
<1>1. mode = "run" /\ CodeOp \in {"BREAK", "BREAK2"}
  <2>1. At({"BREAK", "BREAK2"})
    BY DEF Break
  <2> QED
    BY <2>1, AtRuns
<1>2. PICK n, sh, mb, s : MarksAt(V, n, sh, mb, s)
  BY <1>1, InMarks, SMTT(30)
<1>3. s.ms # <<>> /\ Last(s.ms) <= Len(s.ts)
  BY <1>1, <1>2 DEF MarksAt, Ready, OnMarks
<1>4. PICK marks, ms : /\ marks = IF CodeOp = "BREAK" THEN me.marks ELSE Front(me.marks)
                       /\ ms = IF CodeOp = "BREAK" THEN s.ms ELSE Front(s.ms)
  OBVIOUS
<1>5. /\ marks \in Seq(Nat) /\ Len(marks) <= MAX_MARK_DEPTH /\ SameTo(me.marks, marks, mb[n])
      /\ MarksFit(marks, mb[n], frame.bp, ms) /\ Len(marks) = mb[n] + Len(ms)
  <2>1. CASE CodeOp = "BREAK"
    <3>1. marks = me.marks /\ ms = s.ms
      BY <1>4, <2>1
    <3> QED
      BY <1>2, <3>1 DEF MarksAt, SameTo
  <2>2. CASE CodeOp # "BREAK"
    <3>1. marks = Front(me.marks) /\ ms = Front(s.ms)
      BY <1>4, <2>2
    <3> QED
      BY <1>2, <1>3, <3>1, LastMark
  <2> QED
    BY <2>1, <2>2
<1>6. PICK ts, ops, k : ts = SubSeq(s.ts, 1, k) /\ k = Last(s.ms) /\ ops = SubSeq(me.ops, 1, Last(me.marks))
  OBVIOUS
<1>7. [ip |-> frame.ip + 1, ts |-> ts, ms |-> ms] \in After(code, frame.ip, s)
  <2>0. OpAt(code, frame.ip) = CodeOp /\ OpAt(code, frame.ip) \in OnMarks
    BY <1>1, <1>2 DEF MarksAt, OnMarks
  <2>1. CASE CodeOp = "BREAK"
    BY <1>4, <1>6, <2>0, <2>1, OnMarksOnly
  <2>2. CASE CodeOp = "BREAK2"
    BY <1>4, <1>6, <2>0, <2>2, OnMarksOnly
  <2> QED
    BY <1>1, <2>1, <2>2
<1>8. PICK b, z : b = frame.bp /\ z = me.ops
  OBVIOUS
<1>9. /\ k \in Nat /\ k <= Len(s.ts) /\ b \in Nat /\ z \in Seq(V) /\ Len(z) = b + Len(s.ts) /\ s.ts \in Seq(Types)
      /\ ops = SubSeq(z, 1, b + k) /\ OpsFit(z, b, s.ts) /\ Len(z) <= MAX_STACK_DEPTH
  <2>1. Last(me.marks) = frame.bp + Last(s.ms) /\ Last(s.ms) \in Nat
    BY <1>2, <1>3, LastMark
  <2> QED
    BY <1>2, <1>3, <1>6, <1>8, <2>1, SMTT(30) DEF MarksAt
<1>10. /\ ts \in Seq(Types) /\ Len(ts) = k /\ DOMAIN ts = 1..k /\ \A j \in 1..k : ts[j] = s.ts[j]
  BY <1>6, <1>9
<1>11. /\ ops \in Seq(V) /\ Len(ops) = b + k /\ \A j \in 1..(b + k) : ops[j] = z[j]
  <2>1. b + k \in Nat /\ b + k <= Len(z)
    BY <1>9
  <2> QED
    BY <1>9, <2>1
<1>12. OpsFit(ops, b, ts)
  <2>1. SUFFICES ASSUME NEW j \in DOMAIN ts PROVE Is(ops[b + j], ts[j])
    BY DEF OpsFit
  <2>2. j \in 1..k /\ b + j \in 1..(b + k) /\ j \in DOMAIN s.ts
    BY <1>9, <1>10, <2>1
  <2>3. Is(z[b + j], s.ts[j])
    BY <1>9, <2>2 DEF OpsFit
  <2> QED
    BY <1>10, <1>11, <2>2, <2>3
<1>13. SameTo(z, ops, b)
  <2>1. \A j \in 1..b : j \in 1..(b + k)
    BY <1>9
  <2> QED
    BY <1>11, <2>1 DEF SameTo
<1>14. Len(ops) <= MAX_STACK_DEPTH
  <2>1. MAX_STACK_DEPTH \in Nat
    BY BoundsAssumption
  <2> QED
    BY <1>9, <1>11, <2>1
<1>15. SetMarks(marks, ops)
  BY <1>4, <1>6 DEF Break
<1>16. /\ RunsAs(me, n, sh, mb, funcs) /\ n = Len(me.frames) /\ frame = me.frames[n]
       /\ code = CodeIn(frame, funcs) /\ s = sh[n]
  BY <1>2 DEF MarksAt
<1>17. \A x2 : MarksGo(x2, marks, ops) => IsRunning(x2, funcs)
  <2>1. /\ Len(ops) = frame.bp + Len(ts) /\ SameTo(me.ops, ops, frame.bp) /\ OpsFit(ops, frame.bp, ts)
    BY <1>8, <1>10, <1>11, <1>12, <1>13
  <2> QED
    BY <1>1, <1>5, <1>7, <1>10, <1>16, <2>1, MarksLand, SMTT(30)
<1> QED
  BY <1>1, <1>5, <1>11, <1>14, <1>15, <1>17, MarksWell

-----------------------------------------------------------------------------
(* A value that a step makes anew, N times over.                            *)
Iterated(g, N, S, a, step) == g \in [0..N -> S] /\ g[0] = a /\ \A k \in 1..N : g[k] = step[g[k - 1]]

LEMMA Iterates ==
  ASSUME NEW N \in Nat, NEW S, NEW a \in S, NEW step \in [S -> S]
  PROVE  \E g : Iterated(g, N, S, a, step)
<1> DEFINE P(n, g) == g \in [0..n -> S] /\ g[0] = a /\ \A k \in 1..n : g[k] = step[g[k - 1]]
           T == {n \in Nat : \E g : P(n, g)}
<1>1. 0 \in T
  <2>1. P(0, [k \in 0..0 |-> a])
    OBVIOUS
  <2> QED
    BY <2>1
<1>2. ASSUME NEW n \in Nat, n \in T PROVE n + 1 \in T
  <2>1. PICK g : P(n, g)
    BY <1>2
  <2> DEFINE g2 == [k \in 0..(n + 1) |-> IF k <= n THEN g[k] ELSE step[g[n]]]
  <2>2. g[n] \in S /\ step[g[n]] \in S
    BY <1>2, <2>1
  <2>3. g2 \in [0..(n + 1) -> S]
    <3>1. ASSUME NEW k \in 0..(n + 1) PROVE (IF k <= n THEN g[k] ELSE step[g[n]]) \in S
      BY <1>2, <2>1, <2>2
    <3> QED
      BY <3>1
  <2>4. g2[0] = a
    BY <1>2, <2>1
  <2>5. ASSUME NEW k \in 1..(n + 1) PROVE g2[k] = step[g2[k - 1]]
    <3>1. k - 1 \in 0..n /\ g2[k - 1] = g[k - 1]
      BY <1>2
    <3>2. CASE k <= n
      <4>1. g2[k] = g[k] /\ g[k] = step[g[k - 1]]
        BY <1>2, <2>1, <3>2
      <4> QED
        BY <3>1, <4>1
    <3>3. CASE ~(k <= n)
      <4>1. k = n + 1 /\ k - 1 = n
        BY <1>2, <3>3
      <4>2. g2[k] = step[g[n]]
        BY <1>2, <3>3
      <4> QED
        BY <3>1, <4>1, <4>2
    <3> QED
      BY <3>2, <3>3
  <2> HIDE DEF g2
  <2>6. P(n + 1, g2)
    BY <2>3, <2>4, <2>5
  <2> QED
    BY <1>2, <2>6
<1>3. N \in T
  <2> HIDE DEF T
  <2> QED
    BY <1>1, <1>2, NatInd
<1> QED
  BY <1>3 DEF Iterated

-----------------------------------------------------------------------------
(* The scopes a function sees are hashes.                                   *)
LEMMA ClosureIn ==
  ASSUME NEW V, World(V, vecs, hashes, funcs), NEW f \in OfType(V, "func")
  PROVE  Closure(f) \in Seq(OfType(V, "hash"))
<1> DEFINE N == Len(funcs)
           F == OfType(V, "func")
           S == Seq(F) \ {<<>>}
           next(b) == FuncOf(Last(b)).next
           one(b) == IF next(b) = Nil THEN b ELSE Append(b, next(b))
           step == [b \in S |-> one(b)]
           body(g, n) == IF n = 0 THEN <<f>>
                         ELSE LET before == g[n - 1]
                                  nxt == FuncOf(Last(before)).next
                              IN  IF nxt = Nil THEN before ELSE Append(before, nxt)
           line == CHOOSE g : g = [n \in 0..N |-> body(g, n)]
           all == line[N]
<1>1. N \in Nat
  BY Counts
<1>2. ASSUME NEW x \in F
      PROVE  FuncOf(x).next \in F \cup {Nil} /\ FuncOf(x).ns \in OfType(V, "hash")
  <2>1. funcs[x[2]] \in Functions_(V)
    BY <1>2, FuncThere DEF OfType
  <2> QED
    BY <2>1 DEF FuncOf, Functions_
<1>3. <<f>> \in S /\ step \in [S -> S]
  <2>1. <<f>> \in S
    BY DEF F
  <2>2. ASSUME NEW b \in S PROVE one(b) \in S
    <3> HIDE DEF F
    <3>1. Last(b) \in F
      <4>1. b \in Seq(F) /\ Len(b) \in Nat /\ Len(b) >= 1
        OBVIOUS
      <4>2. Len(b) \in 1..Len(b)
        BY <4>1
      <4> QED
        BY <4>1, <4>2 DEF Last
    <3>2. next(b) \in F \cup {Nil}
      BY <1>2, <3>1
    <3> HIDE DEF next
    <3>3. CASE next(b) = Nil
      BY <3>3
    <3>4. CASE next(b) # Nil
      <4>1. next(b) \in F /\ b \in Seq(F)
        BY <3>2, <3>4
      <4>2. Append(b, next(b)) \in Seq(F) /\ Append(b, next(b)) # <<>>
        BY <4>1
      <4> QED
        BY <3>4, <4>2
    <3> QED
      BY <3>3, <3>4
  <2> HIDE DEF one, S
  <2> QED
    BY <2>1, <2>2
<1>4. PICK g : g \in [0..N -> S] /\ g[0] = <<f>> /\ \A k \in 1..N : g[k] = step[g[k - 1]]
  <2> HIDE DEF N, S, step
  <2>1. \E g : Iterated(g, N, S, <<f>>, step)
    BY <1>1, <1>3, Iterates
  <2> QED
    BY <2>1 DEF Iterated
<1>5. ASSUME NEW n \in 0..N PROVE g[n] = body(g, n)
  <2>1. CASE n = 0
    BY <1>4, <2>1
  <2>2. CASE n # 0
    <3>1. n \in 1..N /\ n - 1 \in 0..N
      BY <1>1, <2>2
    <3>2. g[n] = step[g[n - 1]] /\ g[n - 1] \in S
      BY <1>4, <3>1
    <3> HIDE DEF S
    <3>3. g[n] = one(g[n - 1])
      BY <3>2
    <3> QED
      BY <2>2, <3>3
  <2> QED
    BY <2>1, <2>2
<1>6. g = [n \in 0..N |-> body(g, n)]
  <2> HIDE DEF body, S, N
  <2> QED
    BY <1>4, <1>5
<1>7. line = [n \in 0..N |-> body(line, n)]
  <2> HIDE DEF body
  <2> QED
    BY <1>6
<1> HIDE DEF line
<1> DEFINE T == {n \in Nat : n \in 0..N => line[n] \in S}
<1>8. 0 \in T
  <2>1. CASE 0 \in 0..N
    <3>1. line[0] = body(line, 0)
      BY <1>7, <2>1
    <3>2. line[0] = <<f>>
      BY <3>1
    <3> HIDE DEF S
    <3> QED
      BY <1>3, <3>2
  <2>2. CASE 0 \notin 0..N
    BY <2>2
  <2> QED
    BY <2>1, <2>2
<1>9. ASSUME NEW n \in Nat, n \in T PROVE n + 1 \in T
  <2>1. CASE n + 1 \in 0..N
    <3>1. n \in 0..N /\ n + 1 # 0 /\ (n + 1) - 1 = n
      BY <1>1, <1>9, <2>1
    <3>2. line[n] \in S
      BY <1>9, <3>1
    <3>3. line[n + 1] = body(line, n + 1)
      BY <1>7, <2>1
    <3>4. body(line, n + 1) = one(line[n])
      BY <3>1
    <3> HIDE DEF body, S, one
    <3>5. step[line[n]] = one(line[n]) /\ step[line[n]] \in S
      BY <1>3, <3>2
    <3> QED
      BY <3>3, <3>4, <3>5
  <2>2. CASE n + 1 \notin 0..N
    BY <2>2
  <2> QED
    BY <2>1, <2>2
<1>10. N \in T
  <2> HIDE DEF T
  <2> QED
    BY <1>1, <1>8, <1>9, NatInd
<1>11. all \in Seq(F)
  BY <1>1, <1>10
<1>12. Closure(f) = [i \in DOMAIN all |-> FuncOf(all[i]).ns]
  BY DEF Closure, line, all, body
<1> HIDE DEF all, F
<1>13. DOMAIN all = 1..Len(all) /\ Len(all) \in Nat /\ \A i \in 1..Len(all) : all[i] \in F
  BY <1>11
<1> DEFINE H == OfType(V, "hash")
<1>14. \A i \in 1..Len(all) : FuncOf(all[i]).ns \in H
  BY <1>2, <1>13
<1> HIDE DEF H
<1>15. [i \in DOMAIN all |-> FuncOf(all[i]).ns] \in Seq(H)
  BY <1>13, <1>14
<1> QED
  BY <1>12, <1>15 DEF H

LEMMA ScopesIn ==
  ASSUME NEW ch, NEW i, NEW V, Well(ch, i, V), mode = "run"
  PROVE  Scopes(frame) \in Seq(OfType(V, "hash"))
<1> DEFINE H == OfType(V, "hash")
<1>1. World(V, vecs, hashes, funcs) /\ frame.locals \in H /\ frame.func \in OfType(V, "func")
  BY AtOp DEF CallFrames
<1>2. Closure(frame.func) \in Seq(H)
  BY <1>1, ClosureIn
<1>3. Scopes(frame) = <<frame.locals>> \o Closure(frame.func)
  BY DEF Scopes
<1> HIDE DEF H
<1>4. <<frame.locals>> \in Seq(H)
  BY <1>1
<1>5. <<frame.locals>> \o Closure(frame.func) \in Seq(H)
  BY <1>2, <1>4, ConcatProperties
<1> QED
  BY <1>3, <1>5 DEF H

(* Of numbers the least.                                                    *)
LEMMA Least == ASSUME NEW T, T \subseteq Nat, T # {} PROVE Min(T) \in T
BY NatMin DEF Min

(* The innermost scope with a name is one of them.                          *)
LEMMA ScopeFound ==
  ASSUME NEW ch, NEW i, NEW V, Well(ch, i, V), mode = "run", NEW name
  PROVE  LET k == ScopeOf(frame, name)
             s == Scopes(frame)
         IN  \/ k = 0
             \/ /\ k # 0 /\ s[k] \in V /\ IsA(s[k], "hash") /\ name \in DOMAIN HashOf(s[k])
<1> DEFINE s == Scopes(frame)
           I == {j \in 1..Len(s) : name \in DOMAIN HashOf(s[j])}
           H == OfType(V, "hash")
<1>1. s \in Seq(H)
  BY ScopesIn
<1>2. ScopeOf(frame, name) = IF I # {} THEN Min(I) ELSE 0
  BY DEF ScopeOf, SelectInSeq
<1> HIDE DEF s, H
<1>3. CASE I # {}
  <2>1. Min(I) \in I
    <3>1. Len(s) \in Nat
      BY <1>1
    <3>2. I \subseteq Nat
      BY <3>1
    <3> HIDE DEF I
    <3> QED
      BY <1>3, <3>2, Least
  <2>2. Min(I) \in 1..Len(s) /\ name \in DOMAIN HashOf(s[Min(I)])
    BY <2>1
  <2>3. s[Min(I)] \in H /\ Min(I) # 0
    BY <1>1, <2>2
  <2> QED
    BY <1>2, <1>3, <2>2, <2>3 DEF s, H, OfType
<1>4. CASE I = {}
  BY <1>2, <1>4
<1> QED
  BY <1>3, <1>4

LEMMA GetLocalWell ==
  ASSUME NEW ch, NEW i, NEW V, Well(ch, i, V), GetLocal
  PROVE  IsWell'
<1>1. mode = "run" /\ CodeOp = "LOCAL"
  <2>1. At({"LOCAL"})
    BY DEF GetLocal
  <2> QED
    BY <2>1, AtRuns
<1>2. PICK t : t \in Seq(Types) /\ Row(CodeOp, CodeArg, t, <<"any">>) /\ Len(t) = 0
  <2>1. Row(CodeOp, CodeArg, <<>>, <<"any">>)
    BY <1>1, Table DEF PushesOne
  <2>2. <<>> \in Seq(Types) /\ Len(<<>>) = 0
    BY ShortTypes
  <2> QED
    BY <2>1, <2>2
<1>3. Cells(CodeOp) = 2
  BY <1>1 DEF Cells, WithArgument
<1>4. me.ops = Popped(0)
  <2>1. 0 <= Len(me.ops)
    BY <1>1, AtOp
  <2> QED
    BY <1>1, <2>1, OnTop
<1>5. Grows(V, V)
  BY GrowsSame DEF GetLocal
<1>6. PICK k, s : k = ScopeOf(frame, Const) /\ s = Scopes(frame)[k]
  OBVIOUS
<1>7. k = 0 \/ (k # 0 /\ s \in V /\ IsA(s, "hash") /\ Const \in DOMAIN HashOf(s))
  BY <1>1, <1>6, ScopeFound
<1>8. CASE k = 0
  <2>1. Throw("undefined symbol", me.dieArg)
    BY <1>6, <1>8 DEF GetLocal
  <2> QED
    BY <1>1, <1>5, <2>1, Thrown
<1>9. CASE k # 0
  <2>1. PICK v : v = HashOf(s)[Const] /\ v \in V
    BY <1>7, <1>9, HashHas
  <2>2. Go(2, Append(me.ops, v))
    BY <1>6, <1>9, <2>1 DEF GetLocal
  <2>3. GoOrThrow(Append(Popped(Len(t)), v)) /\ Is(v, "any")
    BY <1>2, <1>3, <1>4, <2>2 DEF GoOrThrow, Is
  <2>4. mode = "run" /\ t \in Seq(Types) /\ Row(CodeOp, CodeArg, t, <<"any">>)
    BY <1>1, <1>2
  <2> QED
    BY <1>5, <2>1, <2>3, <2>4, TypeNames, ValueOut
<1> QED
  BY <1>8, <1>9

LEMMA SetSymWell ==
  ASSUME NEW ch, NEW i, NEW V, Well(ch, i, V), SetSym
  PROVE  IsWell'
<1>1. mode = "run" /\ CodeOp = "SETSYM"
  <2>1. At({"SETSYM"})
    BY DEF SetSym
  <2> QED
    BY <2>1, AtRuns
<1>2. PICK t, l : /\ t \in Seq(Types) /\ l \in Seq(Types) /\ Row(CodeOp, CodeArg, t, l)
                  /\ t = <<"any", "any">> /\ l = <<"any">>
  <2>1. Row(CodeOp, CodeArg, <<"any", "any">>, <<"any">>)
    BY <1>1, Table
    DEF TwoToOne
  <2>2. <<"any", "any">> \in Seq(Types) /\ <<"any">> \in Seq(Types)
    BY ShortTypes
  <2> QED
    BY <2>1, <2>2
<1>3. Len(t) = 2 /\ Len(l) = 1 /\ Len(l) = Len(t) - 1 /\ \A j \in 1..Len(l) : l[j] \in {"any", t[j]}
  BY <1>2
<1>4. STK(1) \in V /\ STK(2) \in V
  <2>1. \A k \in 1..Len(t) : STK(k) \in V /\ Is(STK(k), t[Len(t) + 1 - k])
    BY <1>1, <1>2, Tops
  <2>2. STK(1) \in V /\ STK(2) \in V
    BY <1>2, <1>3, <2>1
  <2> QED
    BY <2>2 DEF Is
<1>5. PICK h : h = ScopeToSet(frame, STK(1)) /\ h \in V /\ IsA(h, "hash")
  <2>1. PICK k, s : k = ScopeOf(frame, STK(1)) /\ s = Scopes(frame)[k]
    OBVIOUS
  <2>2. k = 0 \/ (k # 0 /\ s \in V /\ IsA(s, "hash"))
    BY <1>1, <2>1, ScopeFound
  <2>3. frame.locals \in V /\ IsA(frame.locals, "hash")
    BY <1>1, AtOp DEF CallFrames, OfType
  <2>4. ScopeToSet(frame, STK(1)) = IF k = 0 THEN frame.locals ELSE s
    BY <2>1 DEF ScopeToSet
  <2> QED
    BY <2>2, <2>3, <2>4
<1>7. Grows(V, V)
  <2>1. SetHash(h, STK(1), STK(2)) /\ UNCHANGED <<vecs, funcs>>
    BY <1>5 DEF SetSym
  <2> QED
    BY <1>4, <1>5, <2>1, PutsHash
<1>8. GoOrThrow(Popped(1))
  <2>1. Go(1, Popped(1)) \/ \E kind : Throw(kind, me.dieArg)
    BY DEF SetSym
  <2>2. Cells(CodeOp) = 1
    BY <1>1 DEF Cells, WithArgument, ByPosition, Branching, Jumps
  <2> QED
    BY <2>1, <2>2 DEF GoOrThrow
<1>9. /\ mode = "run" /\ t \in Seq(Types) /\ l \in Seq(Types) /\ Row(CodeOp, CodeArg, t, l)
      /\ Len(l) = Len(t) - 1 /\ \A j \in 1..Len(l) : l[j] \in {"any", t[j]}
      /\ 1 \in Nat
  BY <1>1, <1>2, <1>3
<1> QED
  BY <1>7, <1>8, <1>9, LessOut

-----------------------------------------------------------------------------
(* What the search for a member can find.                                   *)
Findings(V) == {Missing, Failed} \cup {Found(v) : v \in V}

UpIn(b, parents, k) == IF IsA(parents[k], "hash") THEN b[parents[k][2]] ELSE Failed

EndsIn(b, parents) == {k \in DOMAIN parents : UpIn(b, parents, k) # Missing}

MemberIn(b, h, name) ==
  IF name \in DOMAIN h THEN Found(h[name])
  ELSE IF Str("parents") \notin DOMAIN h THEN Missing
  ELSE IF ~IsA(h[Str("parents")], "vec") THEN Failed
  ELSE IF EndsIn(b, VecOf(h[Str("parents")])) = {} THEN Missing
  ELSE UpIn(b, VecOf(h[Str("parents")]), Min(EndsIn(b, VecOf(h[Str("parents")]))))

LEMMA MemberFound ==
  ASSUME NEW V, World(V, vecs, hashes, funcs), NEW b \in [DOMAIN hashes -> Findings(V)],
         NEW i \in DOMAIN hashes, NEW name
  PROVE  MemberIn(b, hashes[i], name) \in Findings(V)
<1> DEFINE h == hashes[i]
           p == h[Str("parents")]
           ps == VecOf(p)
           R == Findings(V)
<1> SUFFICES MemberIn(b, h, name) \in R
  OBVIOUS
<1>1. \A k \in DOMAIN h : h[k] \in V
  BY DEF World
<1>2. Missing \in R /\ Failed \in R /\ \A v \in V : Found(v) \in R
  BY DEF Findings
<1> HIDE DEF h, p, ps, R
<1>3. CASE name \in DOMAIN h
  BY <1>1, <1>2, <1>3 DEF MemberIn
<1>4. CASE name \notin DOMAIN h /\ Str("parents") \notin DOMAIN h
  BY <1>2, <1>4 DEF MemberIn
<1>5. CASE name \notin DOMAIN h /\ Str("parents") \in DOMAIN h /\ ~IsA(p, "vec")
  BY <1>2, <1>5 DEF MemberIn, p
<1>6. CASE name \notin DOMAIN h /\ Str("parents") \in DOMAIN h /\ IsA(p, "vec")
  <2>1. p \in V
    BY <1>1, <1>6 DEF p
  <2>2. ps \in Seq(V)
    BY <1>6, <2>1, VecThere DEF ps, VecOf
  <2>3. DOMAIN ps \subseteq Nat /\ \A k \in DOMAIN ps : ps[k] \in V
    BY <2>2
  <2>4. ASSUME NEW k \in DOMAIN ps PROVE UpIn(b, ps, k) \in R
    <3>1. CASE IsA(ps[k], "hash")
      <4>1. ps[k][2] \in DOMAIN hashes
        BY <2>3, <3>1, HashThere
      <4>2. b[ps[k][2]] \in R
        BY <4>1 DEF R
      <4> QED
        BY <3>1, <4>2 DEF UpIn
    <3>2. CASE ~IsA(ps[k], "hash")
      BY <1>2, <3>2 DEF UpIn
    <3> QED
      BY <3>1, <3>2
  <2> DEFINE E == EndsIn(b, ps)
  <2>5. E \subseteq DOMAIN ps
    BY DEF EndsIn
  <2> HIDE DEF E
  <2>6. CASE E = {}
    BY <1>2, <1>6, <2>6 DEF MemberIn, p, ps, E
  <2>7. CASE E # {}
    <3>1. Min(E) \in E
      BY <2>3, <2>5, <2>7, Least
    <3>2. UpIn(b, ps, Min(E)) \in R
      BY <2>4, <2>5, <3>1
    <3>3. MemberIn(b, h, name) = UpIn(b, ps, Min(E))
      BY <1>6, <2>7 DEF MemberIn, p, ps, E
    <3> QED
      BY <3>2, <3>3
  <2> QED
    BY <2>6, <2>7
<1> QED
  BY <1>3, <1>4, <1>5, <1>6

LEMMA GetMemberIn ==
  ASSUME NEW V, World(V, vecs, hashes, funcs), NEW obj \in V, NEW name, NEW count \in Nat
  PROVE  GetMember(obj, name, count) \in Findings(V)
<1> DEFINE D == DOMAIN hashes
           R == Findings(V)
           S == [D -> R]
           a == [i \in D |-> Failed]
           step == [b \in S |-> [i \in D |-> MemberIn(b, hashes[i], name)]]
           Of(f, n, h) ==
              LET parents == VecOf(h[Str("parents")])
                  Up(k) == IF IsA(parents[k], "hash") THEN f[n - 1][parents[k][2]] ELSE Failed
                  ends == {k \in DOMAIN parents : Up(k) # Missing}
              IN  IF n = 0 THEN Failed
                  ELSE IF name \in DOMAIN h THEN Found(h[name])
                  ELSE IF Str("parents") \notin DOMAIN h THEN Missing
                  ELSE IF ~IsA(h[Str("parents")], "vec") THEN Failed
                  ELSE IF ends = {} THEN Missing ELSE Up(Min(ends))
           body(f, n) == [i \in DOMAIN hashes |-> Of(f, n, hashes[i])]
           find == CHOOSE f : f = [n \in 0..count |-> body(f, n)]
<1>1. ASSUME NEW f, NEW n, n # 0 PROVE body(f, n) = [i \in D |-> MemberIn(f[n - 1], hashes[i], name)]
  <2>1. ASSUME NEW h PROVE Of(f, n, h) = MemberIn(f[n - 1], h, name)
    BY <1>1, Zenon DEF MemberIn, EndsIn, UpIn
  <2> HIDE DEF Of
  <2> QED
    BY <2>1
<1>2. ASSUME NEW f PROVE body(f, 0) = a
  OBVIOUS
<1> HIDE DEF body
<1>3. a \in S
  BY DEF Findings
<1>4. ASSUME NEW b \in S PROVE [i \in D |-> MemberIn(b, hashes[i], name)] \in S
  <2>1. \A i \in D : MemberIn(b, hashes[i], name) \in R
    BY MemberFound
  <2> HIDE DEF R, D
  <2> QED
    BY <2>1
<1>5. step \in [S -> S] /\ \A b \in S : step[b] = [i \in D |-> MemberIn(b, hashes[i], name)]
  <2> HIDE DEF S
  <2> QED
    BY <1>4
<1> HIDE DEF S, a, step
<1>6. PICK g : g \in [0..count -> S] /\ g[0] = a /\ \A k \in 1..count : g[k] = step[g[k - 1]]
  <2>1. \E g : Iterated(g, count, S, a, step)
    BY <1>3, <1>5, Iterates
  <2> QED
    BY <2>1 DEF Iterated
<1>7. ASSUME NEW n \in 0..count PROVE g[n] = body(g, n)
  <2>1. CASE n = 0
    BY <1>2, <1>6, <2>1
  <2>2. CASE n # 0
    <3>1. n \in 1..count /\ n - 1 \in 0..count
      BY <2>2
    <3>2. g[n] = step[g[n - 1]] /\ g[n - 1] \in S
      BY <1>6, <3>1
    <3>3. step[g[n - 1]] = [i \in D |-> MemberIn(g[n - 1], hashes[i], name)]
      BY <1>5, <3>2
    <3>4. body(g, n) = [i \in D |-> MemberIn(g[n - 1], hashes[i], name)]
      BY <1>1, <2>2
    <3> QED
      BY <3>2, <3>3, <3>4
  <2> QED
    BY <2>1, <2>2
<1>8. g = [n \in 0..count |-> body(g, n)]
  BY <1>6, <1>7
<1>9. find = [n \in 0..count |-> body(find, n)]
  BY <1>8
<1> HIDE DEF find
<1> DEFINE T == {n \in Nat : n \in 0..count => find[n] \in S}
<1>10. 0 \in T
  <2>1. find[0] = body(find, 0)
    BY <1>9
  <2> QED
    BY <1>2, <1>3, <2>1
<1>11. ASSUME NEW n \in Nat, n \in T PROVE n + 1 \in T
  <2>1. CASE n + 1 \in 0..count
    <3>1. n \in 0..count /\ n + 1 # 0 /\ (n + 1) - 1 = n
      BY <1>11, <2>1
    <3>2. find[n] \in S
      BY <1>11, <3>1
    <3>3. find[n + 1] = body(find, n + 1)
      BY <1>9, <2>1
    <3>4. body(find, n + 1) = step[find[n]]
      BY <1>1, <1>5, <3>1, <3>2
    <3>5. step[find[n]] \in S
      BY <1>5, <3>2
    <3> QED
      BY <3>3, <3>4, <3>5
  <2>2. CASE n + 1 \notin 0..count
    BY <2>2
  <2> QED
    BY <2>1, <2>2
<1>12. find[count] \in S
  <2>1. Nat \subseteq T
    <3> HIDE DEF T
    <3> QED
      BY <1>10, <1>11, NatInd
  <2> QED
    BY <2>1
<1>13. GetMember(obj, name, count) = IF IsA(obj, "hash") THEN find[count][obj[2]] ELSE Failed
  BY DEF GetMember, find, body
<1>14. CASE IsA(obj, "hash")
  <2>1. obj[2] \in D
    BY <1>14, HashThere
  <2> QED
    BY <1>12, <1>13, <1>14, <2>1 DEF S
<1>15. CASE ~IsA(obj, "hash")
  BY <1>13, <1>15 DEF Findings
<1> QED
  BY <1>14, <1>15

LEMMA MemberWell ==
  ASSUME NEW ch, NEW i, NEW V, Well(ch, i, V), Member
  PROVE  IsWell'
<1>1. mode = "run" /\ CodeOp = "MEMBER"
  <2>1. At({"MEMBER"})
    BY DEF Member
  <2> QED
    BY <2>1, AtRuns
<1>2. PICK t : t \in Seq(Types) /\ Row(CodeOp, CodeArg, t, <<"any">>) /\ Len(t) = 1
  <2>1. Row(CodeOp, CodeArg, <<"any">>, <<"any">>)
    BY <1>1, Table DEF OneToOne
  <2>2. <<"any">> \in Seq(Types) /\ Len(<<"any">>) = 1
    BY ShortTypes
  <2> QED
    BY <2>1, <2>2
<1>3. Cells(CodeOp) = 2
  BY <1>1 DEF Cells, WithArgument
<1>4. STK(1) \in V
  <2>1. \A k \in 1..Len(t) : STK(k) \in V
    BY <1>1, <1>2, Tops
  <2> QED
    BY <1>2, <2>1
<1>5. Grows(V, V)
  BY GrowsSame DEF Member
<1>6. PICK r : r = GetMember(STK(1), Const, MAX_PARENTS) /\ r \in Findings(V)
  <2>1. MAX_PARENTS \in Nat /\ World(V, vecs, hashes, funcs)
    BY BoundsAssumption DEF Well
  <2> QED
    BY <1>4, <2>1, GetMemberIn
<1>7. CASE IsA(r, "found")
  <2>1. PICK v : v = r[2] /\ v \in V
    <3>1. r[2] \in V
      BY <1>6, <1>7 DEF Findings, Found, Missing, Failed, IsA
    <3> QED
      BY <3>1
  <2>2. Go(2, Append(Popped(1), v))
    BY <1>6, <1>7, <2>1 DEF Member
  <2>3. GoOrThrow(Append(Popped(Len(t)), v)) /\ Is(v, "any")
    BY <1>2, <1>3, <2>2 DEF GoOrThrow, Is
  <2>4. mode = "run" /\ t \in Seq(Types) /\ Row(CodeOp, CodeArg, t, <<"any">>)
    BY <1>1, <1>2
  <2> QED
    BY <1>5, <2>1, <2>3, <2>4, TypeNames, ValueOut
<1>8. CASE ~IsA(r, "found")
  <2>1. Throw("no such member", me.dieArg)
    BY <1>6, <1>8 DEF Member
  <2> QED
    BY <1>1, <1>5, <2>1, Thrown
<1> QED
  BY <1>7, <1>8

-----------------------------------------------------------------------------
(* A frame above the others, which waits in turn for its value, and back.   *)
Above(x, y, f) == y.frames = Append(x.frames, f) /\ y.ops = x.ops /\ y.marks = x.marks

(* What lies below something lies below what is on top of that.              *)
LEMMA FurtherUp ==
  ASSUME NEW p \in Nat, NEW q \in Nat, NEW u \in Nat, NEW w \in Nat, w >= 1,
         NEW c \in Nat, NEW d \in Nat, NEW g \in Nat, NEW h \in Nat,
         p + u - 1 <= q, c + g <= d
  PROVE  p + u - 1 <= q + w - 1 /\ c + g <= d + h
<1>1. q <= q + w - 1 /\ d <= d + h
  OBVIOUS
<1> QED
  BY <1>1

LEMMA PushFrame ==
  ASSUME NEW V, NEW vs, NEW hs, NEW fs, World(V, vs, hs, fs), NEW x, x.frames \in Seq(CallFrames(V)),
         NEW n, NEW sh, NEW mb, Framed(x, n, sh, mb, fs), Waits(sh[n].ts),
         NEW f \in CallFrames(V), f.ip = 0, f.bp = x.frames[n].bp + Len(sh[n].ts) - 1,
         Len(x.ops) = f.bp, NEW y, Above(x, y, f)
  PROVE  IsRunning(y, fs)
<1> DEFINE none == [ts |-> <<>>, ms |-> <<>>]
           m == n + 1
           sh2 == [j \in 1..m |-> IF j = m THEN none ELSE sh[j]]
           mb2 == [j \in 1..m |-> IF j = m THEN Len(x.marks) ELSE mb[j]]
<1>1. /\ n \in Nat /\ n >= 1 /\ n = Len(x.frames)
      /\ sh \in [1..n -> Shapes] /\ mb \in [1..n -> Nat]
      /\ \A i \in 1..n :
           /\ HasShape(x.frames[i], x.frames[i].ip, fs)
           /\ sh[i] = ShapeIn(x.frames[i], x.frames[i].ip, fs)
           /\ OpsFit(x.ops, x.frames[i].bp, sh[i].ts)
           /\ MarksFit(x.marks, mb[i], x.frames[i].bp, sh[i].ms)
      /\ x.frames[1].bp = 0 /\ mb[1] = 0
      /\ \A i \in 1..(n - 1) :
           /\ Waits(sh[i].ts)
           /\ x.frames[i + 1].bp = x.frames[i].bp + Len(sh[i].ts) - 1
           /\ mb[i + 1] = mb[i] + Len(sh[i].ms)
      /\ \A i, j \in 1..n : i < j =>
           /\ x.frames[i].bp + Len(sh[i].ts) - 1 <= x.frames[j].bp
           /\ mb[i] + Len(sh[i].ms) <= mb[j]
      /\ Len(x.marks) = mb[n] + Len(sh[n].ms)
  BY DEF Framed
<1>2. none \in Shapes /\ Len(none.ts) = 0 /\ Len(none.ms) = 0 /\ DOMAIN none.ts = {} /\ DOMAIN none.ms = {}
  BY DEF Shapes
<1>3. Len(x.marks) \in Nat
  <2>1. mb[n] \in Nat /\ sh[n] \in Shapes
    BY <1>1
  <2>2. Len(sh[n].ms) \in Nat
    BY <2>1 DEF Shapes
  <2> QED
    BY <1>1, <2>1, <2>2
<1>4. sh2 \in [1..m -> Shapes] /\ mb2 \in [1..m -> Nat]
  <2> HIDE DEF none
  <2> QED
    BY <1>1, <1>2, <1>3
<1>5. /\ m \in Nat /\ m >= 1 /\ \A j \in 1..n : j \in 1..m /\ j # m /\ sh2[j] = sh[j] /\ mb2[j] = mb[j]
      /\ sh2[m] = none /\ mb2[m] = Len(x.marks) /\ \A j \in 1..m : j = m \/ j \in 1..n
      /\ m - 1 = n /\ 1 \in 1..n /\ n \in 1..n /\ m \in 1..m
  BY <1>1
<1>6. /\ \A j \in 1..n : y.frames[j] = x.frames[j]
      /\ y.frames[m] = f /\ Len(y.frames) = m /\ y.ops = x.ops /\ y.marks = x.marks
  BY <1>1 DEF Above
<1>7. HasShape(f, 0, fs) /\ ShapeIn(f, 0, fs) = none
  <2>1. f.func \in V /\ IsA(f.func, "func")
    BY DEF CallFrames, OfType
  <2>2. fs[f.func[2]] \in Functions_(V)
    BY <2>1, FuncThere
  <2>3. CodeIn(f, fs) \in DOMAIN Shape
    BY <2>2 DEF CodeIn, Functions_
  <2>4. ShapeFits(CodeIn(f, fs), Shape[CodeIn(f, fs)])
    BY <2>3, CodeIsVerified
  <2> QED
    BY <2>4 DEF ShapeFits, HasShape, ShapeIn
<1> HIDE DEF sh2, mb2, none, m
<1>8. ASSUME NEW i \in 1..m
      PROVE  /\ HasShape(y.frames[i], y.frames[i].ip, fs)
             /\ sh2[i] = ShapeIn(y.frames[i], y.frames[i].ip, fs)
             /\ OpsFit(y.ops, y.frames[i].bp, sh2[i].ts)
             /\ MarksFit(y.marks, mb2[i], y.frames[i].bp, sh2[i].ms)
  <2>1. CASE i \in 1..n
    <3>1. y.frames[i] = x.frames[i] /\ sh2[i] = sh[i] /\ mb2[i] = mb[i] /\ y.ops = x.ops /\ y.marks = x.marks
      BY <1>5, <1>6, <2>1
    <3>2. /\ HasShape(x.frames[i], x.frames[i].ip, fs)
          /\ sh[i] = ShapeIn(x.frames[i], x.frames[i].ip, fs)
          /\ OpsFit(x.ops, x.frames[i].bp, sh[i].ts)
          /\ MarksFit(x.marks, mb[i], x.frames[i].bp, sh[i].ms)
      BY <1>1, <2>1
    <3> QED
      BY <3>1, <3>2
  <2>2. CASE i = m
    BY <1>2, <1>5, <1>6, <1>7, <2>2 DEF OpsFit, MarksFit
  <2> QED
    BY <1>5, <2>1, <2>2
<1>9. y.frames[1].bp = 0 /\ mb2[1] = 0
  BY <1>1, <1>5, <1>6
<1>10. ASSUME NEW i \in 1..(m - 1)
       PROVE  /\ Waits(sh2[i].ts)
              /\ y.frames[i + 1].bp = y.frames[i].bp + Len(sh2[i].ts) - 1
              /\ mb2[i + 1] = mb2[i] + Len(sh2[i].ms)
  <2>1. i \in 1..n
    BY <1>5
  <2>2. CASE i = n
    <3>1. i + 1 = m
      BY <2>2 DEF m
    <3> QED
      BY <1>1, <1>5, <1>6, <2>1, <2>2, <3>1, SMTT(30)
  <2>3. CASE i # n
    <3>1. i \in 1..(n - 1) /\ i + 1 \in 1..n
      BY <1>1, <2>1, <2>3
    <3>2. /\ Waits(sh[i].ts)
          /\ x.frames[i + 1].bp = x.frames[i].bp + Len(sh[i].ts) - 1
          /\ mb[i + 1] = mb[i] + Len(sh[i].ms)
      BY <1>1, <3>1
    <3>3. /\ y.frames[i] = x.frames[i] /\ sh2[i] = sh[i] /\ mb2[i] = mb[i]
          /\ y.frames[i + 1] = x.frames[i + 1] /\ mb2[i + 1] = mb[i + 1]
      BY <1>5, <1>6, <2>1, <3>1
    <3> QED
      BY <3>2, <3>3
  <2> QED
    BY <2>2, <2>3
<1>11. ASSUME NEW i \in 1..m, NEW j \in 1..m, i < j
       PROVE  /\ y.frames[i].bp + Len(sh2[i].ts) - 1 <= y.frames[j].bp
              /\ mb2[i] + Len(sh2[i].ms) <= mb2[j]
  <2>1. i \in 1..n
    BY <1>5, <1>11
  <2>2. CASE j \in 1..n
    <3>1. /\ x.frames[i].bp + Len(sh[i].ts) - 1 <= x.frames[j].bp
          /\ mb[i] + Len(sh[i].ms) <= mb[j]
      BY <1>1, <1>11, <2>1, <2>2
    <3>2. /\ y.frames[i] = x.frames[i] /\ sh2[i] = sh[i] /\ mb2[i] = mb[i]
          /\ y.frames[j] = x.frames[j] /\ mb2[j] = mb[j]
      BY <1>5, <1>6, <2>1, <2>2
    <3> QED
      BY <3>1, <3>2
  <2>3. CASE j = m
    <3>1. /\ x.frames[i].bp \in Nat /\ x.frames[n].bp \in Nat
          /\ Len(sh[i].ts) \in Nat /\ Len(sh[n].ts) \in Nat /\ Len(sh[n].ts) >= 1
          /\ Len(sh[i].ms) \in Nat /\ Len(sh[n].ms) \in Nat /\ mb[i] \in Nat /\ mb[n] \in Nat
      <4>1. x.frames[i] \in CallFrames(V) /\ x.frames[n] \in CallFrames(V)
        BY <1>1, <1>5, <2>1
      <4>2. sh[i] \in Shapes /\ sh[n] \in Shapes /\ mb[i] \in Nat /\ mb[n] \in Nat
        BY <1>1, <1>5, <2>1
      <4>3. sh[n].ts \in Seq(Types) /\ sh[i].ts \in Seq(Types) /\ sh[n].ms \in Seq(Nat) /\ sh[i].ms \in Seq(Nat)
        BY <4>2 DEF Shapes
      <4>4. Len(sh[n].ts) >= 1
        BY <4>3 DEF Waits
      <4>5. x.frames[i].bp \in Nat /\ x.frames[n].bp \in Nat
        BY <4>1 DEF CallFrames
      <4>6. Len(sh[i].ts) \in Nat /\ Len(sh[n].ts) \in Nat /\ Len(sh[i].ms) \in Nat /\ Len(sh[n].ms) \in Nat
        BY <4>3
      <4> QED
        BY <4>2, <4>4, <4>5, <4>6
    <3>2. i < n => /\ x.frames[i].bp + Len(sh[i].ts) - 1 <= x.frames[n].bp
                   /\ mb[i] + Len(sh[i].ms) <= mb[n]
      BY <1>1, <1>5, <2>1
    <3>3. i = n \/ i < n
      BY <1>1, <2>1
    <3>4. /\ y.frames[i].bp = x.frames[i].bp /\ sh2[i] = sh[i] /\ mb2[i] = mb[i]
          /\ y.frames[j].bp = x.frames[n].bp + Len(sh[n].ts) - 1
          /\ mb2[j] = mb[n] + Len(sh[n].ms)
      <4>1. y.frames[i] = x.frames[i] /\ sh2[i] = sh[i] /\ mb2[i] = mb[i]
        BY <1>5, <1>6, <2>1
      <4>2. y.frames[j] = f /\ mb2[j] = Len(x.marks)
        BY <1>5, <1>6, <2>3
      <4>3. Len(x.marks) = mb[n] + Len(sh[n].ms)
        BY <1>1
      <4> QED
        BY <4>1, <4>2, <4>3
    <3>5. CASE i = n
      BY <3>1, <3>4, <3>5
    <3>6. CASE i < n
      <4> DEFINE p == x.frames[i].bp  q == x.frames[n].bp  u == Len(sh[i].ts)  w == Len(sh[n].ts)
                 c == mb[i]  d == mb[n]  g == Len(sh[i].ms)  h == Len(sh[n].ms)
      <4>1. {p, q, u, w, c, d, g, h} \subseteq Nat /\ w >= 1
        BY <3>1
      <4>2. p + u - 1 <= q /\ c + g <= d
        BY <3>2, <3>6
      <4>3. y.frames[i].bp = p /\ Len(sh2[i].ts) = u /\ mb2[i] = c /\ Len(sh2[i].ms) = g
            /\ y.frames[j].bp = q + w - 1 /\ mb2[j] = d + h
        BY <3>4
      <4> HIDE DEF p, q, u, w, c, d, g, h
      <4>4. p + u - 1 <= q + w - 1 /\ c + g <= d + h
        <5>1. /\ p \in Nat /\ q \in Nat /\ u \in Nat /\ w \in Nat /\ w >= 1
              /\ c \in Nat /\ d \in Nat /\ g \in Nat /\ h \in Nat
          BY <4>1
        <5> QED
          BY <4>2, <5>1, FurtherUp
      <4> QED
        BY <4>3, <4>4
    <3> QED
      BY <3>3, <3>5, <3>6
  <2> QED
    BY <1>5, <2>2, <2>3
<1>12. Len(y.marks) = mb2[m] + Len(sh2[m].ms)
  <2>1. y.marks = x.marks /\ mb2[m] = Len(x.marks) /\ sh2[m] = none /\ Len(none.ms) = 0
    BY <1>2, <1>5, <1>6
  <2> QED
    BY <1>3, <2>1
<1>13. Framed(y, m, sh2, mb2, fs)
  BY <1>4, <1>5, <1>6, <1>8, <1>9, <1>10, <1>11, <1>12 DEF Framed
<1>14. Len(y.ops) = y.frames[m].bp + Len(sh2[m].ts)
  <2>1. f.bp \in Nat
    BY DEF CallFrames
  <2> QED
    BY <1>2, <1>5, <1>6, <2>1
<1> QED
  BY <1>13, <1>14 DEF RunsAs, IsRunning

Under(x, y, n, v) ==
  /\ y.frames = Front(x.frames) /\ y.marks = x.marks
  /\ y.ops = Append(SubSeq(x.ops, 1, x.frames[n].bp), v)

LEMMA PopFrame ==
  ASSUME NEW V, NEW vs, NEW hs, NEW fs, World(V, vs, hs, fs), NEW x, Body(x, V),
         NEW n, NEW sh, NEW mb, Framed(x, n, sh, mb, fs), n > 1, sh[n].ms = <<>>,
         x.frames[n].bp <= Len(x.ops), NEW v, NEW y, Under(x, y, n, v)
  PROVE  IsRunning(y, fs)
<1> DEFINE m == n - 1
           sh2 == [j \in 1..m |-> sh[j]]
           mb2 == [j \in 1..m |-> mb[j]]
           b == x.frames[n].bp
<1>1. /\ n \in Nat /\ n >= 1 /\ n = Len(x.frames)
      /\ sh \in [1..n -> Shapes] /\ mb \in [1..n -> Nat]
      /\ \A i \in 1..n :
           /\ HasShape(x.frames[i], x.frames[i].ip, fs)
           /\ sh[i] = ShapeIn(x.frames[i], x.frames[i].ip, fs)
           /\ OpsFit(x.ops, x.frames[i].bp, sh[i].ts)
           /\ MarksFit(x.marks, mb[i], x.frames[i].bp, sh[i].ms)
      /\ x.frames[1].bp = 0 /\ mb[1] = 0
      /\ \A i \in 1..(n - 1) :
           /\ Waits(sh[i].ts)
           /\ x.frames[i + 1].bp = x.frames[i].bp + Len(sh[i].ts) - 1
           /\ mb[i + 1] = mb[i] + Len(sh[i].ms)
      /\ \A i, j \in 1..n : i < j =>
           /\ x.frames[i].bp + Len(sh[i].ts) - 1 <= x.frames[j].bp
           /\ mb[i] + Len(sh[i].ms) <= mb[j]
      /\ Len(x.marks) = mb[n] + Len(sh[n].ms)
  BY DEF Framed
<1>2. /\ m \in Nat /\ m >= 1 /\ m \in 1..m /\ n \in 1..n /\ 1 \in 1..m /\ m + 1 = n
      /\ \A j \in 1..m : j \in 1..n /\ j < n /\ sh2[j] = sh[j] /\ mb2[j] = mb[j]
  BY <1>1
<1>3. sh2 \in [1..m -> Shapes] /\ mb2 \in [1..m -> Nat]
  BY <1>1, <1>2
<1>4. /\ Len(y.frames) = m /\ \A j \in 1..m : y.frames[j] = x.frames[j]
      /\ y.marks = x.marks
  <2>1. x.frames \in Seq(CallFrames(V)) /\ Len(x.frames) >= 1
    BY <1>1 DEF Body
  <2> QED
    BY <1>1, <2>1, FrontOf DEF Under
<1>5. ASSUME NEW i \in 1..n
      PROVE  /\ x.frames[i].bp \in Nat /\ sh[i].ts \in Seq(Types) /\ Len(sh[i].ts) \in Nat /\ mb[i] \in Nat
             /\ Len(sh[i].ms) \in Nat
  <2>1. x.frames[i] \in CallFrames(V)
    BY <1>1 DEF Body
  <2>2. sh[i] \in Shapes /\ mb[i] \in Nat
    BY <1>1
  <2> QED
    BY <2>1, <2>2 DEF CallFrames, Shapes
<1>6. b \in Nat
  BY <1>2, <1>5
<1>7. Len(y.ops) = b + 1 /\ \A j \in 1..b : y.ops[j] = x.ops[j]
  <2>1. x.ops \in Seq(V) /\ Len(x.ops) \in Nat /\ b <= Len(x.ops)
    BY DEF Body
  <2>2. y.ops = Append(SubSeq(x.ops, 1, b), v)
    BY DEF Under
  <2> HIDE DEF b
  <2>3. SubSeq(x.ops, 1, b) \in Seq(V) /\ Len(SubSeq(x.ops, 1, b)) = b
    BY <1>6, <2>1
  <2>4. \A j \in 1..b : SubSeq(x.ops, 1, b)[j] = x.ops[j]
    BY <1>6, <2>1
  <2> QED
    BY <1>6, <2>2, <2>3, <2>4
<1> HIDE DEF sh2, mb2, m
<1>8. ASSUME NEW i \in 1..m
      PROVE  /\ HasShape(y.frames[i], y.frames[i].ip, fs)
             /\ sh2[i] = ShapeIn(y.frames[i], y.frames[i].ip, fs)
             /\ OpsFit(y.ops, y.frames[i].bp, sh2[i].ts)
             /\ MarksFit(y.marks, mb2[i], y.frames[i].bp, sh2[i].ms)
  <2>1. i \in 1..n /\ i < n /\ sh2[i] = sh[i] /\ mb2[i] = mb[i] /\ y.frames[i] = x.frames[i]
    BY <1>2, <1>4
  <2> DEFINE c == x.frames[i].bp
             ts == sh[i].ts
  <2>2. c \in Nat /\ ts \in Seq(Types) /\ Len(ts) \in Nat
    BY <1>5, <2>1
  <2>3. c + Len(ts) - 1 <= b
    BY <1>1, <1>2, <2>1
  <2>4. Waits(ts)
    BY <1>1, <2>1
  <2>5. OpsFit(x.ops, c, ts)
    BY <1>1, <2>1
  <2> HIDE DEF c, ts, b
  <2>6. ASSUME NEW k \in DOMAIN ts PROVE Is(y.ops[c + k], ts[k])
    <3>1. CASE k = Len(ts)
      <4>1. ts[k] = "any"
        BY <2>2, <2>4, <3>1 DEF Waits, Last
      <4> QED
        BY <4>1 DEF Is
    <3>2. CASE k # Len(ts)
      <4>1. k \in Nat /\ k >= 1 /\ k < Len(ts)
        BY <2>2, <3>2
      <4>2. c + k \in 1..b
        BY <1>6, <2>2, <2>3, <4>1
      <4>3. y.ops[c + k] = x.ops[c + k]
        BY <1>7, <4>2 DEF b
      <4>4. Is(x.ops[c + k], ts[k])
        BY <2>5 DEF OpsFit
      <4> QED
        BY <4>3, <4>4
    <3> QED
      BY <3>1, <3>2
  <2>7. OpsFit(y.ops, c, ts)
    BY <2>6 DEF OpsFit
  <2> QED
    BY <1>1, <1>4, <2>1, <2>7 DEF c, ts
<1>9. y.frames[1].bp = 0 /\ mb2[1] = 0
  BY <1>1, <1>2, <1>4
<1>10. ASSUME NEW i \in 1..(m - 1)
       PROVE  /\ Waits(sh2[i].ts)
              /\ y.frames[i + 1].bp = y.frames[i].bp + Len(sh2[i].ts) - 1
              /\ mb2[i + 1] = mb2[i] + Len(sh2[i].ms)
  <2>1. i \in 1..m /\ i + 1 \in 1..m /\ i \in 1..(n - 1)
    BY <1>2
  <2> QED
    BY <1>1, <1>2, <1>4, <2>1
<1>11. ASSUME NEW i \in 1..m, NEW j \in 1..m, i < j
       PROVE  /\ y.frames[i].bp + Len(sh2[i].ts) - 1 <= y.frames[j].bp
              /\ mb2[i] + Len(sh2[i].ms) <= mb2[j]
  BY <1>1, <1>2, <1>4, <1>11
<1>12. m \in 1..(n - 1)
  BY <1>1, <1>2
<1>13. Len(y.marks) = mb2[m] + Len(sh2[m].ms)
  <2>1. mb[n] = mb[m] + Len(sh[m].ms)
    BY <1>1, <1>2, <1>12
  <2>2. Len(x.marks) = mb[n]
    BY <1>1, <1>2, <1>5
  <2> QED
    BY <1>2, <1>4, <2>1, <2>2
<1>14. Framed(y, m, sh2, mb2, fs)
  BY <1>2, <1>3, <1>4, <1>8, <1>9, <1>10, <1>11, <1>13 DEF Framed
<1>15. Len(y.ops) = y.frames[m].bp + Len(sh2[m].ts)
  <2>1. b = x.frames[m].bp + Len(sh[m].ts) - 1
    BY <1>1, <1>2, <1>12
  <2>2. x.frames[m].bp \in Nat /\ Len(sh[m].ts) \in Nat
    BY <1>2, <1>5
  <2>3. y.frames[m] = x.frames[m] /\ sh2[m] = sh[m]
    BY <1>2, <1>4
  <2> HIDE DEF b
  <2> QED
    BY <1>7, <2>1, <2>2, <2>3 DEF b
<1> QED
  BY <1>14, <1>15 DEF RunsAs, IsRunning

-----------------------------------------------------------------------------
(* The operands of a call.                                                  *)
Calling == ByPosition \cup ByName

AtCall(V, t) ==
  /\ mode = "run" /\ CodeOp \in Calling /\ t \in Seq(Types) /\ Row(CodeOp, CodeArg, t, <<"any">>)
  /\ NArgs \in Nat /\ Len(t) \in Nat /\ Len(t) > NArgs /\ Len(t) <= Len(me.ops) - frame.bp
  /\ me.ops \in Seq(V) /\ Len(me.ops) \in Nat /\ frame.bp \in Nat /\ Base(NArgs) \in Nat
  /\ Base(NArgs) = Len(me.ops) - Len(t) /\ frame.bp <= Base(NArgs) /\ Cells(CodeOp) = CellsOf
  /\ Callee(NArgs) \in V /\ Object(NArgs) \in V
  /\ Args(NArgs) \in Seq(V) /\ Len(Args(NArgs)) = NArgs
  /\ CodeOp \in ByName => NArgs = 1 /\ STK(1) \in V /\ IsA(STK(1), "hash")

LEMMA Joined ==
  ASSUME NEW S, NEW a \in Seq(S), NEW b \in Seq(S)
  PROVE  /\ a \o b \in Seq(S) /\ Len(a \o b) = Len(a) + Len(b)
         /\ \A k \in 1..Len(a) : (a \o b)[k] = a[k]
         /\ \A k \in 1..Len(b) : (a \o b)[Len(a) + k] = b[k]
OBVIOUS

LEMMA CallRow ==
  ASSUME CodeOp \in Calling, CodeOp \in ByPosition => CodeArg \in Nat
  PROVE  \E t \in Seq(Types) :
           /\ Row(CodeOp, CodeArg, t, <<"any">>) /\ NArgs \in Nat /\ Len(t) \in Nat
           /\ Len(t) = NArgs + (IF IsMethodCall THEN 2 ELSE 1)
           /\ CodeOp \in ByName => t[Len(t)] = "hash"
<1>1. Leaves(CodeOp, CodeArg) = <<"any">> /\ CodeOp \in Straight
  BY DEF Leaves, Straight, Calling, ByPosition, ByName
<1>2. CASE CodeOp = "FCALL"
  <2>1. Takes(CodeOp, CodeArg) = Anys(CodeArg + 1)
    BY <1>2 DEF Takes, OneToOne, TwoToOne, ThreeToOne, Branching, ArithOps
  <2>2. CodeArg \in Nat /\ CodeArg + 1 \in Nat
    BY <1>2 DEF ByPosition
  <2>3. Anys(CodeArg + 1) \in Seq(Types) /\ Len(Anys(CodeArg + 1)) = CodeArg + 1
    BY <2>2, AnysTypes
  <2>4. NArgs = CodeArg /\ ~IsMethodCall /\ CodeOp \notin ByName
    BY <1>2 DEF NArgs, IsMethodCall, ByName
  <2> QED
    BY <1>1, <2>1, <2>2, <2>3, <2>4 DEF Row
<1>3. CASE CodeOp = "MCALL"
  <2>1. Takes(CodeOp, CodeArg) = Anys(CodeArg + 2)
    BY <1>3 DEF Takes, OneToOne, TwoToOne, ThreeToOne, Branching, ArithOps
  <2>2. CodeArg \in Nat /\ CodeArg + 2 \in Nat
    BY <1>3 DEF ByPosition
  <2>3. Anys(CodeArg + 2) \in Seq(Types) /\ Len(Anys(CodeArg + 2)) = CodeArg + 2
    BY <2>2, AnysTypes
  <2>4. NArgs = CodeArg /\ IsMethodCall /\ CodeOp \notin ByName
    BY <1>3 DEF NArgs, IsMethodCall, ByName
  <2> QED
    BY <1>1, <2>1, <2>2, <2>3, <2>4 DEF Row
<1>4. CASE CodeOp = "FCALLH"
  <2>1. Takes(CodeOp, CodeArg) = <<"any", "hash">>
    BY <1>4 DEF Takes, OneToOne, TwoToOne, ThreeToOne, Branching, ArithOps
  <2>2. NArgs = 1 /\ ~IsMethodCall
    BY <1>4 DEF NArgs, IsMethodCall, ByName
  <2> DEFINE t == <<"any", "hash">>
  <2>3. t \in Seq(Types) /\ Len(t) = 2 /\ t[Len(t)] = "hash"
    BY ShortTypes
  <2>4. Row(CodeOp, CodeArg, t, <<"any">>)
    BY <1>1, <2>1 DEF Row
  <2>5. NArgs \in Nat /\ Len(t) \in Nat /\ Len(t) = NArgs + (IF IsMethodCall THEN 2 ELSE 1)
    BY <2>2, <2>3
  <2> HIDE DEF t
  <2> QED
    BY <2>3, <2>4, <2>5
<1>5. CASE CodeOp = "MCALLH"
  <2>1. Takes(CodeOp, CodeArg) = <<"any", "any", "hash">>
    BY <1>5 DEF Takes, OneToOne, TwoToOne, ThreeToOne, Branching, ArithOps
  <2>2. NArgs = 1 /\ IsMethodCall
    BY <1>5 DEF NArgs, IsMethodCall, ByName
  <2> DEFINE t == <<"any", "any", "hash">>
  <2>3. t \in Seq(Types) /\ Len(t) = 3 /\ t[Len(t)] = "hash"
    BY ShortTypes
  <2>4. Row(CodeOp, CodeArg, t, <<"any">>)
    BY <1>1, <2>1 DEF Row
  <2>5. NArgs \in Nat /\ Len(t) \in Nat /\ Len(t) = NArgs + (IF IsMethodCall THEN 2 ELSE 1)
    BY <2>2, <2>3
  <2> HIDE DEF t
  <2> QED
    BY <2>3, <2>4, <2>5
<1> QED
  BY <1>2, <1>3, <1>4, <1>5 DEF Calling, ByPosition, ByName

LEMMA InCall ==
  ASSUME NEW ch, NEW i, NEW V, Well(ch, i, V), mode = "run", CodeOp \in Calling
  PROVE  \E t : AtCall(V, t)
<1>1. /\ me.ops \in Seq(V) /\ Len(me.ops) \in Nat /\ frame.bp \in Nat
      /\ CodeOp \in WithArgument => CodeArg \in Nat
      /\ World(V, vecs, hashes, funcs)
  BY AtOp
<1>2. CodeOp \in ByPosition => CodeArg \in Nat
  BY <1>1 DEF WithArgument
<1>3. PICK t \in Seq(Types) :
           /\ Row(CodeOp, CodeArg, t, <<"any">>) /\ NArgs \in Nat /\ Len(t) \in Nat
           /\ Len(t) = NArgs + (IF IsMethodCall THEN 2 ELSE 1)
           /\ CodeOp \in ByName => t[Len(t)] = "hash"
  BY <1>2, CallRow
<1>4. Len(t) <= Len(me.ops) - frame.bp
  <2>1. t = Takes(CodeOp, CodeArg)
    BY <1>3 DEF Row
  <2> QED
    BY <2>1, <1>3, OnStack
<1>5. \A k \in 1..Len(t) : STK(k) \in V /\ Is(STK(k), t[Len(t) + 1 - k])
  BY <1>3, Tops
<1>6. Len(t) > NArgs /\ Len(t) - NArgs \in {1, 2}
  BY <1>3
<1>7. Base(NArgs) = Len(me.ops) - Len(t) /\ Base(NArgs) \in Nat /\ frame.bp <= Base(NArgs)
  <2> DEFINE a == NArgs  p == Len(t)  q == Len(me.ops)
  <2>1. a \in Nat /\ p \in Nat /\ q \in Nat /\ frame.bp \in Nat /\ p <= q - frame.bp
    BY <1>1, <1>3, <1>4
  <2>2. p = a + (IF IsMethodCall THEN 2 ELSE 1)
    BY <1>3
  <2>3. Base(NArgs) = q - a - (IF IsMethodCall THEN 2 ELSE 1)
    BY DEF Base
  <2> HIDE DEF a, p, q
  <2>4. Base(NArgs) = q - p /\ Base(NArgs) \in Nat /\ frame.bp <= Base(NArgs)
    BY <2>1, <2>2, <2>3
  <2> QED
    BY <2>4 DEF q, p
<1>8. Callee(NArgs) \in V
  <2>1. Len(me.ops) - NArgs \in 1..Len(me.ops)
    BY <1>1, <1>3, <1>4, <1>6
  <2> QED
    BY <1>1, <2>1 DEF Callee
<1>9. Object(NArgs) \in V
  <2>1. CASE IsMethodCall
    <3>1. Len(me.ops) - NArgs - 1 \in 1..Len(me.ops)
      BY <1>1, <1>3, <1>4, <2>1
    <3> QED
      BY <1>1, <2>1, <3>1 DEF Object
  <2>2. CASE ~IsMethodCall
    BY <1>1, <2>2 DEF Object, World
  <2> QED
    BY <2>1, <2>2
<1>10. Args(NArgs) \in Seq(V) /\ Len(Args(NArgs)) = NArgs
  <2> DEFINE p == NArgs
             q == Len(me.ops)
  <2>1. p \in Nat /\ q \in Nat /\ p < q
    BY <1>1, <1>3, <1>4, <1>6
  <2>2. Args(p) = SubSeq(me.ops, q - p + 1, q)
    BY DEF Args
  <2>3. Len(me.ops) = q
    OBVIOUS
  <2> HIDE DEF p, q
  <2>4. q - p + 1 \in Int /\ q \in Int /\ \A k \in (q - p + 1)..q : k \in 1..Len(me.ops)
    BY <2>1, <2>3
  <2>5. SubSeq(me.ops, q - p + 1, q) \in Seq(V)
    BY <1>1, <2>4
  <2>6. Len(SubSeq(me.ops, q - p + 1, q)) = p
    BY <1>1, <2>1, <2>4
  <2> QED
    BY <2>2, <2>5, <2>6 DEF p
<1>11. CodeOp \in ByName => NArgs = 1 /\ STK(1) \in V /\ IsA(STK(1), "hash")
  <2> SUFFICES ASSUME CodeOp \in ByName PROVE NArgs = 1 /\ STK(1) \in V /\ IsA(STK(1), "hash")
    OBVIOUS
  <2>1. 1 \in 1..Len(t) /\ Len(t) + 1 - 1 = Len(t)
    BY <1>3, <1>6
  <2>2. STK(1) \in V /\ Is(STK(1), t[Len(t)])
    BY <1>5, <2>1
  <2>3. t[Len(t)] = "hash"
    BY <1>3
  <2> QED
    BY <2>2, <2>3 DEF Is, NArgs
<1>12. Cells(CodeOp) = CellsOf
  BY DEF Cells, CellsOf, WithArgument, Calling, ByName, ByPosition, Branching, Jumps
<1> QED
  BY <1>1, <1>3, <1>4, <1>6, <1>7, <1>8, <1>9, <1>10, <1>11, <1>12 DEF AtCall

(* The caller at a call, gone on behind it: it waits for the value that is to*)
(* lie on the operands below those of the call.                              *)
Gone(x, ops) ==
  x.frames = Frames(frame.ip + Cells(CodeOp)) /\ x.ops = ops /\ x.marks = me.marks

WaitsFor(x, fs, b) ==
  \E n, sh, mb : /\ Framed(x, n, sh, mb, fs) /\ Waits(sh[n].ts)
                 /\ b = x.frames[n].bp + Len(sh[n].ts) - 1

LEMMA CallerWaits ==
  ASSUME NEW ch, NEW i, NEW V, Well(ch, i, V), NEW t, AtCall(V, t),
         NEW ops, SameTo(me.ops, ops, Base(NArgs)), NEW x2, Gone(x2, ops)
  PROVE  WaitsFor(x2, funcs, Base(NArgs)) /\ x2.frames \in Seq(CallFrames(V))
         /\ Len(x2.frames) = Len(me.frames)
<1> DEFINE b == Base(NArgs)
           ip == frame.ip + Cells(CodeOp)
           l == <<"any">>
<1>1. /\ World(V, vecs, hashes, funcs) /\ Body(me, V) /\ code \in DOMAIN Shape
      /\ frame.ip \in Nat
  BY AtOp DEF AtCall
<1>2. mode = "run"
  BY DEF AtCall
<1>3. PICK n, sh, mb :
           /\ RunsAs(me, n, sh, mb, funcs) /\ n = Len(me.frames) /\ n \in DOMAIN me.frames
           /\ frame = me.frames[n] /\ code = CodeIn(frame, funcs)
           /\ CodeOp = OpAt(code, frame.ip) /\ CodeArg = ArgAt(code, frame.ip)
  BY <1>2, InRun
<1>4. PICK s : s = sh[n]
  OBVIOUS
<1>5. Framed(me, n, sh, mb, funcs) /\ Len(me.ops) = frame.bp + Len(s.ts)
  BY <1>3, <1>4 DEF RunsAs
<1>6. s \in Shapes /\ Ready(code, frame.ip, s) /\ mb[n] \in Nat /\ frame.bp \in Nat
  BY <1>1, <1>3, <1>4, <1>5, Verified
<1>7. s.ts \in Seq(Types) /\ s.ms \in Seq(Nat) /\ Len(s.ts) \in Nat /\ Len(s.ms) \in Nat
  BY <1>6 DEF Shapes
<1>8. t \in Seq(Types) /\ Len(t) \in Nat /\ Len(t) >= 1 /\ b = Len(me.ops) - Len(t) /\ b \in Nat
      /\ frame.bp <= b /\ Len(me.ops) \in Nat /\ me.ops \in Seq(V)
  BY DEF AtCall
<1>9. /\ CodeOp \in Straight /\ t = Takes(OpAt(code, frame.ip), ArgAt(code, frame.ip))
      /\ l = Leaves(OpAt(code, frame.ip), ArgAt(code, frame.ip))
  BY <1>3 DEF AtCall, Row
<1>10. l \in Seq(Types) /\ Len(l) = 1 /\ l[1] = "any"
  BY ShortTypes
<1>11. ip \in Nat /\ Cells(CodeOp) = Cells(OpAt(code, frame.ip))
  BY <1>1, <1>3, CellsNat
<1> HIDE DEF b, ip, l
<1>12. PICK y : y = [ip |-> ip, ts |-> Less(s.ts, Len(t)) \o l, ms |-> s.ms]
  OBVIOUS
<1>13. y \in After(code, frame.ip, s)
  <2>1. OpAt(code, frame.ip) \in Straight
    BY <1>3, <1>9
  <2>2. ip = frame.ip + Cells(OpAt(code, frame.ip))
    BY <1>11 DEF ip
  <2> QED
    BY <1>9, <1>12, <2>1, <2>2, StraightAfter
<1>14. Len(t) <= Len(s.ts)
  BY <1>5, <1>6, <1>7, <1>8
<1>15. y.ip = ip /\ y.ms = s.ms /\ y.ts \in Seq(Types) /\ Len(y.ts) = Len(s.ts) - Len(t) + 1
       /\ y.ts[Len(y.ts)] = "any" /\ \A k \in 1..(Len(s.ts) - Len(t)) : y.ts[k] = s.ts[k]
  <2> DEFINE less == Less(s.ts, Len(t))
             p == Len(s.ts) - Len(t)
  <2>1. p \in Nat /\ p <= Len(s.ts) /\ less = SubSeq(s.ts, 1, p)
    BY <1>7, <1>8, <1>14 DEF Less
  <2>2. y.ip = ip /\ y.ms = s.ms /\ y.ts = less \o l
    BY <1>12
  <2> HIDE DEF less, p
  <2>3. less \in Seq(Types) /\ Len(less) = p /\ \A k \in 1..p : less[k] = s.ts[k]
    BY <1>7, <2>1
  <2>4. /\ y.ts \in Seq(Types) /\ Len(y.ts) = p + 1 /\ y.ts[p + 1] = l[1]
        /\ \A k \in 1..p : y.ts[k] = less[k]
    <3>1. l \in Seq(Types) /\ Len(l) = 1 /\ 1 \in 1..Len(l)
      BY <1>10
    <3>2. p + 1 \in 1..(Len(less) + Len(l)) /\ p + 1 > Len(less) /\ (p + 1) - Len(less) = 1
      BY <2>1, <2>3, <3>1
    <3>0. less \in Seq(Types) /\ l \in Seq(Types)
      BY <2>3, <3>1
    <3>3. less \o l \in Seq(Types) /\ Len(less \o l) = p + 1
      <4>1. less \o l \in Seq(Types) /\ Len(less \o l) = Len(less) + Len(l)
        BY <3>0, Joined
      <4> QED
        BY <2>3, <3>1, <4>1
    <3>4. (less \o l)[p + 1] = l[1]
      BY <2>3, <3>1, Joined
    <3>5. \A k \in 1..p : (less \o l)[k] = less[k]
      BY <2>3, <3>1, Joined
    <3> QED
      BY <2>2, <3>3, <3>4, <3>5
  <2>5. /\ y.ts \in Seq(Types) /\ Len(y.ts) = p + 1 /\ y.ts[Len(y.ts)] = "any"
        /\ \A k \in 1..p : y.ts[k] = s.ts[k]
    BY <1>10, <2>3, <2>4
  <2> QED
    BY <2>2, <2>5 DEF p
<1>16. \A k \in 1..b : ops[k] = me.ops[k]
  BY DEF SameTo, b
<1>22. x2.frames = Frames(ip) /\ Frames(ip) \in Seq(CallFrames(V)) /\ Len(Frames(ip)) = n
       /\ x2.frames = [me.frames EXCEPT ![n] = GoneTo(me.frames[n], ip)]
       /\ x2.ops = ops /\ x2.marks = me.marks
  <2>1. x2.frames = Frames(ip) /\ x2.ops = ops /\ x2.marks = me.marks
    BY DEF Gone, ip
  <2> QED
    BY <1>2, <1>3, <1>11, <2>1, FramesIp
<1>17. TopGoes(me, x2, n, frame.bp, mb[n], y.ip, y.ts, y.ms)
  <2>1. OpsFit(me.ops, frame.bp, s.ts) /\ MarksFit(me.marks, mb[n], frame.bp, s.ms)
        /\ Len(me.marks) = mb[n] + Len(s.ms)
    BY <1>3, <1>4, <1>5 DEF Framed
  <2>2. x2.frames = [me.frames EXCEPT ![n] = GoneTo(me.frames[n], y.ip)]
    BY <1>15, <1>22
  <2>3. SameTo(me.ops, ops, frame.bp)
    BY <1>6, <1>8, <1>16 DEF SameTo
  <2>4. OpsFit(ops, frame.bp, y.ts)
    <3> SUFFICES ASSUME NEW k \in DOMAIN y.ts PROVE Is(ops[frame.bp + k], y.ts[k])
      BY DEF OpsFit
    <3>1. CASE k = Len(y.ts)
      BY <1>15, <3>1 DEF Is
    <3>2. CASE k # Len(y.ts)
      <4>1. k \in 1..(Len(s.ts) - Len(t)) /\ k \in DOMAIN s.ts
        <5> DEFINE p == Len(s.ts)  q == Len(t)
        <5>1. p \in Nat /\ q \in Nat /\ q >= 1 /\ q <= p /\ Len(y.ts) = p - q + 1
          BY <1>7, <1>8, <1>14, <1>15
        <5>2. k \in 1..Len(y.ts) /\ DOMAIN s.ts = 1..p
          BY <1>7, <1>15
        <5> HIDE DEF p, q
        <5>3. k \in 1..(p - q) /\ k \in DOMAIN s.ts
          BY <3>2, <5>1, <5>2
        <5> QED
          BY <5>3 DEF p, q
      <4>2. frame.bp + k \in 1..b
        BY <1>5, <1>6, <1>7, <1>8, <4>1
      <4>3. ops[frame.bp + k] = me.ops[frame.bp + k] /\ y.ts[k] = s.ts[k]
        BY <1>15, <1>16, <4>1, <4>2
      <4> QED
        BY <2>1, <4>1, <4>3 DEF OpsFit
    <3> QED
      BY <3>1, <3>2
  <2>5. SameTo(me.marks, me.marks, mb[n])
    BY DEF SameTo
  <2>6. x2.ops = ops /\ x2.marks = me.marks
    BY <1>22
  <2> QED
    BY <1>15, <2>1, <2>2, <2>3, <2>4, <2>5, <2>6 DEF TopGoes
<1>18. LandsIn(x2, n, mb, funcs, y.ts)
  BY <1>1, <1>3, <1>4, <1>5, <1>13, <1>15, <1>17, Lands
<1>19. PICK sh2 : /\ Framed(x2, n, sh2, mb, funcs) /\ Len(sh2[n].ts) = Len(y.ts)
                  /\ Waits(y.ts) => Waits(sh2[n].ts)
  BY <1>18 DEF LandsIn
<1>20. Waits(y.ts)
  BY <1>7, <1>8, <1>14, <1>15 DEF Waits, Last
<1>25. b = x2.frames[n].bp + Len(sh2[n].ts) - 1
  <2>1. x2.frames[n].bp = frame.bp
    <3>1. x2.frames[n] = GoneTo(me.frames[n], ip)
      BY <1>3, <1>22
    <3> QED
      BY <1>3, <3>1 DEF GoneTo
  <2> DEFINE p == Len(s.ts)  q == Len(t)  u == Len(sh2[n].ts)  w == Len(me.ops)
  <2>2. p \in Nat /\ q \in Nat /\ w \in Nat /\ u = p - q + 1 /\ w = frame.bp + p /\ b = w - q
        /\ frame.bp \in Nat
    BY <1>5, <1>6, <1>7, <1>8, <1>15, <1>19
  <2> HIDE DEF p, q, u, w
  <2>3. b = frame.bp + u - 1
    BY <2>2
  <2> QED
    BY <2>1, <2>3 DEF u
<1>26. WaitsFor(x2, funcs, b)
  BY <1>19, <1>20, <1>25 DEF WaitsFor
<1> QED
  BY <1>3, <1>22, <1>26 DEF b

(* The frame of the function that is called, where its code begins.         *)
LEMMA EnterWell ==
  ASSUME NEW ch, NEW i, NEW V, Well(ch, i, V), NEW t, AtCall(V, t), NEW W, Grows(V, W),
         NEW f \in CallFrames(W), f.ip = 0, f.bp = Base(NArgs), Len(me.frames) < MAX_RECURSION,
         EnterFrame(f, Base(NArgs), Cells(CodeOp))
  PROVE  Well(ch, i, W)'
<1> DEFINE b == Base(NArgs)
           ip == frame.ip + Cells(CodeOp)
           ops == SubSeq(me.ops, 1, b)
           x2 == [frames |-> Frames(ip), ops |-> ops, marks |-> me.marks]
<1>1. World(V, vecs, hashes, funcs)
  BY DEF Well
<1>2. /\ b \in Nat /\ me.ops \in Seq(V) /\ Len(me.ops) \in Nat /\ b <= Len(me.ops)
  <2> DEFINE q == Len(t)  w == Len(me.ops)
  <2>1. /\ b \in Nat /\ me.ops \in Seq(V) /\ w \in Nat /\ q \in Nat /\ b = w - q
    BY DEF AtCall
  <2> HIDE DEF q, w, b
  <2>2. b <= w
    BY <2>1
  <2> QED
    BY <2>1, <2>2 DEF w
<1>3. ops \in Seq(V) /\ Len(ops) = b /\ SameTo(me.ops, ops, b)
  BY <1>2 DEF SameTo
<1>4. WaitsFor(x2, funcs, b) /\ x2.frames \in Seq(CallFrames(V)) /\ Len(x2.frames) = Len(me.frames)
  <2>1. Gone(x2, ops)
    BY DEF Gone
  <2> HIDE DEF x2, ops
  <2> QED
    BY <1>3, <2>1, CallerWaits
<1>5. x2.frames = Frames(ip) /\ x2.ops = ops /\ x2.marks = me.marks
  OBVIOUS
<1> HIDE DEF x2, ip
<1>6. /\ V \subseteq W /\ World(W, vecs', hashes', funcs') /\ Extends_(funcs, funcs')
  BY DEF Grows
<1>7. PICK n, sh, mb : /\ Framed(x2, n, sh, mb, funcs) /\ Waits(sh[n].ts)
                       /\ b = x2.frames[n].bp + Len(sh[n].ts) - 1
  BY <1>4 DEF WaitsFor
<1>8. Framed(x2, n, sh, mb, funcs')
  BY <1>1, <1>4, <1>6, <1>7, FramedGrows
<1>9. x2.frames \in Seq(CallFrames(W))
  BY <1>4, <1>6, FunctionsGrow
<1>10. f.bp = b /\ Len(x2.ops) = b
  BY <1>3, <1>5
<1>11. \A z : Above(x2, z, f) => IsRunning(z, funcs')
  <2> HIDE DEF b
  <2> QED
    BY <1>6, <1>7, <1>8, <1>9, <1>10, PushFrame
<1>12. /\ Contexts(ctxs) /\ cur \in DOMAIN ctxs /\ me = ctxs[cur] /\ Body(me, V)
  BY WellChain
<1>13. ctxs' = [ctxs EXCEPT ![cur].frames = Append(Frames(ip), f), ![cur].ops = ops, ![cur].opFrame = b]
       /\ UNCHANGED <<prog, mode, result, free, cur>>
  BY <1>12 DEF EnterFrame, ip
<1>14. Moved(ctxs, ctxs', cur, Append(Frames(ip), f), me.marks, ops)
  <2> HIDE DEF ops, b
  <2> QED
    BY <1>12, <1>13, AssignEntered
<1> HIDE DEF ops, b
<1>15. Above(x2, ctxs'[cur], f)
  BY <1>5, <1>14 DEF Above, Moved
<1>16. Body(ctxs'[cur], W)
  <2>1. Body(me, W)
    BY <1>6, <1>12, BodyGrows
  <2>2. Append(Frames(ip), f) \in Seq(CallFrames(W)) /\ Len(Append(Frames(ip), f)) <= MAX_RECURSION
    <3>1. Frames(ip) \in Seq(CallFrames(W)) /\ Len(Frames(ip)) = Len(me.frames)
      BY <1>4, <1>5, <1>9
    <3>2. Len(Append(Frames(ip), f)) = Len(Frames(ip)) + 1 /\ Len(Frames(ip)) \in Nat
      BY <3>1
    <3>3. MAX_RECURSION \in Nat
      BY BoundsAssumption
    <3> QED
      BY <3>1, <3>2, <3>3
  <2>3. ops \in Seq(W) /\ Len(ops) <= MAX_STACK_DEPTH
    <3>1. Len(me.ops) <= MAX_STACK_DEPTH /\ MAX_STACK_DEPTH \in Nat
      BY <1>12, BoundsAssumption DEF Body
    <3>2. ops \in Seq(W)
      BY <1>3, <1>6, SeqGrows
    <3> QED
      BY <1>2, <1>3, <3>1, <3>2
  <2> QED
    BY <1>12, <1>14, <2>1, <2>2, <2>3 DEF Body, Moved
<1>17. SameTree(ctxs, ctxs') /\ \A c \in DOMAIN ctxs : c # cur => ctxs'[c] = ctxs[c]
  BY <1>14 DEF Moved, Others
<1>18. IsRunning(ctxs'[cur], funcs')
  BY <1>11, <1>15
<1>19. result \in V /\ mode' \in Running /\ result' \in W
  BY <1>6, <1>13 DEF Well
<1> QED
  BY <1>6, <1>13, <1>16, <1>17, <1>18, <1>19, OneStep

-----------------------------------------------------------------------------
(* The locals of a call hold what they are given.                           *)
In(h, V) == \A k \in DOMAIN h : h[k] \in V

LEMMA MeIn ==
  ASSUME NEW V, NEW obj \in V
  PROVE  In(Me(obj), V)
<1>1. CASE obj = Nil
  BY <1>1 DEF Me, In
<1>2. CASE obj # Nil
  BY <1>2, OneIn DEF Me, In
<1> QED
  BY <1>1, <1>2

LEMMA BindIn ==
  ASSUME NEW V, NEW S, NEW names \in Seq(S), NEW vals, \A j \in DOMAIN names : vals[j] \in V
  PROVE  In(Bind(names, vals), V)
<1> SUFFICES ASSUME NEW n \in ToSet(names)
             PROVE  vals[SelectInSeq(names, LAMBDA m : m = n)] \in V
  BY DEF Bind, In
<1> DEFINE I == {j \in 1..Len(names) : names[j] = n}
<1>1. I \subseteq Nat /\ I # {} /\ \A j \in I : j \in DOMAIN names
  BY DEF ToSet
<1>2. SelectInSeq(names, LAMBDA m : m = n) = Min(I)
  BY <1>1 DEF SelectInSeq
<1> HIDE DEF I
<1>3. Min(I) \in I
  BY <1>1, Least
<1> QED
  BY <1>1, <1>2, <1>3

OptStatics(c) == {c.opts[j][2] : j \in DOMAIN c.opts}

LEMMA NamedIn ==
  ASSUME NEW V, NEW c, CodeFits(c), OptStatics(c) \subseteq V, NEW args \in Seq(V),
         Len(args) >= Len(c.args)
  PROVE  In(NamedArgs(c, args), V)
<1> DEFINE na == Len(c.args)
           vals == [j \in DOMAIN c.opts |-> IF na + j <= Len(args) THEN args[na + j] ELSE c.opts[j][2]]
           names == OptNames(c)
<1>1. /\ c.args \in Seq(ToSet(c.args)) /\ c.opts \in Seq(ToSet(c.opts))
      /\ na \in Nat /\ Len(args) \in Nat
  BY DEF CodeFits
<1>2. In(Bind(c.args, args), V)
  <2>1. \A j \in DOMAIN c.args : args[j] \in V
    BY <1>1
  <2> QED
    BY <1>1, <2>1, BindIn
<1>3. In(Bind(names, vals), V)
  <2> DEFINE S == {c.opts[j][1] : j \in DOMAIN c.opts}
  <2>1. names \in Seq(S) /\ DOMAIN names = DOMAIN c.opts
    <3>1. DOMAIN c.opts = 1..Len(c.opts) /\ Len(c.opts) \in Nat
      BY <1>1
    <3> QED
      BY <3>1 DEF OptNames
  <2>2. ASSUME NEW j \in DOMAIN names PROVE vals[j] \in V
    <3>1. j \in DOMAIN c.opts /\ j \in Nat /\ j >= 1
      BY <1>1, <2>1
    <3>2. CASE na + j <= Len(args)
      <4>1. na + j \in 1..Len(args)
        BY <1>1, <3>1, <3>2
      <4>2. vals[j] = args[na + j]
        BY <3>1, <3>2
      <4> QED
        BY <4>1, <4>2
    <3>3. CASE ~(na + j <= Len(args))
      <4>1. vals[j] = c.opts[j][2]
        BY <3>1, <3>3
      <4>2. c.opts[j][2] \in OptStatics(c)
        BY <3>1 DEF OptStatics
      <4> QED
        BY <4>1, <4>2
    <3> QED
      BY <3>2, <3>3
  <2> HIDE DEF S, names, vals
  <2> QED
    BY <2>1, <2>2, BindIn
<1>4. NamedArgs(c, args) = Filled(Bind(c.args, args), Bind(names, vals))
  BY DEF NamedArgs
<1> HIDE DEF names, vals
<1> QED
  BY <1>2, <1>3, <1>4, FilledIn DEF In

LEMMA LocalsIn ==
  ASSUME NEW V, NEW c, CodeFits(c), OptStatics(c) \subseteq V, NEW args \in Seq(V),
         Len(args) >= Len(c.args), NEW obj \in V, NEW v, NeedsRest(c, args) => Vec(v) \in V
  PROVE  In(CallLocals(c, args, obj, v), V)
<1> DEFINE rest == IF NeedsRest(c, args) THEN One(c.rest, Vec(v)) ELSE <<>>
           mine == Filled(Me(obj), NamedArgs(c, args))
<1>1. In(mine, V)
  BY MeIn, NamedIn, FilledIn DEF In
<1>2. In(rest, V)
  <2>1. CASE NeedsRest(c, args)
    BY <2>1, OneIn DEF In
  <2>2. CASE ~NeedsRest(c, args)
    BY <2>2 DEF In
  <2> QED
    BY <2>1, <2>2
<1>3. CallLocals(c, args, obj, v) = Filled(mine, rest)
  BY DEF CallLocals
<1> HIDE DEF mine, rest
<1> QED
  BY <1>1, <1>2, <1>3, FilledIn DEF In

LEMMA RestIn ==
  ASSUME NEW V, NEW c, CodeFits(c), NEW args \in Seq(V)
  PROVE  RestVec(c, args) \in Seq(V)
<1>1. Len(c.args) \in Nat /\ Len(c.opts) \in Nat /\ Len(args) \in Nat
  BY DEF CodeFits
<1> DEFINE p == Len(c.args) + Len(c.opts) + 1
<1>2. p \in Nat /\ p >= 1
  <2> DEFINE a == Len(c.args)  b == Len(c.opts)
  <2>1. a \in Nat /\ b \in Nat /\ p = a + b + 1
    BY <1>1
  <2> HIDE DEF a, b, p
  <2> QED
    BY <2>1
<1> HIDE DEF p
<1>3. SubSeq(args, p, Len(args)) \in Seq(V)
  BY <1>1, <1>2
<1> QED
  BY <1>3 DEF RestVec, p

LEMMA WellGrows ==
  ASSUME NEW ch, NEW i, NEW V, Well(ch, i, V), NEW W, V \subseteq W, World(W, vecs, hashes, funcs)
  PROVE  Well(ch, i, W)
BY BodyGrows DEF Well

LEMMA WithOpts ==
  ASSUME NEW ch, NEW i, NEW V, Well(ch, i, V), NEW c \in DOMAIN Shape
  PROVE  Well(ch, i, V \cup OptStatics(c)) /\ CodeFits(c)
<1>1. World(V, vecs, hashes, funcs)
  BY DEF Well
<1>2. CodeFits(c)
  BY CodeIsVerified
<1> DEFINE W == V \cup OptStatics(c)
<1>3. ASSUME NEW v \in OptStatics(c) PROVE Sound(v, Len(vecs), Len(hashes), Len(funcs))
  <2>1. IsStatic(v)
    BY <1>2 DEF OptStatics, CodeFits
  <2> QED
    BY <2>1 DEF IsStatic, Sound
<1>4. \A v \in W : Sound(v, Len(vecs), Len(hashes), Len(funcs))
  BY <1>1, <1>3 DEF World
<1>5. V \subseteq W
  OBVIOUS
<1> HIDE DEF W
<1>6. World(W, vecs, hashes, funcs)
  BY <1>1, <1>4, <1>5, MoreValues
<1>7. Well(ch, i, W)
  BY <1>5, <1>6, WellGrows
<1> QED
  BY <1>2, <1>7 DEF W

LEMMA CalleeCode ==
  ASSUME NEW ch, NEW i, NEW V, Well(ch, i, V), NEW v \in V, IsA(v, "func")
  PROVE  FuncOf(v).code \in DOMAIN Shape
<1>1. World(V, vecs, hashes, funcs)
  BY DEF Well
<1>2. funcs[v[2]] \in Functions_(V)
  BY <1>1, FuncThere
<1> QED
  BY <1>2 DEF Functions_, FuncOf

(* The vector with the rest of the arguments, when there is one.            *)
LEMMA GrowsRest ==
  ASSUME NEW ch, NEW i, NEW V, Well(ch, i, V), NEW need \in BOOLEAN, NEW s \in Seq(V), NEW vs,
         vs = IF need THEN Append(vecs, s) ELSE vecs
  PROVE  \E W : /\ V \subseteq W /\ World(W, vs, hashes, funcs)
                /\ need => Vec(Len(vs)) \in W /\ Len(vs) = Len(vecs) + 1
<1>1. World(V, vecs, hashes, funcs)
  BY DEF Well
<1>2. CASE need
  <2>1. World(V \cup {Vec(Len(vecs) + 1)}, Append(vecs, s), hashes, funcs)
    BY <1>1, AddVec
  <2>2. Len(Append(vecs, s)) = Len(vecs) + 1
    BY <1>1 DEF World
  <2> QED
    BY <1>2, <2>1, <2>2
<1>3. CASE ~need
  BY <1>1, <1>3
<1> QED
  BY <1>2, <1>3

-----------------------------------------------------------------------------
(* An error leaves the objects as they are.                                 *)
LEMMA ErrorWell ==
  ASSUME NEW ch, NEW i, NEW V, Well(ch, i, V), mode = "run", NEW kind, Error_(kind)
  PROVE  IsWell'
<1>1. UNCHANGED heap /\ Throw(kind, me.dieArg)
  BY DEF Error_
<1>2. Grows(V, V)
  BY <1>1, GrowsSame
<1> QED
  BY <1>1, <1>2, Thrown

(* A function called with what is on the stack: its frame has the hash h.    *)
LEMMA CalledWell ==
  ASSUME NEW ch, NEW i, NEW V, Well(ch, i, V), NEW t, AtCall(V, t), NEW W, Grows(V, W),
         NEW func \in V, IsA(func, "func"), NEW h \in W, IsA(h, "hash"),
         ~(Len(me.frames) >= MAX_RECURSION),
         EnterFrame(NewFrame(func, h, Base(NArgs)), Base(NArgs), CellsOf)
  PROVE  IsWell'
<1>1. PICK f : f = NewFrame(func, h, Base(NArgs))
  OBVIOUS
<1>2. Base(NArgs) \in Nat /\ Cells(CodeOp) = CellsOf
  BY DEF AtCall
<1>3. V \subseteq W
  BY DEF Grows
<1>4. f \in CallFrames(W) /\ f.ip = 0 /\ f.bp = Base(NArgs)
  BY <1>1, <1>2, <1>3 DEF NewFrame, CallFrames, OfType
<1>5. Len(me.frames) < MAX_RECURSION
  <2>1. Len(me.frames) \in Nat /\ MAX_RECURSION \in Nat
    BY WellChain, BoundsAssumption DEF Body
  <2> QED
    BY <2>1
<1>6. EnterFrame(f, Base(NArgs), Cells(CodeOp))
  BY <1>1, <1>2
<1>7. Well(ch, i, W)'
  BY <1>4, <1>5, <1>6, EnterWell
<1> QED
  BY <1>7 DEF IsWell

LEMMA CallWell ==
  ASSUME NEW ch, NEW i, NEW V, Well(ch, i, V), Call
  PROVE  IsWell'
<1> DEFINE func == Callee(CodeArg)
           c == FuncOf(func).code
           args == Args(CodeArg)
           obj == Object(CodeArg)
           need == NeedsRest(c, args)
<1>1. mode = "run" /\ CodeOp \in ByPosition
  BY AtRuns DEF Call
<1>2. NArgs = CodeArg /\ CellsOf = 2 /\ CodeOp \in Calling
  BY <1>1 DEF NArgs, CellsOf, ByPosition, ByName, Calling
<1>3. \/ \E kind : Error_(kind)
      \/ /\ IsA(func, "func") /\ ~(Len(me.frames) >= MAX_RECURSION) /\ ~(Len(args) < Len(c.args))
         /\ vecs' = IF need THEN Append(vecs, RestVec(c, args)) ELSE vecs
         /\ hashes' = Append(hashes, CallLocals(c, args, obj, Len(vecs')))
         /\ EnterFrame(NewFrame(func, Hash(Len(hashes')), Base(CodeArg)), Base(CodeArg), 2)
         /\ UNCHANGED funcs
  BY DEF Call
<1>4. CASE \E kind : Error_(kind)
  BY <1>1, <1>4, ErrorWell
<1>5. CASE /\ IsA(func, "func") /\ ~(Len(me.frames) >= MAX_RECURSION) /\ ~(Len(args) < Len(c.args))
           /\ vecs' = IF need THEN Append(vecs, RestVec(c, args)) ELSE vecs
           /\ hashes' = Append(hashes, CallLocals(c, args, obj, Len(vecs')))
           /\ EnterFrame(NewFrame(func, Hash(Len(hashes')), Base(CodeArg)), Base(CodeArg), 2)
           /\ UNCHANGED funcs
  <2>1. func \in V
    <3>1. PICK t : AtCall(V, t)
      BY <1>1, <1>2, InCall
    <3> QED
      BY <1>2, <3>1 DEF AtCall
  <2>2. c \in DOMAIN Shape
    BY <1>5, <2>1, CalleeCode
  <2>3. PICK U : U = V \cup OptStatics(c)
    OBVIOUS
  <2>4. Well(ch, i, U) /\ CodeFits(c) /\ OptStatics(c) \subseteq U
    BY <2>2, <2>3, WithOpts
  <2>5. PICK t : AtCall(U, t)
    BY <1>1, <1>2, <2>4, InCall
  <2>6. func \in U /\ obj \in U /\ args \in Seq(U) /\ Len(args) \in Nat
    BY <1>2, <2>5 DEF AtCall
  <2>7. RestVec(c, args) \in Seq(U)
    BY <2>4, <2>6, RestIn
  <2>8. need \in BOOLEAN
    <3>1. c.vector \in BOOLEAN \/ c.vector \notin BOOLEAN
      OBVIOUS
    <3> QED
      BY DEF NeedsRest
  <2> HIDE DEF func, c, args, obj, need
  <2>9. PICK W : /\ U \subseteq W /\ World(W, vecs', hashes, funcs)
                 /\ need => Vec(Len(vecs')) \in W /\ Len(vecs') = Len(vecs) + 1
    BY <1>5, <2>4, <2>7, <2>8, GrowsRest
  <2>10. Len(args) >= Len(c.args)
    <3>1. Len(c.args) \in Nat
      BY <2>4 DEF CodeFits
    <3> QED
      BY <1>5, <2>6, <3>1
  <2>11. In(CallLocals(c, args, obj, Len(vecs')), W)
    <3>1. args \in Seq(W) /\ obj \in W /\ OptStatics(c) \subseteq W
      BY <2>4, <2>6, <2>9, SeqGrows
    <3>2. NeedsRest(c, args) => Vec(Len(vecs')) \in W
      BY <2>9 DEF need
    <3> QED
      BY <2>4, <2>10, <3>1, <3>2, LocalsIn
  <2>12. PICK X : X = W \cup {Hash(Len(hashes) + 1)}
    OBVIOUS
  <2>13. World(X, vecs', hashes', funcs)
    BY <1>5, <2>9, <2>11, <2>12, AddHash DEF In
  <2>14. Len(hashes') = Len(hashes) + 1
    BY <1>5, <2>9 DEF World
  <2>15. Grows(U, X)
    <3>1. Extends_(funcs, funcs)
      BY DEF Extends_
    <3> QED
      BY <1>5, <2>9, <2>12, <2>13, <3>1 DEF Grows
  <2>16. Hash(Len(hashes')) \in X /\ IsA(Hash(Len(hashes')), "hash")
    BY <2>12, <2>14 DEF Hash, IsA
  <2>17. EnterFrame(NewFrame(func, Hash(Len(hashes')), Base(NArgs)), Base(NArgs), CellsOf)
    BY <1>2, <1>5
  <2>18. IsA(func, "func") /\ ~(Len(me.frames) >= MAX_RECURSION)
    BY <1>5
  <2> QED
    BY <2>4, <2>5, <2>6, <2>15, <2>16, <2>17, <2>18, CalledWell
<1> QED
  BY <1>3, <1>4, <1>5

LEMMA CallByNameWell ==
  ASSUME NEW ch, NEW i, NEW V, Well(ch, i, V), CallByName
  PROVE  IsWell'
<1> DEFINE func == Callee(1)
           c == FuncOf(func).code
           given == STK(1)
           obj == Object(1)
           needs == c.vector /\ c.rest \notin DOMAIN HashOf(given)
           opts == Filled(HashOf(given), Bind(OptNames(c), OptVals(c)))
           rest == IF needs THEN One(c.rest, Vec(Len(vecs) + 1)) ELSE <<>>
           locals == Filled(opts, rest)
           Missing_ == Throw("missing arg", me.dieArg) /\ UNCHANGED <<vecs, funcs>>
                       /\ hashes' = [hashes EXCEPT ![given[2]] = Filled(Me(obj), @)]
           Enters == /\ vecs' = IF needs THEN Append(vecs, <<>>) ELSE vecs
                     /\ hashes' = [hashes EXCEPT ![given[2]] = Filled(Me(obj), locals)]
                     /\ EnterFrame(NewFrame(func, given, Base(1)), Base(1), 1)
                     /\ UNCHANGED funcs
<1>1. mode = "run" /\ CodeOp \in ByName
  BY AtRuns DEF CallByName
<1>2. NArgs = 1 /\ CellsOf = 1 /\ CodeOp \in Calling
  BY <1>1 DEF NArgs, CellsOf, ByName, Calling
<1>3. \/ \E kind : Error_(kind)
      \/ IsA(func, "func") /\ Missing_
      \/ IsA(func, "func") /\ ~(Len(me.frames) >= MAX_RECURSION) /\ Enters
  BY DEF CallByName
<1>4. CASE \E kind : Error_(kind)
  BY <1>1, <1>4, ErrorWell
<1>5. ASSUME IsA(func, "func")
      PROVE  \E U : /\ Well(ch, i, U) /\ CodeFits(c) /\ OptStatics(c) \subseteq U
                    /\ func \in U /\ obj \in U /\ given \in U /\ IsA(given, "hash")
                    /\ \E t : AtCall(U, t)
  <2>1. func \in V
    <3>1. PICK t : AtCall(V, t)
      BY <1>1, <1>2, InCall
    <3> QED
      BY <1>2, <3>1 DEF AtCall
  <2>2. c \in DOMAIN Shape
    BY <1>5, <2>1, CalleeCode
  <2>3. PICK U : U = V \cup OptStatics(c)
    OBVIOUS
  <2>4. Well(ch, i, U) /\ CodeFits(c) /\ OptStatics(c) \subseteq U
    BY <2>2, <2>3, WithOpts
  <2>5. PICK t : AtCall(U, t)
    BY <1>1, <1>2, <2>4, InCall
  <2>6. func \in U /\ obj \in U /\ given \in U /\ IsA(given, "hash")
    BY <1>1, <1>2, <2>5 DEF AtCall
  <2> HIDE DEF func, c, given, obj
  <2> QED
    BY <2>4, <2>5, <2>6
<1>6. CASE IsA(func, "func") /\ Missing_
  <2>1. PICK U : /\ Well(ch, i, U) /\ obj \in U /\ given \in U /\ IsA(given, "hash")
    BY <1>5, <1>6
  <2>2. given[2] \in DOMAIN hashes /\ In(HashOf(given), U)
    BY <2>1, HashHas DEF In
  <2>3. In(Filled(Me(obj), HashOf(given)), U)
    BY <2>1, <2>2, MeIn, FilledIn DEF In
  <2>4. World(U, vecs, hashes, funcs)
    BY <2>1 DEF Well
  <2>5. hashes' = [hashes EXCEPT ![given[2]] = Filled(Me(obj), HashOf(given))] /\ UNCHANGED <<vecs, funcs>>
    BY <1>6 DEF HashOf
  <2>6. Throw("missing arg", me.dieArg)
    BY <1>6
  <2> HIDE DEF given, obj, Missing_
  <2>7. World(U, vecs', hashes', funcs')
    BY <2>2, <2>3, <2>4, <2>5, PutHash DEF In
  <2>8. Grows(U, U)
    <3>1. Extends_(funcs, funcs)
      BY DEF Extends_
    <3> QED
      BY <2>5, <2>7, <3>1 DEF Grows
  <2> QED
    BY <1>1, <2>1, <2>6, <2>8, Thrown
<1>7. CASE IsA(func, "func") /\ ~(Len(me.frames) >= MAX_RECURSION) /\ Enters
  <2>1. PICK U : /\ Well(ch, i, U) /\ CodeFits(c) /\ OptStatics(c) \subseteq U
                 /\ func \in U /\ obj \in U /\ given \in U /\ IsA(given, "hash")
                 /\ \E t : AtCall(U, t)
    BY <1>5, <1>7
  <2>2. PICK t : AtCall(U, t)
    BY <2>1
  <2>3. given[2] \in DOMAIN hashes /\ In(HashOf(given), U)
    BY <2>1, HashHas DEF In
  <2>4. In(Bind(OptNames(c), OptVals(c)), U)
    <3> DEFINE names == OptNames(c)  vals == OptVals(c)  S == {c.opts[j][1] : j \in DOMAIN c.opts}
    <3>1. c.opts \in Seq(ToSet(c.opts))
      BY <2>1 DEF CodeFits
    <3>2. names \in Seq(S) /\ DOMAIN names = DOMAIN c.opts
      <4>1. DOMAIN c.opts = 1..Len(c.opts) /\ Len(c.opts) \in Nat
        BY <3>1
      <4> QED
        BY <4>1 DEF OptNames
    <3>3. \A j \in DOMAIN names : vals[j] \in U
      BY <2>1, <3>2 DEF OptVals, OptStatics
    <3> HIDE DEF names, vals, S
    <3>4. In(Bind(names, vals), U)
      BY <3>2, <3>3, BindIn
    <3> QED
      BY <3>4 DEF names, vals
  <2>5. In(opts, U)
    BY <2>3, <2>4, FilledIn DEF In
  <2>6. <<>> \in Seq(U) /\ needs \in BOOLEAN
    OBVIOUS
  <2>7. /\ vecs' = IF needs THEN Append(vecs, <<>>) ELSE vecs
        /\ hashes' = [hashes EXCEPT ![given[2]] = Filled(Me(obj), locals)]
        /\ EnterFrame(NewFrame(func, given, Base(1)), Base(1), 1)
        /\ UNCHANGED funcs
    BY <1>7
  <2>8. locals = Filled(opts, rest) /\ rest = IF needs THEN One(c.rest, Vec(Len(vecs) + 1)) ELSE <<>>
    OBVIOUS
  <2>9. IsA(func, "func") /\ ~(Len(me.frames) >= MAX_RECURSION)
    BY <1>7
  <2> HIDE DEF func, c, given, obj, needs, opts, rest, locals, Missing_, Enters
  <2>10. PICK W : /\ U \subseteq W /\ World(W, vecs', hashes, funcs)
                  /\ needs => Vec(Len(vecs')) \in W /\ Len(vecs') = Len(vecs) + 1
    <3>1. PICK e, d : e = <<>> /\ d = needs
      OBVIOUS
    <3>2. e \in Seq(U) /\ d \in BOOLEAN /\ vecs' = IF d THEN Append(vecs, e) ELSE vecs
      BY <2>6, <2>7, <3>1
    <3>3. \E W : /\ U \subseteq W /\ World(W, vecs', hashes, funcs)
                 /\ d => Vec(Len(vecs')) \in W /\ Len(vecs') = Len(vecs) + 1
      BY <2>1, <3>2, GrowsRest, ZenonT(60)
    <3> QED
      BY <3>1, <3>3
  <2>11. In(rest, W)
    <3>1. CASE needs
      <4>1. Vec(Len(vecs) + 1) \in W
        BY <2>10, <3>1
      <4> QED
        BY <2>8, <3>1, <4>1, OneIn DEF In
    <3>2. CASE ~needs
      BY <2>8, <3>2 DEF In
    <3> QED
      BY <3>1, <3>2
  <2>12. In(opts, W) /\ obj \in W /\ given \in W
    BY <2>1, <2>5, <2>10 DEF In
  <2>13. In(locals, W)
    BY <2>8, <2>11, <2>12, FilledIn DEF In
  <2>14. In(Filled(Me(obj), locals), W)
    BY <2>12, <2>13, MeIn, FilledIn DEF In
  <2>15. World(W, vecs', hashes', funcs)
    BY <2>3, <2>7, <2>10, <2>14, PutHash DEF In
  <2>16. Grows(U, W)
    <3>1. Extends_(funcs, funcs)
      BY DEF Extends_
    <3> QED
      BY <2>7, <2>10, <2>15, <3>1 DEF Grows
  <2>17. EnterFrame(NewFrame(func, given, Base(NArgs)), Base(NArgs), CellsOf)
    BY <1>2, <2>7
  <2> QED
    BY <2>1, <2>2, <2>9, <2>12, <2>16, <2>17, CalledWell
<1> QED
  BY <1>3, <1>4, <1>6, <1>7

-----------------------------------------------------------------------------
(* Contexts that hold the same, whatever their links.                       *)
Alike(x, y) ==
  /\ y.frames = x.frames /\ y.ops = x.ops /\ y.marks = x.marks
  /\ y.opFrame = x.opFrame /\ y.dieArg = x.dieArg /\ y.waits = x.waits

AllAlike(cs, cs2) == DOMAIN cs2 = DOMAIN cs /\ \A c \in DOMAIN cs : Alike(cs[c], cs2[c])

LEMMA AlikeBodies ==
  ASSUME NEW x, NEW y, Alike(x, y)
  PROVE  /\ \A V : Body(x, V) => Body(y, V)
         /\ \A fs : IsRunning(x, fs) => IsRunning(y, fs)
         /\ \A fs : IsWaiting(x, fs) => IsWaiting(y, fs)
<1>1. ASSUME NEW V, Body(x, V) PROVE Body(y, V)
  BY <1>1 DEF Alike, Body
<1>2. ASSUME NEW fs, NEW n, NEW sh, NEW mb, Framed(x, n, sh, mb, fs) PROVE Framed(y, n, sh, mb, fs)
  BY <1>2 DEF Alike, Framed
<1>3. ASSUME NEW fs, IsRunning(x, fs) PROVE IsRunning(y, fs)
  BY <1>2, <1>3 DEF IsRunning, RunsAs, Alike
<1>4. ASSUME NEW fs, IsWaiting(x, fs) PROVE IsWaiting(y, fs)
  BY <1>2, <1>4 DEF IsWaiting, WaitsAs, Alike
<1> QED
  BY <1>1, <1>3, <1>4

LEMMA FreeAlike ==
  ASSUME NEW cs, Contexts(cs), NEW fr, NEW c
  PROVE  AllAlike(cs, FreeContext(cs, fr, c).cs) /\ AllAlike(cs, FreeChild(cs, fr, c).cs)
<1>1. ASSUME NEW d PROVE AllAlike(cs, FreeContext(cs, fr, d).cs)
  <2> DEFINE G == \E y \in ToSet(Lineage(cs, d)) : TRUE
             r == FreeContext(cs, fr, d).cs
  <2>1. r = [x \in DOMAIN cs |-> IF \E y \in ToSet(Lineage(cs, d)) : cs[y].parent = x
                                 THEN [cs[x] EXCEPT !.child = NoContext] ELSE cs[x]]
    BY DEF FreeContext
  <2> HIDE DEF r
  <2>2. ASSUME NEW x \in DOMAIN cs PROVE Alike(cs[x], r[x])
    <3>1. r[x] = cs[x] \/ r[x] = [cs[x] EXCEPT !.child = NoContext]
      BY <2>1
    <3>2. DOMAIN cs[x] = Fields
      BY DEF Contexts
    <3> QED
      BY <3>1, <3>2 DEF Alike, Fields
  <2>3. DOMAIN r = DOMAIN cs
    BY <2>1
  <2> QED
    BY <2>2, <2>3 DEF AllAlike, r
<1>2. AllAlike(cs, FreeChild(cs, fr, c).cs)
  <2>1. CASE cs[c].child = NoContext
    <3>1. FreeChild(cs, fr, c).cs = cs
      BY <2>1 DEF FreeChild
    <3> QED
      BY <3>1 DEF AllAlike, Alike
  <2>2. CASE cs[c].child # NoContext
    <3>1. FreeChild(cs, fr, c) = FreeContext(cs, fr, cs[c].child)
      BY <2>2 DEF FreeChild
    <3> QED
      BY <1>1, <3>1
  <2> QED
    BY <2>1, <2>2
<1> QED
  BY <1>1, <1>2

(* Contexts further out wait on, whatever the chain becomes.                *)
LEMMA StillWaits ==
  ASSUME NEW ch, NEW i, NEW V, Well(ch, i, V), NEW j \in 1..(i - 1), NEW fs, Extends_(funcs, fs),
         NEW y, Alike(ctxs[ch[j]], y)
  PROVE  IsWaiting(y, fs)
<1>1. World(V, vecs, hashes, funcs) /\ IsWaiting(ctxs[ch[j]], funcs)
  BY DEF Well
<1>2. ch[j] \in DOMAIN ctxs
  BY WellChain
<1>3. ctxs[ch[j]].frames \in Seq(CallFrames(V))
  BY <1>2 DEF Well, Body
<1>4. IsWaiting(ctxs[ch[j]], fs)
  BY <1>1, <1>3, FramedGrows
<1> QED
  BY <1>4, AlikeBodies

(* The chain up to a context, without what follows it.                      *)
LEMMA ChainTo ==
  ASSUME NEW S, NEW ch \in Seq(S), NEW i \in DOMAIN ch
  PROVE  LET q == SubSeq(ch, 1, i)
         IN  /\ q \in Seq(S) /\ Len(q) = i /\ DOMAIN q = 1..i /\ i \in Nat /\ i >= 1 /\ i <= Len(ch)
             /\ \A j \in 1..i : q[j] = ch[j] /\ j \in DOMAIN ch
<1>1. Len(ch) \in Nat /\ i \in 1..Len(ch)
  OBVIOUS
<1> QED
  BY <1>1

Returned == [ctxs EXCEPT ![cur].dieArg = Nil, ![cur].frames = Front(@)]

LEMMA ReturnChain ==
  ASSUME NEW ch, NEW i, NEW V, Well(ch, i, V), Return
  PROVE  LET freed == FreeChild(Returned, free, cur)
         IN  /\ Pool(freed.cs, freed.fr, SubSeq(ch, 1, i), {})
             /\ Pool(ctxs', free', SubSeq(ch, 1, i), {})
<1> DEFINE freed == FreeChild(Returned, free, cur)
           v == Append(SubSeq(me.ops, 1, frame.bp), STK(1))
<1>0. Contexts(ctxs) /\ cur \in DOMAIN ctxs /\ Pool(ctxs, free, ch, {}) /\ i \in DOMAIN ch /\ cur = ch[i]
  BY WellChain DEF Well
<1>3. SameTree(ctxs, Returned)
  <2>1. \E w : Returned = [ctxs EXCEPT ![cur].dieArg = Nil, ![cur].frames = w]
    <3>1. Returned = [ctxs EXCEPT ![cur].dieArg = Nil, ![cur].frames = Returned[cur].frames]
      <4>1. "frames" \in DOMAIN ctxs[cur]
        BY <1>0 DEF Contexts, Fields
      <4> QED
        BY <1>0, <4>1 DEF Returned
    <3> QED
      BY <3>1
  <2>2. PICK w : Returned = [ctxs EXCEPT ![cur].dieArg = Nil, ![cur].frames = w]
    BY <2>1
  <2>3. SameTree(ctxs, [ctxs EXCEPT ![cur].dieArg = Nil, ![cur].frames = w])
    BY <1>0, Assignments, Zenon
  <2> QED
    BY <2>2, <2>3
<1>4. Pool(Returned, free, ch, {})
  BY <1>0, <1>3, SameTreePool
<1>5. Pool(freed.cs, freed.fr, SubSeq(ch, 1, i), {})
  BY <1>0, <1>4, FreeChildOf
<1>6. /\ free' = freed.fr
      /\ ctxs' = freed.cs \/ ctxs' = [freed.cs EXCEPT ![cur].ops = v]
  BY DEF Return, Returned
<1> HIDE DEF freed, v
<1>7. Pool(ctxs', free', SubSeq(ch, 1, i), {})
  <2>1. SameTree(freed.cs, [freed.cs EXCEPT ![cur].ops = v])
    BY <1>5, Assignments, Zenon DEF Pool
  <2> QED
    BY <1>5, <1>6, <2>1, SameTreePool
<1> QED
  BY <1>5, <1>7 DEF freed

LEMMA ReturnedBodies ==
  ASSUME NEW ch, NEW i, NEW V, Well(ch, i, V), mode = "run"
  PROVE  /\ Returned[cur].dieArg = Nil /\ Returned[cur].frames = Front(me.frames)
         /\ Returned[cur].ops = me.ops /\ Returned[cur].marks = me.marks
         /\ Returned[cur].waits = me.waits
         /\ \A c \in DOMAIN ctxs : c # cur => Returned[c] = ctxs[c]
         /\ DOMAIN Returned = DOMAIN ctxs /\ Contexts(Returned)
         /\ \A c \in DOMAIN ctxs : Body(Returned[c], V)
<1>1. Contexts(ctxs) /\ cur \in DOMAIN ctxs /\ DOMAIN ctxs[cur] = Fields /\ me = ctxs[cur] /\ Body(me, V)
  BY WellChain
<1>2. /\ Returned[cur].dieArg = Nil /\ Returned[cur].frames = Front(me.frames)
      /\ Returned[cur].ops = me.ops /\ Returned[cur].marks = me.marks
      /\ Returned[cur].waits = me.waits
      /\ \A c \in DOMAIN ctxs : c # cur => Returned[c] = ctxs[c]
      /\ DOMAIN Returned = DOMAIN ctxs
  BY <1>1 DEF Returned, Fields
<1>3. Contexts(Returned)
  <2>1. \A c \in DOMAIN Returned : DOMAIN Returned[c] = Fields
    <3>1. DOMAIN Returned[cur] = Fields
      BY <1>1 DEF Returned
    <3>2. \A c \in DOMAIN ctxs : DOMAIN ctxs[c] = Fields
      BY <1>1 DEF Contexts
    <3> QED
      BY <1>2, <3>1, <3>2
  <2>2. SameTree(ctxs, Returned)
    BY <1>1 DEF SameTree, Returned, Fields
  <2>3. Pool(ctxs, free, ch, {})
    BY DEF Well
  <2>4. Pool(Returned, free, ch, {})
    BY <2>2, <2>3, SameTreePool
  <2> QED
    BY <2>4 DEF Pool
<1>4. Body(Returned[cur], V)
  <2>1. me.frames \in Seq(CallFrames(V)) /\ Len(me.frames) <= MAX_RECURSION /\ MAX_RECURSION \in Nat
    BY <1>1, BoundsAssumption DEF Body
  <2>2. Len(me.frames) >= 1
    <3>1. \E n, sh, mb : RunsAs(me, n, sh, mb, funcs) /\ n = Len(me.frames) /\ n \in DOMAIN me.frames
      BY InRun
    <3> QED
      BY <2>1, <3>1
  <2>3. Front(me.frames) \in Seq(CallFrames(V)) /\ Len(Front(me.frames)) = Len(me.frames) - 1
    BY <2>1, <2>2, FrontOf
  <2>4. Len(Front(me.frames)) <= MAX_RECURSION
    BY <2>1, <2>2, <2>3
  <2>5. Nil \in V
    BY DEF Well, World
  <2> QED
    BY <1>1, <1>2, <2>3, <2>4, <2>5 DEF Body
<1>5. \A c \in DOMAIN ctxs : Body(Returned[c], V)
  BY <1>2, <1>4 DEF Well
<1> QED
  BY <1>2, <1>3, <1>5

LEMMA ReturnWell ==
  ASSUME NEW ch, NEW i, NEW V, Well(ch, i, V), Return
  PROVE  IsWell'
<1> DEFINE freed == FreeChild(Returned, free, cur)
           v == STK(1)
           ops == Append(SubSeq(me.ops, 1, frame.bp), v)
           q == SubSeq(ch, 1, i)
<1>1. mode = "run" /\ CodeOp = "RETURN"
  <2>1. At({"RETURN"})
    BY DEF Return
  <2> QED
    BY <2>1, AtRuns
<1>2. /\ UNCHANGED <<prog, cur, heap>>
      /\ \/ Len(me.frames) = 1 /\ ctxs' = freed.cs /\ mode' = "back" /\ result' = v
         \/ Len(me.frames) # 1 /\ ctxs' = [freed.cs EXCEPT ![cur].ops = ops] /\ UNCHANGED <<mode, result>>
  BY DEF Return, Returned
<1>3. Pool(freed.cs, freed.fr, q, {}) /\ Pool(ctxs', free', q, {})
  BY ReturnChain
<1>4. Contexts(Returned) /\ DOMAIN Returned = DOMAIN ctxs
  BY <1>1, ReturnedBodies
<1>5. AllAlike(Returned, freed.cs) /\ Contexts(freed.cs)
  BY <1>3, <1>4, FreeAlike DEF Pool
<1>6. /\ Contexts(ctxs) /\ cur \in DOMAIN ctxs /\ me = ctxs[cur] /\ Body(me, V)
      /\ ch \in Seq(DOMAIN ctxs) /\ i \in DOMAIN ch /\ cur = ch[i]
      /\ i \in Nat /\ \A j \in 1..(i - 1) : j \in DOMAIN ch /\ ch[j] # cur /\ ch[j] \in DOMAIN ctxs
  BY WellChain DEF Well
<1>7. i \in DOMAIN q /\ q[i] = cur /\ \A j \in 1..(i - 1) : q[j] = ch[j]
  <2> DEFINE D == DOMAIN ctxs
  <2>1. ch \in Seq(D)
    BY <1>6
  <2> HIDE DEF D
  <2>2. DOMAIN q = 1..i /\ i >= 1 /\ \A j \in 1..i : q[j] = ch[j]
    BY <1>6, <2>1, ChainTo
  <2> QED
    BY <1>6, <2>2
<1> HIDE DEF q
<1>8. World(V, vecs', hashes', funcs') /\ Extends_(funcs, funcs')
  BY <1>2, SameHeap
<1>9. \A c \in DOMAIN ctxs : Body(freed.cs[c], V)
  BY <1>1, <1>4, <1>5, ReturnedBodies, AlikeBodies DEF AllAlike
<1>10. ASSUME NEW j \in 1..(i - 1), NEW y, y = freed.cs[ch[j]]
       PROVE  IsWaiting(y, funcs')
  <2>1. ch[j] # cur /\ ch[j] \in DOMAIN ctxs
    BY <1>6
  <2>2. Returned[ch[j]] = ctxs[ch[j]]
    BY <1>1, <2>1, ReturnedBodies
  <2>3. Alike(ctxs[ch[j]], y)
    BY <1>4, <1>5, <1>10, <2>1, <2>2 DEF AllAlike
  <2> QED
    BY <1>8, <2>3, StillWaits
<1>11. Alike(Returned[cur], freed.cs[cur]) /\ DOMAIN freed.cs = DOMAIN ctxs
  BY <1>4, <1>5, <1>6 DEF AllAlike
<1>12. v \in V /\ frame.bp \in Nat /\ me.ops \in Seq(V) /\ Len(me.ops) \in Nat /\ frame.bp + 1 <= Len(me.ops)
  <2> DEFINE t == <<"any">>
  <2>1. t = Takes(CodeOp, CodeArg) /\ t \in Seq(Types) /\ Len(t) = 1
    <3>1. Takes(CodeOp, CodeArg) = <<"any">>
      BY <1>1 DEF Takes, OneToOne, TwoToOne, ThreeToOne, Branching, ArithOps
    <3> QED
      BY <3>1, ShortTypes
  <2> HIDE DEF t
  <2>2. Len(t) <= Len(me.ops) - frame.bp /\ \A k \in 1..Len(t) : STK(k) \in V
    BY <1>1, <2>1, OnStack
  <2>3. frame.bp \in Nat /\ me.ops \in Seq(V) /\ Len(me.ops) \in Nat
    BY <1>1, AtOp
  <2>4. 1 \in 1..Len(t)
    BY <2>1
  <2>5. STK(1) \in V
    BY <2>2, <2>4
  <2>6. 1 <= Len(me.ops) - frame.bp
    BY <2>1, <2>2
  <2> QED
    BY <2>3, <2>5, <2>6
<1>13. CASE Len(me.frames) = 1 /\ ctxs' = freed.cs /\ mode' = "back" /\ result' = v
  <2> HIDE DEF freed, v
  <2>1. /\ mode' \in Running /\ cur' = q[i] /\ result' \in V
        /\ \A c \in DOMAIN ctxs' : Body(ctxs'[c], V)
        /\ \A j \in 1..(i - 1) : IsWaiting(ctxs'[q[j]], funcs')
        /\ mode' # "run"
    BY <1>2, <1>7, <1>9, <1>10, <1>11, <1>12, <1>13 DEF Running
  <2>2. Well(q, i, V)'
    BY <1>3, <1>7, <1>8, <2>1 DEF Well
  <2> QED
    BY <2>2 DEF IsWell
<1>14. CASE Len(me.frames) # 1 /\ ctxs' = [freed.cs EXCEPT ![cur].ops = ops] /\ UNCHANGED <<mode, result>>
  <2>1. PICK n, sh, mb :
           /\ RunsAs(me, n, sh, mb, funcs) /\ n = Len(me.frames) /\ n \in DOMAIN me.frames
           /\ frame = me.frames[n] /\ code = CodeIn(frame, funcs)
           /\ CodeOp = OpAt(code, frame.ip) /\ CodeArg = ArgAt(code, frame.ip)
    BY <1>1, InRun
  <2>2. Framed(me, n, sh, mb, funcs) /\ World(V, vecs, hashes, funcs)
    BY <2>1, SMTT(30) DEF RunsAs, Well
  <2>3. sh[n].ms = <<>>
    <3>1. PICK s : s = sh[n]
      OBVIOUS
    <3>2. Ready(code, frame.ip, s)
      BY <1>6, <2>1, <2>2, <3>1, Verified
    <3> QED
      BY <1>1, <2>1, <3>1, <3>2 DEF Ready
  <2>4. n > 1
    <3>1. n \in Nat /\ n >= 1
      BY <2>2 DEF Framed
    <3>2. n # 1
      BY <1>14, <2>1
    <3> QED
      BY <3>1, <3>2
  <2>5. me.frames[n].bp <= Len(me.ops)
    BY <1>12, <2>1
  <2>6. Alike(Returned[cur], freed.cs[cur])
    BY <1>11
  <2> DEFINE y == ctxs'[cur]
  <2> HIDE DEF freed, ops, v
  <2>7. DOMAIN freed.cs[cur] = Fields /\ cur \in DOMAIN freed.cs
    BY <1>5, <1>6, <1>11 DEF Contexts
  <2>8. /\ y.ops = ops /\ y.frames = freed.cs[cur].frames /\ y.marks = freed.cs[cur].marks
        /\ y.dieArg = freed.cs[cur].dieArg /\ y.waits = freed.cs[cur].waits
        /\ \A c \in DOMAIN freed.cs : c # cur => ctxs'[c] = freed.cs[c]
        /\ DOMAIN ctxs' = DOMAIN freed.cs
    BY <1>14, <2>7 DEF Fields
  <2> HIDE DEF y
  <2>9. y.frames = Front(me.frames) /\ y.marks = me.marks
    BY <1>1, <2>6, <2>8, ReturnedBodies DEF Alike
  <2>10. Under(me, y, n, v)
    BY <2>1, <2>8, <2>9 DEF Under, ops
  <2>11. IsRunning(y, funcs)
    BY <1>6, <2>2, <2>3, <2>4, <2>5, <2>10, PopFrame
  <2>12. ops \in Seq(V) /\ Len(ops) <= MAX_STACK_DEPTH
    <3> DEFINE s == SubSeq(me.ops, 1, frame.bp)
    <3>1. s \in Seq(V) /\ Len(s) = frame.bp
      BY <1>12
    <3>2. ops = Append(s, v)
      BY DEF ops
    <3> HIDE DEF s
    <3>3. ops \in Seq(V) /\ Len(ops) = frame.bp + 1
      BY <1>12, <3>1, <3>2 DEF v
    <3>4. Len(me.ops) <= MAX_STACK_DEPTH /\ MAX_STACK_DEPTH \in Nat
      BY <1>6, BoundsAssumption DEF Body
    <3> QED
      BY <1>12, <3>3, <3>4
  <2>13. Body(y, V)
    <3>1. Body(freed.cs[cur], V)
      BY <1>6, <1>9
    <3> QED
      BY <2>8, <2>12, <3>1 DEF Body
  <2>14. \A c \in DOMAIN ctxs' : Body(ctxs'[c], V)
    BY <1>9, <1>11, <2>8, <2>13 DEF y
  <2>15. \A j \in 1..(i - 1) : IsWaiting(ctxs'[q[j]], funcs')
    BY <1>6, <1>7, <1>10, <1>11, <2>8
  <2>16. funcs' = funcs /\ cur' = q[i] /\ mode' \in Running /\ result' \in V
    BY <1>2, <1>7, <1>14 DEF heap, Well
  <2>17. IsRunning(ctxs'[cur'], funcs')
    BY <1>7, <2>11, <2>16 DEF y
  <2>18. Well(q, i, V)'
    BY <1>3, <1>7, <1>8, <2>14, <2>15, <2>16, <2>17 DEF Well
  <2> QED
    BY <2>18 DEF IsWell
<1> QED
  BY <1>2, <1>13, <1>14

-----------------------------------------------------------------------------
(* What the functions of the library return and make of the objects.        *)
Gave(r, V) == \E W : V \subseteq W /\ World(W, r[3], r[4], funcs) /\ r[2] \in W

LEMMA GivesScalar ==
  ASSUME NEW V, World(V, vecs, hashes, funcs), NEW v, v[1] \in {"num", "str", "nil", "end"}
  PROVE  Gave(Gives(v), V)
<1>1. World(V \cup {v}, vecs, hashes, funcs)
  BY WithScalar
<1> QED
  BY <1>1 DEF Gives, Gave

LEMMA GivesValue ==
  ASSUME NEW V, World(V, vecs, hashes, funcs), NEW v \in V
  PROVE  Gave(Gives(v), V)
BY DEF Gives, Gave

LEMMA RefusesIn ==
  ASSUME NEW V, World(V, vecs, hashes, funcs), NEW kind
  PROVE  Gave(Refuses(kind), V)
BY DEF Refuses, Gave, World

LEMMA WithVecIn ==
  ASSUME NEW V, World(V, vecs, hashes, funcs), NEW v \in V, IsA(v, "vec"), NEW s \in Seq(V), NEW ret \in V
  PROVE  Gave(WithVec(v, s, ret), V)
<1>1. v[2] \in DOMAIN vecs
  BY VecThere
<1>2. World(V, [vecs EXCEPT ![v[2]] = s], hashes, funcs)
  BY <1>1, PutVec
<1> QED
  BY <1>2 DEF WithVec, Gave

LEMMA ScalarKinds ==
  ASSUME NEW x
  PROVE  /\ Num(x)[1] = "num" /\ Str(x)[1] = "str" /\ Nil[1] = "nil" /\ Bool(x)[1] = "num"
BY DEF Num, Str, Nil, Bool

LEMMA VecArg ==
  ASSUME NEW V, World(V, vecs, hashes, funcs), NEW args \in Seq(V), args # <<>>, IsA(args[1], "vec")
  PROVE  /\ args[1] \in V /\ VecOf(args[1]) \in Seq(V) /\ Len(VecOf(args[1])) \in Nat
         /\ SizeOf(args[1]) = Len(VecOf(args[1]))
<1>1. args[1] \in V
  OBVIOUS
<1>2. VecOf(args[1]) \in Seq(V)
  BY <1>1, VecThere DEF VecOf
<1>3. SizeOf(args[1]) = Len(VecOf(args[1]))
  BY DEF SizeOf, IsA
<1> QED
  BY <1>1, <1>2, <1>3

LEMMA FSizeIn ==
  ASSUME NEW V, World(V, vecs, hashes, funcs), NEW args \in Seq(V)
  PROVE  Gave(FSize(args), V)
<1>1. Gave(Gives(Num(SizeOf(args[1]))), V)
  BY GivesScalar, ScalarKinds
<1> QED
  BY <1>1, RefusesIn DEF FSize

LEMMA FAppendIn ==
  ASSUME NEW V, World(V, vecs, hashes, funcs), NEW args \in Seq(V)
  PROVE  Gave(FAppend(args), V)
<1>1. CASE Len(args) < 2 \/ ~IsA(args[1], "vec")
  BY <1>1, RefusesIn DEF FAppend
<1>2. CASE ~(Len(args) < 2 \/ ~IsA(args[1], "vec"))
  <2>1. args # <<>> /\ IsA(args[1], "vec")
    BY <1>2
  <2>2. args[1] \in V /\ VecOf(args[1]) \in Seq(V)
    BY <2>1, VecArg
  <2>3. Tail(args) \in Seq(V)
    BY <2>1
  <2>4. VecOf(args[1]) \o Tail(args) \in Seq(V)
    BY <2>2, <2>3, Joined
  <2>5. Gave(WithVec(args[1], VecOf(args[1]) \o Tail(args), args[1]), V)
    BY <2>1, <2>2, <2>4, WithVecIn
  <2> QED
    BY <1>2, <2>5 DEF FAppend
<1> QED
  BY <1>1, <1>2

LEMMA FPopIn ==
  ASSUME NEW V, World(V, vecs, hashes, funcs), NEW args \in Seq(V)
  PROVE  Gave(FPop(args), V)
<1>1. CASE args = <<>> \/ ~IsA(args[1], "vec")
  BY <1>1, RefusesIn DEF FPop
<1>2. CASE ~(args = <<>> \/ ~IsA(args[1], "vec")) /\ VecOf(args[1]) = <<>>
  BY <1>2, GivesScalar, ScalarKinds DEF FPop
<1>3. CASE ~(args = <<>> \/ ~IsA(args[1], "vec")) /\ VecOf(args[1]) # <<>>
  <2>1. PICK s : s = VecOf(args[1])
    OBVIOUS
  <2>2. args[1] \in V /\ s \in Seq(V) /\ s # <<>>
    BY <1>3, <2>1, VecArg
  <2>3. Len(s) \in Nat /\ Len(s) >= 1
    BY <2>2
  <2>4. Front(s) \in Seq(V)
    BY <2>2, <2>3, FrontOf
  <2>5. Last(s) \in V
    BY <2>2, <2>3 DEF Last
  <2>6. Gave(WithVec(args[1], Front(s), Last(s)), V)
    BY <1>3, <2>2, <2>4, <2>5, WithVecIn
  <2> QED
    BY <1>3, <2>1, <2>6 DEF FPop
<1> QED
  BY <1>1, <1>2, <1>3

LEMMA FSetsizeIn ==
  ASSUME NEW V, World(V, vecs, hashes, funcs), NEW args \in Seq(V)
  PROVE  Gave(FSetsize(args), V)
<1>1. CASE Len(args) < 2 \/ ~IsA(args[1], "vec")
  BY <1>1, RefusesIn DEF FSetsize
<1>2. CASE ~(Len(args) < 2 \/ ~IsA(args[1], "vec"))
  <2> DEFINE s == VecOf(args[1])
             n == SizeOf(args[1])
             k == AsInt(args[2])
             e == [j \in 1..k |-> IF j <= n THEN s[j] ELSE Nil]
  <2>1. args # <<>> /\ IsA(args[1], "vec")
    BY <1>2
  <2>2. args[1] \in V /\ s \in Seq(V) /\ n = Len(s) /\ n \in Nat
    BY <2>1, VecArg
  <2>3. k \in Int
    BY DEF AsInt
  <2>4. Nil \in V
    BY DEF World
  <2>5. FSetsize(args) = WithVec(args[1], e, args[1])
    BY <1>2 DEF FSetsize
  <2> HIDE DEF s, n, k
  <2>6. \A j \in 1..k : e[j] \in V
    <3>1. ASSUME NEW j \in 1..k, j <= n PROVE s[j] \in V
      <4>1. j \in 1..Len(s)
        BY <2>2, <2>3, <3>1
      <4> QED
        BY <2>2, <4>1
    <3> QED
      BY <2>4, <3>1
  <2>7. PICK m \in Nat : 1..k = 1..m
    <3>1. k >= 0 => k \in Nat
      BY <2>3
    <3>2. k < 0 => 1..k = 1..0
      BY <2>3
    <3> QED
      BY <2>3, <3>1, <3>2
  <2>8. e \in [1..m -> V]
    BY <2>6, <2>7
  <2>9. e \in Seq(V)
    BY <2>8, SeqDef
  <2> HIDE DEF e
  <2>10. Gave(WithVec(args[1], e, args[1]), V)
    BY <2>1, <2>2, <2>9, WithVecIn
  <2> QED
    BY <2>5, <2>10
<1> QED
  BY <1>1, <1>2

LEMMA FSubvecIn ==
  ASSUME NEW V, World(V, vecs, hashes, funcs), NEW args \in Seq(V)
  PROVE  Gave(FSubvec(args), V)
<1> DEFINE n == SizeOf(args[1])
           start == AsInt(args[2])
           rest == Len(args) = 2 \/ ~IsNumeric(args[3])
           len == IF rest THEN n - start ELSE AsInt(args[3])
           Bad_ == ~IsA(args[1], "vec") \/ start < 0 \/ start > n \/ len < 0
           s == VecOf(args[1])
           k == start + (IF len > n - start THEN n - start ELSE len)
           r == <<"", Vec(Len(vecs) + 1), Append(vecs, SubSeq(s, start + 1, k)), hashes>>
<1>1. FSubvec(args) = IF Len(args) < 2 THEN Gives(Nil) ELSE IF Bad_ THEN Refuses("bad argument") ELSE r
  BY DEF FSubvec
<1>2. CASE Len(args) < 2
  BY <1>1, <1>2, GivesScalar, ScalarKinds
<1>3. CASE ~(Len(args) < 2) /\ Bad_
  BY <1>1, <1>3, RefusesIn
<1>4. CASE ~(Len(args) < 2) /\ ~Bad_
  <2>1. args # <<>> /\ IsA(args[1], "vec")
    BY <1>4
  <2>2. s \in Seq(V) /\ n = Len(s) /\ n \in Nat
    BY <2>1, VecArg
  <2>3. start \in Int /\ len \in Int
    <3>1. start \in Int /\ AsInt(args[3]) \in Int
      BY DEF AsInt
    <3> HIDE DEF start, n
    <3> QED
      BY <2>2, <3>1
  <2>4. start >= 0 /\ start <= n /\ len >= 0
    <3> HIDE DEF start, n, len
    <3> QED
      BY <1>4, <2>2, <2>3
  <2>5. start + 1 \in Nat /\ start + 1 >= 1 /\ k \in Nat /\ k <= Len(s)
    <3> HIDE DEF start, n, len, s
    <3> QED
      BY <2>2, <2>3, <2>4
  <2> HIDE DEF start, n, len, s, k
  <2>6. SubSeq(s, start + 1, k) \in Seq(V)
    BY <2>2, <2>5
  <2>7. World(V \cup {Vec(Len(vecs) + 1)}, Append(vecs, SubSeq(s, start + 1, k)), hashes, funcs)
    BY <2>6, AddVec
  <2>8. Gave(r, V)
    BY <2>7 DEF Gave
  <2> QED
    BY <1>1, <1>4, <2>8
<1> QED
  BY <1>2, <1>3, <1>4

LEMMA FDeleteIn ==
  ASSUME NEW V, World(V, vecs, hashes, funcs), NEW args \in Seq(V)
  PROVE  Gave(FDelete(args), V)
<1>1. CASE Len(args) < 2 \/ ~IsA(args[1], "hash")
  BY <1>1, RefusesIn DEF FDelete
<1>2. CASE ~(Len(args) < 2 \/ ~IsA(args[1], "hash"))
  <2> DEFINE a == args[1]
             h == [k \in DOMAIN hashes[a[2]] \ {args[2]} |-> hashes[a[2]][k]]
  <2>1. a \in V /\ IsA(a, "hash")
    BY <1>2
  <2>2. a[2] \in DOMAIN hashes /\ \A k \in DOMAIN hashes[a[2]] : hashes[a[2]][k] \in V
    BY <2>1, HashThere
  <2>3. FDelete(args) = <<"", a, vecs, [hashes EXCEPT ![a[2]] = h]>>
    BY <1>2 DEF FDelete
  <2> HIDE DEF a
  <2>4. \A k \in DOMAIN h : h[k] \in V
    BY <2>2
  <2> HIDE DEF h
  <2>5. World(V, vecs, [hashes EXCEPT ![a[2]] = h], funcs)
    BY <2>2, <2>4, PutHash
  <2>6. PICK hs : hs = [hashes EXCEPT ![a[2]] = h]
    OBVIOUS
  <2>7. FDelete(args) = <<"", a, vecs, hs>> /\ World(V, vecs, hs, funcs)
    BY <2>3, <2>5, <2>6
  <2>8. Gave(<<"", a, vecs, hs>>, V)
    BY <2>1, <2>7 DEF Gave
  <2> QED
    BY <2>7, <2>8
<1> QED
  BY <1>1, <1>2

LEMMA FScalarsIn ==
  ASSUME NEW V, World(V, vecs, hashes, funcs), NEW args \in Seq(V)
  PROVE  Gave(FContains(args), V) /\ Gave(FNum(args), V) /\ Gave(FStreq(args), V) /\ Gave(FTypeof(args), V)
<1>1. Gave(Gives(Nil), V) /\ \A x : Gave(Gives(Num(x)), V) /\ Gave(Gives(Str(x)), V) /\ Gave(Gives(Bool(x)), V)
  BY GivesScalar, ScalarKinds
<1>2. Gave(FContains(args), V)
  BY <1>1, RefusesIn DEF FContains
<1>3. Gave(FNum(args), V)
  BY <1>1 DEF FNum
<1>4. Gave(FStreq(args), V)
  BY <1>1 DEF FStreq
<1>5. Gave(FTypeof(args), V)
  BY <1>1 DEF FTypeof
<1> QED
  BY <1>2, <1>3, <1>4, <1>5

LEMMA LibraryIn ==
  ASSUME NEW V, World(V, vecs, hashes, funcs), NEW args \in Seq(V), NEW name \in LibraryNames
  PROVE  Gave(Library(name, args), V)
BY FSizeIn, FAppendIn, FPopIn, FSetsizeIn, FSubvecIn, FDeleteIn, FScalarsIn DEF Library, LibraryNames

LEMMA CallLibraryWell ==
  ASSUME NEW ch, NEW i, NEW V, Well(ch, i, V), CallLibrary
  PROVE  IsWell'
<1>1. mode = "run" /\ CodeOp \in Calling /\ Callee(NArgs)[2] \in LibraryNames
  <2>1. At(ByPosition \cup ByName) /\ Callee(NArgs)[2] \in LibraryNames
    BY DEF CallLibrary, Calls
  <2> QED
    BY <2>1, AtRuns DEF Calling
<1>2. PICK t : AtCall(V, t)
  BY <1>1, InCall
<1>3. World(V, vecs, hashes, funcs)
  BY DEF Well
<1>4. PICK r : r = Library(Callee(NArgs)[2], Args(NArgs))
  OBVIOUS
<1>5. Args(NArgs) \in Seq(V)
  BY <1>2 DEF AtCall
<1>6. PICK W : V \subseteq W /\ World(W, r[3], r[4], funcs) /\ r[2] \in W
  BY <1>1, <1>3, <1>4, <1>5, LibraryIn DEF Gave
<1>7. /\ vecs' = r[3] /\ hashes' = r[4] /\ UNCHANGED funcs
      /\ \/ \E kind : Throw(kind, me.dieArg)
         \/ Go(CellsOf, Append(SubSeq(me.ops, 1, Base(NArgs)), r[2]))
  BY <1>4 DEF CallLibrary
<1>8. Grows(V, W)
  <2>1. Extends_(funcs, funcs)
    BY DEF Extends_
  <2> QED
    BY <1>6, <1>7, <2>1 DEF Grows
<1>9. CASE \E kind : Throw(kind, me.dieArg)
  BY <1>1, <1>8, <1>9, Thrown
<1>10. CASE Go(CellsOf, Append(SubSeq(me.ops, 1, Base(NArgs)), r[2]))
  <2>1. t \in Seq(Types) /\ Row(CodeOp, CodeArg, t, <<"any">>) /\ Cells(CodeOp) = CellsOf
        /\ Base(NArgs) = Len(me.ops) - Len(t)
    BY <1>2 DEF AtCall
  <2>2. PICK v : v = r[2] /\ v \in W
    BY <1>6
  <2>3. GoOrThrow(Append(Popped(Len(t)), v)) /\ Is(v, "any")
    BY <1>10, <2>1, <2>2 DEF GoOrThrow, Popped, Is
  <2> QED
    BY <1>1, <1>8, <2>1, <2>2, <2>3, TypeNames, ValueOut
<1> QED
  BY <1>7, <1>9, <1>10

LEMMA DieWell ==
  ASSUME NEW ch, NEW i, NEW V, Well(ch, i, V), Die
  PROVE  IsWell'
<1>1. mode = "run" /\ CodeOp \in Calling
  <2>1. At(ByPosition \cup ByName)
    BY DEF Die, Calls
  <2> QED
    BY <2>1, AtRuns DEF Calling
<1>2. PICK t : AtCall(V, t)
  BY <1>1, InCall
<1>3. Args(NArgs) \in Seq(V)
  BY <1>2 DEF AtCall
<1>4. DieArg(Args(NArgs)) \in V
  <2>1. PICK a : a = Args(NArgs) /\ a \in Seq(V)
    BY <1>3
  <2>2. Nil \in V
    BY DEF Well, World
  <2>3. DieArg(a) \in V
    BY <2>1, <2>2 DEF DieArg
  <2> QED
    BY <2>1, <2>3
<1>5. UNCHANGED heap /\ \E kind : Throw(kind, DieArg(Args(NArgs)))
  <2>1. UNCHANGED heap
    BY DEF Die
  <2>2. \/ /\ ctxs[me.child].dieArg = DieArg(Args(NArgs))
           /\ Throw(ctxs[me.child].error, ctxs[me.child].dieArg)
        \/ Throw("__die__", DieArg(Args(NArgs)))
    BY DEF Die
  <2> QED
    BY <2>1, <2>2
<1>6. Grows(V, V)
  BY <1>5, GrowsSame
<1>7. PICK kind, arg : Throw(kind, arg) /\ arg \in V
  BY <1>4, <1>5
<1>8. Well(ch, i, V)'
  BY <1>1, <1>6, <1>7, ThrowWell DEF Grows
<1> QED
  BY <1>8 DEF IsWell

-----------------------------------------------------------------------------
(* The context that call() makes, behind the one that runs.                 *)
LEMMA NewAlike ==
  ASSUME NEW ch, NEW i, NEW V, Well(ch, i, V)
  PROVE  /\ DOMAIN WithNewContext.cs = DOMAIN ctxs \cup {NewContext}
         /\ WithNewContext.cs[NewContext] = NewFields
         /\ \A c \in DOMAIN ctxs : c # NewContext => WithNewContext.cs[c] = ctxs[c]
<1>1. Pool(ctxs, free, ch, {}) /\ Contexts(ctxs)
  BY WellChain DEF Well
<1>2. PICK S : ctxs \in Seq(S)
  BY <1>1 DEF Contexts
<1>3. DOMAIN ctxs = 1..Len(ctxs) /\ Len(ctxs) \in Nat
  BY <1>2
<1>4. CASE free = <<>>
  <2>1. NewContext = Len(ctxs) + 1 /\ WithNewContext.cs = Append(ctxs, NewFields)
    BY <1>4 DEF NewContext, WithNewContext
  <2>2. DOMAIN Append(ctxs, NewFields) = 1..(Len(ctxs) + 1)
        /\ Append(ctxs, NewFields)[Len(ctxs) + 1] = NewFields
        /\ \A c \in 1..Len(ctxs) : Append(ctxs, NewFields)[c] = ctxs[c]
    <3> HIDE DEF NewFields
    <3> QED
      BY <1>2
  <2> QED
    BY <1>3, <2>1, <2>2
<1>5. CASE free # <<>>
  <2>1. NewContext = Head(free) /\ WithNewContext.cs = [ctxs EXCEPT ![NewContext] = NewFields]
    BY <1>5 DEF NewContext, WithNewContext
  <2>2. NewContext \in DOMAIN ctxs
    <3> DEFINE D == DOMAIN ctxs
    <3>1. free \in Seq(D)
      BY <1>1 DEF Pool
    <3> HIDE DEF D
    <3>2. Head(free) \in D
      BY <1>5, <3>1
    <3> QED
      BY <2>1, <3>2 DEF D
  <2> QED
    BY <2>1, <2>2
<1> QED
  BY <1>4, <1>5

LEMMA LastOfChain ==
  ASSUME NEW S, NEW ch \in Seq(S), NEW i \in DOMAIN ch
  PROVE  SubSeq(ch, 1, i) # <<>> /\ SubSeq(ch, 1, i)[Len(SubSeq(ch, 1, i))] = ch[i]
<1> DEFINE q == SubSeq(ch, 1, i)
<1>1. q \in Seq(S) /\ Len(q) = i /\ i \in Nat /\ i >= 1 /\ \A j \in 1..i : q[j] = ch[j]
  BY ChainTo
<1> HIDE DEF q
<1>2. q # <<>> /\ q[Len(q)] = ch[i]
  BY <1>1
<1> QED
  BY <1>2 DEF q

LEMMA SubChain ==
  ASSUME NEW ch, NEW i, NEW V, Well(ch, i, V)
  PROVE  /\ Pool(SubContext.cs, SubContext.fr, Append(SubSeq(ch, 1, i), NewContext), {})
         /\ NewContext \notin ToSet(ch)
         /\ DOMAIN SubContext.cs = DOMAIN ctxs \cup {NewContext}
         /\ \A c \in DOMAIN ctxs : c # NewContext => Alike(ctxs[c], SubContext.cs[c])
         /\ Alike(NewFields, SubContext.cs[NewContext])
<1>1. /\ Contexts(ctxs) /\ cur \in DOMAIN ctxs /\ Pool(ctxs, free, ch, {}) /\ i \in DOMAIN ch /\ cur = ch[i]
      /\ ch \in Seq(DOMAIN ctxs)
  BY WellChain DEF Well
<1> DEFINE cs1 == WithNewContext.cs
           fr1 == WithNewContext.fr
           n == NewContext
           freed == FreeChild(cs1, fr1, cur)
           q == SubSeq(ch, 1, i)
<1>2. /\ DOMAIN cs1 = DOMAIN ctxs \cup {n} /\ cs1[n] = NewFields
      /\ \A c \in DOMAIN ctxs : c # n => cs1[c] = ctxs[c]
  BY NewAlike
<1>3. Pool(cs1, fr1, ch, {n})
  BY <1>1, TakeNew
<1> HIDE DEF cs1, fr1, n
<1>4. Pool(freed.cs, freed.fr, q, {n})
  <2> HIDE DEF freed, q
  <2>1. LET r == FreeChild(cs1, fr1, ch[i]) IN Pool(r.cs, r.fr, SubSeq(ch, 1, i), {n})
    BY <1>1, <1>3, FreeChildOf
  <2> QED
    BY <1>1, <2>1 DEF freed, q
<1>5. freed = [cs |-> freed.cs, fr |-> freed.fr]
  BY DEF FreeChild, FreeContext
<1>6. q # <<>> /\ q[Len(q)] = cur
  BY <1>1, LastOfChain
<1>7. /\ SubContext.cs = [freed.cs EXCEPT ![cur].child = n, ![n].parent = cur]
      /\ SubContext.fr = freed.fr
  <2>1. SubContext = [freed EXCEPT !.cs[cur].child = n, !.cs[n].parent = cur]
    BY DEF SubContext, cs1, fr1, n
  <2> HIDE DEF freed, n
  <2> QED
    BY <1>5, <2>1
<1>8. AllAlike(cs1, freed.cs) /\ Contexts(cs1) /\ Contexts(freed.cs)
  BY <1>3, <1>4, FreeAlike DEF Pool
<1> HIDE DEF freed, q
<1>9. Pool(SubContext.cs, SubContext.fr, Append(q, n), {})
  <2>1. Pool([freed.cs EXCEPT ![q[Len(q)]].child = n, ![n].parent = q[Len(q)]], freed.fr,
             Append(q, n), {})
    BY <1>4, <1>6, LinkChild
  <2> QED
    BY <1>6, <1>7, <2>1
<1>10. n \notin ToSet(ch)
  BY <1>3 DEF Pool
<1>11. AllAlike(freed.cs, SubContext.cs)
  <2>1. \A c \in DOMAIN freed.cs : DOMAIN freed.cs[c] = Fields
    BY <1>8 DEF Contexts
  <2> QED
    BY <1>7, <2>1 DEF AllAlike, Alike, Fields
<1>12. DOMAIN SubContext.cs = DOMAIN ctxs \cup {n}
       /\ \A c \in DOMAIN ctxs \cup {n} : Alike(cs1[c], SubContext.cs[c])
  <2>1. \A x, y, z : Alike(x, y) /\ Alike(y, z) => Alike(x, z)
    BY DEF Alike
  <2>2. DOMAIN freed.cs = DOMAIN cs1 /\ DOMAIN SubContext.cs = DOMAIN freed.cs
    BY <1>8, <1>11 DEF AllAlike
  <2>3. \A c \in DOMAIN cs1 : Alike(cs1[c], freed.cs[c]) /\ Alike(freed.cs[c], SubContext.cs[c])
    BY <1>8, <1>11, <2>2 DEF AllAlike
  <2> QED
    BY <1>2, <2>1, <2>2, <2>3
<1>13. \A c \in DOMAIN ctxs : c # n => Alike(ctxs[c], SubContext.cs[c])
  BY <1>2, <1>12
<1>14. Alike(NewFields, SubContext.cs[n])
  BY <1>2, <1>12
<1> QED
  BY <1>9, <1>10, <1>12, <1>13, <1>14 DEF n, q

(* The contexts when call() has left the one that runs to wait.             *)
Waiting(args) ==
  [SubContext.cs EXCEPT ![cur].waits = args, ![cur].opFrame = Base(NArgs),
                        ![cur].frames = Frames(frame.ip + CellsOf)]

CallOut(cs, ch, i, V) ==
  /\ Pool(cs, SubContext.fr, Append(SubSeq(ch, 1, i), NewContext), {})
  /\ \A c \in DOMAIN cs : Body(cs[c], V)
  /\ NewContext \in DOMAIN cs /\ NewContext \notin ToSet(ch)
  /\ cs[NewContext].frames = <<>> /\ cs[NewContext].ops = <<>> /\ cs[NewContext].marks = <<>>
  /\ \A j \in 1..i : ch[j] # NewContext /\ IsWaiting(cs[ch[j]], funcs)

LEMMA GoesOut ==
  ASSUME NEW ch, NEW i, NEW V, Well(ch, i, V), NEW t, AtCall(V, t)
  PROVE  CallOut(Waiting(Args(NArgs)), ch, i, V)
<1> DEFINE n == NewContext
           args == Args(NArgs)
           b == Base(NArgs)
           cs0 == SubContext.cs
           cs == Waiting(args)
           ch2 == Append(SubSeq(ch, 1, i), n)
<1>1. /\ Contexts(ctxs) /\ cur \in DOMAIN ctxs /\ Pool(ctxs, free, ch, {}) /\ i \in DOMAIN ch /\ cur = ch[i]
      /\ ch \in Seq(DOMAIN ctxs) /\ me = ctxs[cur] /\ Body(me, V) /\ i \in Nat
      /\ \A j \in 1..(i - 1) : j \in DOMAIN ch /\ ch[j] # cur /\ ch[j] \in DOMAIN ctxs
      /\ \A c \in DOMAIN ctxs : Body(ctxs[c], V)
  BY WellChain DEF Well
<1>2. /\ Pool(cs0, SubContext.fr, ch2, {})
      /\ n \notin ToSet(ch)
      /\ DOMAIN cs0 = DOMAIN ctxs \cup {n}
      /\ \A c \in DOMAIN ctxs : c # n => Alike(ctxs[c], cs0[c])
      /\ Alike(NewFields, cs0[n])
  BY SubChain
<1>3. /\ mode = "run" /\ args \in Seq(V) /\ Cells(CodeOp) = CellsOf /\ b \in Nat /\ b < Len(me.ops)
  <2> DEFINE p == Len(t)  w == Len(me.ops)
  <2>1. /\ mode = "run" /\ args \in Seq(V) /\ Cells(CodeOp) = CellsOf
        /\ b \in Nat /\ w \in Nat /\ p \in Nat /\ p > NArgs /\ NArgs \in Nat /\ b = w - p
    BY DEF AtCall
  <2> HIDE DEF b, p, w
  <2>2. b < w
    BY <2>1
  <2> QED
    BY <2>1, <2>2 DEF w
<1> HIDE DEF n, cs0, ch2
<1>4. \A j \in DOMAIN ch : ch[j] # n
  BY <1>2 DEF ToSet
<1>5. cur # n /\ cur \in DOMAIN cs0
  BY <1>1, <1>2, <1>4
<1>6. Contexts(cs0) /\ DOMAIN cs0[cur] = Fields
  BY <1>2, <1>5 DEF Pool, Contexts
<1>7. cs = [cs0 EXCEPT ![cur].waits = args, ![cur].opFrame = b, ![cur].frames = Frames(frame.ip + CellsOf)]
  BY DEF Waiting, cs0
<1> HIDE DEF cs, args, b
<1>8. /\ DOMAIN cs = DOMAIN cs0 /\ \A c \in DOMAIN cs0 : c # cur => cs[c] = cs0[c]
      /\ cs[cur].waits = args /\ cs[cur].opFrame = b /\ cs[cur].frames = Frames(frame.ip + CellsOf)
      /\ cs[cur].ops = cs0[cur].ops /\ cs[cur].marks = cs0[cur].marks /\ cs[cur].dieArg = cs0[cur].dieArg
  BY <1>5, <1>6, <1>7 DEF Fields
<1>9. Pool(cs, SubContext.fr, ch2, {})
  <2>1. SameTree(cs0, cs)
    BY <1>6, <1>7, Assignments, Zenon
  <2> QED
    BY <1>2, <2>1, SameTreePool
<1>10. cs[cur].ops = me.ops /\ cs[cur].marks = me.marks /\ cs[cur].dieArg = me.dieArg
  BY <1>1, <1>2, <1>5, <1>8 DEF Alike
<1>11. Gone(cs[cur], me.ops)
  BY <1>3, <1>8, <1>10 DEF Gone
<1>12. WaitsFor(cs[cur], funcs, b) /\ cs[cur].frames \in Seq(CallFrames(V)) /\ Len(cs[cur].frames) = Len(me.frames)
  <2>1. SameTo(me.ops, me.ops, Base(NArgs))
    BY DEF SameTo
  <2> QED
    BY <1>11, <2>1, CallerWaits DEF b
<1>13. IsWaiting(cs[cur], funcs)
  BY <1>3, <1>8, <1>10, <1>12 DEF WaitsFor, IsWaiting, WaitsAs
<1>14. Body(cs[cur], V)
  BY <1>1, <1>3, <1>8, <1>10, <1>12 DEF Body
<1>15. Body(NewFields, V)
  <2>1. Nil \in V
    BY DEF Well, World
  <2>2. MAX_RECURSION \in Nat /\ MAX_STACK_DEPTH \in Nat /\ MAX_MARK_DEPTH \in Nat
    BY BoundsAssumption
  <2> QED
    BY <2>1, <2>2 DEF Body, NewFields
<1>16. \A c \in DOMAIN cs : Body(cs[c], V)
  <2> SUFFICES ASSUME NEW c \in DOMAIN cs PROVE Body(cs[c], V)
    OBVIOUS
  <2>1. CASE c = cur
    BY <1>14, <2>1
  <2>2. CASE c = n
    BY <1>2, <1>5, <1>8, <1>15, <2>2, AlikeBodies
  <2>3. CASE c # cur /\ c # n
    <3>1. c \in DOMAIN ctxs /\ cs[c] = cs0[c]
      BY <1>2, <1>8, <2>3
    <3> QED
      BY <1>1, <1>2, <2>3, <3>1, AlikeBodies
  <2> QED
    BY <2>1, <2>2, <2>3
<1>17. n \in DOMAIN cs /\ cs[n].frames = <<>> /\ cs[n].ops = <<>> /\ cs[n].marks = <<>>
  BY <1>2, <1>5, <1>8 DEF Alike, NewFields
<1>18. ASSUME NEW j \in 1..i PROVE ch[j] # n /\ IsWaiting(cs[ch[j]], funcs)
  <2>1. CASE j = i
    BY <1>1, <1>4, <1>13, <2>1
  <2>2. CASE j # i
    <3>1. j \in 1..(i - 1)
      BY <1>1, <2>2
    <3>2. j \in DOMAIN ch /\ ch[j] # cur /\ ch[j] \in DOMAIN ctxs /\ ch[j] # n
      BY <1>1, <1>4, <3>1
    <3>3. cs[ch[j]] = cs0[ch[j]] /\ Alike(ctxs[ch[j]], cs0[ch[j]])
      BY <1>2, <1>8, <3>2
    <3>4. Extends_(funcs, funcs)
      BY DEF Extends_
    <3> QED
      BY <3>1, <3>2, <3>3, <3>4, StillWaits
  <2> QED
    BY <2>1, <2>2
<1> QED
  BY <1>2, <1>9, <1>16, <1>17, <1>18 DEF CallOut, n, ch2, cs, args

LEMMA OutWell ==
  ASSUME NEW ch, NEW i, NEW V, Well(ch, i, V), NEW cs, CallOut(cs, ch, i, V),
         NEW W, V \subseteq W, World(W, vecs', hashes', funcs'), UNCHANGED funcs,
         result' \in W, mode' \in Running, cur' = NewContext, free' = SubContext.fr,
         SameTree(cs, ctxs'), \A c \in DOMAIN cs : c # NewContext => ctxs'[c] = cs[c],
         Body(ctxs'[NewContext], W), mode' = "run" => IsRunning(ctxs'[NewContext], funcs')
  PROVE  IsWell'
<1> DEFINE n == NewContext
           q == SubSeq(ch, 1, i)
           ch2 == Append(q, n)
<1>1. /\ ch \in Seq(DOMAIN ctxs) /\ i \in DOMAIN ch /\ i \in Nat
      /\ \A j \in 1..i : ch[j] \in DOMAIN ctxs
  <2>1. /\ ch \in Seq(DOMAIN ctxs) /\ i \in DOMAIN ch /\ i \in Nat /\ cur = ch[i] /\ cur \in DOMAIN ctxs
        /\ \A j \in 1..(i - 1) : j \in DOMAIN ch /\ ch[j] \in DOMAIN ctxs
    BY WellChain DEF Well
  <2> QED
    BY <2>1
<1>2. /\ Pool(cs, SubContext.fr, ch2, {})
      /\ \A c \in DOMAIN cs : Body(cs[c], V)
      /\ n \in DOMAIN cs
      /\ \A j \in 1..i : ch[j] # n /\ IsWaiting(cs[ch[j]], funcs)
  BY DEF CallOut
<1>3. Len(ch2) = i + 1 /\ DOMAIN ch2 = 1..(i + 1) /\ ch2[i + 1] = n /\ \A j \in 1..i : ch2[j] = ch[j]
  <2> DEFINE D == DOMAIN ctxs
  <2>1. ch \in Seq(D)
    BY <1>1
  <2>0. i \in DOMAIN ch
    BY <1>1
  <2> HIDE DEF D
  <2>2. q \in Seq(D) /\ Len(q) = i /\ \A j \in 1..i : q[j] = ch[j]
    BY ONLY <2>0, <2>1, ChainTo
  <2> HIDE DEF q, n
  <2>3. q \in Seq(D \cup {n})
    <3>1. PICK T : T = D \cup {n}
      OBVIOUS
    <3>2. D \subseteq T
      BY <3>1
    <3>3. Seq(D) \subseteq Seq(T)
      BY <3>2, SeqGrows
    <3> QED
      BY <2>2, <3>1, <3>3
  <2>4. PICK r, m, S : r = q /\ m = n /\ S = D \cup {n} /\ r \in Seq(S) /\ m \in S
    BY <2>3
  <2>5. Len(r) = i /\ \A j \in 1..i : r[j] = ch[j]
    BY <2>2, <2>4
  <2>6. Append(r, m) \in Seq(S) /\ Len(Append(r, m)) = Len(r) + 1
        /\ \A j \in 1..(Len(r) + 1) : Append(r, m)[j] = IF j = Len(r) + 1 THEN m ELSE r[j]
    BY <2>4, AppendProperties
  <2>7. DOMAIN Append(r, m) = 1..Len(Append(r, m))
    BY <2>6
  <2>8. ch2 = Append(r, m)
    BY <2>4
  <2> HIDE DEF ch2
  <2>9. \A j \in 1..i : j # i + 1 /\ j \in 1..(i + 1)
    BY <1>1
  <2>10. i + 1 \in 1..(i + 1)
    BY <1>1
  <2> QED
    BY <2>4, <2>5, <2>6, <2>7, <2>8, <2>9, <2>10
<1> HIDE DEF ch2, n, q
<1>4. Pool(ctxs', free', ch2, {})
  BY <1>2, SameTreePool
<1>5. DOMAIN ctxs' = DOMAIN cs
  BY DEF SameTree
<1>6. \A c \in DOMAIN ctxs' : Body(ctxs'[c], W)
  BY <1>2, <1>5, BodyGrows DEF n
<1>7. \A j \in 1..i : ch[j] \in DOMAIN cs
  <2>1. ASSUME NEW j \in 1..i PROVE ch[j] \in DOMAIN cs
    <3>1. ch2 \in Seq(DOMAIN cs)
      BY <1>2 DEF Pool, Chain
    <3>2. j \in DOMAIN ch2
      BY <1>1, <1>3
    <3>3. ch2[j] \in DOMAIN cs
      BY <3>1, <3>2
    <3> QED
      BY <1>3, <3>3
  <2> QED
    BY <2>1
<1>8. ASSUME NEW j \in 1..i PROVE IsWaiting(ctxs'[ch2[j]], funcs')
  BY <1>2, <1>3, <1>7 DEF n
<1>9. i + 1 \in DOMAIN ch2 /\ cur' = ch2[i + 1] /\ (i + 1) - 1 = i
  BY <1>1, <1>3 DEF n
<1>10. mode' = "run" => IsRunning(ctxs'[cur'], funcs')
  OBVIOUS
<1>11. \A j \in 1..((i + 1) - 1) : IsWaiting(ctxs'[ch2[j]], funcs')
  BY <1>8, <1>9
<1>12. PICK ch3, k : ch3 = ch2 /\ k = i + 1
  OBVIOUS
<1>13. Well(ch3, k, W)'
  BY <1>4, <1>6, <1>9, <1>10, <1>11, <1>12 DEF Well
<1> QED
  BY <1>13 DEF IsWell

-----------------------------------------------------------------------------
(* The first frame of a context, at the beginning of its code.              *)
LEMMA FirstFrame ==
  ASSUME NEW V, NEW vs, NEW hs, NEW fs, World(V, vs, hs, fs), NEW f \in CallFrames(V), f.ip = 0, f.bp = 0,
         NEW x, x.frames = <<f>>, x.ops = <<>>, x.marks = <<>>
  PROVE  IsRunning(x, fs)
<1>1. x.frames \in Seq(CallFrames(V)) /\ Len(x.frames) = 1 /\ x.frames[1] = f
  OBVIOUS
<1>2. PICK c : c = CodeIn(f, fs) /\ c \in DOMAIN Shape
  <2>0. 1 \in 1..Len(x.frames)
    BY <1>1
  <2>1. CodeIn(x.frames[1], fs) \in DOMAIN Shape
    BY <1>1, <2>0, FramesThere
  <2> QED
    BY <1>1, <2>1
<1>3. PICK s : s = Shape[c] /\ 0 \in DOMAIN s /\ s[0] \in Shapes /\ s[0].ts = <<>> /\ s[0].ms = <<>>
  <2>1. ShapeFits(c, Shape[c])
    BY <1>2, CodeIsVerified
  <2> QED
    BY <2>1 DEF ShapeFits
<1>4. PICK e : e = s[0]
  OBVIOUS
<1> DEFINE sh == [j \in 1..1 |-> e]
           mb == [j \in 1..1 |-> 0]
<1>5. sh \in [1..1 -> Shapes] /\ sh[1] = e /\ mb \in [1..1 -> Nat] /\ mb[1] = 0
  BY <1>3, <1>4
<1> HIDE DEF sh, mb
<1>6. HasShape(f, 0, fs) /\ ShapeIn(f, 0, fs) = e /\ e.ts = <<>> /\ e.ms = <<>>
  BY <1>2, <1>3, <1>4 DEF HasShape, ShapeIn
<1>7. OpsFit(x.ops, 0, e.ts) /\ MarksFit(x.marks, 0, 0, e.ms)
  BY <1>6 DEF OpsFit, MarksFit
<1>8. Len(e.ts) = 0 /\ Len(e.ms) = 0 /\ Len(x.ops) = 0 /\ Len(x.marks) = 0
  BY <1>6
<1>9. Framed(x, 1, sh, mb, fs)
  <2>1. \A j \in 1..1 : j = 1
    OBVIOUS
  <2>2. \A j \in 1..1 : /\ HasShape(x.frames[j], x.frames[j].ip, fs)
                        /\ sh[j] = ShapeIn(x.frames[j], x.frames[j].ip, fs)
                        /\ OpsFit(x.ops, x.frames[j].bp, sh[j].ts)
                        /\ MarksFit(x.marks, mb[j], x.frames[j].bp, sh[j].ms)
    BY <1>1, <1>5, <1>6, <1>7, <2>1
  <2>3. 1..(1 - 1) = {} /\ \A j, k \in 1..1 : ~(j < k)
    BY <2>1
  <2>4. 1 \in Nat /\ 1 = Len(x.frames) /\ 1 >= 1 /\ x.frames[1].bp = 0 /\ Len(x.marks) = mb[1] + Len(sh[1].ms)
    BY <1>1, <1>5, <1>8
  <2> QED
    BY <1>5, <2>2, <2>3, <2>4 DEF Framed
<1>10. Len(x.ops) = x.frames[1].bp + Len(sh[1].ts)
  BY <1>1, <1>5, <1>8
<1> QED
  BY <1>9, <1>10 DEF RunsAs, IsRunning

LEMMA FirstBody ==
  ASSUME NEW V, NEW f \in CallFrames(V), NEW x, x.frames = <<f>>, NEW y, Body(y, V),
         x.ops = y.ops, x.marks = y.marks, x.dieArg = y.dieArg, x.waits = y.waits
  PROVE  Body(x, V)
<1>1. x.frames \in Seq(CallFrames(V)) /\ Len(x.frames) = 1
  OBVIOUS
<1>2. Len(x.frames) <= MAX_RECURSION
  BY <1>1, BoundsAssumption
<1> QED
  BY <1>1, <1>2 DEF Body

(* naCall of a library function in the context of call().                   *)
LEMMA NaCallLibraryWell ==
  ASSUME NEW ch, NEW i, NEW V, Well(ch, i, V), NEW cs, CallOut(cs, ch, i, V),
         NEW name \in LibraryNames \cup {"die"}, NEW args \in Seq(V),
         NaCallLibrary(cs, NewContext, name, args), cur' = NewContext, free' = SubContext.fr
  PROVE  IsWell'
<1>1. World(V, vecs, hashes, funcs) /\ Nil \in V
  BY DEF Well, World
<1>2. PICK r : r = IF name = "die" THEN <<"__die__", Nil, vecs, hashes>> ELSE Library(name, args)
  OBVIOUS
<1>3. Gave(r, V)
  <2>1. CASE name = "die"
    BY <1>1, <1>2, <2>1 DEF Gave
  <2>2. CASE name # "die"
    BY <1>1, <1>2, <2>2, LibraryIn
  <2> QED
    BY <2>1, <2>2
<1>4. PICK W : V \subseteq W /\ World(W, r[3], r[4], funcs) /\ r[2] \in W
  BY <1>3 DEF Gave
<1>5. PICK w : w = (IF name = "die" THEN DieArg(args) ELSE Nil) /\ w \in W
  BY <1>1, <1>4 DEF DieArg
<1>6. /\ vecs' = r[3] /\ hashes' = r[4] /\ UNCHANGED funcs
      /\ ctxs' = [cs EXCEPT ![NewContext].error = r[1], ![NewContext].dieArg = w]
      /\ result' = r[2] /\ mode' = "back"
  BY <1>2, <1>5 DEF NaCallLibrary
<1>7. PICK n : n = NewContext
  OBVIOUS
<1>8. Contexts(cs) /\ n \in DOMAIN cs /\ Body(cs[n], V)
  BY <1>7 DEF CallOut, Pool
<1>9. Left(cs, [cs EXCEPT ![n].error = r[1], ![n].dieArg = w], n, w)
  BY <1>8, AssignLeft
<1>10. Left(cs, ctxs', n, w)
  BY <1>6, <1>7, <1>9
<1>11. Body(ctxs'[n], W)
  <2>1. Body(cs[n], W)
    BY <1>4, <1>8, BodyGrows
  <2> QED
    BY <1>5, <1>10, <2>1 DEF Left, Body
<1>12. SameTree(cs, ctxs') /\ \A c \in DOMAIN cs : c # NewContext => ctxs'[c] = cs[c]
  BY <1>7, <1>10 DEF Left, Others
<1>13. /\ World(W, vecs', hashes', funcs') /\ UNCHANGED funcs /\ result' \in W /\ mode' \in Running
       /\ (mode' = "run" => IsRunning(ctxs'[NewContext], funcs')) /\ Body(ctxs'[NewContext], W)
  BY <1>4, <1>6, <1>7, <1>11 DEF Running
<1> QED
  BY <1>4, <1>12, <1>13, OutWell

LEMMA AssignStarted ==
  ASSUME NEW cs, Contexts(cs), NEW c \in DOMAIN cs, NEW v, NEW r,
         \/ r = [cs EXCEPT ![c].frames = v]
         \/ r = [[cs EXCEPT ![c].frames = v] EXCEPT ![c].error = "too few args"]
  PROVE  Moved(cs, r, c, v, cs[c].marks, cs[c].ops)
<1> DEFINE s == [cs EXCEPT ![c].frames = v]
           e == [s EXCEPT ![c].error = "too few args"]
<1>1. DOMAIN cs[c] = Fields
  BY DEF Contexts
<1>2. SameTree(cs, s)
  BY Assignments, Zenon
<1>3. Moved(cs, s, c, v, cs[c].marks, cs[c].ops) /\ DOMAIN s[c] = Fields /\ DOMAIN s = DOMAIN cs
  BY <1>1, <1>2 DEF Others, Fields, Moved
<1>4. Contexts(s)
  <2>1. PICK S : cs \in Seq(S)
    BY DEF Contexts
  <2>2. PICK y : y = [cs[c] EXCEPT !.frames = v]
    OBVIOUS
  <2>3. PICK T : T = S \cup {y}
    OBVIOUS
  <2>4. s = [cs EXCEPT ![c] = y] /\ cs \in Seq(T)
    BY <2>1, <2>2, <2>3, SeqGrows
  <2>5. [cs EXCEPT ![c] = y] \in Seq(T)
    BY <2>3, <2>4
  <2>6. s \in Seq(T)
    BY <2>4, <2>5
  <2>7. \A x \in DOMAIN s : DOMAIN s[x] = Fields
    <3> HIDE DEF s
    <3> QED
      BY <1>3 DEF Contexts, Moved, Others
  <2> QED
    BY <2>6, <2>7 DEF Contexts
<1> HIDE DEF s
<1>5. SameTree(s, e) /\ \A x \in DOMAIN s : x # c => e[x] = s[x]
  BY <1>4, Assignments, Zenon
<1>6. /\ e[c].frames = s[c].frames /\ e[c].ops = s[c].ops /\ e[c].marks = s[c].marks
      /\ e[c].dieArg = s[c].dieArg /\ e[c].waits = s[c].waits
  BY <1>3 DEF Fields
<1> HIDE DEF e
<1>7. SameTree(cs, e)
  BY <1>2, <1>5, TreeTransitive
<1>8. Moved(cs, e, c, v, cs[c].marks, cs[c].ops)
  BY <1>3, <1>5, <1>6, <1>7 DEF Moved, Others
<1>9. r = s \/ r = e
  BY DEF s, e
<1> QED
  BY <1>3, <1>8, <1>9

(* naCall of a function written in Nasal.                                   *)
LEMMA NaCallWell ==
  ASSUME NEW ch, NEW i, NEW V, Well(ch, i, V), NEW cs, CallOut(cs, ch, i, V),
         NEW func \in V, IsA(func, "func"), NEW args \in Seq(V), NEW obj \in V,
         NEW locals \in V, locals = Nil \/ IsA(locals, "hash"),
         NaCall(cs, NewContext, func, args, obj, locals), cur' = NewContext, free' = SubContext.fr
  PROVE  IsWell'
<1>1. PICK c : c = FuncOf(func).code /\ c \in DOMAIN Shape
  BY CalleeCode
<1>2. PICK U : U = V \cup OptStatics(c)
  OBVIOUS
<1>3. Well(ch, i, U) /\ CodeFits(c) /\ OptStatics(c) \subseteq U /\ V \subseteq U
  BY <1>1, <1>2, WithOpts
<1>4. CallOut(cs, ch, i, U)
  BY <1>3, BodyGrows DEF CallOut
<1>5. World(U, vecs, hashes, funcs) /\ Nil \in U
  BY <1>3 DEF Well, World
<1>6. args \in Seq(U) /\ Len(args) \in Nat /\ func \in U /\ obj \in U /\ locals \in U
  BY <1>3, SeqGrows
<1> DEFINE few == Len(args) < Len(c.args)
           need == ~few /\ NeedsRest(c, args)
           h == IF locals = Nil THEN Len(hashes) + 1 ELSE locals[2]
           given == IF locals = Nil THEN <<>> ELSE HashOf(locals)
           old == Filled(Me(obj), given)
           named == CallLocals(c, args, Nil, Len(vecs'))
           new == IF few THEN old ELSE Filled(old, named)
           n == NewContext
           f == NewFrame(func, Hash(h), 0)
           started == [cs EXCEPT ![n].frames = <<f>>]
<1>7. /\ vecs' = IF need THEN Append(vecs, RestVec(c, args)) ELSE vecs
      /\ hashes' = IF locals = Nil THEN Append(hashes, new) ELSE [hashes EXCEPT ![h] = new]
      /\ ctxs' = started \/ ctxs' = [started EXCEPT ![n].error = "too few args"]
      /\ mode' \in Running /\ result' = Nil /\ UNCHANGED funcs
  BY <1>1 DEF NaCall, Running
<1>28. PICK hn : hn = h
  OBVIOUS
<1>29. hashes' = IF locals = Nil THEN Append(hashes, new) ELSE [hashes EXCEPT ![hn] = new]
  BY <1>7, <1>28
<1>30. IF locals = Nil THEN hn = Len(hashes) + 1 ELSE hn = locals[2]
  BY <1>28
<1>8. need \in BOOLEAN /\ few \in BOOLEAN
  OBVIOUS
<1>9. RestVec(c, args) \in Seq(U)
  BY <1>3, <1>6, RestIn
<1>10. need => NeedsRest(c, args)
  OBVIOUS
<1>11. ~few => Len(args) >= Len(c.args)
  <2>1. Len(c.args) \in Nat
    BY <1>3 DEF CodeFits
  <2> QED
    BY <1>6, <2>1
<1>12. ~few => (NeedsRest(c, args) => need)
  OBVIOUS
<1> HIDE DEF few, need
<1>13. PICK W : /\ U \subseteq W /\ World(W, vecs', hashes, funcs)
                /\ need => Vec(Len(vecs')) \in W /\ Len(vecs') = Len(vecs) + 1
  BY <1>3, <1>7, <1>8, <1>9, GrowsRest
<1>14. In(old, W)
  <2>1. In(given, U)
    <3>1. CASE locals = Nil
      BY <3>1 DEF In
    <3>2. CASE locals # Nil
      <4>1. In(HashOf(locals), U)
        BY <1>3, <1>6, <3>2, HashHas DEF In
      <4> QED
        BY <3>2, <4>1
    <3> QED
      BY <3>1, <3>2
  <2>2. In(Me(obj), U)
    BY <1>6, MeIn
  <2> HIDE DEF given
  <2>3. In(old, U)
    BY <2>1, <2>2, FilledIn DEF In
  <2> HIDE DEF old
  <2> QED
    BY <1>13, <2>3 DEF In
<1>15. In(new, W)
  <2>1. CASE few
    BY <1>14, <2>1
  <2>2. CASE ~few
    <3>1. args \in Seq(W) /\ Nil \in W /\ OptStatics(c) \subseteq W
      BY <1>3, <1>5, <1>6, <1>13, SeqGrows
    <3>2. NeedsRest(c, args) => Vec(Len(vecs')) \in W
      BY <1>12, <1>13, <2>2
    <3>3. In(named, W)
      BY <1>3, <1>11, <2>2, <3>1, <3>2, LocalsIn
    <3> HIDE DEF old, named
    <3>4. In(Filled(old, named), W)
      BY <1>14, <3>3, FilledIn DEF In
    <3> QED
      BY <2>2, <3>4
  <2> QED
    BY <2>1, <2>2
<1> HIDE DEF old, new, given, named, h
<1>16. PICK X : W \subseteq X /\ World(X, vecs', hashes', funcs) /\ Hash(hn) \in X
  <2>1. CASE locals = Nil
    <3>1. World(W \cup {Hash(Len(hashes) + 1)}, vecs', Append(hashes, new), funcs)
      BY <1>13, <1>15, AddHash DEF In
    <3>2. hashes' = Append(hashes, new) /\ hn = Len(hashes) + 1
      BY <1>29, <1>30, <2>1
    <3> QED
      BY <3>1, <3>2
  <2>2. CASE locals # Nil
    <3>1. hn \in DOMAIN hashes
      BY <1>5, <1>6, <1>30, <2>2, HashThere
    <3>2. World(W, vecs', [hashes EXCEPT ![hn] = new], funcs)
      BY <1>13, <1>15, <3>1, PutHash DEF In
    <3>3. hashes' = [hashes EXCEPT ![hn] = new] /\ Len(hashes') = Len(hashes) /\ hn \in 1..Len(hashes)
      <4>1. PICK S : hashes \in Seq(S)
        BY <1>5 DEF World
      <4>2. hashes' = [hashes EXCEPT ![hn] = new] /\ hn \in 1..Len(hashes)
        BY <1>29, <2>2, <3>1, <4>1
      <4>3. DOMAIN hashes' = 1..Len(hashes) /\ Len(hashes) \in Nat
        BY <4>1, <4>2
      <4>4. DOMAIN hashes' = 1..Len(hashes') /\ Len(hashes') \in Nat
        <5>1. World(W, vecs', hashes', funcs)
          BY <3>2, <4>2
        <5> QED
          BY <5>1, Counts
      <4> QED
        BY <4>2, <4>3, <4>4
    <3>4. PICK k : k = Hash(hn)
      OBVIOUS
    <3>5. Sound(k, Len(vecs'), Len(hashes'), Len(funcs))
      BY <3>3, <3>4 DEF Sound, Hash
    <3>6. World(W, vecs', hashes', funcs)
      BY <3>2, <3>3
    <3>7. \A v \in W \cup {k} : Sound(v, Len(vecs'), Len(hashes'), Len(funcs))
      BY <3>5, <3>6 DEF World
    <3>8. World(W \cup {k}, vecs', hashes', funcs)
      BY <3>6, <3>7, MoreValues
    <3> QED
      BY <3>4, <3>8
  <2> QED
    BY <2>1, <2>2
<1>17. PICK g : g = f /\ g = NewFrame(func, Hash(hn), 0)
  BY <1>28
<1>18. g \in CallFrames(X) /\ g.ip = 0 /\ g.bp = 0
  <2>1. func \in X /\ IsA(Hash(hn), "hash")
    BY <1>6, <1>13, <1>16 DEF IsA, Hash
  <2> QED
    BY <1>16, <1>17, <2>1 DEF NewFrame, CallFrames, OfType
<1>19. Contexts(cs) /\ n \in DOMAIN cs /\ Body(cs[n], U) /\ cs[n].ops = <<>> /\ cs[n].marks = <<>>
  BY <1>4 DEF CallOut, Pool
<1>20. ctxs' = [cs EXCEPT ![n].frames = <<g>>]
       \/ ctxs' = [[cs EXCEPT ![n].frames = <<g>>] EXCEPT ![n].error = "too few args"]
  BY <1>7, <1>17
<1> HIDE DEF n
<1>21. Moved(cs, ctxs', n, <<g>>, cs[n].marks, cs[n].ops)
  BY <1>19, <1>20, AssignStarted
<1>22. Body(ctxs'[n], X)
  <2>1. Body(cs[n], X)
    BY <1>13, <1>16, <1>19, BodyGrows
  <2> QED
    BY <1>18, <1>21, <2>1, FirstBody DEF Moved
<1>23. IsRunning(ctxs'[n], funcs)
  BY <1>16, <1>18, <1>19, <1>21, FirstFrame DEF Moved
<1>24. SameTree(cs, ctxs') /\ \A k \in DOMAIN cs : k # n => ctxs'[k] = cs[k]
  BY <1>21 DEF Moved, Others
<1>25. U \subseteq X /\ result' \in X /\ World(X, vecs', hashes', funcs') /\ mode' \in Running /\ UNCHANGED funcs
  BY <1>5, <1>7, <1>13, <1>16
<1>26. Body(ctxs'[NewContext], X) /\ IsRunning(ctxs'[NewContext], funcs')
  BY <1>7, <1>22, <1>23 DEF n
<1>27. \A k \in DOMAIN cs : k # NewContext => ctxs'[k] = cs[k]
  BY <1>24 DEF n
<1> QED
  BY <1>3, <1>4, <1>24, <1>25, <1>26, <1>27, OutWell

-----------------------------------------------------------------------------
(* call().                                                                  *)
LEMMA CallCallWell ==
  ASSUME NEW ch, NEW i, NEW V, Well(ch, i, V), CallCall
  PROVE  IsWell'
<1>1. mode = "run" /\ CodeOp \in Calling
  <2>1. At(ByPosition \cup ByName)
    BY DEF CallCall, Calls
  <2> QED
    BY <2>1, AtRuns DEF Calling
<1>2. PICK t : AtCall(V, t)
  BY <1>1, InCall
<1>3. PICK args : args = Args(NArgs) /\ args \in Seq(V)
  BY <1>2 DEF AtCall
<1>4. CASE ~CallOK(args)
  <2>1. Error_("bad argument")
    BY <1>3, <1>4 DEF CallCall
  <2> QED
    BY <1>1, <2>1, ErrorWell
<1>5. CASE CallOK(args)
  <2> DEFINE IsHash(v) == IsA(v, "hash")
             callargs == IF Len(args) < 2 \/ args[2] = Nil THEN <<>> ELSE VecOf(args[2])
             obj == IF Len(args) >= 3 /\ IsHash(args[3]) THEN args[3] ELSE Nil
             locals == IF Len(args) >= 4 /\ IsHash(args[4]) THEN args[4] ELSE Nil
  <2>1. PICK cs : cs = Waiting(args)
    OBVIOUS
  <2>2. /\ args[1] # Native("call") /\ cur' = NewContext /\ free' = SubContext.fr
        /\ IF IsA(args[1], "native") THEN NaCallLibrary(cs, NewContext, args[1][2], callargs)
           ELSE NaCall(cs, NewContext, args[1], callargs, obj, locals)
    BY <1>3, <1>5, <2>1 DEF CallCall, Waiting, ArgOr
  <2>3. CallOut(cs, ch, i, V)
    BY <1>2, <1>3, <2>1, GoesOut
  <2>4. World(V, vecs, hashes, funcs) /\ Nil \in V /\ \A v \in V : Sound(v, Len(vecs), Len(hashes), Len(funcs))
    BY DEF Well, World
  <2>5. args # <<>> /\ IsFunc(args[1]) /\ Len(args) \in Nat
        /\ (Len(args) < 2 \/ args[2] = Nil \/ IsA(args[2], "vec"))
    BY <1>3, <1>5 DEF CallOK
  <2>6. \A k \in 1..Len(args) : args[k] \in V
    BY <1>3
  <2>7. Len(args) >= 1 /\ args[1] \in V
    BY <1>3, <2>5, <2>6
  <2>8. callargs \in Seq(V)
    <3>1. CASE Len(args) < 2 \/ args[2] = Nil
      BY <3>1
    <3>2. CASE ~(Len(args) < 2 \/ args[2] = Nil)
      <4>1. args[2] \in V /\ IsA(args[2], "vec")
        BY <2>5, <2>6, <3>2
      <4>2. VecOf(args[2]) \in Seq(V)
        BY <2>4, <4>1, VecThere DEF VecOf
      <4> QED
        BY <3>2, <4>2
    <3> QED
      BY <3>1, <3>2
  <2>9. obj \in V
    BY <2>4, <2>5, <2>6
  <2>10. locals \in V /\ (locals = Nil \/ IsA(locals, "hash"))
    BY <2>4, <2>5, <2>6
  <2> HIDE DEF callargs, obj, locals
  <2>11. CASE IsA(args[1], "native")
    <3>1. args[1] \in {Native(x) : x \in LibraryNames \cup {"die", "call"}}
      BY <2>4, <2>7, <2>11 DEF Sound, IsA
    <3>2. args[1][2] \in LibraryNames \cup {"die"}
      BY <2>2, <3>1 DEF Native
    <3>3. NaCallLibrary(cs, NewContext, args[1][2], callargs)
      BY <2>2, <2>11
    <3> QED
      BY <2>2, <2>3, <2>8, <3>2, <3>3, NaCallLibraryWell
  <2>12. CASE ~IsA(args[1], "native")
    <3>1. NaCall(cs, NewContext, args[1], callargs, obj, locals)
      BY <2>2, <2>12
    <3>2. IsA(args[1], "func")
      BY <2>5, <2>12 DEF IsFunc, IsA
    <3> QED
      BY <2>2, <2>3, <2>7, <2>8, <2>9, <2>10, <3>1, <3>2, NaCallWell
  <2> QED
    BY <2>11, <2>12
<1> QED
  BY <1>4, <1>5

-----------------------------------------------------------------------------
(* A context that waits gets its value.                                     *)
Got(x, y, v) ==
  /\ y.frames = x.frames /\ y.marks = x.marks /\ y.ops = Append(SubSeq(x.ops, 1, x.opFrame), v)
  /\ y.dieArg = x.dieArg /\ y.waits = <<>>

LEMMA GotRuns ==
  ASSUME NEW V, NEW fs, NEW x, Body(x, V), IsWaiting(x, fs), NEW v \in V, NEW y, Got(x, y, v)
  PROVE  IsRunning(y, fs) /\ Body(y, V)
<1>1. PICK n, sh, mb : WaitsAs(x, n, sh, mb, fs)
  BY DEF IsWaiting
<1>2. Framed(x, n, sh, mb, fs) /\ Waits(sh[n].ts)
      /\ x.opFrame = x.frames[n].bp + Len(sh[n].ts) - 1 /\ x.opFrame < Len(x.ops)
  BY <1>1 DEF WaitsAs
<1>3. /\ n \in Nat /\ n >= 1 /\ n = Len(x.frames)
      /\ sh \in [1..n -> Shapes] /\ mb \in [1..n -> Nat]
      /\ \A i \in 1..n :
           /\ HasShape(x.frames[i], x.frames[i].ip, fs)
           /\ sh[i] = ShapeIn(x.frames[i], x.frames[i].ip, fs)
           /\ OpsFit(x.ops, x.frames[i].bp, sh[i].ts)
           /\ MarksFit(x.marks, mb[i], x.frames[i].bp, sh[i].ms)
      /\ \A i \in 1..(n - 1) : Waits(sh[i].ts)
      /\ \A i, j \in 1..n : i < j => x.frames[i].bp + Len(sh[i].ts) - 1 <= x.frames[j].bp
  BY <1>2 DEF Framed
<1>4. ASSUME NEW i \in 1..n
      PROVE  /\ x.frames[i].bp \in Nat /\ sh[i].ts \in Seq(Types) /\ Len(sh[i].ts) \in Nat
             /\ Waits(sh[i].ts) /\ Len(sh[i].ts) >= 1
  <2>1. x.frames[i] \in CallFrames(V)
    BY <1>3 DEF Body
  <2>2. sh[i] \in Shapes
    BY <1>3
  <2>3. x.frames[i].bp \in Nat /\ sh[i].ts \in Seq(Types)
    BY <2>1, <2>2 DEF CallFrames, Shapes
  <2>4. i \in 1..(n - 1) \/ i = n
    BY <1>3
  <2>5. Waits(sh[i].ts)
    BY <1>2, <1>3, <2>4
  <2> QED
    BY <2>3, <2>5 DEF Waits
<1>5. PICK b : b = x.opFrame
  OBVIOUS
<1>6. n \in 1..n
  BY <1>3
<1>7. b \in Nat /\ b < Len(x.ops) /\ x.ops \in Seq(V) /\ Len(x.ops) \in Nat
  <2>1. x.ops \in Seq(V)
    BY DEF Body
  <2>2. x.frames[n].bp \in Nat /\ Len(sh[n].ts) \in Nat /\ Len(sh[n].ts) >= 1
    BY <1>4, <1>6
  <2> QED
    BY <1>2, <1>5, <2>1, <2>2
<1>8. ASSUME NEW i \in 1..n PROVE x.frames[i].bp + Len(sh[i].ts) - 1 <= b
  <2>3. b = x.frames[n].bp + Len(sh[n].ts) - 1
    BY <1>2, <1>5
  <2>1. CASE i = n
    <3>1. x.frames[i].bp + Len(sh[i].ts) - 1 = b
      BY <2>1, <2>3
    <3>2. b <= b
      BY <1>7
    <3> QED
      BY <3>1, <3>2
  <2>2. CASE i # n
    <3>1. x.frames[i].bp + Len(sh[i].ts) - 1 <= x.frames[n].bp
      BY <1>3, <1>6, <2>2
    <3>2. x.frames[n].bp \in Nat /\ Len(sh[n].ts) \in Nat /\ Len(sh[n].ts) >= 1
      BY <1>4, <1>6
    <3>3. x.frames[i].bp \in Nat /\ Len(sh[i].ts) \in Nat
      BY <1>4
    <3> DEFINE p == x.frames[i].bp + Len(sh[i].ts) - 1
               u == x.frames[n].bp
               w == Len(sh[n].ts)
    <3>4. p \in Int /\ u \in Nat /\ w \in Nat /\ w >= 1 /\ p <= u /\ b = u + w - 1
      BY <2>3, <3>1, <3>2, <3>3
    <3> HIDE DEF p, u, w
    <3>5. p <= b
      BY <3>4
    <3> QED
      BY <3>5 DEF p
  <2> QED
    BY <2>1, <2>2
<1>9. /\ y.ops \in Seq(V) /\ Len(y.ops) = b + 1 /\ \A j \in 1..b : y.ops[j] = x.ops[j]
  <2>1. y.ops = Append(SubSeq(x.ops, 1, b), v)
    BY <1>5 DEF Got
  <2>2. SubSeq(x.ops, 1, b) \in Seq(V) /\ Len(SubSeq(x.ops, 1, b)) = b
    BY <1>7
  <2>3. \A j \in 1..b : SubSeq(x.ops, 1, b)[j] = x.ops[j]
    BY <1>7
  <2> QED
    BY <1>7, <2>1, <2>2, <2>3
<1>10. y.frames = x.frames /\ y.marks = x.marks
  BY DEF Got
<1>11. ASSUME NEW i \in 1..n PROVE OpsFit(y.ops, y.frames[i].bp, sh[i].ts)
  <2> DEFINE c == x.frames[i].bp
             ts == sh[i].ts
  <2>1. c \in Nat /\ ts \in Seq(Types) /\ Len(ts) \in Nat /\ Waits(ts)
    BY <1>4
  <2>2. c + Len(ts) - 1 <= b
    BY <1>8
  <2>3. OpsFit(x.ops, c, ts)
    BY <1>3
  <2> HIDE DEF c, ts
  <2>4. ASSUME NEW k \in DOMAIN ts PROVE Is(y.ops[c + k], ts[k])
    <3>1. CASE k = Len(ts)
      <4>1. ts[k] = "any"
        BY <2>1, <3>1 DEF Waits, Last
      <4> QED
        BY <4>1 DEF Is
    <3>2. CASE k # Len(ts)
      <4>1. k \in Nat /\ k >= 1 /\ k < Len(ts)
        BY <2>1, <3>2
      <4>2. c + k \in 1..b
        BY <1>7, <2>1, <2>2, <4>1
      <4>3. y.ops[c + k] = x.ops[c + k]
        BY <1>9, <4>2
      <4>4. Is(x.ops[c + k], ts[k])
        BY <2>3 DEF OpsFit
      <4> QED
        BY <4>3, <4>4
    <3> QED
      BY <3>1, <3>2
  <2>5. OpsFit(y.ops, c, ts)
    BY <2>4 DEF OpsFit
  <2> QED
    BY <1>10, <2>5 DEF c, ts
<1>12. Framed(y, n, sh, mb, fs)
  BY <1>2, <1>10, <1>11 DEF Framed
<1>13. Len(y.ops) = y.frames[n].bp + Len(sh[n].ts)
  <2>1. x.frames[n].bp \in Nat /\ Len(sh[n].ts) \in Nat
    BY <1>4, <1>6
  <2> QED
    BY <1>2, <1>5, <1>9, <1>10, <2>1
<1>14. IsRunning(y, fs)
  BY <1>12, <1>13 DEF RunsAs, IsRunning
<1>15. Len(y.ops) <= MAX_STACK_DEPTH
  <2>1. Len(x.ops) <= MAX_STACK_DEPTH /\ MAX_STACK_DEPTH \in Nat
    BY BoundsAssumption DEF Body
  <2> QED
    BY <1>7, <1>9, <2>1
<1>16. Body(y, V)
  BY <1>9, <1>15 DEF Body, Got
<1> QED
  BY <1>14, <1>16

(* The context that called the one that runs.                               *)
LEMMA OuterIs ==
  ASSUME NEW ch, NEW i, NEW V, Well(ch, i, V), Outer # NoContext
  PROVE  /\ i - 1 \in DOMAIN ch /\ Outer = ch[i - 1] /\ i - 1 \in Nat /\ i - 1 >= 1 /\ i \in Nat
         /\ Outer \in DOMAIN ctxs /\ Outer # cur
         /\ IsWaiting(ctxs[Outer], funcs) /\ Body(ctxs[Outer], V)
         /\ \A j \in 1..((i - 1) - 1) : j \in 1..(i - 1) /\ j \in DOMAIN ch /\ ch[j] # Outer /\ ch[j] \in DOMAIN ctxs
<1>1. /\ cur \in DOMAIN ctxs /\ DOMAIN ch = 1..Len(ch) /\ Len(ch) \in Nat /\ i \in Nat /\ i >= 1 /\ i <= Len(ch)
      /\ \A j \in DOMAIN ch : ch[j] \in DOMAIN ctxs
      /\ \A j \in 1..(i - 1) : j \in DOMAIN ch /\ ch[j] # cur
  BY WellChain
<1>2. Chain(ctxs, ch) /\ cur = ch[i] /\ i \in DOMAIN ch
      /\ \A c \in DOMAIN ctxs : Body(ctxs[c], V)
      /\ \A j \in 1..(i - 1) : IsWaiting(ctxs[ch[j]], funcs)
  BY DEF Well, Pool
<1>3. Outer = (IF i = 1 THEN NoContext ELSE ch[i - 1]) /\ IsInjective(ch)
  BY <1>2 DEF Chain, Outer, me
<1>4. i # 1 /\ Outer = ch[i - 1]
  BY <1>3
<1>5. i - 1 \in 1..(i - 1) /\ i - 1 \in Nat
  BY <1>1, <1>4
<1>6. ASSUME NEW j \in 1..((i - 1) - 1)
      PROVE  j \in 1..(i - 1) /\ j \in DOMAIN ch /\ ch[j] # Outer /\ ch[j] \in DOMAIN ctxs
  <2>1. j \in 1..(i - 1) /\ j # i - 1
    BY <1>1
  <2>2. j \in DOMAIN ch /\ i - 1 \in DOMAIN ch
    BY <1>1, <1>5, <2>1
  <2>3. ch[j] # ch[i - 1]
    BY <1>3, <2>1, <2>2 DEF IsInjective
  <2> QED
    BY <1>1, <1>4, <2>1, <2>2, <2>3
<1> QED
  BY <1>1, <1>2, <1>4, <1>5, <1>6

(* It goes on with the value v.                                             *)
LEMMA GoesOn ==
  ASSUME NEW cs, Contexts(cs), NEW c \in DOMAIN cs, NEW v, NEW r,
         r = [cs EXCEPT ![c].ops = Append(SubSeq(@, 1, cs[c].opFrame), v), ![c].waits = <<>>]
  PROVE  SameTree(cs, r) /\ Got(cs[c], r[c], v) /\ \A x \in DOMAIN cs : x # c => r[x] = cs[x]
<1>1. DOMAIN cs[c] = Fields
  BY DEF Contexts
<1>2. PICK ops : ops = Append(SubSeq(cs[c].ops, 1, cs[c].opFrame), v)
  OBVIOUS
<1>3. r = [cs EXCEPT ![c].ops = ops, ![c].waits = <<>>]
  BY <1>2
<1>4. SameTree(cs, [cs EXCEPT ![c].ops = ops, ![c].waits = <<>>])
  BY Assignments, Zenon
<1>5. /\ r[c].frames = cs[c].frames /\ r[c].marks = cs[c].marks /\ r[c].dieArg = cs[c].dieArg
      /\ r[c].ops = ops /\ r[c].waits = <<>>
      /\ \A x \in DOMAIN cs : x # c => r[x] = cs[x]
  <2>1. r[c] = [cs[c] EXCEPT !.ops = ops, !.waits = <<>>]
    BY <1>3
  <2>2. \A x \in DOMAIN cs : x # c => r[x] = cs[x]
    BY <1>3
  <2>3. {"frames", "marks", "dieArg", "ops", "waits"} \subseteq DOMAIN cs[c]
    BY <1>1 DEF Fields
  <2> QED
    BY <2>1, <2>2, <2>3
<1>6. SameTree(cs, r)
  BY <1>3, <1>4
<1> QED
  BY <1>2, <1>5, <1>6 DEF Got

LEMMA OuterWell ==
  ASSUME NEW ch, NEW i, NEW V, Well(ch, i, V), Outer # NoContext,
         NEW cs, AllAlike(ctxs, cs), NEW q, Pool(cs, free', q, {}),
         i - 1 \in DOMAIN q, q[i - 1] = ch[i - 1], \A j \in 1..((i - 1) - 1) : q[j] = ch[j],
         NEW W, V \subseteq W, World(W, vecs', hashes', funcs'), UNCHANGED funcs,
         NEW v \in W, OuterGoesOn(cs, v), cur' = Outer, mode' = "run", result' \in W
  PROVE  IsWell'
<1>1. PICK o, k : o = Outer /\ k = i - 1
  OBVIOUS
<1>2. /\ k \in DOMAIN ch /\ o = ch[k] /\ k \in Nat /\ o \in DOMAIN ctxs
      /\ IsWaiting(ctxs[o], funcs) /\ Body(ctxs[o], V)
      /\ \A j \in 1..(k - 1) : j \in 1..(i - 1) /\ j \in DOMAIN ch /\ ch[j] # o /\ ch[j] \in DOMAIN ctxs
      /\ k \in DOMAIN q /\ q[k] = o /\ \A j \in 1..(k - 1) : q[j] = ch[j]
  BY <1>1, OuterIs
<1>3. DOMAIN cs = DOMAIN ctxs /\ \A c \in DOMAIN ctxs : Alike(ctxs[c], cs[c])
  BY DEF AllAlike
<1>4. Contexts(cs) /\ o \in DOMAIN cs
  BY <1>2, <1>3 DEF Pool
<1>5. ctxs' = [cs EXCEPT ![o].ops = Append(SubSeq(@, 1, cs[o].opFrame), v), ![o].waits = <<>>]
  BY <1>1 DEF OuterGoesOn
<1>6. SameTree(cs, ctxs') /\ Got(cs[o], ctxs'[o], v) /\ \A x \in DOMAIN cs : x # o => ctxs'[x] = cs[x]
  BY <1>4, <1>5, GoesOn, Zenon
<1>7. IsWaiting(cs[o], funcs) /\ Body(cs[o], W)
  <2>1. Alike(ctxs[o], cs[o])
    BY <1>2, <1>3
  <2>2. Body(ctxs[o], W)
    BY <1>2, BodyGrows
  <2> QED
    BY <1>2, <2>1, <2>2, AlikeBodies
<1>8. IsRunning(ctxs'[o], funcs) /\ Body(ctxs'[o], W)
  BY <1>6, <1>7, GotRuns
<1>9. Pool(ctxs', free', q, {})
  BY <1>6, SameTreePool
<1>10. DOMAIN ctxs' = DOMAIN ctxs
  BY <1>3, <1>6 DEF SameTree
<1>11. ASSUME NEW c \in DOMAIN ctxs' PROVE Body(ctxs'[c], W)
  <2>1. CASE c = o
    BY <1>8, <2>1
  <2>2. CASE c # o
    <3>1. c \in DOMAIN ctxs /\ ctxs'[c] = cs[c] /\ Alike(ctxs[c], cs[c])
      BY <1>3, <1>6, <1>10, <2>2
    <3>2. Body(ctxs[c], W)
      BY <3>1, BodyGrows DEF Well
    <3> QED
      BY <3>1, <3>2, AlikeBodies
  <2> QED
    BY <2>1, <2>2
<1>12. ASSUME NEW j \in 1..(k - 1) PROVE IsWaiting(ctxs'[q[j]], funcs')
  <2>1. j \in 1..(i - 1) /\ ch[j] # o /\ ch[j] \in DOMAIN ctxs /\ q[j] = ch[j]
    BY <1>2
  <2>2. ctxs'[q[j]] = cs[ch[j]] /\ Alike(ctxs[ch[j]], cs[ch[j]])
    BY <1>3, <1>6, <2>1
  <2>3. Extends_(funcs, funcs)
    BY DEF Extends_
  <2>4. IsWaiting(cs[ch[j]], funcs)
    BY <2>1, <2>2, <2>3, StillWaits
  <2> QED
    BY <2>2, <2>4
<1>13. cur' = q[k] /\ k \in DOMAIN q /\ mode' \in Running /\ IsRunning(ctxs'[cur'], funcs')
  BY <1>1, <1>2, <1>8 DEF Running
<1>14. Well(q, k, W)'
  BY <1>9, <1>11, <1>12, <1>13 DEF Well
<1> QED
  BY <1>14 DEF IsWell

-----------------------------------------------------------------------------
(* Back in call().                                                          *)
LEMMA CallReturnsWell ==
  ASSUME NEW ch, NEW i, NEW V, Well(ch, i, V), CallReturns
  PROVE  IsWell'
<1> DEFINE freed == FreeContext(ctxs, free, cur)
           q == SubSeq(ch, 1, i - 1)
<1>1. /\ mode = "back" /\ Outer # NoContext /\ OuterGoesOn(freed.cs, result)
      /\ free' = freed.fr /\ cur' = Outer /\ mode' = "run" /\ UNCHANGED <<prog, result, heap>>
  BY DEF CallReturns
<1>2. /\ Contexts(ctxs) /\ Pool(ctxs, free, ch, {}) /\ i \in DOMAIN ch /\ cur = ch[i] /\ result \in V
      /\ ch \in Seq(DOMAIN ctxs) /\ i \in Nat
  BY WellChain DEF Well
<1>3. i - 1 \in DOMAIN ch /\ i - 1 \in Nat
  BY <1>1, OuterIs
<1>4. Pool(freed.cs, free', q, {})
  <2>1. LET r == FreeContext(ctxs, free, ch[i]) IN Pool(r.cs, r.fr, SubSeq(ch, 1, i - 1), {})
    BY <1>2, FreeTail
  <2> QED
    BY <1>1, <1>2, <2>1
<1>5. AllAlike(ctxs, freed.cs)
  BY <1>2, FreeAlike
<1> HIDE DEF freed
<1>6. i - 1 \in DOMAIN q /\ q[i - 1] = ch[i - 1] /\ \A j \in 1..((i - 1) - 1) : q[j] = ch[j]
  <2> DEFINE D == DOMAIN ctxs
  <2>1. ch \in Seq(D)
    BY <1>2
  <2> HIDE DEF D
  <2>2. PICK k : k = i - 1 /\ k \in DOMAIN ch /\ k \in Nat
    BY <1>3
  <2>3. DOMAIN SubSeq(ch, 1, k) = 1..k /\ k >= 1 /\ \A j \in 1..k : SubSeq(ch, 1, k)[j] = ch[j]
    BY <2>1, <2>2, ChainTo
  <2>4. DOMAIN q = 1..k /\ \A j \in 1..k : q[j] = ch[j]
    BY <2>2, <2>3
  <2> HIDE DEF q
  <2>5. k \in 1..k /\ 1..(k - 1) \subseteq 1..k
    BY <2>2, <2>3
  <2> QED
    BY <2>2, <2>4, <2>5
<1> HIDE DEF q
<1>7. World(V, vecs', hashes', funcs') /\ UNCHANGED funcs /\ result' \in V
  BY <1>1, <1>2, SameHeap DEF heap
<1> QED
  BY <1>1, <1>2, <1>4, <1>5, <1>6, <1>7, OuterWell

LEMMA WithScalars ==
  ASSUME NEW V, NEW vs, NEW hs, NEW fs, World(V, vs, hs, fs), NEW S,
         \A v \in S : v[1] \in {"num", "str", "nil", "end"}
  PROVE  World(V \cup S, vs, hs, fs)
<1>1. \A v \in S : Sound(v, Len(vs), Len(hs), Len(fs))
  BY DEF Sound
<1>2. \A v \in V \cup S : Sound(v, Len(vs), Len(hs), Len(fs))
  BY <1>1 DEF World
<1> QED
  BY <1>2, MoreValues

LEMMA LineageThere ==
  ASSUME NEW cs, Contexts(cs), NEW ch, Chain(cs, ch), NEW i \in DOMAIN ch
  PROVE  ToSet(Lineage(cs, ch[i])) \subseteq DOMAIN cs
<1> DEFINE p == SubSeq(ch, i, Len(ch))
           D == DOMAIN cs
<1>1. p \in Seq(D) /\ Lineage(cs, ch[i]) = p
  BY ChainLineage
<1> HIDE DEF p, D
<1>2. ToSet(p) \subseteq D
  BY <1>1 DEF ToSet
<1> QED
  BY <1>1, <1>2 DEF D

(* The frames of a context and of those it called are finitely many.        *)
LEMMA DepthNat ==
  ASSUME NEW ch, NEW i, NEW V, Well(ch, i, V)
  PROVE  Depth(cur) \in Nat
<1>1. /\ Contexts(ctxs) /\ Chain(ctxs, ch) /\ i \in DOMAIN ch /\ cur = ch[i]
      /\ \A c \in DOMAIN ctxs : Body(ctxs[c], V)
      /\ \A j \in DOMAIN ch : ch[j] \in DOMAIN ctxs
  BY WellChain DEF Well, Pool
<1> DEFINE F(x) == {x} \X DOMAIN ctxs[x].frames
           L == ToSet(Lineage(ctxs, cur))
           A == UNION {F(x) : x \in L}
           B == (1..Len(ctxs)) \X (1..MAX_RECURSION)
<1>2. L \subseteq DOMAIN ctxs
  BY <1>1, LineageThere
<1>3. DOMAIN ctxs = 1..Len(ctxs) /\ Len(ctxs) \in Nat /\ MAX_RECURSION \in Nat
  BY <1>1, NoSelf, BoundsAssumption
<1>4. ASSUME NEW x \in DOMAIN ctxs PROVE DOMAIN ctxs[x].frames \subseteq 1..MAX_RECURSION
  <2>1. PICK s : s = ctxs[x].frames /\ s \in Seq(CallFrames(V)) /\ Len(s) <= MAX_RECURSION
    BY <1>1 DEF Body
  <2>2. DOMAIN s = 1..Len(s) /\ Len(s) \in Nat
    BY <2>1
  <2> QED
    BY <1>3, <2>1, <2>2
<1>5. \A x \in DOMAIN ctxs : F(x) \subseteq B
  <2> SUFFICES ASSUME NEW x \in DOMAIN ctxs PROVE F(x) \subseteq B
    OBVIOUS
  <2>1. DOMAIN ctxs[x].frames \subseteq 1..MAX_RECURSION /\ x \in 1..Len(ctxs)
    BY <1>3, <1>4
  <2> QED
    BY <2>1
<1>6. A \subseteq B
  <2> HIDE DEF L, B, F
  <2> QED
    BY <1>2, <1>5
<1>7. IsFiniteSet(B)
  <2>1. IsFiniteSet(1..Len(ctxs)) /\ IsFiniteSet(1..MAX_RECURSION)
    BY <1>3, FS_Interval
  <2> QED
    BY <2>1, FS_Product
<1>8. Depth(cur) = Cardinality(A)
  BY DEF Depth
<1> HIDE DEF A, B
<1>9. Cardinality(A) \in Nat
  BY <1>6, <1>7, FS_Subset, FS_CardinalityType
<1> QED
  BY <1>8, <1>9

LEMMA CallCatchesWell ==
  ASSUME NEW ch, NEW i, NEW V, Well(ch, i, V), CallCatches
  PROVE  IsWell'
<1>1. /\ mode = "back" /\ Outer # NoContext /\ OuterGoesOn(ctxs, Nil) /\ IsA(ErrorVec, "vec")
      /\ AppendTo(ErrorVec, <<ErrorOf(cur)>> \o Trace(Depth(cur)))
      /\ free' = free /\ cur' = Outer /\ mode' = "run" /\ UNCHANGED <<result, hashes, funcs>>
  BY DEF CallCatches
<1>2. /\ Contexts(ctxs) /\ Pool(ctxs, free, ch, {}) /\ result \in V /\ cur \in DOMAIN ctxs
      /\ World(V, vecs, hashes, funcs) /\ Body(ctxs[cur], V) /\ Nil \in V
  BY WellChain DEF Well, World
<1>3. i - 1 \in DOMAIN ch /\ Body(ctxs[Outer], V)
  BY <1>1, OuterIs
<1>4. PICK e : e = ErrorVec /\ e \in V /\ IsA(e, "vec")
  <2>1. ctxs[Outer].waits \in Seq(V)
    BY <1>3 DEF Body
  <2>2. PICK s : s = ctxs[Outer].waits /\ s \in Seq(V)
    BY <2>1
  <2>3. Len(s) > 2 => Last(s) \in V
    BY <2>2 DEF Last
  <2>4. ErrorVec \in V
    BY <1>2, <2>2, <2>3 DEF ErrorVec
  <2> QED
    BY <1>1, <2>4
<1> DEFINE S == {Str("file"), Str("line"), Str(ctxs[cur].error)}
<1>5. PICK W : W = V \cup S
  OBVIOUS
<1>6. World(W, vecs, hashes, funcs)
  <2>1. \A v \in S : v[1] \in {"num", "str", "nil", "end"}
    BY ScalarKinds
  <2> HIDE DEF S
  <2> QED
    BY <1>2, <1>5, <2>1, WithScalars
<1>7. PICK n : n = Depth(cur)
  OBVIOUS
<1>8. Trace(n) \in Seq(W)
  <2>1. \A k \in 1..(2 * n) : Trace(n)[k] \in W
    BY <1>5 DEF Trace
  <2>2. n \in Nat
    BY <1>7, DepthNat
  <2>3. 2 * n \in Nat /\ Trace(n) \in [1..(2 * n) -> W]
    BY <2>1, <2>2 DEF Trace
  <2> QED
    BY <2>3, SeqDef
<1>9. ErrorOf(cur) \in W
  BY <1>2, <1>5 DEF ErrorOf, Body
<1>10. PICK a : a = <<ErrorOf(cur)>> \o Trace(n) /\ a \in Seq(W)
  <2>1. PICK x : x = ErrorOf(cur) /\ x \in W
    BY <1>9
  <2>2. <<x>> \in Seq(W)
    BY <2>1
  <2>3. <<x>> \o Trace(n) \in Seq(W)
    BY <1>8, <2>2, Joined
  <2> QED
    BY <2>1, <2>3
<1>11. vecs' = [vecs EXCEPT ![e[2]] = VecOf(e) \o a]
  BY <1>1, <1>4, <1>7, <1>10 DEF AppendTo, VecOf
<1>12. e[2] \in DOMAIN vecs /\ VecOf(e) \o a \in Seq(W)
  <2>1. e \in W
    BY <1>4, <1>5
  <2>2. e[2] \in DOMAIN vecs /\ VecOf(e) \in Seq(W)
    BY <1>4, <1>6, <2>1, VecThere DEF VecOf
  <2> QED
    BY <1>10, <2>2, Joined
<1>13. World(W, vecs', hashes', funcs')
  BY <1>1, <1>6, <1>11, <1>12, PutVec
<1>14. AllAlike(ctxs, ctxs)
  BY DEF AllAlike, Alike
<1>15. V \subseteq W /\ Nil \in W /\ result' \in W /\ UNCHANGED funcs
  BY <1>1, <1>2, <1>5
<1>16. Pool(ctxs, free', ch, {})
  BY <1>1, <1>2
<1>17. \A j \in 1..((i - 1) - 1) : ch[j] = ch[j]
  OBVIOUS
<1> QED
  BY <1>1, <1>3, <1>13, <1>14, <1>15, <1>16, <1>17, OuterWell

LEMMA RethrowWell ==
  ASSUME NEW ch, NEW i, NEW V, Well(ch, i, V), Rethrow
  PROVE  IsWell'
<1>1. PICK o, k : o = Outer /\ k = i - 1
  OBVIOUS
<1>2. /\ mode = "back" /\ mode' = mode /\ Outer # NoContext
      /\ ctxs' = [ctxs EXCEPT ![o].error = me.error, ![o].dieArg = me.dieArg, ![o].waits = <<>>]
      /\ cur' = o /\ UNCHANGED <<prog, mode, result, free, heap>>
  BY <1>1 DEF Rethrow
<1>3. /\ k \in DOMAIN ch /\ o = ch[k] /\ k \in Nat /\ o \in DOMAIN ctxs /\ Body(ctxs[o], V)
      /\ \A j \in 1..(k - 1) : j \in 1..(i - 1) /\ j \in DOMAIN ch /\ ch[j] # o /\ ch[j] \in DOMAIN ctxs
  BY <1>1, <1>2, OuterIs
<1>4. /\ Contexts(ctxs) /\ Pool(ctxs, free, ch, {}) /\ Body(me, V)
      /\ \A c \in DOMAIN ctxs : Body(ctxs[c], V)
      /\ \A j \in 1..(i - 1) : IsWaiting(ctxs[ch[j]], funcs)
  BY WellChain DEF Well
<1>5. PICK v, w : v = me.error /\ w = me.dieArg
  OBVIOUS
<1>6. ctxs' = [ctxs EXCEPT ![o].error = v, ![o].dieArg = w, ![o].waits = <<>>]
  BY <1>2, <1>5
<1>7. SameTree(ctxs, [ctxs EXCEPT ![o].error = v, ![o].dieArg = w, ![o].waits = <<>>])
  BY <1>4, Assignments, Zenon
<1>8. SameTree(ctxs, ctxs')
  BY <1>6, <1>7
<1>9. /\ ctxs'[o].frames = ctxs[o].frames /\ ctxs'[o].marks = ctxs[o].marks /\ ctxs'[o].ops = ctxs[o].ops
      /\ ctxs'[o].dieArg = w /\ ctxs'[o].waits = <<>>
      /\ \A x \in DOMAIN ctxs : x # o => ctxs'[x] = ctxs[x]
  <2>1. DOMAIN ctxs[o] = Fields
    BY <1>3, <1>4 DEF Contexts
  <2>2. ctxs'[o] = [ctxs[o] EXCEPT !.error = v, !.dieArg = w, !.waits = <<>>]
    BY <1>3, <1>6
  <2>3. \A x \in DOMAIN ctxs : x # o => ctxs'[x] = ctxs[x]
    BY <1>3, <1>6
  <2>4. {"frames", "marks", "dieArg", "ops", "waits"} \subseteq DOMAIN ctxs[o]
    BY <2>1 DEF Fields
  <2> QED
    BY <2>2, <2>3, <2>4
<1>10. Body(ctxs'[o], V)
  <2>1. w \in V
    BY <1>4, <1>5 DEF Body
  <2> QED
    BY <1>3, <1>9, <2>1 DEF Body
<1>11. DOMAIN ctxs' = DOMAIN ctxs
  BY <1>8 DEF SameTree
<1>12. \A c \in DOMAIN ctxs' : Body(ctxs'[c], V)
  BY <1>4, <1>9, <1>10, <1>11
<1>13. Pool(ctxs', free', ch, {})
  BY <1>2, <1>4, <1>8, SameTreePool
<1>14. World(V, vecs', hashes', funcs') /\ funcs' = funcs
  BY <1>2, SameHeap DEF heap
<1>15. ASSUME NEW j \in 1..(k - 1) PROVE IsWaiting(ctxs'[ch[j]], funcs')
  <2>1. j \in 1..(i - 1) /\ ch[j] # o /\ ch[j] \in DOMAIN ctxs
    BY <1>3
  <2>2. ctxs'[ch[j]] = ctxs[ch[j]]
    BY <1>9, <2>1
  <2> QED
    BY <1>4, <1>14, <2>1, <2>2
<1>16. mode' \in Running /\ mode' # "run" /\ k \in DOMAIN ch /\ cur' = ch[k] /\ result' \in V
  BY <1>2, <1>3 DEF Running, Well
<1>17. Well(ch, k, V)'
  BY <1>12, <1>13, <1>14, <1>15, <1>16 DEF Well
<1> QED
  BY <1>17 DEF IsWell

-----------------------------------------------------------------------------
(* The invariant: before the program is loaded, while it runs, and at its end.*)
Fresh ==
  /\ prog \in DOMAIN Codes /\ mode = "parse" /\ result = Nil
  /\ ctxs = <<NewFields>> /\ free = <<1>> /\ cur = NoContext
  /\ vecs = <<>> /\ hashes = <<Namespace>> /\ funcs = <<>>

Halted ==
  /\ mode = "done" /\ cur = NoContext /\ Pool(ctxs, free, <<>>, {})
  /\ \E V : World(V, vecs, hashes, funcs) /\ \A c \in DOMAIN ctxs : Body(ctxs[c], V)

VMInv == Fresh \/ IsWell \/ Halted

(* The values there are from the beginning.                                 *)
Given == {Nil, End} \cup {Native(n) : n \in LibraryNames \cup {"die", "call"}}

LEMMA FreshWorld ==
  /\ World(Given, <<>>, <<Namespace>>, <<>>)
  /\ Body(NewFields, Given) /\ Contexts(<<NewFields>>)
<1>1. {Nil, End} \subseteq Given
  BY DEF Given
<1>2. \A v \in Given : Sound(v, 0, 1, 0)
  BY DEF Given, Sound, Nil, End, Native
<1>3. Len(<<>>) = 0 /\ Len(<<Namespace>>) = 1
  OBVIOUS
<1>4. <<>> \in Seq(Seq(Given)) /\ <<>> \in Seq(Functions_(Given))
  OBVIOUS
<1>5. \E S : <<Namespace>> \in Seq(S)
  <2>1. <<Namespace>> \in Seq({Namespace})
    OBVIOUS
  <2> QED
    BY <2>1
<1>6. \A i \in DOMAIN <<Namespace>> : \A k \in DOMAIN <<Namespace>>[i] : <<Namespace>>[i][k] \in Given
  <2>1. \A k \in DOMAIN Namespace : Namespace[k] \in Given
    BY DEF Namespace, Given, Str
  <2> HIDE DEF Namespace
  <2>2. DOMAIN <<Namespace>> = {1} /\ <<Namespace>>[1] = Namespace
    OBVIOUS
  <2> QED
    BY <2>1, <2>2
<1>7. World(Given, <<>>, <<Namespace>>, <<>>)
  <2> HIDE DEF Namespace
  <2> QED
    BY <1>1, <1>2, <1>3, <1>4, <1>5, <1>6 DEF World
<1>8. Body(NewFields, Given)
  <2>1. Nil \in Given
    BY <1>1
  <2>2. MAX_RECURSION \in Nat /\ MAX_STACK_DEPTH \in Nat /\ MAX_MARK_DEPTH \in Nat
    BY BoundsAssumption
  <2> QED
    BY <2>1, <2>2 DEF Body, NewFields
<1>9. Contexts(<<NewFields>>)
  <2>1. DOMAIN NewFields = Fields
    BY DEF NewFields, Fields
  <2> HIDE DEF NewFields
  <2>2. <<NewFields>> \in Seq({NewFields}) /\ DOMAIN <<NewFields>> = {1} /\ <<NewFields>>[1] = NewFields
    OBVIOUS
  <2> QED
    BY <2>1, <2>2 DEF Contexts
<1> QED
  BY <1>7, <1>8, <1>9

LEMMA FreshPool == Fresh => Pool(ctxs, free, <<>>, {})
<1> SUFFICES ASSUME Fresh PROVE Pool(<<NewFields>>, <<1>>, <<>>, {})
  BY DEF Fresh
<1>1. Contexts(<<NewFields>>)
  BY FreshWorld
<1>2. NewFields.child = NoContext
  BY DEF NewFields
<1> HIDE DEF NewFields
<1>3. DOMAIN <<NewFields>> = {1} /\ <<NewFields>>[1] = NewFields
  OBVIOUS
<1>4. ToSet(<<1>>) = {1} /\ ToSet(<<>>) = {} /\ <<1>> \in Seq({1}) /\ IsInjective(<<1>>)
      /\ <<>> \in Seq({1}) /\ IsInjective(<<>>) /\ DOMAIN <<>> = {}
  BY DEF ToSet, IsInjective
<1>5. Chain(<<NewFields>>, <<>>)
  BY <1>3, <1>4 DEF Chain
<1>6. Unlinked(<<NewFields>>, ToSet(<<1>>) \cup {})
  BY <1>2, <1>3, <1>4 DEF Unlinked
<1> QED
  BY <1>1, <1>3, <1>4, <1>5, <1>6 DEF Pool

LEMMA StartWell == Fresh /\ Start => VMInv'
<1> SUFFICES ASSUME Fresh, Start PROVE VMInv'
  OBVIOUS
<1>1. PICK c : c = Codes[prog] /\ (IsA(c, "bad") \/ c[2] \in DOMAIN Shape)
  BY CodeIsVerified DEF Fresh
<1>2. mode = "parse" /\ Load(c)
  BY <1>1 DEF Start
<1>3. Pool(ctxs, free, <<>>, {})
  BY FreshPool
<1>4. World(Given, vecs, hashes, funcs)
  BY FreshWorld DEF Fresh
<1>5. CASE IsA(c, "bad")
  <2>1. mode' = "done" /\ UNCHANGED <<ctxs, free, cur, heap>>
    BY <1>2, <1>5 DEF Load
  <2>2. \A x \in DOMAIN ctxs : Body(ctxs[x], Given)
    <3>1. ctxs = <<NewFields>> /\ Body(NewFields, Given)
      BY FreshWorld DEF Fresh
    <3> HIDE DEF NewFields
    <3> QED
      BY <3>1
  <2>3. cur = NoContext
    BY DEF Fresh
  <2>4. vecs' = vecs /\ hashes' = hashes /\ funcs' = funcs /\ ctxs' = ctxs /\ free' = free /\ cur' = cur
    BY <2>1 DEF heap
  <2>5. Halted'
    BY <1>3, <1>4, <2>1, <2>2, <2>3, <2>4 DEF Halted
  <2> QED
    BY <2>5 DEF VMInv
<1>6. CASE ~IsA(c, "bad")
  <2> DEFINE V1 == Given \cup {Vec(1)}
             V2 == V1 \cup {Hash(2)}
             V3 == V2 \cup {Hash(1)}
             V4 == V3 \cup {Func(1)}
             h == One(c[2].rest, Vec(1))
             f == [code |-> c[2], ns |-> Hash(1), next |-> Nil]
             g == NewFrame(Func(1), Hash(2), 0)
             n == NewContext
  <2>1. /\ mode' = "run" /\ cur' = n /\ free' = WithNewContext.fr
        /\ funcs' = <<f>> /\ vecs' = <<(<<>>)>> /\ hashes' = Append(hashes, h) /\ result' = result
        /\ ctxs' = [WithNewContext.cs EXCEPT ![n].frames = <<g>>]
    BY <1>2, <1>6 DEF Load
  <2>2. vecs = <<>> /\ hashes = <<Namespace>> /\ funcs = <<>> /\ Len(hashes) = 1
    <3> HIDE DEF Namespace
    <3> QED
      BY DEF Fresh
  <2>3. World(V1, vecs', hashes, funcs)
    <3>3. <<>> \in Seq(Given)
      OBVIOUS
    <3>0. PICK e : e = <<>>
      OBVIOUS
    <3>4. e \in Seq(Given)
      BY <3>0, <3>3
    <3>1. World(Given \cup {Vec(Len(vecs) + 1)}, Append(vecs, <<>>), hashes, funcs)
      <4>1. World(Given \cup {Vec(Len(vecs) + 1)}, Append(vecs, e), hashes, funcs)
        BY <1>4, <3>4, AddVec
      <4> QED
        BY <3>0, <4>1
    <3>2. Len(vecs) + 1 = 1 /\ Append(vecs, <<>>) = vecs'
      BY <2>1, <2>2
    <3> QED
      BY <3>1, <3>2
  <2>4. World(V2, vecs', hashes', funcs)
    <3>1. \A k \in DOMAIN h : h[k] \in V1
      BY OneIn
    <3> HIDE DEF h, V1
    <3>2. World(V1 \cup {Hash(Len(hashes) + 1)}, vecs', Append(hashes, h), funcs)
      BY <2>3, <3>1, AddHash
    <3>3. Len(hashes) + 1 = 2
      BY <2>2
    <3> QED
      BY <2>1, <3>2, <3>3
  <2>5. World(V3, vecs', hashes', funcs)
    <3>1. Len(hashes') = 2
      <4> HIDE DEF h, Namespace
      <4> QED
        BY <2>1, <2>2
    <3>2. Sound(Hash(1), Len(vecs'), Len(hashes'), Len(funcs))
      BY <3>1 DEF Sound, Hash
    <3> HIDE DEF V2
    <3>3. \A v \in V3 : Sound(v, Len(vecs'), Len(hashes'), Len(funcs))
      BY <2>4, <3>2 DEF World
    <3>4. V2 \subseteq V3
      OBVIOUS
    <3> HIDE DEF V3
    <3> QED
      BY <2>4, <3>3, <3>4, MoreValues
  <2>6. f \in Functions_(V3)
    <3>1. Hash(1) \in V3 /\ IsA(Hash(1), "hash")
      BY DEF IsA, Hash
    <3> HIDE DEF V3
    <3> QED
      BY <1>1, <1>6, <3>1 DEF Functions_, OfType
  <2>7. World(V4, vecs', hashes', funcs')
    <3>1. PICK ff : ff = f
      OBVIOUS
    <3> HIDE DEF V3, f
    <3>2. World(V3 \cup {Func(Len(funcs) + 1)}, vecs', hashes', Append(funcs, ff))
      BY <2>5, <2>6, <3>1, AddFunc
    <3>3. Len(funcs) + 1 = 1 /\ Append(funcs, ff) = funcs'
      BY <2>1, <2>2, <3>1
    <3> QED
      BY <3>2, <3>3
  <2>8. PICK gg : gg = g /\ gg \in CallFrames(V4) /\ gg.ip = 0 /\ gg.bp = 0
    <3>1. Func(1) \in V4 /\ IsA(Func(1), "func") /\ Hash(2) \in V4 /\ IsA(Hash(2), "hash")
      BY DEF IsA, Func, Hash
    <3> HIDE DEF V4
    <3>2. g \in CallFrames(V4) /\ g.ip = 0 /\ g.bp = 0
      BY <3>1 DEF NewFrame, CallFrames, OfType
    <3> QED
      BY <3>2
  <2>9. /\ n = 1 /\ Contexts(WithNewContext.cs) /\ DOMAIN WithNewContext.cs = {1}
        /\ WithNewContext.cs[1] = NewFields
    <3>1. free = <<1>> /\ ctxs = <<NewFields>>
      BY DEF Fresh
    <3>2. n = 1 /\ WithNewContext.cs = [ctxs EXCEPT ![1] = NewFields]
      BY <3>1 DEF NewContext, WithNewContext
    <3> HIDE DEF NewFields
    <3>3. [ctxs EXCEPT ![1] = NewFields] = <<NewFields>>
      BY <3>1
    <3>4. DOMAIN <<NewFields>> = {1} /\ <<NewFields>>[1] = NewFields
      OBVIOUS
    <3> QED
      BY <3>2, <3>3, <3>4, FreshWorld
  <2>10. Pool(WithNewContext.cs, free', <<n>>, {})
    <3>1. Pool(WithNewContext.cs, WithNewContext.fr, <<>>, {NewContext})
      BY <1>3, TakeNew
    <3> QED
      BY <2>1, <3>1, LinkFirst
  <2> HIDE DEF V1, V2, V3, V4, h, f, g, n
  <2>11. PICK cs : cs = WithNewContext.cs
    OBVIOUS
  <2>12. ctxs' = [cs EXCEPT ![1].frames = <<gg>>] /\ Contexts(cs) /\ 1 \in DOMAIN cs
    BY <2>1, <2>8, <2>9, <2>11
  <2>13. Moved(cs, ctxs', 1, <<gg>>, cs[1].marks, cs[1].ops)
    BY <2>12, AssignStarted
  <2>14. cs[1].ops = <<>> /\ cs[1].marks = <<>> /\ Body(cs[1], V4)
    <3>1. Given \subseteq V4
      BY DEF V1, V2, V3, V4
    <3>2. cs[1] = NewFields
      BY <2>9, <2>11
    <3>3. NewFields.ops = <<>> /\ NewFields.marks = <<>>
      BY DEF NewFields
    <3> HIDE DEF NewFields
    <3>4. Body(NewFields, V4)
      BY <3>1, FreshWorld, BodyGrows
    <3> QED
      BY <3>2, <3>3, <3>4
  <2>15. Body(ctxs'[1], V4)
    BY <2>8, <2>13, <2>14, FirstBody DEF Moved
  <2>16. IsRunning(ctxs'[1], funcs')
    BY <2>7, <2>8, <2>13, <2>14, FirstFrame DEF Moved
  <2>17. Pool(ctxs', free', <<1>>, {})
    BY <2>9, <2>10, <2>11, <2>13, SameTreePool DEF Moved, Others
  <2>18. DOMAIN ctxs' = {1}
    BY <2>9, <2>11, <2>13 DEF Moved, Others, SameTree
  <2>19. result' \in V4
    <3>1. result' \in V4 \/ result # Nil
      BY <2>1, <2>7 DEF World
    <3> QED
      BY <3>1 DEF Fresh
  <2>20. PICK ch, k : ch = <<1>> /\ k = 1
    OBVIOUS
  <2>21. k \in DOMAIN ch /\ ch[k] = 1 /\ 1..(k - 1) = {}
    BY <2>20
  <2>22. Well(ch, k, V4)'
    BY <2>1, <2>7, <2>9, <2>15, <2>16, <2>17, <2>18, <2>19, <2>20, <2>21 DEF Well, Running
  <2> QED
    BY <2>22 DEF VMInv, IsWell
<1> QED
  BY <1>5, <1>6

-----------------------------------------------------------------------------
(* The end of the program: the chain is freed.                              *)
LEMMA FinishWell ==
  ASSUME NEW ch, NEW i, NEW V, Well(ch, i, V), Finish
  PROVE  Halted'
<1>1. /\ Outer = NoContext /\ mode' = "done" /\ cur' = NoContext /\ UNCHANGED heap
      /\ ctxs' = FreeContext(ctxs, free, cur).cs /\ free' = FreeContext(ctxs, free, cur).fr
  BY DEF Finish
<1>2. /\ Contexts(ctxs) /\ Pool(ctxs, free, ch, {}) /\ i \in DOMAIN ch /\ cur = ch[i]
      /\ Chain(ctxs, ch) /\ World(V, vecs, hashes, funcs) /\ \A c \in DOMAIN ctxs : Body(ctxs[c], V)
      /\ me = ctxs[cur] /\ NoContext \notin DOMAIN ctxs /\ i \in Nat
      /\ \A j \in DOMAIN ch : ch[j] \in DOMAIN ctxs
      /\ \A j \in 1..(i - 1) : j \in DOMAIN ch
  BY WellChain DEF Well, Pool
<1>3. i = 1
  <2>1. Outer = (IF i = 1 THEN NoContext ELSE ch[i - 1])
    BY <1>2 DEF Chain, Outer, me
  <2>2. i # 1 => i - 1 \in DOMAIN ch
    <3>1. i >= 1
      BY WellChain
    <3>2. i # 1 => i - 1 \in 1..(i - 1)
      BY <1>2, <3>1
    <3> QED
      BY <1>2, <3>2
  <2> QED
    BY <1>1, <1>2, <2>1, <2>2
<1>4. LET r == FreeContext(ctxs, free, ch[i])
      IN  Pool(r.cs, r.fr, SubSeq(ch, 1, i - 1), {})
  BY <1>2, FreeTail
<1>5. SubSeq(ch, 1, i - 1) = <<>>
  <2>1. ch \in Seq(DOMAIN ctxs)
    BY WellChain
  <2> QED
    BY <1>3, <2>1
<1>6. Pool(ctxs', free', <<>>, {})
  BY <1>1, <1>2, <1>4, <1>5
<1>7. AllAlike(ctxs, ctxs')
  BY <1>1, <1>2, FreeAlike
<1>8. World(V, vecs', hashes', funcs')
  BY <1>1, <1>2 DEF heap
<1>9. \A c \in DOMAIN ctxs' : Body(ctxs'[c], V)
  BY <1>2, <1>7, AlikeBodies DEF AllAlike
<1> QED
  BY <1>1, <1>6, <1>8, <1>9 DEF Halted

LEMMA StandsWell == VMInv /\ UNCHANGED vars => VMInv'
<1> SUFFICES ASSUME VMInv, UNCHANGED vars PROVE VMInv'
  OBVIOUS
<1>1. /\ prog' = prog /\ mode' = mode /\ result' = result /\ ctxs' = ctxs /\ free' = free /\ cur' = cur
      /\ vecs' = vecs /\ hashes' = hashes /\ funcs' = funcs
  BY DEF vars
<1>2. CASE Fresh
  <2>1. Fresh'
    BY <1>1, <1>2 DEF Fresh
  <2> QED
    BY <2>1 DEF VMInv
<1>3. CASE Halted
  <2>1. Halted'
    BY <1>1, <1>3 DEF Halted
  <2> QED
    BY <2>1 DEF VMInv
<1>4. CASE IsWell
  <2>1. PICK ch, i, V : Well(ch, i, V)
    BY <1>4 DEF IsWell
  <2>2. Well(ch, i, V)'
    BY <1>1, <2>1 DEF Well
  <2> QED
    BY <2>2 DEF VMInv, IsWell
<1> QED
  BY <1>2, <1>3, <1>4 DEF VMInv

(* The operations, of those that only move operands to those that call.      *)
LEMMA OperationsWell ==
  ASSUME NEW ch, NEW i, NEW V, Well(ch, i, V), Simple
  PROVE  IsWell'
<1>1. ASSUME \/ Pop \/ Dup \/ Dup2 \/ Xchg \/ Xchg2 \/ BinOp \/ Equality \/ Cat \/ Neg \/ Not
      PROVE  IsWell'
  BY <1>1, PopWell, DupWell, Dup2Well, XchgWell, Xchg2Well, BinOpWell, EqualityWell, CatWell,
     NegWell, NotWell
<1>2. ASSUME \/ PushConst \/ Push \/ NewVec \/ NewHash \/ VAppend \/ HAppend
             \/ GetLocal \/ SetSym \/ SetLocal \/ Member \/ SetMember
      PROVE  IsWell'
  BY <1>2, PushConstWell, PushWell, NewVecWell, NewHashWell, VAppendWell, HAppendWell,
     GetLocalWell, SetSymWell, SetLocalWell, MemberWell, SetMemberWell
<1>3. ASSUME \/ Extract \/ Insert \/ Slice \/ Slice2 \/ Unpack
             \/ Jump \/ JumpIfEnd \/ JumpIf \/ Each \/ Mark \/ Unmark \/ Break
      PROVE  IsWell'
  BY <1>3, ExtractWell, InsertWell, SliceWell, Slice2Well, UnpackWell,
     JumpWell, JumpIfEndWell, JumpIfWell, EachWell, MarkWell, UnmarkWell, BreakWell
<1>4. ASSUME \/ Call \/ CallByName \/ CallLibrary \/ Die
      PROVE  IsWell'
  BY <1>4, CallWell, CallByNameWell, CallLibraryWell, DieWell
<1> QED
  BY <1>1, <1>2, <1>3, <1>4 DEF Simple

LEMMA RunsWell ==
  ASSUME NEW ch, NEW i, NEW V, Well(ch, i, V), Next
  PROVE  VMInv'
<1>1. ~Start /\ ~Done
  BY DEF Well, Running, Start, Done
<1>2. ASSUME Simple \/ Return \/ CallCall \/ CallReturns \/ CallCatches \/ Rethrow
      PROVE  VMInv'
  <2>1. IsWell'
    BY <1>2, OperationsWell, ReturnWell, CallCallWell, CallReturnsWell, CallCatchesWell, RethrowWell
  <2> QED
    BY <2>1 DEF VMInv
<1>3. ASSUME Finish PROVE VMInv'
  BY <1>3, FinishWell DEF VMInv
<1> QED
  BY <1>1, <1>2, <1>3 DEF Next, Simple

(* Where no context runs there is nothing to do but to start or to stay.    *)
LEMMA Idle ==
  ASSUME mode \in {"parse", "done"}, Next
  PROVE  (mode = "parse" /\ Start) \/ UNCHANGED vars
<1>1. mode # "run" /\ mode # "back"
  OBVIOUS
<1>2. ~Simple
  BY <1>1 DEF Simple, Pop, Dup, Dup2, Xchg, Xchg2, BinOp, Equality, Cat, Neg, Not, PushConst, Push,
     NewVec, NewHash, VAppend, HAppend, GetLocal, SetSym, SetLocal, Member, SetMember, Extract,
     Insert, Slice, Slice2, Unpack, Jump, JumpIfEnd, JumpIf, Each, Mark, Unmark, Break, Call,
     CallByName, CallLibrary, Die, Calls, At
<1>3. ~Return /\ ~CallCall /\ ~CallReturns /\ ~CallCatches /\ ~Rethrow /\ ~Finish
  BY <1>1 DEF Return, CallCall, Calls, At, CallReturns, CallCatches, Rethrow, Finish
<1>4. Start \/ Done
  BY <1>2, <1>3 DEF Next, Simple
<1> QED
  BY <1>4 DEF Start, Done

LEMMA InitWell == Init => VMInv
BY DEF Init, VMInv, Fresh

LEMMA NextWell == VMInv /\ [Next]_vars => VMInv'
<1> SUFFICES ASSUME VMInv, Next PROVE VMInv'
  BY StandsWell
<1>1. CASE Fresh
  <2>1. Start \/ UNCHANGED vars
    BY <1>1, Idle DEF Fresh
  <2> QED
    BY <1>1, <2>1, StartWell, StandsWell
<1>2. CASE IsWell
  BY <1>2, RunsWell DEF IsWell
<1>3. CASE Halted
  <2>1. UNCHANGED vars
    BY <1>3, Idle DEF Halted
  <2> QED
    BY <2>1, StandsWell
<1> QED
  BY <1>1, <1>2, <1>3 DEF VMInv

LEMMA AlwaysWell == Spec => []VMInv
BY InitWell, NextWell, PTL DEF Spec

-----------------------------------------------------------------------------
(* What the invariant says of the place where the program is.               *)
LEMMA RunningWell ==
  ASSUME VMInv, mode = "run"
  PROVE  \E ch, i, V : Well(ch, i, V)
BY DEF VMInv, Fresh, Halted, IsWell

LEMMA AtOperation == VMInv => AtAnOperation
<1> SUFFICES ASSUME VMInv, mode = "run"
             PROVE  frame.ip < Len(code.code) /\ IsA(code.code[frame.ip + 1], "op")
  BY DEF AtAnOperation
<1>1. PICK ch, i, V : Well(ch, i, V)
  BY RunningWell
<1>2. PICK n, sh, mb :
        /\ RunsAs(me, n, sh, mb, funcs) /\ n = Len(me.frames) /\ n \in DOMAIN me.frames
        /\ frame = me.frames[n] /\ code = CodeIn(frame, funcs)
  BY <1>1, InRun
<1>3. World(V, vecs, hashes, funcs) /\ Body(me, V)
  BY <1>1, AtOp
<1>4. Framed(me, n, sh, mb, funcs)
  BY <1>2 DEF RunsAs
<1> QED
  BY <1>2, <1>3, <1>4, Verified

LEMMA Balanced == VMInv => StacksBalance
<1> SUFFICES ASSUME VMInv, mode = "run"
             PROVE  /\ CodeOp = "RETURN" => Len(me.ops) > frame.bp
                    /\ CodeOp = "RETURN" /\ frame.ip + 1 = Len(code.code) => Len(me.ops) = frame.bp + 1
                    /\ CodeOp = "RETURN" /\ Len(me.frames) = 1 => me.marks = <<>>
                    /\ CodeOp \in {"BREAK", "BREAK2"} => me.marks # <<>> /\ Last(me.marks) >= frame.bp
  BY DEF StacksBalance
<1>1. PICK ch, i, V : Well(ch, i, V)
  BY RunningWell
<1>2. PICK n, sh, mb :
        /\ RunsAs(me, n, sh, mb, funcs) /\ n = Len(me.frames) /\ n \in DOMAIN me.frames
        /\ frame = me.frames[n] /\ code = CodeIn(frame, funcs)
        /\ CodeOp = OpAt(code, frame.ip) /\ CodeArg = ArgAt(code, frame.ip)
  BY <1>1, InRun
<1>3. World(V, vecs, hashes, funcs) /\ Body(me, V)
  BY <1>1, AtOp
<1>4. Framed(me, n, sh, mb, funcs) /\ Len(me.ops) = frame.bp + Len(sh[n].ts)
  BY <1>2 DEF RunsAs
<1>5. PICK s : s = sh[n] /\ s \in Shapes /\ Ready(code, frame.ip, s) /\ frame.bp \in Nat /\ mb[n] \in Nat
  BY <1>2, <1>3, <1>4, Verified
<1>6. s.ms \in Seq(Nat) /\ Len(s.ts) \in Nat /\ me.marks \in Seq(Nat)
      /\ Len(me.marks) = mb[n] + Len(s.ms) /\ Len(me.ops) = frame.bp + Len(s.ts) /\ mb[1] = 0
  BY <1>3, <1>4, <1>5 DEF Shapes, Body, Framed
<1>7. ASSUME CodeOp = "RETURN"
      PROVE  /\ Len(me.ops) > frame.bp /\ s.ms = <<>>
             /\ frame.ip + 1 = Len(code.code) => Len(me.ops) = frame.bp + 1
  <2>1. s.ms = <<>> /\ (frame.ip + 1 = Len(code.code) => Len(s.ts) = 1)
    BY <1>2, <1>5, <1>7 DEF Ready
  <2>2. Len(s.ts) >= 1
    <3> DEFINE t == <<"any">>
    <3>1. t = Takes(CodeOp, CodeArg) /\ t \in Seq(Types) /\ Len(t) = 1
      <4>1. Takes(CodeOp, CodeArg) = <<"any">>
        BY <1>7 DEF Takes, OneToOne, TwoToOne, ThreeToOne, Branching, ArithOps
      <4> QED
        BY <4>1, ShortTypes
    <3> HIDE DEF t
    <3>2. t = Takes(OpAt(code, frame.ip), ArgAt(code, frame.ip))
      BY <1>2, <3>1
    <3>3. Len(t) <= Len(s.ts)
      BY <1>5, <3>1, <3>2, ReadyTakes
    <3> QED
      BY <3>1, <3>3
  <2>3. PICK z, b, l : z = Len(me.ops) /\ b = frame.bp /\ l = Len(s.ts)
    OBVIOUS
  <2>4. b \in Nat /\ l \in Nat /\ l >= 1 /\ z = b + l
    BY <1>5, <1>6, <2>2, <2>3
  <2>5. z > b /\ (l = 1 => z = b + 1)
    BY <2>4
  <2> QED
    BY <2>1, <2>3, <2>5
<1>8. ASSUME CodeOp = "RETURN", Len(me.frames) = 1 PROVE me.marks = <<>>
  <2>1. Len(me.marks) = 0
    BY <1>2, <1>6, <1>7, <1>8
  <2> QED
    BY <1>6, <2>1
<1>9. ASSUME CodeOp \in {"BREAK", "BREAK2"} PROVE me.marks # <<>> /\ Last(me.marks) >= frame.bp
  <2>1. s.ms # <<>>
    BY <1>2, <1>5, <1>9 DEF Ready, OnMarks
  <2>7. Len(s.ms) >= 1 /\ Len(s.ms) \in DOMAIN s.ms /\ s.ms[Len(s.ms)] \in Nat
    BY <1>6, <2>1
  <2>2. PICK k : k = Len(s.ms) /\ k \in Nat /\ k >= 1 /\ k \in DOMAIN s.ms /\ s.ms[k] \in Nat
    BY <1>6, <2>7
  <2>3. n \in 1..n
    BY <1>4 DEF Framed
  <2>4. me.marks[mb[n] + k] = frame.bp + s.ms[k]
    BY <1>2, <1>4, <1>5, <2>2, <2>3 DEF Framed, MarksFit
  <2>5. Last(me.marks) = frame.bp + s.ms[k]
    BY <1>6, <2>2, <2>4 DEF Last
  <2>6. me.marks # <<>>
    BY <1>5, <1>6, <2>2
  <2> QED
    BY <1>5, <2>2, <2>5, <2>6, SMTT(30)
<1> QED
  BY <1>7, <1>8, <1>9

LEMMA Typed ==
  ASSUME NEW V, World(V, vecs, hashes, funcs), \A c \in DOMAIN ctxs : Body(ctxs[c], V),
         NEW ch, Pool(ctxs, free, ch, {}), cur = NoContext \/ cur \in DOMAIN ctxs,
         mode \in {"parse", "run", "back", "done"}
  PROVE  TypeOK
<1>1. Contexts(ctxs) /\ free \in Seq(DOMAIN ctxs)
  BY DEF Pool
<1>2. cur \in 0..Len(ctxs)
  BY <1>1, NoSelf DEF NoContext
<1>3. ToSet(free) \subseteq DOMAIN ctxs
  <2> DEFINE D == DOMAIN ctxs
  <2>1. free \in Seq(D)
    BY <1>1
  <2> HIDE DEF D
  <2>2. ToSet(free) \subseteq D
    BY <2>1 DEF ToSet
  <2> QED
    BY <2>2 DEF D
<1>4. ASSUME NEW v \in V PROVE Refers(v)
  <2>1. Sound(v, Len(vecs), Len(hashes), Len(funcs))
    BY DEF World
  <2>2. DOMAIN vecs = 1..Len(vecs) /\ DOMAIN hashes = 1..Len(hashes) /\ DOMAIN funcs = 1..Len(funcs)
    BY Counts
  <2> QED
    BY <2>1, <2>2 DEF Sound, Refers, IsA
<1>5. ASSUME NEW c \in DOMAIN ctxs
      PROVE  /\ Len(ctxs[c].ops) <= MAX_STACK_DEPTH /\ Len(ctxs[c].frames) <= MAX_RECURSION
             /\ Len(ctxs[c].marks) <= MAX_MARK_DEPTH
             /\ \A k \in DOMAIN ctxs[c].ops : Refers(ctxs[c].ops[k])
  <2>1. Body(ctxs[c], V)
    OBVIOUS
  <2>2. PICK ops : ops = ctxs[c].ops /\ ops \in Seq(V)
    BY <2>1 DEF Body
  <2>3. \A k \in DOMAIN ops : ops[k] \in V
    BY <2>2
  <2> QED
    BY <1>4, <2>1, <2>2, <2>3 DEF Body
<1> QED
  BY <1>2, <1>3, <1>5 DEF TypeOK

LEMMA AllTyped == VMInv => TypeOK
<1>1. CASE Fresh
  <2>1. World(Given, vecs, hashes, funcs) /\ ctxs = <<NewFields>> /\ Body(NewFields, Given)
    BY <1>1, FreshWorld DEF Fresh
  <2>2. \A c \in DOMAIN ctxs : Body(ctxs[c], Given)
    <3> HIDE DEF NewFields
    <3> QED
      BY <2>1
  <2>3. Pool(ctxs, free, <<>>, {}) /\ cur = NoContext /\ mode = "parse"
    BY <1>1, FreshPool DEF Fresh
  <2> QED
    BY <2>1, <2>2, <2>3, Typed
<1>2. CASE IsWell
  <2>1. PICK ch, i, V : Well(ch, i, V)
    BY <1>2 DEF IsWell
  <2> QED
    BY <2>1, WellChain, Typed DEF Well, Running
<1>3. CASE Halted
  BY <1>3, Typed DEF Halted
<1> QED
  BY <1>1, <1>2, <1>3 DEF VMInv

(* The types of the state: in every program whose code is verified each      *)
(* operand that a context holds refers to an object there is, and the operand*)
(* stack, the call stack and the stack of marks stay in their arrays (run()  *)
(* and setupFuncall check the first two after a push, OP_MARK the third).    *)
THEOREM StacksStayInTheirArrays == Spec => []TypeOK
BY AlwaysWell, AllTyped, PTL

(* The instruction pointer of the running frame is at an operation: no jump, *)
(* no argument passed over too few or too many, no return into a caller and  *)
(* no error caught by call() leads run() to an argument or past the end.     *)
THEOREM AlwaysAtAnOperation == Spec => []AtAnOperation
BY AlwaysWell, AtOperation, PTL

(* A function returns with a value of its own and, at its end, with one only, *)
(* no mark outlives the program and every break finds the mark of a loop of  *)
(* its own function, though run() checks none of it.                         *)
THEOREM StacksAlwaysBalance == Spec => []StacksBalance
BY AlwaysWell, Balanced, PTL
=============================================================================
