----------------------------- MODULE ScoreProofs -----------------------------
(***************************************************************************)
(* The score, for any number of objects and inlets.  For users of          *)
(* any practice its tables agree.  For those who make no circle a file     *)
(* makes the score again that was saved; for those who leave no error in a *)
(* script either nothing waits for an update unasked; and for the Careful  *)
(* ones what is out of date is shown, and the update button cures it.      *)
(*                                                                         *)
(* TablesAgree is not inductive as it stands: that the groups are what     *)
(* hangs together is of use to add_group and rebuild_groups only as an     *)
(* equation between the table and the hulls of a relation, and destroying  *)
(* an object, or reading a file, needs that an object that is absent has   *)
(* no links, that the connections are finitely many and that every flag is *)
(* one of an object.  Inv says so of any score, not only of the variable,  *)
(* because the methods work on scores that no step leaves behind: one that *)
(* is half destroyed, or half loaded.                                      *)
(*                                                                         *)
(* Each method is shown to keep Inv and to change no more than it says:    *)
(* only flags (Quiet), connections and children (Rewired), links and       *)
(* groups (Retied).  What it does with each of several objects is a fold,  *)
(* and the lemma for each fold of the score repeats one argument, because  *)
(* a lemma cannot take the step of a fold as a parameter.                  *)
(*                                                                         *)
(* The second half is about what waits and what is stale.  It needs the    *)
(* order of the trees: without circles each object comes before all that   *)
(* depends on it (Orders), so that an update along a tree generates it     *)
(* from data that are no longer stale.  Punctual and Visible are parts of  *)
(* the invariant, Sound what a method keeps of them, and Aside, that no    *)
(* link leads to an output bus, is the third part.                         *)
(*                                                                         *)
(* The last part follows a file while it is run: the run has made copies   *)
(* of some of the objects (Copies), then links between them (Linked).      *)
(* That a line only names objects that earlier lines have made is again    *)
(* the order of the tree.                                                  *)
(***************************************************************************)
EXTENDS Score, FiniteSetTheorems, TLAPS

------------------------------------------------------------------------------
(***************************************************************************)
(* Folds.  An operator over a set, as the community modules define it, is  *)
(* a function on its subsets that is chosen; the lemmas here show that     *)
(* there is one, and that what holds at each step holds in the end.        *)
(***************************************************************************)

(* Induction on the size of the subsets of a finite set.                     *)
LEMMA NatMin ==
  ASSUME NEW T, T \subseteq Nat, T # {}
  PROVE  \E n \in T : \A m \in T : n <= m
<1>1. PICK x \in T : \A y \in T : ~(<<y, x>> \in OpToRel(<, Nat))
  BY NatLessThanWellFounded, WFMin
<1>2. ASSUME NEW y \in T PROVE x <= y
  <2>1. ~(<<y, x>> \in {ss \in Nat \X Nat : ss[1] < ss[2]})
    BY <1>1 DEF OpToRel
  <2> QED
    BY <2>1
<1> QED
  BY <1>2

(* Induction over the numbers, with a set in place of a predicate.           *)
LEMMA NatInd ==
  ASSUME NEW T, 0 \in T, \A n \in Nat : n \in T => n + 1 \in T
  PROVE  Nat \subseteq T
<1> DEFINE U == Nat \ T
<1>1. ASSUME U # {} PROVE FALSE
  <2>1. PICK n \in U : \A m \in U : n <= m
    BY <1>1, NatMin
  <2>2. n # 0 /\ n - 1 \in Nat
    BY <2>1
  <2>3. n - 1 \in T
    BY <2>1, <2>2
  <2> QED
    BY <2>2, <2>3
<1> QED
  BY <1>1

(* A family H of subsets of S that has the empty set, and a set once it has  *)
(* it but for one element, has all.                                          *)
LEMMA SubsetInd ==
  ASSUME NEW S, IsFiniteSet(S), NEW H, {} \in H,
         \A s \in SUBSET S : s # {} => \E x \in s : s \ {x} \in H => s \in H
  PROVE  \A s \in SUBSET S : s \in H
<1> DEFINE T == {Cardinality(s) : s \in {r \in SUBSET S : r \notin H}}
<1>1. \A s \in SUBSET S : IsFiniteSet(s) /\ Cardinality(s) \in Nat
  BY FS_Subset, FS_CardinalityType
<1>2. ASSUME T # {} PROVE FALSE
  <2>1. T \subseteq Nat
    BY <1>1
  <2> HIDE DEF T
  <2>2. PICK n \in T : \A m \in T : n <= m
    BY <1>2, <2>1, NatMin
  <2>3. PICK s \in SUBSET S : s \notin H /\ n = Cardinality(s)
    BY <2>2 DEF T
  <2>4. PICK x \in s : s \ {x} \in H => s \in H
    BY <2>3
  <2>5. Cardinality(s \ {x}) = n - 1 /\ n \in Nat
    BY <1>1, <2>3, <2>4, FS_RemoveElement
  <2>6. Cardinality(s \ {x}) \in T
    BY <2>3, <2>4 DEF T
  <2> QED
    BY <2>2, <2>5, <2>6
<1> QED
  BY <1>2

(* What MapThenFoldSet relies on: a function on the subsets of S that is     *)
(* defined by itself on smaller ones exists, with values of a family T.      *)
Folding(S, T, base, c, F) ==
  /\ base \in T[{}]
  /\ \A s \in SUBSET S : s # {} => /\ c[s] \in s
                                   /\ \A v \in T[s \ {c[s]}] : F[s][v] \in T[s]

Folded(S, T, base, c, F, f) ==
  /\ f = [s \in SUBSET S |-> f[s]]
  /\ f[{}] = base
  /\ \A s \in SUBSET S : s # {} => f[s] = F[s][f[s \ {c[s]}]]
  /\ \A s \in SUBSET S : f[s] \in T[s]

(* There is such a function: otherwise take a smallest subset of S that none *)
(* reaches.                                                                  *)
LEMMA FoldExists ==
  ASSUME NEW S, NEW T, NEW base, NEW c, NEW F,
         IsFiniteSet(S), Folding(S, T, base, c, F)
  PROVE  \E f : Folded(S, T, base, c, F, f)
<1>0. /\ base \in T[{}]
      /\ \A s \in SUBSET S : s # {} => c[s] \in s
      /\ \A s \in SUBSET S : s # {} => \A v \in T[s \ {c[s]}] : F[s][v] \in T[s]
  BY DEF Folding
<1> DEFINE D(n) == {s \in SUBSET S : Cardinality(s) <= n}
           Eq(f, n) == f = [s \in D(n) |-> IF s = {} THEN base ELSE F[s][f[s \ {c[s]}]]]
           Ok(n) == \E f : Eq(f, n) /\ \A s \in D(n) : f[s] \in T[s]
           E == {n \in Nat : Ok(n)}
<1>1. \A s \in SUBSET S : IsFiniteSet(s) /\ Cardinality(s) \in Nat
  BY FS_Subset, FS_CardinalityType
<1>2. \A s \in SUBSET S : Cardinality(s) = 0 <=> s = {}
  BY <1>1, FS_EmptySet
<1>3. ASSUME NEW s \in SUBSET S, s # {}
      PROVE  c[s] \in s /\ s \ {c[s]} \in SUBSET S
             /\ Cardinality(s \ {c[s]}) = Cardinality(s) - 1
  <2>1. c[s] \in s
    BY <1>0, <1>3
  <2>2. Cardinality(s \ {c[s]}) = Cardinality(s) - 1
    BY <1>1, <2>1, FS_RemoveElement
  <2> QED
    BY <2>1, <2>2
<1>d. \A n, s : s \in D(n) <=> s \in SUBSET S /\ Cardinality(s) <= n
  OBVIOUS
<1> HIDE DEF D
<1>4. \A s \in D(0) : s = {}
  <2>1. ASSUME NEW s \in D(0) PROVE s = {}
    <3>1. s \in SUBSET S /\ Cardinality(s) <= 0
      BY <1>d
    <3>2. Cardinality(s) \in Nat
      BY <1>1, <3>1
    <3>3. Cardinality(s) = 0
      BY <3>1, <3>2
    <3> QED
      BY <1>2, <3>1, <3>3
  <2> QED
    BY <2>1
<1>5. \A n \in Nat : \A s \in D(n) : s \in D(n + 1)
  <2>1. ASSUME NEW n \in Nat, NEW s \in D(n) PROVE s \in D(n + 1)
    <3>1. s \in SUBSET S /\ Cardinality(s) <= n
      BY <1>d
    <3>2. Cardinality(s) \in Nat
      BY <1>1, <3>1
    <3>3. Cardinality(s) <= n + 1
      BY <3>1, <3>2
    <3> QED
      BY <1>d, <3>1, <3>3
  <2> QED
    BY <2>1
<1>6. ASSUME NEW n \in Nat, NEW s \in D(n + 1), s # {} PROVE s \ {c[s]} \in D(n)
  <2>1. s \in SUBSET S /\ Cardinality(s) <= n + 1
    BY <1>d
  <2>2. Cardinality(s) \in Nat
    BY <1>1, <2>1
  <2>3. s \ {c[s]} \in SUBSET S /\ Cardinality(s \ {c[s]}) = Cardinality(s) - 1
    BY <1>3, <1>6, <2>1
  <2>4. Cardinality(s \ {c[s]}) <= n
    BY <2>1, <2>2, <2>3
  <2> QED
    BY <1>d, <2>3, <2>4
<1>7. \A s \in SUBSET S : s \in D(Cardinality(S))
  BY <1>d, FS_Subset
<1>8. \A n \in Nat : D(n) \subseteq SUBSET S
  BY <1>d
<1>9. D(Cardinality(S)) = SUBSET S
  BY <1>7, <1>8, FS_CardinalityType
<1>10. Ok(0)
  <2> DEFINE f == [s \in D(0) |-> base]
  <2>1. Eq(f, 0)
    BY <1>4
  <2>2. \A s \in D(0) : f[s] \in T[s]
    BY <1>0, <1>4
  <2> HIDE DEF f
  <2> QED
    BY <2>1, <2>2
<1>11. ASSUME NEW n \in Nat, Ok(n) PROVE Ok(n + 1)
  <2>1. PICK f : Eq(f, n) /\ \A s \in D(n) : f[s] \in T[s]
    BY <1>11
  <2> DEFINE g == [s \in D(n + 1) |-> IF s = {} THEN base ELSE F[s][f[s \ {c[s]}]]]
  <2>2. ASSUME NEW r \in D(n) PROVE g[r] = f[r]
    <3>1. r \in D(n + 1)
      BY <1>5
    <3>2. f[r] = IF r = {} THEN base ELSE F[r][f[r \ {c[r]}]]
      BY <2>1
    <3> QED
      BY <3>1, <3>2
  <2>3. ASSUME NEW s \in D(n + 1), s # {}
        PROVE  s \ {c[s]} \in D(n) /\ f[s \ {c[s]}] \in T[s \ {c[s]}]
    BY <1>6, <2>1, <2>3
  <2>4. Eq(g, n + 1)
    <3>1. ASSUME NEW s \in D(n + 1)
          PROVE  g[s] = IF s = {} THEN base ELSE F[s][g[s \ {c[s]}]]
      <4>1. s # {} => g[s \ {c[s]}] = f[s \ {c[s]}]
        BY <2>2, <2>3
      <4> QED
        BY <4>1
    <3>2. g = [s \in D(n + 1) |-> g[s]]
      OBVIOUS
    <3> HIDE DEF g
    <3> QED
      BY <3>1, <3>2
  <2>5. ASSUME NEW s \in D(n + 1) PROVE g[s] \in T[s]
    <3>1. CASE s = {}
      BY <1>0, <3>1
    <3>2. CASE s # {}
      <4>0. s \in SUBSET S
        BY <1>8
      <4>1. f[s \ {c[s]}] \in T[s \ {c[s]}]
        BY <2>3, <3>2
      <4> QED
        BY <1>0, <3>2, <4>0, <4>1
    <3> QED
      BY <3>1, <3>2
  <2> HIDE DEF g
  <2> QED
    BY <2>4, <2>5
<1>12. Nat \subseteq E
  <2>1. 0 \in E
    BY <1>10
  <2>2. ASSUME NEW n \in Nat, n \in E PROVE n + 1 \in E
    <3>1. Ok(n)
      BY <2>2
    <3>2. Ok(n + 1)
      BY <1>11, <3>1
    <3> HIDE DEF Ok
    <3> QED
      BY <3>2
  <2> HIDE DEF E
  <2> QED
    BY <2>1, <2>2, NatInd
<1>13. Ok(Cardinality(S))
  BY <1>12, FS_CardinalityType
<1>14. PICK f : /\ f = [s \in SUBSET S |-> IF s = {} THEN base ELSE F[s][f[s \ {c[s]}]]]
                /\ \A s \in SUBSET S : f[s] \in T[s]
  BY <1>9, <1>13
<1>15. /\ f = [s \in SUBSET S |-> f[s]]
       /\ f[{}] = base
       /\ \A s \in SUBSET S : s # {} => f[s] = F[s][f[s \ {c[s]}]]
  BY <1>14
<1> QED
  BY <1>14, <1>15 DEF Folded
(* The greatest of finitely many numbers is one of them.                     *)
LEMMA MaxIn ==
  ASSUME NEW S, IsFiniteSet(S), S \subseteq Nat, S # {}
  PROVE  Max(S) \in S /\ \A y \in S : y <= Max(S)
<1> DEFINE H == {s \in SUBSET S : s = {} \/ \E x \in s : \A y \in s : x >= y}
<1>1. {} \in H
  OBVIOUS
<1>2. ASSUME NEW s \in SUBSET S, s # {} PROVE \E z \in s : s \ {z} \in H => s \in H
  <2>1. PICK z \in s : TRUE
    BY <1>2
  <2>2. ASSUME s \ {z} \in H PROVE \E x \in s : \A y \in s : x >= y
    <3>1. CASE s \ {z} = {}
      <4>1. \A y \in s : y = z
        BY <3>1
      <4>2. z \in Nat
        BY <2>1
      <4>3. \A y \in s : z >= y
        BY <4>1, <4>2
      <4> QED
        BY <2>1, <4>3
    <3>2. CASE s \ {z} # {}
      <4>1. PICK x \in s \ {z} : \A y \in s \ {z} : x >= y
        BY <2>2, <3>2
      <4>2. x \in Nat /\ z \in Nat /\ x \in s
        BY <2>1, <4>1
      <4>3. CASE x >= z
        <5>1. \A y \in s : x >= y
          BY <4>1, <4>3
        <5> QED
          BY <4>2, <5>1
      <4>4. CASE z >= x
        <5>1. ASSUME NEW y \in s PROVE z >= y
          <6>1. y \in Nat
            BY <1>2
          <6>2. y = z \/ x >= y
            BY <4>1
          <6> QED
            BY <4>2, <4>4, <6>1, <6>2
        <5> QED
          BY <2>1, <5>1
      <4> QED
        BY <4>2, <4>3, <4>4
    <3> QED
      BY <3>1, <3>2
  <2> QED
    BY <2>1, <2>2
<1>3. S \in H
  <2> HIDE DEF H
  <2> QED
    BY <1>1, <1>2, SubsetInd
<1>4. Max(S) \in S /\ \A y \in S : Max(S) >= y
  BY <1>3 DEF Max
<1>5. PICK k : k = Max(S)
  OBVIOUS
<1>6. \A y \in S : y <= k
  BY <1>4, <1>5
<1> QED
  BY <1>4, <1>5, <1>6

(* A function that stays in the family T.                                    *)
Steady(S, T, c, it) ==
  \A P \in SUBSET S :
      IF P = {} THEN it[P] \in T[P]
      ELSE c[P] \in P /\ (it[P \ {c[P]}] \in T[P \ {c[P]}] => it[P] \in T[P])

(* Such a function has a value of the family for S too, by SubsetInd.        *)
LEMMA FoldStays ==
  ASSUME NEW S, IsFiniteSet(S), NEW T, NEW c, NEW it, Steady(S, T, c, it)
  PROVE  it[S] \in T[S]
<1> DEFINE H == {P \in SUBSET S : it[P] \in T[P]}
<1>1. {} \in H
  BY DEF Steady
<1>2. ASSUME NEW P \in SUBSET S, P # {} PROVE \E x \in P : P \ {x} \in H => P \in H
  <2>1. c[P] \in P /\ (it[P \ {c[P]}] \in T[P \ {c[P]}] => it[P] \in T[P])
    BY <1>2 DEF Steady
  <2>2. P \ {c[P]} \in H => P \in H
    BY <2>1
  <2> HIDE DEF H
  <2> QED
    BY <2>1, <2>2
<1>3. S \in H
  <2> HIDE DEF H
  <2> QED
    BY <1>1, <1>2, SubsetInd
<1> QED
  BY <1>3

(* A sequence of values of V, each made of the one before.                   *)
Keeps(F, V) == \A v \in V : F[v] \in V

(* There is such a sequence as far as the objects are numbered.              *)
LEMMA IterExists ==
  ASSUME NEW V, NEW base \in V, NEW F, Keeps(F, V)
  PROVE  \E f : /\ f = [n \in Ids |-> f[n]] /\ f[0] = base
                /\ \A n \in Ids : f[n] \in V /\ (n # 0 => f[n] = F[f[n - 1]])
<1> DEFINE Ok(f, n) == /\ f = [m \in 0 .. n |-> f[m]] /\ f[0] = base
                       /\ \A m \in 0 .. n : f[m] \in V /\ (m # 0 => f[m] = F[f[m - 1]])
           E == {n \in Nat : \E f : Ok(f, n)}
<1>0. \A v \in V : F[v] \in V
  BY DEF Keeps
<1>1. 0 \in E
  <2> DEFINE f == [m \in 0 .. 0 |-> base]
  <2>1. Ok(f, 0)
    BY <1>0
  <2> HIDE DEF Ok, f
  <2> QED
    BY <2>1
<1>2. ASSUME NEW n \in Nat, n \in E PROVE n + 1 \in E
  <2>1. PICK f : Ok(f, n)
    BY <1>2
  <2> DEFINE g == [m \in 0 .. n + 1 |-> IF m = n + 1 THEN F[f[n]] ELSE f[m]]
  <2>2. \A m \in 0 .. n + 1 : m = n + 1 \/ (m \in 0 .. n /\ m # n + 1)
    OBVIOUS
  <2>3. n \in 0 .. n /\ n + 1 # 0 /\ n + 1 - 1 = n /\ 0 \in 0 .. n + 1 /\ n + 1 \in 0 .. n + 1
        /\ \A m \in 0 .. n : m \in 0 .. n + 1 /\ m # n + 1 /\ (m # 0 => m - 1 \in 0 .. n)
    OBVIOUS
  <2>4. \A m \in 0 .. n : g[m] = f[m]
    BY <2>3
  <2>5. g[n + 1] = F[f[n]]
    BY <2>3
  <2>6. g = [m \in 0 .. n + 1 |-> g[m]]
    OBVIOUS
  <2> HIDE DEF g
  <2>7. g[0] = base /\ 0 \in 0 .. n
    BY <2>1, <2>4
  <2>8. ASSUME NEW m \in 0 .. n + 1 PROVE g[m] \in V /\ (m # 0 => g[m] = F[g[m - 1]])
    <3>1. CASE m = n + 1
      BY <1>0, <2>1, <2>3, <2>4, <2>5, <3>1
    <3>2. CASE m \in 0 .. n
      BY <2>1, <2>3, <2>4, <3>2
    <3> QED
      BY <2>2, <3>1, <3>2
  <2>9. Ok(g, n + 1)
    BY <2>6, <2>7, <2>8
  <2> HIDE DEF Ok
  <2> QED
    BY <2>9
<1>3. MaxId \in E
  <2> HIDE DEF E
  <2> QED
    BY <1>1, <1>2, NatInd, ScoreAssumption
<1> QED
  BY <1>3 DEF Ids

(* What each fold of the score makes: with a family T[P] for the part P of   *)
(* the set that has been dealt with, and one step that leads from T[P \ {x}] *)
(* to T[P], the result is in T[S].                                           *)

(* get_object_tree of each of the objects S.                                 *)
LEMMA FollowingFold ==
  ASSUME NEW walks, NEW S, IsFiniteSet(S), S \subseteq Nat,
         NEW T, NEW base, base \in T[{}],
         \A P \in SUBSET S : \A x \in P : \A v \in T[P \ {x}] :
             walks[x][v] \in T[P]
  PROVE  Following(walks, base, S) \in T[S]
<1> DEFINE step(x, v) == walks[x][v]
           c == [P \in SUBSET S |-> Max(P)]
           F == [P \in SUBSET S |-> [v \in T[P \ {c[P]}] |-> step(c[P], v)]]
           Body(f) == [P \in SUBSET S |->
                          IF P = {} THEN base
                          ELSE step(Max(P), f[P \ {Max(P)}])]
           it == CHOOSE f : f = Body(f)
<1>1. Following(walks, base, S) = it[S]
  BY DEF Following, InOrder, MapThenFoldSet
<1>0. \A P \in SUBSET S : \A x \in P : \A v \in T[P \ {x}] :
          step(x, v) \in T[P]
  OBVIOUS
<1> HIDE DEF step
<1>2. \A P \in SUBSET S : c[P] = Max(P)
  OBVIOUS
<1>3. \A P \in SUBSET S : P # {} => c[P] \in P
  <2>1. \A P \in SUBSET S : P # {} => Max(P) \in P
    BY MaxIn, FS_Subset
  <2> QED
    BY <2>1
<1> HIDE DEF c
<1>4. ASSUME NEW f
      PROVE  Body(f) = [P \in SUBSET S |->
                           IF P = {} THEN base ELSE step(c[P], f[P \ {c[P]}])]
  <2>1. ASSUME NEW P \in SUBSET S
        PROVE  step(Max(P), f[P \ {Max(P)}])
               = step(c[P], f[P \ {c[P]}])
    BY <1>2
  <2> QED
    BY <2>1
<1>5. ASSUME NEW P \in SUBSET S, P # {}, NEW v \in T[P \ {c[P]}]
      PROVE  F[P][v] = step(c[P], v) /\ step(c[P], v) \in T[P]
  <2>1. F[P] = [w \in T[P \ {c[P]}] |-> step(c[P], w)]
    OBVIOUS
  <2>2. F[P][v] = step(c[P], v)
    BY <2>1
  <2>3. c[P] \in P
    BY <1>3, <1>5
  <2>4. step(c[P], v) \in T[P]
    <3> HIDE DEF Body, F
    <3> QED
      BY <1>0, <1>5, <2>3
  <2> QED
    BY <2>2, <2>4
<1> HIDE DEF F, Body
<1>6. Folding(S, T, base, c, F)
  <2>1. \A P \in SUBSET S : P # {} => \A v \in T[P \ {c[P]}] : F[P][v] \in T[P]
    BY <1>5
  <2> QED
    BY <1>3, <2>1 DEF Folding
<1>7. PICK f : Folded(S, T, base, c, F, f)
  BY <1>6, FoldExists
<1>8. ASSUME NEW P \in SUBSET S
      PROVE  f[P] = IF P = {} THEN base ELSE step(c[P], f[P \ {c[P]}])
  <2>1. P # {} => f[P \ {c[P]}] \in T[P \ {c[P]}]
    BY <1>3, <1>7 DEF Folded
  <2> QED
    BY <1>5, <1>7, <2>1 DEF Folded
<1>9. f = [P \in SUBSET S |-> f[P]]
  BY <1>7 DEF Folded
<1>10. f = Body(f)
  BY <1>4, <1>8, <1>9
<1>11. it = Body(it)
  BY <1>10
<1> HIDE DEF it
<1>12. \A P \in SUBSET S :
           it[P] = IF P = {} THEN base ELSE step(c[P], it[P \ {c[P]}])
  BY <1>4, <1>11
<1>13. Steady(S, T, c, it)
  <2>1. it[{}] \in T[{}]
    BY <1>12
  <2>2. ASSUME NEW P \in SUBSET S, P # {}, it[P \ {c[P]}] \in T[P \ {c[P]}]
        PROVE  it[P] \in T[P]
    <3>1. it[P] = step(c[P], it[P \ {c[P]}])
      BY <1>12, <2>2
    <3>2. step(c[P], it[P \ {c[P]}]) \in T[P]
      BY <1>5, <2>2
    <3> QED
      BY <3>1, <3>2
  <2> QED
    BY <1>3, <2>1, <2>2 DEF Steady
<1> QED
  BY <1>1, <1>13, FoldStays

(* The updates along a tree.                                                 *)
LEMMA UpdateFold ==
  ASSUME NEW seq, NEW me, NEW children_only,
         IsFiniteSet(DOMAIN seq), DOMAIN seq \subseteq Nat,
         NEW T, NEW base, base \in T[{}],
         \A P \in SUBSET DOMAIN seq : \A x \in P : (\A y \in P : y <= x) =>
             \A v \in T[P \ {x}] :
             UpdateStep(v, seq[x], me, children_only) \in T[P]
  PROVE  UpdateAlong(base, seq, me, children_only) \in T[DOMAIN seq]
<1> DEFINE step(x, v) == UpdateStep(v, seq[x], me, children_only)
           c == [P \in SUBSET DOMAIN seq |-> Max(P)]
           F == [P \in SUBSET DOMAIN seq |-> [v \in T[P \ {c[P]}] |-> step(c[P], v)]]
           Body(f) == [P \in SUBSET DOMAIN seq |->
                          IF P = {} THEN base
                          ELSE step(Max(P), f[P \ {Max(P)}])]
           it == CHOOSE f : f = Body(f)
<1>1. UpdateAlong(base, seq, me, children_only) = it[DOMAIN seq]
  BY DEF UpdateAlong, FoldLeft, MapThenFoldSet
<1>0. \A P \in SUBSET DOMAIN seq : \A x \in P : (\A y \in P : y <= x) =>
             \A v \in T[P \ {x}] : step(x, v) \in T[P]
  OBVIOUS
<1> HIDE DEF step
<1>2. \A P \in SUBSET DOMAIN seq : c[P] = Max(P)
  OBVIOUS
<1>3. \A P \in SUBSET DOMAIN seq : P # {} => c[P] \in P /\ \A y \in P : y <= c[P]
  <2>1. \A P \in SUBSET DOMAIN seq : P # {} => Max(P) \in P /\ \A y \in P : y <= Max(P)
    BY MaxIn, FS_Subset
  <2> QED
    BY <2>1
<1> HIDE DEF c
<1>4. ASSUME NEW f
      PROVE  Body(f) = [P \in SUBSET DOMAIN seq |->
                           IF P = {} THEN base ELSE step(c[P], f[P \ {c[P]}])]
  <2>1. ASSUME NEW P \in SUBSET DOMAIN seq
        PROVE  step(Max(P), f[P \ {Max(P)}])
               = step(c[P], f[P \ {c[P]}])
    BY <1>2
  <2> QED
    BY <2>1
<1>5. ASSUME NEW P \in SUBSET DOMAIN seq, P # {}, NEW v \in T[P \ {c[P]}]
      PROVE  F[P][v] = step(c[P], v) /\ step(c[P], v) \in T[P]
  <2>1. F[P] = [w \in T[P \ {c[P]}] |-> step(c[P], w)]
    OBVIOUS
  <2>2. F[P][v] = step(c[P], v)
    BY <2>1
  <2>3. c[P] \in P /\ \A y \in P : y <= c[P]
    BY <1>3, <1>5
  <2>4. step(c[P], v) \in T[P]
    <3> HIDE DEF Body, F
    <3> QED
      BY <1>0, <1>5, <2>3
  <2> QED
    BY <2>2, <2>4
<1> HIDE DEF F, Body
<1>6. Folding(DOMAIN seq, T, base, c, F)
  <2>1. \A P \in SUBSET DOMAIN seq : P # {} => \A v \in T[P \ {c[P]}] : F[P][v] \in T[P]
    BY <1>5
  <2> QED
    BY <1>3, <2>1 DEF Folding
<1>7. PICK f : Folded(DOMAIN seq, T, base, c, F, f)
  BY <1>6, FoldExists
<1>8. ASSUME NEW P \in SUBSET DOMAIN seq
      PROVE  f[P] = IF P = {} THEN base ELSE step(c[P], f[P \ {c[P]}])
  <2>1. P # {} => f[P \ {c[P]}] \in T[P \ {c[P]}]
    BY <1>3, <1>7 DEF Folded
  <2> QED
    BY <1>5, <1>7, <2>1 DEF Folded
<1>9. f = [P \in SUBSET DOMAIN seq |-> f[P]]
  BY <1>7 DEF Folded
<1>10. f = Body(f)
  BY <1>4, <1>8, <1>9
<1>11. it = Body(it)
  BY <1>10
<1> HIDE DEF it
<1>12. \A P \in SUBSET DOMAIN seq :
           it[P] = IF P = {} THEN base ELSE step(c[P], it[P \ {c[P]}])
  BY <1>4, <1>11
<1>13. Steady(DOMAIN seq, T, c, it)
  <2>1. it[{}] \in T[{}]
    BY <1>12
  <2>2. ASSUME NEW P \in SUBSET DOMAIN seq, P # {}, it[P \ {c[P]}] \in T[P \ {c[P]}]
        PROVE  it[P] \in T[P]
    <3>1. it[P] = step(c[P], it[P \ {c[P]}])
      BY <1>12, <2>2
    <3>2. step(c[P], it[P \ {c[P]}]) \in T[P]
      BY <1>5, <2>2
    <3> QED
      BY <3>1, <3>2
  <2> QED
    BY <1>3, <2>1, <2>2 DEF Steady
<1> QED
  BY <1>1, <1>13, FoldStays

(* The updates of what waits along a tree.                                   *)
LEMMA UpdateAllFold ==
  ASSUME NEW seq, NEW force, IsFiniteSet(DOMAIN seq), DOMAIN seq \subseteq Nat,
         NEW T, NEW base, base \in T[{}],
         \A P \in SUBSET DOMAIN seq : \A x \in P : (\A y \in P : y <= x) =>
             \A v \in T[P \ {x}] :
             UpdateAsked(v, seq[x], force) \in T[P]
  PROVE  UpdateAll(base, seq, force) \in T[DOMAIN seq]
<1> DEFINE step(x, v) == UpdateAsked(v, seq[x], force)
           c == [P \in SUBSET DOMAIN seq |-> Max(P)]
           F == [P \in SUBSET DOMAIN seq |-> [v \in T[P \ {c[P]}] |-> step(c[P], v)]]
           Body(f) == [P \in SUBSET DOMAIN seq |->
                          IF P = {} THEN base
                          ELSE step(Max(P), f[P \ {Max(P)}])]
           it == CHOOSE f : f = Body(f)
<1>1. UpdateAll(base, seq, force) = it[DOMAIN seq]
  BY DEF UpdateAll, FoldLeft, MapThenFoldSet
<1>0. \A P \in SUBSET DOMAIN seq : \A x \in P : (\A y \in P : y <= x) =>
             \A v \in T[P \ {x}] : step(x, v) \in T[P]
  OBVIOUS
<1> HIDE DEF step
<1>2. \A P \in SUBSET DOMAIN seq : c[P] = Max(P)
  OBVIOUS
<1>3. \A P \in SUBSET DOMAIN seq : P # {} => c[P] \in P /\ \A y \in P : y <= c[P]
  <2>1. \A P \in SUBSET DOMAIN seq : P # {} => Max(P) \in P /\ \A y \in P : y <= Max(P)
    BY MaxIn, FS_Subset
  <2> QED
    BY <2>1
<1> HIDE DEF c
<1>4. ASSUME NEW f
      PROVE  Body(f) = [P \in SUBSET DOMAIN seq |->
                           IF P = {} THEN base ELSE step(c[P], f[P \ {c[P]}])]
  <2>1. ASSUME NEW P \in SUBSET DOMAIN seq
        PROVE  step(Max(P), f[P \ {Max(P)}])
               = step(c[P], f[P \ {c[P]}])
    BY <1>2
  <2> QED
    BY <2>1
<1>5. ASSUME NEW P \in SUBSET DOMAIN seq, P # {}, NEW v \in T[P \ {c[P]}]
      PROVE  F[P][v] = step(c[P], v) /\ step(c[P], v) \in T[P]
  <2>1. F[P] = [w \in T[P \ {c[P]}] |-> step(c[P], w)]
    OBVIOUS
  <2>2. F[P][v] = step(c[P], v)
    BY <2>1
  <2>3. c[P] \in P /\ \A y \in P : y <= c[P]
    BY <1>3, <1>5
  <2>4. step(c[P], v) \in T[P]
    <3> HIDE DEF Body, F
    <3> QED
      BY <1>0, <1>5, <2>3
  <2> QED
    BY <2>2, <2>4
<1> HIDE DEF F, Body
<1>6. Folding(DOMAIN seq, T, base, c, F)
  <2>1. \A P \in SUBSET DOMAIN seq : P # {} => \A v \in T[P \ {c[P]}] : F[P][v] \in T[P]
    BY <1>5
  <2> QED
    BY <1>3, <2>1 DEF Folding
<1>7. PICK f : Folded(DOMAIN seq, T, base, c, F, f)
  BY <1>6, FoldExists
<1>8. ASSUME NEW P \in SUBSET DOMAIN seq
      PROVE  f[P] = IF P = {} THEN base ELSE step(c[P], f[P \ {c[P]}])
  <2>1. P # {} => f[P \ {c[P]}] \in T[P \ {c[P]}]
    BY <1>3, <1>7 DEF Folded
  <2> QED
    BY <1>5, <1>7, <2>1 DEF Folded
<1>9. f = [P \in SUBSET DOMAIN seq |-> f[P]]
  BY <1>7 DEF Folded
<1>10. f = Body(f)
  BY <1>4, <1>8, <1>9
<1>11. it = Body(it)
  BY <1>10
<1> HIDE DEF it
<1>12. \A P \in SUBSET DOMAIN seq :
           it[P] = IF P = {} THEN base ELSE step(c[P], it[P \ {c[P]}])
  BY <1>4, <1>11
<1>13. Steady(DOMAIN seq, T, c, it)
  <2>1. it[{}] \in T[{}]
    BY <1>12
  <2>2. ASSUME NEW P \in SUBSET DOMAIN seq, P # {}, it[P \ {c[P]}] \in T[P \ {c[P]}]
        PROVE  it[P] \in T[P]
    <3>1. it[P] = step(c[P], it[P \ {c[P]}])
      BY <1>12, <2>2
    <3>2. step(c[P], it[P \ {c[P]}]) \in T[P]
      BY <1>5, <2>2
    <3> QED
      BY <3>1, <3>2
  <2> QED
    BY <1>3, <2>1, <2>2 DEF Steady
<1> QED
  BY <1>1, <1>13, FoldStays

(* The disconnections at the outlets of me.                                  *)
LEMMA OutletsFold ==
  ASSUME NEW me, NEW S, IsFiniteSet(S),
         NEW T, NEW base, base \in T[{}],
         \A P \in SUBSET S : \A x \in P : \A v \in T[P \ {x}] :
             Disconnect(v, x[3], me, x[2]) \in T[P]
  PROVE  DisconnectOutlets(base, me, S) \in T[S]
<1> DEFINE step(x, v) == Disconnect(v, x[3], me, x[2])
           c == [P \in SUBSET S |-> CHOOSE x \in P : TRUE]
           F == [P \in SUBSET S |-> [v \in T[P \ {c[P]}] |-> step(c[P], v)]]
           Body(f) == [P \in SUBSET S |->
                          IF P = {} THEN base
                          ELSE step(CHOOSE x \in P : TRUE, f[P \ {CHOOSE x \in P : TRUE}])]
           it == CHOOSE f : f = Body(f)
<1>1. DisconnectOutlets(base, me, S) = it[S]
  BY DEF DisconnectOutlets, FoldSet, MapThenFoldSet
<1>0. \A P \in SUBSET S : \A x \in P : \A v \in T[P \ {x}] :
          step(x, v) \in T[P]
  OBVIOUS
<1> HIDE DEF step
<1>2. \A P \in SUBSET S : c[P] = CHOOSE x \in P : TRUE
  OBVIOUS
<1>3. \A P \in SUBSET S : P # {} => c[P] \in P
  OBVIOUS
<1> HIDE DEF c
<1>4. ASSUME NEW f
      PROVE  Body(f) = [P \in SUBSET S |->
                           IF P = {} THEN base ELSE step(c[P], f[P \ {c[P]}])]
  <2>1. ASSUME NEW P \in SUBSET S
        PROVE  step(CHOOSE x \in P : TRUE, f[P \ {CHOOSE x \in P : TRUE}])
               = step(c[P], f[P \ {c[P]}])
    BY <1>2
  <2> QED
    BY <2>1
<1>5. ASSUME NEW P \in SUBSET S, P # {}, NEW v \in T[P \ {c[P]}]
      PROVE  F[P][v] = step(c[P], v) /\ step(c[P], v) \in T[P]
  <2>1. F[P] = [w \in T[P \ {c[P]}] |-> step(c[P], w)]
    OBVIOUS
  <2>2. F[P][v] = step(c[P], v)
    BY <2>1
  <2>3. c[P] \in P
    BY <1>3, <1>5
  <2>4. step(c[P], v) \in T[P]
    <3> HIDE DEF Body, F
    <3> QED
      BY <1>0, <1>5, <2>3
  <2> QED
    BY <2>2, <2>4
<1> HIDE DEF F, Body
<1>6. Folding(S, T, base, c, F)
  <2>1. \A P \in SUBSET S : P # {} => \A v \in T[P \ {c[P]}] : F[P][v] \in T[P]
    BY <1>5
  <2> QED
    BY <1>3, <2>1 DEF Folding
<1>7. PICK f : Folded(S, T, base, c, F, f)
  BY <1>6, FoldExists
<1>8. ASSUME NEW P \in SUBSET S
      PROVE  f[P] = IF P = {} THEN base ELSE step(c[P], f[P \ {c[P]}])
  <2>1. P # {} => f[P \ {c[P]}] \in T[P \ {c[P]}]
    BY <1>3, <1>7 DEF Folded
  <2> QED
    BY <1>5, <1>7, <2>1 DEF Folded
<1>9. f = [P \in SUBSET S |-> f[P]]
  BY <1>7 DEF Folded
<1>10. f = Body(f)
  BY <1>4, <1>8, <1>9
<1>11. it = Body(it)
  BY <1>10
<1> HIDE DEF it
<1>12. \A P \in SUBSET S :
           it[P] = IF P = {} THEN base ELSE step(c[P], it[P \ {c[P]}])
  BY <1>4, <1>11
<1>13. Steady(S, T, c, it)
  <2>1. it[{}] \in T[{}]
    BY <1>12
  <2>2. ASSUME NEW P \in SUBSET S, P # {}, it[P \ {c[P]}] \in T[P \ {c[P]}]
        PROVE  it[P] \in T[P]
    <3>1. it[P] = step(c[P], it[P \ {c[P]}])
      BY <1>12, <2>2
    <3>2. step(c[P], it[P \ {c[P]}]) \in T[P]
      BY <1>5, <2>2
    <3> QED
      BY <3>1, <3>2
  <2> QED
    BY <1>3, <2>1, <2>2 DEF Steady
<1> QED
  BY <1>1, <1>13, FoldStays

(* The disconnections at the inlets of me.                                   *)
LEMMA InletsFold ==
  ASSUME NEW me, NEW S, IsFiniteSet(S),
         NEW T, NEW base, base \in T[{}],
         \A P \in SUBSET S : \A x \in P : \A v \in T[P \ {x}] :
             InletDisconnect(v, me, x[1], x[2]) \in T[P]
  PROVE  DisconnectInlets(base, me, S) \in T[S]
<1> DEFINE step(x, v) == InletDisconnect(v, me, x[1], x[2])
           c == [P \in SUBSET S |-> CHOOSE x \in P : TRUE]
           F == [P \in SUBSET S |-> [v \in T[P \ {c[P]}] |-> step(c[P], v)]]
           Body(f) == [P \in SUBSET S |->
                          IF P = {} THEN base
                          ELSE step(CHOOSE x \in P : TRUE, f[P \ {CHOOSE x \in P : TRUE}])]
           it == CHOOSE f : f = Body(f)
<1>1. DisconnectInlets(base, me, S) = it[S]
  BY DEF DisconnectInlets, FoldSet, MapThenFoldSet
<1>0. \A P \in SUBSET S : \A x \in P : \A v \in T[P \ {x}] :
          step(x, v) \in T[P]
  OBVIOUS
<1> HIDE DEF step
<1>2. \A P \in SUBSET S : c[P] = CHOOSE x \in P : TRUE
  OBVIOUS
<1>3. \A P \in SUBSET S : P # {} => c[P] \in P
  OBVIOUS
<1> HIDE DEF c
<1>4. ASSUME NEW f
      PROVE  Body(f) = [P \in SUBSET S |->
                           IF P = {} THEN base ELSE step(c[P], f[P \ {c[P]}])]
  <2>1. ASSUME NEW P \in SUBSET S
        PROVE  step(CHOOSE x \in P : TRUE, f[P \ {CHOOSE x \in P : TRUE}])
               = step(c[P], f[P \ {c[P]}])
    BY <1>2
  <2> QED
    BY <2>1
<1>5. ASSUME NEW P \in SUBSET S, P # {}, NEW v \in T[P \ {c[P]}]
      PROVE  F[P][v] = step(c[P], v) /\ step(c[P], v) \in T[P]
  <2>1. F[P] = [w \in T[P \ {c[P]}] |-> step(c[P], w)]
    OBVIOUS
  <2>2. F[P][v] = step(c[P], v)
    BY <2>1
  <2>3. c[P] \in P
    BY <1>3, <1>5
  <2>4. step(c[P], v) \in T[P]
    <3> HIDE DEF Body, F
    <3> QED
      BY <1>0, <1>5, <2>3
  <2> QED
    BY <2>2, <2>4
<1> HIDE DEF F, Body
<1>6. Folding(S, T, base, c, F)
  <2>1. \A P \in SUBSET S : P # {} => \A v \in T[P \ {c[P]}] : F[P][v] \in T[P]
    BY <1>5
  <2> QED
    BY <1>3, <2>1 DEF Folding
<1>7. PICK f : Folded(S, T, base, c, F, f)
  BY <1>6, FoldExists
<1>8. ASSUME NEW P \in SUBSET S
      PROVE  f[P] = IF P = {} THEN base ELSE step(c[P], f[P \ {c[P]}])
  <2>1. P # {} => f[P \ {c[P]}] \in T[P \ {c[P]}]
    BY <1>3, <1>7 DEF Folded
  <2> QED
    BY <1>5, <1>7, <2>1 DEF Folded
<1>9. f = [P \in SUBSET S |-> f[P]]
  BY <1>7 DEF Folded
<1>10. f = Body(f)
  BY <1>4, <1>8, <1>9
<1>11. it = Body(it)
  BY <1>10
<1> HIDE DEF it
<1>12. \A P \in SUBSET S :
           it[P] = IF P = {} THEN base ELSE step(c[P], it[P \ {c[P]}])
  BY <1>4, <1>11
<1>13. Steady(S, T, c, it)
  <2>1. it[{}] \in T[{}]
    BY <1>12
  <2>2. ASSUME NEW P \in SUBSET S, P # {}, it[P \ {c[P]}] \in T[P \ {c[P]}]
        PROVE  it[P] \in T[P]
    <3>1. it[P] = step(c[P], it[P \ {c[P]}])
      BY <1>12, <2>2
    <3>2. step(c[P], it[P \ {c[P]}]) \in T[P]
      BY <1>5, <2>2
    <3> QED
      BY <3>1, <3>2
  <2> QED
    BY <1>3, <2>1, <2>2 DEF Steady
<1> QED
  BY <1>1, <1>13, FoldStays

(* move_done of a group.                                                     *)
LEMMA GroupFold ==
  ASSUME NEW S, IsFiniteSet(S), S \subseteq Nat,
         NEW T, NEW base, base \in T[{}],
         \A P \in SUBSET S : \A x \in P : \A v \in T[P \ {x}] :
             MoveDone(v, x) \in T[P]
  PROVE  GroupMoveDone(base, S) \in T[S]
<1> DEFINE step(x, v) == MoveDone(v, x)
           c == [P \in SUBSET S |-> Max(P)]
           F == [P \in SUBSET S |-> [v \in T[P \ {c[P]}] |-> step(c[P], v)]]
           Body(f) == [P \in SUBSET S |->
                          IF P = {} THEN base
                          ELSE step(Max(P), f[P \ {Max(P)}])]
           it == CHOOSE f : f = Body(f)
<1>1. GroupMoveDone(base, S) = it[S]
  BY DEF GroupMoveDone, InOrder, MapThenFoldSet
<1>0. \A P \in SUBSET S : \A x \in P : \A v \in T[P \ {x}] :
          step(x, v) \in T[P]
  OBVIOUS
<1> HIDE DEF step
<1>2. \A P \in SUBSET S : c[P] = Max(P)
  OBVIOUS
<1>3. \A P \in SUBSET S : P # {} => c[P] \in P
  <2>1. \A P \in SUBSET S : P # {} => Max(P) \in P
    BY MaxIn, FS_Subset
  <2> QED
    BY <2>1
<1> HIDE DEF c
<1>4. ASSUME NEW f
      PROVE  Body(f) = [P \in SUBSET S |->
                           IF P = {} THEN base ELSE step(c[P], f[P \ {c[P]}])]
  <2>1. ASSUME NEW P \in SUBSET S
        PROVE  step(Max(P), f[P \ {Max(P)}])
               = step(c[P], f[P \ {c[P]}])
    BY <1>2
  <2> QED
    BY <2>1
<1>5. ASSUME NEW P \in SUBSET S, P # {}, NEW v \in T[P \ {c[P]}]
      PROVE  F[P][v] = step(c[P], v) /\ step(c[P], v) \in T[P]
  <2>1. F[P] = [w \in T[P \ {c[P]}] |-> step(c[P], w)]
    OBVIOUS
  <2>2. F[P][v] = step(c[P], v)
    BY <2>1
  <2>3. c[P] \in P
    BY <1>3, <1>5
  <2>4. step(c[P], v) \in T[P]
    <3> HIDE DEF Body, F
    <3> QED
      BY <1>0, <1>5, <2>3
  <2> QED
    BY <2>2, <2>4
<1> HIDE DEF F, Body
<1>6. Folding(S, T, base, c, F)
  <2>1. \A P \in SUBSET S : P # {} => \A v \in T[P \ {c[P]}] : F[P][v] \in T[P]
    BY <1>5
  <2> QED
    BY <1>3, <2>1 DEF Folding
<1>7. PICK f : Folded(S, T, base, c, F, f)
  BY <1>6, FoldExists
<1>8. ASSUME NEW P \in SUBSET S
      PROVE  f[P] = IF P = {} THEN base ELSE step(c[P], f[P \ {c[P]}])
  <2>1. P # {} => f[P \ {c[P]}] \in T[P \ {c[P]}]
    BY <1>3, <1>7 DEF Folded
  <2> QED
    BY <1>5, <1>7, <2>1 DEF Folded
<1>9. f = [P \in SUBSET S |-> f[P]]
  BY <1>7 DEF Folded
<1>10. f = Body(f)
  BY <1>4, <1>8, <1>9
<1>11. it = Body(it)
  BY <1>10
<1> HIDE DEF it
<1>12. \A P \in SUBSET S :
           it[P] = IF P = {} THEN base ELSE step(c[P], it[P \ {c[P]}])
  BY <1>4, <1>11
<1>13. Steady(S, T, c, it)
  <2>1. it[{}] \in T[{}]
    BY <1>12
  <2>2. ASSUME NEW P \in SUBSET S, P # {}, it[P \ {c[P]}] \in T[P \ {c[P]}]
        PROVE  it[P] \in T[P]
    <3>1. it[P] = step(c[P], it[P \ {c[P]}])
      BY <1>12, <2>2
    <3>2. step(c[P], it[P \ {c[P]}]) \in T[P]
      BY <1>5, <2>2
    <3> QED
      BY <3>1, <3>2
  <2> QED
    BY <1>3, <2>1, <2>2 DEF Steady
<1> QED
  BY <1>1, <1>13, FoldStays

(* The connections of a line of the file.                                    *)
LEMMA WireFold ==
  ASSUME NEW S, IsFiniteSet(S),
         NEW T, NEW base, base \in T[{}],
         \A P \in SUBSET S : \A x \in P : \A v \in T[P \ {x}] :
             Wire(v, x) \in T[P]
  PROVE  WireAll(base, S) \in T[S]
<1> DEFINE step(x, v) == Wire(v, x)
           c == [P \in SUBSET S |-> CHOOSE x \in P : TRUE]
           F == [P \in SUBSET S |-> [v \in T[P \ {c[P]}] |-> step(c[P], v)]]
           Body(f) == [P \in SUBSET S |->
                          IF P = {} THEN base
                          ELSE step(CHOOSE x \in P : TRUE, f[P \ {CHOOSE x \in P : TRUE}])]
           it == CHOOSE f : f = Body(f)
<1>1. WireAll(base, S) = it[S]
  BY DEF WireAll, FoldSet, MapThenFoldSet
<1>0. \A P \in SUBSET S : \A x \in P : \A v \in T[P \ {x}] :
          step(x, v) \in T[P]
  OBVIOUS
<1> HIDE DEF step
<1>2. \A P \in SUBSET S : c[P] = CHOOSE x \in P : TRUE
  OBVIOUS
<1>3. \A P \in SUBSET S : P # {} => c[P] \in P
  OBVIOUS
<1> HIDE DEF c
<1>4. ASSUME NEW f
      PROVE  Body(f) = [P \in SUBSET S |->
                           IF P = {} THEN base ELSE step(c[P], f[P \ {c[P]}])]
  <2>1. ASSUME NEW P \in SUBSET S
        PROVE  step(CHOOSE x \in P : TRUE, f[P \ {CHOOSE x \in P : TRUE}])
               = step(c[P], f[P \ {c[P]}])
    BY <1>2
  <2> QED
    BY <2>1
<1>5. ASSUME NEW P \in SUBSET S, P # {}, NEW v \in T[P \ {c[P]}]
      PROVE  F[P][v] = step(c[P], v) /\ step(c[P], v) \in T[P]
  <2>1. F[P] = [w \in T[P \ {c[P]}] |-> step(c[P], w)]
    OBVIOUS
  <2>2. F[P][v] = step(c[P], v)
    BY <2>1
  <2>3. c[P] \in P
    BY <1>3, <1>5
  <2>4. step(c[P], v) \in T[P]
    <3> HIDE DEF Body, F
    <3> QED
      BY <1>0, <1>5, <2>3
  <2> QED
    BY <2>2, <2>4
<1> HIDE DEF F, Body
<1>6. Folding(S, T, base, c, F)
  <2>1. \A P \in SUBSET S : P # {} => \A v \in T[P \ {c[P]}] : F[P][v] \in T[P]
    BY <1>5
  <2> QED
    BY <1>3, <2>1 DEF Folding
<1>7. PICK f : Folded(S, T, base, c, F, f)
  BY <1>6, FoldExists
<1>8. ASSUME NEW P \in SUBSET S
      PROVE  f[P] = IF P = {} THEN base ELSE step(c[P], f[P \ {c[P]}])
  <2>1. P # {} => f[P \ {c[P]}] \in T[P \ {c[P]}]
    BY <1>3, <1>7 DEF Folded
  <2> QED
    BY <1>5, <1>7, <2>1 DEF Folded
<1>9. f = [P \in SUBSET S |-> f[P]]
  BY <1>7 DEF Folded
<1>10. f = Body(f)
  BY <1>4, <1>8, <1>9
<1>11. it = Body(it)
  BY <1>10
<1> HIDE DEF it
<1>12. \A P \in SUBSET S :
           it[P] = IF P = {} THEN base ELSE step(c[P], it[P \ {c[P]}])
  BY <1>4, <1>11
<1>13. Steady(S, T, c, it)
  <2>1. it[{}] \in T[{}]
    BY <1>12
  <2>2. ASSUME NEW P \in SUBSET S, P # {}, it[P \ {c[P]}] \in T[P \ {c[P]}]
        PROVE  it[P] \in T[P]
    <3>1. it[P] = step(c[P], it[P \ {c[P]}])
      BY <1>12, <2>2
    <3>2. step(c[P], it[P \ {c[P]}]) \in T[P]
      BY <1>5, <2>2
    <3> QED
      BY <3>1, <3>2
  <2> QED
    BY <1>3, <2>1, <2>2 DEF Steady
<1> QED
  BY <1>1, <1>13, FoldStays

(* The links of the file.                                                    *)
LEMMA TieFold ==
  ASSUME NEW S, IsFiniteSet(S),
         NEW T, NEW base, base \in T[{}],
         \A P \in SUBSET S : \A x \in P : \A v \in T[P \ {x}] :
             Tie(v, x) \in T[P]
  PROVE  TieAll(base, S) \in T[S]
<1> DEFINE step(x, v) == Tie(v, x)
           c == [P \in SUBSET S |-> CHOOSE x \in P : TRUE]
           F == [P \in SUBSET S |-> [v \in T[P \ {c[P]}] |-> step(c[P], v)]]
           Body(f) == [P \in SUBSET S |->
                          IF P = {} THEN base
                          ELSE step(CHOOSE x \in P : TRUE, f[P \ {CHOOSE x \in P : TRUE}])]
           it == CHOOSE f : f = Body(f)
<1>1. TieAll(base, S) = it[S]
  BY DEF TieAll, FoldSet, MapThenFoldSet
<1>0. \A P \in SUBSET S : \A x \in P : \A v \in T[P \ {x}] :
          step(x, v) \in T[P]
  OBVIOUS
<1> HIDE DEF step
<1>2. \A P \in SUBSET S : c[P] = CHOOSE x \in P : TRUE
  OBVIOUS
<1>3. \A P \in SUBSET S : P # {} => c[P] \in P
  OBVIOUS
<1> HIDE DEF c
<1>4. ASSUME NEW f
      PROVE  Body(f) = [P \in SUBSET S |->
                           IF P = {} THEN base ELSE step(c[P], f[P \ {c[P]}])]
  <2>1. ASSUME NEW P \in SUBSET S
        PROVE  step(CHOOSE x \in P : TRUE, f[P \ {CHOOSE x \in P : TRUE}])
               = step(c[P], f[P \ {c[P]}])
    BY <1>2
  <2> QED
    BY <2>1
<1>5. ASSUME NEW P \in SUBSET S, P # {}, NEW v \in T[P \ {c[P]}]
      PROVE  F[P][v] = step(c[P], v) /\ step(c[P], v) \in T[P]
  <2>1. F[P] = [w \in T[P \ {c[P]}] |-> step(c[P], w)]
    OBVIOUS
  <2>2. F[P][v] = step(c[P], v)
    BY <2>1
  <2>3. c[P] \in P
    BY <1>3, <1>5
  <2>4. step(c[P], v) \in T[P]
    <3> HIDE DEF Body, F
    <3> QED
      BY <1>0, <1>5, <2>3
  <2> QED
    BY <2>2, <2>4
<1> HIDE DEF F, Body
<1>6. Folding(S, T, base, c, F)
  <2>1. \A P \in SUBSET S : P # {} => \A v \in T[P \ {c[P]}] : F[P][v] \in T[P]
    BY <1>5
  <2> QED
    BY <1>3, <2>1 DEF Folding
<1>7. PICK f : Folded(S, T, base, c, F, f)
  BY <1>6, FoldExists
<1>8. ASSUME NEW P \in SUBSET S
      PROVE  f[P] = IF P = {} THEN base ELSE step(c[P], f[P \ {c[P]}])
  <2>1. P # {} => f[P \ {c[P]}] \in T[P \ {c[P]}]
    BY <1>3, <1>7 DEF Folded
  <2> QED
    BY <1>5, <1>7, <2>1 DEF Folded
<1>9. f = [P \in SUBSET S |-> f[P]]
  BY <1>7 DEF Folded
<1>10. f = Body(f)
  BY <1>4, <1>8, <1>9
<1>11. it = Body(it)
  BY <1>10
<1> HIDE DEF it
<1>12. \A P \in SUBSET S :
           it[P] = IF P = {} THEN base ELSE step(c[P], it[P \ {c[P]}])
  BY <1>4, <1>11
<1>13. Steady(S, T, c, it)
  <2>1. it[{}] \in T[{}]
    BY <1>12
  <2>2. ASSUME NEW P \in SUBSET S, P # {}, it[P \ {c[P]}] \in T[P \ {c[P]}]
        PROVE  it[P] \in T[P]
    <3>1. it[P] = step(c[P], it[P \ {c[P]}])
      BY <1>12, <2>2
    <3>2. step(c[P], it[P \ {c[P]}]) \in T[P]
      BY <1>5, <2>2
    <3> QED
      BY <3>1, <3>2
  <2> QED
    BY <1>3, <2>1, <2>2 DEF Steady
<1> QED
  BY <1>1, <1>13, FoldStays

(* The lines of the file.                                                    *)
LEMMA LinesFold ==
  ASSUME NEW seq, IsFiniteSet(DOMAIN seq), DOMAIN seq \subseteq Nat,
         NEW T, NEW base, base \in T[{}],
         \A P \in SUBSET DOMAIN seq : \A x \in P : (\A y \in P : y <= x) =>
             \A v \in T[P \ {x}] : RunLine(v, seq[x]) \in T[P]
  PROVE  RunLines(base, seq) \in T[DOMAIN seq]
<1> DEFINE step(x, v) == RunLine(v, seq[x])
           c == [P \in SUBSET DOMAIN seq |-> Max(P)]
           F == [P \in SUBSET DOMAIN seq |-> [v \in T[P \ {c[P]}] |-> step(c[P], v)]]
           Body(f) == [P \in SUBSET DOMAIN seq |->
                          IF P = {} THEN base
                          ELSE step(Max(P), f[P \ {Max(P)}])]
           it == CHOOSE f : f = Body(f)
<1>1. RunLines(base, seq) = it[DOMAIN seq]
  BY DEF RunLines, FoldLeft, MapThenFoldSet
<1>0. \A P \in SUBSET DOMAIN seq : \A x \in P : (\A y \in P : y <= x) =>
          \A v \in T[P \ {x}] : step(x, v) \in T[P]
  OBVIOUS
<1> HIDE DEF step
<1>2. \A P \in SUBSET DOMAIN seq : c[P] = Max(P)
  OBVIOUS
<1>3. \A P \in SUBSET DOMAIN seq : P # {} => c[P] \in P /\ \A y \in P : y <= c[P]
  <2>1. \A P \in SUBSET DOMAIN seq : P # {} => Max(P) \in P /\ \A y \in P : y <= Max(P)
    BY MaxIn, FS_Subset
  <2> QED
    BY <2>1
<1> HIDE DEF c
<1>4. ASSUME NEW f
      PROVE  Body(f) = [P \in SUBSET DOMAIN seq |->
                           IF P = {} THEN base ELSE step(c[P], f[P \ {c[P]}])]
  <2>1. ASSUME NEW P \in SUBSET DOMAIN seq
        PROVE  step(Max(P), f[P \ {Max(P)}])
               = step(c[P], f[P \ {c[P]}])
    BY <1>2
  <2> QED
    BY <2>1
<1>5. ASSUME NEW P \in SUBSET DOMAIN seq, P # {}, NEW v \in T[P \ {c[P]}]
      PROVE  F[P][v] = step(c[P], v) /\ step(c[P], v) \in T[P]
  <2>1. F[P] = [w \in T[P \ {c[P]}] |-> step(c[P], w)]
    OBVIOUS
  <2>2. F[P][v] = step(c[P], v)
    BY <2>1
  <2>3. c[P] \in P /\ \A y \in P : y <= c[P]
    BY <1>3, <1>5
  <2>4. step(c[P], v) \in T[P]
    <3> HIDE DEF Body, F
    <3> QED
      BY <1>0, <1>5, <2>3
  <2> QED
    BY <2>2, <2>4
<1> HIDE DEF F, Body
<1>6. Folding(DOMAIN seq, T, base, c, F)
  <2>1. \A P \in SUBSET DOMAIN seq : P # {} => \A v \in T[P \ {c[P]}] : F[P][v] \in T[P]
    BY <1>5
  <2> QED
    BY <1>3, <2>1 DEF Folding
<1>7. PICK f : Folded(DOMAIN seq, T, base, c, F, f)
  BY <1>6, FoldExists
<1>8. ASSUME NEW P \in SUBSET DOMAIN seq
      PROVE  f[P] = IF P = {} THEN base ELSE step(c[P], f[P \ {c[P]}])
  <2>1. P # {} => f[P \ {c[P]}] \in T[P \ {c[P]}]
    BY <1>3, <1>7 DEF Folded
  <2> QED
    BY <1>5, <1>7, <2>1 DEF Folded
<1>9. f = [P \in SUBSET DOMAIN seq |-> f[P]]
  BY <1>7 DEF Folded
<1>10. f = Body(f)
  BY <1>4, <1>8, <1>9
<1>11. it = Body(it)
  BY <1>10
<1> HIDE DEF it
<1>12. \A P \in SUBSET DOMAIN seq :
           it[P] = IF P = {} THEN base ELSE step(c[P], it[P \ {c[P]}])
  BY <1>4, <1>11
<1>13. Steady(DOMAIN seq, T, c, it)
  <2>1. it[{}] \in T[{}]
    BY <1>12
  <2>2. ASSUME NEW P \in SUBSET DOMAIN seq, P # {}, it[P \ {c[P]}] \in T[P \ {c[P]}]
        PROVE  it[P] \in T[P]
    <3>1. it[P] = step(c[P], it[P \ {c[P]}])
      BY <1>12, <2>2
    <3>2. step(c[P], it[P \ {c[P]}]) \in T[P]
      BY <1>5, <2>2
    <3> QED
      BY <3>1, <3>2
  <2> QED
    BY <1>3, <2>1, <2>2 DEF Steady
<1> QED
  BY <1>1, <1>13, FoldStays

------------------------------------------------------------------------------
(***************************************************************************)
(* Groups: the sets that hang together.                                    *)
(***************************************************************************)

(* Relations E on the objects, the sets they do not leave, and the groups    *)
(* they divide the objects into.                                             *)
Closed(E, S) == \A x \in S, y \in Ids : <<x, y>> \in E => y \in S
Hull(E, o) == {x \in Ids : \A S \in SUBSET Ids : o \in S /\ Closed(E, S) => x \in S}
Symmetric(E) == \A x, y \in Ids : <<x, y>> \in E => <<y, x>> \in E
GroupsOf(E) == [o \in Ids |-> Hull(E, o)]
Both(a, b) == {<<a, b>>, <<b, a>>}
Ties(links) == {p \in Ids \X Ids : p[2] \in links[p[1]] \/ p[1] \in links[p[2]]}

(* The hull of o is the least set with o that E does not leave.              *)
LEMMA HullFacts ==
  ASSUME NEW E, NEW o \in Ids
  PROVE  /\ Hull(E, o) \in SUBSET Ids /\ o \in Hull(E, o) /\ Closed(E, Hull(E, o))
         /\ \A S \in SUBSET Ids : o \in S /\ Closed(E, S) => Hull(E, o) \subseteq S
<1>1. ASSUME NEW x \in Hull(E, o), NEW y \in Ids, <<x, y>> \in E PROVE y \in Hull(E, o)
  <2>1. ASSUME NEW S \in SUBSET Ids, o \in S, Closed(E, S) PROVE y \in S
    <3>1. x \in S
      BY <2>1 DEF Hull
    <3> QED
      BY <1>1, <2>1, <3>1 DEF Closed
  <2> QED
    BY <2>1 DEF Hull
<1> QED
  BY <1>1 DEF Hull, Closed

(* The last of these facts on its own.                                       *)
LEMMA HullLeast ==
  ASSUME NEW E, NEW o \in Ids, NEW S \in SUBSET Ids, o \in S, Closed(E, S)
  PROVE  Hull(E, o) \subseteq S
BY HullFacts

(* The hulls of a symmetric relation are classes: one of its members has the *)
(* same.                                                                     *)
LEMMA HullSame ==
  ASSUME NEW E, Symmetric(E), NEW o \in Ids, NEW x \in Hull(E, o)
  PROVE  Hull(E, x) = Hull(E, o)
<1>1. x \in Ids
  BY HullFacts
<1>2. Hull(E, x) \subseteq Hull(E, o)
  BY <1>1, HullFacts
<1>3. o \in Hull(E, x)
  <2> DEFINE S == Hull(E, o) \ Hull(E, x)
  <2>1. ASSUME o \notin Hull(E, x) PROVE FALSE
    <3>1. S \in SUBSET Ids /\ o \in S /\ x \notin S
      BY <1>1, <2>1, HullFacts
    <3>2. ASSUME NEW y \in S, NEW z \in Ids, <<y, z>> \in E PROVE z \in S
      <4>1. y \in Ids /\ z \in Hull(E, o)
        BY <3>2, HullFacts DEF Closed
      <4>2. <<z, y>> \in E
        BY <3>2, <4>1 DEF Symmetric
      <4>3. z \notin Hull(E, x)
        BY <1>1, <4>1, <4>2, HullFacts DEF Closed
      <4> QED
        BY <4>1, <4>3
    <3>3. Closed(E, S)
      BY <3>2 DEF Closed
    <3> QED
      BY <3>1, <3>3, HullFacts
  <2> QED
    BY <2>1
<1> QED
  BY <1>1, <1>2, <1>3, HullFacts

(* What add_group does: the groups of a and b become the group of a tie.     *)
LEMMA JoinHulls ==
  ASSUME NEW E, Symmetric(E), NEW a \in Ids, NEW b \in Ids, NEW g,
         g = Hull(E, a) \cup Hull(E, b)
  PROVE  /\ g \subseteq Ids
         /\ \A o \in g : Hull(E \cup Both(a, b), o) = g
         /\ \A o \in Ids : o \notin g => Hull(E \cup Both(a, b), o) = Hull(E, o)
         /\ Symmetric(E \cup Both(a, b))
<1> DEFINE E2 == E \cup Both(a, b)
<1>0. Symmetric(E2)
  BY DEF Symmetric, Both
<1>1. \A S : Closed(E2, S) <=> Closed(E, S) /\ (a \in S => b \in S) /\ (b \in S => a \in S)
  BY DEF Closed, Both
<1> HIDE DEF E2
<1>2. g \in SUBSET Ids /\ a \in g /\ b \in g /\ Closed(E, g)
  BY HullFacts DEF Closed
<1>3. ASSUME NEW o \in Ids
      PROVE  /\ Closed(E2, Hull(E2, o)) /\ Closed(E, Hull(E2, o))
             /\ Hull(E2, o) \in SUBSET Ids /\ o \in Hull(E2, o)
  BY <1>1, HullFacts
<1>4. ASSUME NEW o \in g PROVE Hull(E2, o) = g
  <2>0. o \in Ids
    BY <1>2
  <2>1. Closed(E2, g)
    BY <1>1, <1>2
  <2>2. Hull(E2, o) \subseteq g
    BY <1>2, <2>0, <2>1, HullLeast
  <2>3. Hull(E, o) \subseteq Hull(E2, o)
    BY <1>3, <2>0, HullLeast
  <2>4. a \in Hull(E, o) \/ b \in Hull(E, o)
    BY <2>0, HullSame, HullFacts
  <2>5. a \in Hull(E2, o) /\ b \in Hull(E2, o)
    BY <1>1, <1>3, <2>0, <2>3, <2>4
  <2>6. Hull(E, a) \subseteq Hull(E2, o)
    BY <1>3, <2>0, <2>5, HullLeast
  <2>7. Hull(E, b) \subseteq Hull(E2, o)
    BY <1>3, <2>0, <2>5, HullLeast
  <2> QED
    BY <2>2, <2>6, <2>7
<1>5. ASSUME NEW o \in Ids, o \notin g PROVE Hull(E2, o) = Hull(E, o)
  <2>1. a \notin Hull(E, o) /\ b \notin Hull(E, o)
    BY <1>5, HullSame, HullFacts
  <2>2. Closed(E2, Hull(E, o)) /\ o \in Hull(E, o) /\ Hull(E, o) \in SUBSET Ids
    BY <1>1, <2>1, HullFacts
  <2>3. Hull(E2, o) \subseteq Hull(E, o)
    BY <2>2, HullLeast
  <2>4. Hull(E, o) \subseteq Hull(E2, o)
    BY <1>3, HullLeast
  <2> QED
    BY <2>3, <2>4
<1> QED
  BY <1>0, <1>2, <1>4, <1>5 DEF E2

------------------------------------------------------------------------------
(***************************************************************************)
(* Scores, and the two methods that keep the groups.                       *)
(***************************************************************************)

(* The scores: the records, whatever their tables say.                       *)
InletNames == UNION {Inlets[o] : o \in Ids}
Scores ==
    [ objects : SUBSET Ids, lastId : Ids, hold : BOOLEAN,
      conn : SUBSET (Ids \X InletNames \X Ids),
      children : [Ids -> SUBSET Ids], links : [Ids -> SUBSET Ids],
      group : [Ids -> SUBSET Ids], busses : SUBSET Ids,
      pending : SUBSET Ids, delayed : SUBSET Ids, failing : SUBSET Ids,
      stale : SUBSET Ids ]

(* A score has finitely many links.                                          *)
LEMMA PairsFinite ==
  ASSUME NEW S \in SUBSET (Ids \X Ids)
  PROVE  IsFiniteSet(S)
<1>1. IsFiniteSet(Ids)
  BY FS_Interval, ScoreAssumption DEF Ids
<1>2. IsFiniteSet(Ids \X Ids)
  BY <1>1, FS_Product
<1> QED
  BY <1>2, FS_Subset

Regrouped(s, E) == [s EXCEPT !.group = GroupsOf(E)]

(* add_group, for a score whose groups are those of the relation E.          *)
LEMMA AddGroupHulls ==
  ASSUME NEW E, Symmetric(E), NEW a \in Ids, NEW b \in Ids, NEW s \in Scores
  PROVE  AddGroup(Regrouped(s, E), a, b) = Regrouped(s, E \cup Both(a, b))
<1> DEFINE g == Hull(E, a) \cup Hull(E, b)
           G == [o \in Ids |-> IF o \in g THEN g ELSE Hull(E, o)]
<1>1. g = g \cup {a, b}
  BY HullFacts
<1>2. GroupsOf(E \cup Both(a, b)) = G
  <2>0. g = Hull(E, a) \cup Hull(E, b)
    OBVIOUS
  <2> HIDE DEF g
  <2>1. /\ \A o \in g : Hull(E \cup Both(a, b), o) = g
        /\ \A o \in Ids : o \notin g => Hull(E \cup Both(a, b), o) = Hull(E, o)
    BY <2>0, JoinHulls
  <2> QED
    BY <2>1 DEF GroupsOf
<1>3. GroupsOf(E)[a] = Hull(E, a) /\ GroupsOf(E)[b] = Hull(E, b)
      /\ \A o \in Ids : GroupsOf(E)[o] = Hull(E, o)
  BY DEF GroupsOf
<1> DEFINE t == [s EXCEPT !.group = GroupsOf(E)]
<1>4. t.group = GroupsOf(E)
  BY DEF Scores
<1>5. [t EXCEPT !.group = G] = [s EXCEPT !.group = G]
  BY DEF Scores
<1>6. AddGroup(t, a, b) = [t EXCEPT !.group = G]
  <2> HIDE DEF t
  <2>1. t.group[a] \cup t.group[b] \cup {a, b} = g
    BY <1>1, <1>3, <1>4
  <2> HIDE DEF g
  <2>2. [o \in Ids |-> IF o \in g THEN g ELSE t.group[o]] = G
    BY <1>3, <1>4
  <2> HIDE DEF G
  <2> QED
    BY <2>1, <2>2 DEF AddGroup
<1> HIDE DEF G, t
<1>7. [s EXCEPT !.group = G] = [s EXCEPT !.group = GroupsOf(E \cup Both(a, b))]
  BY <1>2
<1>8. AddGroup(t, a, b) = [s EXCEPT !.group = GroupsOf(E \cup Both(a, b))]
  BY <1>5, <1>6, <1>7
<1> QED
  BY <1>8 DEF t, Regrouped

(* rebuild_groups, after links within the group of me have been taken away.  *)
LEMMA RebuildHulls ==
  ASSUME NEW s \in Scores, NEW me \in Ids, NEW E, Symmetric(E), E \subseteq Ids \X Ids,
         s.group = GroupsOf(E), Ties(s.links) \subseteq E,
         \A e \in E : e[1] \notin s.group[me] => e \in Ties(s.links)
  PROVE  RebuildGroups(s, me) = [s EXCEPT !.group = GroupsOf(Ties(s.links))]
<1> DEFINE g == s.group[me]
           L == Ties(s.links)
           E1 == {p \in L : p[1] \notin g}
           Back(P) == {<<p[2], p[1]>> : p \in P}
           apart == [s EXCEPT !.group = [o \in Ids |-> IF o \in g THEN {o} ELSE @[o]]]
           pairs == {p \in g \X Ids : p[2] \in s.links[p[1]]}
           To(P) == Regrouped(s, E1 \cup P \cup Back(P))
           T == [P \in SUBSET pairs |-> {To(P)}]
           c == [P \in SUBSET pairs |-> CHOOSE x \in P : TRUE]
           A(P, v) == AddGroup(v, c[P][1], c[P][2])
           F == [P \in SUBSET pairs |-> [v \in T[P \ {c[P]}] |-> A(P, v)]]
           Body(f) ==
               [P \in SUBSET pairs |->
                   IF P = {} THEN apart
                   ELSE AddGroup(f[P \ {CHOOSE x \in P : TRUE}],
                                 (CHOOSE x \in P : TRUE)[1], (CHOOSE x \in P : TRUE)[2])]
           it == CHOOSE f : f = Body(f)
<1>1. RebuildGroups(s, me) = it[pairs]
  BY DEF RebuildGroups, FoldSet, MapThenFoldSet
<1>2. g = Hull(E, me) /\ g \in SUBSET Ids /\ Closed(E, g) /\ Closed(E, Ids \ g)
  <2>1. g = Hull(E, me)
    BY DEF GroupsOf
  <2>2. Closed(E, Ids \ g)
    <3>1. Closed(E, g)
      BY <2>1, HullFacts
    <3> HIDE DEF g
    <3> QED
      BY <3>1 DEF Closed, Symmetric
  <2> QED
    BY <2>1, <2>2, HullFacts
<1>3. pairs \in SUBSET (Ids \X Ids) /\ L \in SUBSET (Ids \X Ids) /\ pairs \subseteq L
  BY <1>2 DEF Ties
<1>4. E1 \cup pairs \cup Back(pairs) = L
  <2>1. E1 \cup pairs \cup Back(pairs) \subseteq L
    BY <1>2 DEF Ties
  <2>2. ASSUME NEW p \in L, p[1] \in g PROVE p \in pairs \cup Back(pairs)
    <3>1. p = <<p[1], p[2]>> /\ p[1] \in Ids /\ p[2] \in Ids
      BY <1>3
    <3>2. p[2] \in g
      BY <1>2, <2>2, <3>1 DEF Closed
    <3>3. CASE p[2] \in s.links[p[1]]
      BY <2>2, <3>1, <3>3
    <3>4. CASE p[1] \in s.links[p[2]]
      <4>1. <<p[2], p[1]>> \in pairs
        BY <3>1, <3>2, <3>4
      <4>2. <<p[1], p[2]>> \in Back(pairs)
        BY <4>1
      <4> QED
        BY <3>1, <4>2
    <3> QED
      BY <3>3, <3>4 DEF Ties
  <2> QED
    BY <2>1, <2>2
<1>5. \A P \in SUBSET pairs : Symmetric(E1 \cup P \cup Back(P))
  <2>1. ASSUME NEW x \in Ids, NEW y \in Ids, <<x, y>> \in E1 PROVE <<y, x>> \in E1
    <3>1. y \notin g
      BY <1>2, <2>1 DEF Closed
    <3> QED
      BY <2>1, <3>1 DEF Ties
  <2>2. ASSUME NEW P \in SUBSET pairs, NEW x \in Ids, NEW y \in Ids,
               <<x, y>> \in P \cup Back(P)
        PROVE  <<y, x>> \in P \cup Back(P)
    <3>1. CASE <<x, y>> \in P
      BY <3>1
    <3>2. CASE <<x, y>> \in Back(P)
      <4>1. PICK p \in P : <<x, y>> = <<p[2], p[1]>>
        BY <3>2
      <4>2. p = <<p[1], p[2]>>
        BY <1>3
      <4> QED
        BY <4>1, <4>2
    <3> QED
      BY <2>2, <3>1, <3>2
  <2> HIDE DEF E1, Back
  <2> QED
    BY <2>1, <2>2 DEF Symmetric
<1>6. apart = To({})
  <2>1. Symmetric(E1) /\ \A o \in Ids : o \in g => Hull(E1, o) = {o}
    <3>1. \A o \in g : Closed(E1, {o})
      BY DEF Closed
    <3>2. ASSUME NEW o \in g PROVE Hull(E1, o) \subseteq {o}
      <4>1. o \in Ids /\ {o} \in SUBSET Ids /\ o \in {o} /\ Closed(E1, {o})
        BY <1>2, <3>1
      <4> HIDE DEF E1
      <4> QED
        BY <4>1, HullLeast
    <3>3. Symmetric(E1)
      <4>1. {} \in SUBSET pairs /\ E1 = E1 \cup {} \cup Back({})
        OBVIOUS
      <4> HIDE DEF E1, Back, pairs
      <4> QED
        BY <1>5, <4>1
    <3> QED
      BY <1>2, <3>2, <3>3, HullFacts
  <2>2. ASSUME NEW o \in Ids, o \notin g PROVE Hull(E1, o) = Hull(E, o)
    <3>1. Closed(E1, Hull(E, o))
      BY HullFacts DEF Closed
    <3>2. Hull(E1, o) \subseteq Hull(E, o)
      BY <3>1, HullFacts, HullLeast
    <3>3. Closed(E1, Ids \ g)
      BY <1>2 DEF Closed
    <3>4. Hull(E1, o) \subseteq Ids \ g
      BY <2>2, <3>3, HullLeast
    <3>5. Closed(E, Hull(E1, o))
      <4>1. ASSUME NEW x \in Hull(E1, o), NEW y \in Ids, <<x, y>> \in E PROVE y \in Hull(E1, o)
        <5>1. x \notin g
          BY <3>4
        <5>2. <<x, y>> \in E1
          BY <4>1, <5>1
        <5> QED
          BY <5>2, HullFacts DEF Closed
      <4> QED
        BY <4>1 DEF Closed
    <3>6. Hull(E, o) \subseteq Hull(E1, o)
      <4>1. Hull(E1, o) \in SUBSET Ids /\ o \in Hull(E1, o)
        BY HullFacts
      <4> HIDE DEF E1
      <4> QED
        BY <3>5, <4>1, HullLeast
    <3> QED
      BY <3>2, <3>6
  <2>3. GroupsOf(E1) = [o \in Ids |-> IF o \in g THEN {o} ELSE s.group[o]]
    <3>1. \A o \in Ids : s.group[o] = Hull(E, o)
      BY DEF GroupsOf
    <3> HIDE DEF E1, g
    <3> QED
      BY <2>1, <2>2, <3>1 DEF GroupsOf
  <2>4. E1 \cup {} \cup Back({}) = E1
    OBVIOUS
  <2> HIDE DEF E1, Back
  <2> QED
    BY <2>3, <2>4 DEF Scores, Regrouped
<1>7. IsFiniteSet(pairs)
  BY <1>3, PairsFinite
<1>8. \A P \in SUBSET pairs : P # {} => c[P] \in P /\ P \ {c[P]} \in SUBSET pairs
  OBVIOUS
<1>9. ASSUME NEW P \in SUBSET pairs, P # {}
      PROVE  AddGroup(To(P \ {c[P]}), c[P][1], c[P][2]) = To(P)
  <2> DEFINE p == c[P]
             Q == P \ {p}
             E2 == E1 \cup Q \cup Back(Q)
  <2>1. p \in P /\ p[1] \in Ids /\ p[2] \in Ids /\ p = <<p[1], p[2]>> /\ Q \in SUBSET pairs
    BY <1>3, <1>8, <1>9
  <2>2. E2 \cup Both(p[1], p[2]) = E1 \cup P \cup Back(P)
    <3>1. Back(P) = Back(Q) \cup {<<p[2], p[1]>>}
      BY <2>1
    <3>2. P = Q \cup {p}
      BY <2>1
    <3> HIDE DEF Back, Q, p, E1
    <3> QED
      BY <2>1, <3>1, <3>2 DEF Both
  <2>3. Symmetric(E2)
    <3> HIDE DEF Back, Q, E1, pairs
    <3> QED
      BY <1>5, <2>1
  <2> HIDE DEF p, E1, Back, Q
  <2>4. AddGroup(Regrouped(s, E2), p[1], p[2])
          = Regrouped(s, E2 \cup Both(p[1], p[2]))
    <3> HIDE DEF E2
    <3> QED
      BY <2>1, <2>3, AddGroupHulls
  <2> QED
    BY <2>2, <2>4 DEF p, Q
<1>10. \A P \in SUBSET pairs : T[P] = {To(P)} /\ c[P] = CHOOSE x \in P : TRUE
  OBVIOUS
<1>11. ASSUME NEW f
       PROVE  Body(f) = [P \in SUBSET pairs |-> IF P = {} THEN apart ELSE A(P, f[P \ {c[P]}])]
  <2>1. ASSUME NEW P \in SUBSET pairs
        PROVE  AddGroup(f[P \ {CHOOSE x \in P : TRUE}],
                        (CHOOSE x \in P : TRUE)[1], (CHOOSE x \in P : TRUE)[2])
                 = A(P, f[P \ {c[P]}])
    <3>1. c[P] = CHOOSE x \in P : TRUE
      BY <1>10
    <3> HIDE DEF c, pairs
    <3> QED
      BY <3>1
  <2> HIDE DEF c, apart, pairs, A
  <2> QED
    BY <2>1
<1>12. ASSUME NEW P \in SUBSET pairs, P # {}, NEW v \in T[P \ {c[P]}]
       PROVE  F[P][v] = A(P, v) /\ A(P, v) \in T[P]
  <2>1. v = To(P \ {c[P]})
    BY <1>8, <1>10, <1>12
  <2>2. F[P] = [w \in T[P \ {c[P]}] |-> A(P, w)]
    OBVIOUS
  <2>3. A(P, v) = To(P)
    <3> HIDE DEF To, c, T, pairs
    <3> QED
      BY <1>9, <1>12, <2>1
  <2> HIDE DEF F, To, T, A, c, pairs
  <2> QED
    BY <1>10, <1>12, <2>2, <2>3
<1>13. \E f : f = Body(f)
  <2>1. apart \in T[{}]
    BY <1>6, <1>10
  <2> HIDE DEF T, c, F, To, apart, pairs, A, Body
  <2>2. Folding(pairs, T, apart, c, F)
    BY <1>8, <1>12, <2>1 DEF Folding
  <2>3. PICK f : Folded(pairs, T, apart, c, F, f)
    BY <1>7, <2>2, FoldExists
  <2>4. ASSUME NEW P \in SUBSET pairs
        PROVE  f[P] = IF P = {} THEN apart ELSE A(P, f[P \ {c[P]}])
    <3>1. P # {} => f[P \ {c[P]}] \in T[P \ {c[P]}]
      BY <1>8, <2>3 DEF Folded
    <3> QED
      BY <1>12, <2>3, <3>1 DEF Folded
  <2>5. f = [P \in SUBSET pairs |-> f[P]]
    BY <2>3 DEF Folded
  <2>6. f = [P \in SUBSET pairs |-> IF P = {} THEN apart ELSE A(P, f[P \ {c[P]}])]
    BY <2>4, <2>5
  <2> QED
    BY <1>11, <2>6
<1>14. it = [P \in SUBSET pairs |-> IF P = {} THEN apart ELSE A(P, it[P \ {c[P]}])]
  <2>1. it = Body(it)
    <3> HIDE DEF Body
    <3> QED
      BY <1>13
  <2> HIDE DEF it, Body, apart, A, c, pairs
  <2> QED
    BY <1>11, <2>1
<1>15. ASSUME NEW P \in SUBSET pairs PROVE it[P] = To(P)
  <2> DEFINE H == {R \in SUBSET pairs : it[R] = To(R)}
  <2> HIDE DEF it, To, apart, A, c, T, F, pairs
  <2>1. {} \in H
    BY <1>6, <1>14
  <2>2. ASSUME NEW R \in SUBSET pairs, R # {} PROVE \E x \in R : R \ {x} \in H => R \in H
    <3>1. c[R] \in R
      BY <1>8, <2>2
    <3>2. ASSUME R \ {c[R]} \in H PROVE R \in H
      <4>1. it[R \ {c[R]}] = To(R \ {c[R]})
        BY <3>2
      <4>2. it[R] = A(R, it[R \ {c[R]}])
        BY <1>14, <2>2
      <4>3. A(R, To(R \ {c[R]})) = To(R)
        BY <1>9, <2>2 DEF A
      <4> QED
        BY <4>1, <4>2, <4>3
    <3> HIDE DEF H
    <3> QED
      BY <3>1, <3>2
  <2> HIDE DEF H
  <2>3. \A R \in SUBSET pairs : R \in H
    BY <1>7, <2>1, <2>2, SubsetInd
  <2> QED
    BY <2>3 DEF H
<1>16. it[pairs] = To(pairs)
  BY <1>15
<1> QED
  BY <1>1, <1>4, <1>16 DEF Regrouped

------------------------------------------------------------------------------
(***************************************************************************)
(* The inductive invariant, and changes of flags alone.                    *)
(***************************************************************************)

(* What every method keeps: TablesAgree, of any score, with what it needs.   *)
Inv(s) ==
  /\ s \in Scores
  /\ IsFiniteSet(s.conn)
  /\ \A k \in s.conn : k[1] \in s.objects /\ k[3] \in s.objects
  /\ s.busses \subseteq s.objects
  /\ s.pending \subseteq s.objects /\ s.delayed \subseteq s.objects
  /\ s.failing \subseteq s.objects /\ s.stale \subseteq s.objects
  /\ \A o \in Ids : s.children[o] = Dependants(s, {o})
  /\ s.group = GroupsOf(Ties(s.links))
  /\ \A o \in Ids : /\ s.links[o] \subseteq s.objects
                    /\ o \notin s.objects => s.links[o] = {}
                    /\ \A x \in s.links[o] : o \notin s.links[x]

(* t is s but for the flags of the objects and hold.                         *)
Quiet(s, t) ==
  /\ t \in Scores
  /\ t.objects = s.objects /\ t.lastId = s.lastId /\ t.busses = s.busses
  /\ t.conn = s.conn /\ t.children = s.children
  /\ t.links = s.links /\ t.group = s.group
  /\ t.pending \subseteq s.objects /\ t.delayed \subseteq s.objects
  /\ t.failing \subseteq s.objects /\ t.stale \subseteq s.objects

(* Flags alone do not disturb the tables.                                    *)
LEMMA QuietInv ==
  ASSUME NEW s, NEW t, Inv(s), Quiet(s, t)
  PROVE  Inv(t)
BY DEF Inv, Quiet, Dependants

(* Two such steps make one.                                                  *)
LEMMA QuietTrans ==
  ASSUME NEW s, NEW t, NEW u, Quiet(s, t), Quiet(t, u)
  PROVE  Quiet(s, u)
BY DEF Quiet

(* A score is itself but for flags.                                          *)
LEMMA QuietSelf ==
  ASSUME NEW s, Inv(s)
  PROVE  Quiet(s, s)
BY DEF Quiet, Inv

(* The flags of a score may be any sets of its objects.                      *)
LEMMA Flags ==
  ASSUME NEW s \in Scores, NEW P \in SUBSET Ids, NEW b \in BOOLEAN
  PROVE  /\ [s EXCEPT !.pending = P] \in Scores /\ [s EXCEPT !.delayed = P] \in Scores
         /\ [s EXCEPT !.failing = P] \in Scores /\ [s EXCEPT !.stale = P] \in Scores
         /\ [s EXCEPT !.hold = b] \in Scores
BY DEF Scores

(* A flag may be set for any objects of the score, and hold may change.      *)
LEMMA FlagsQuiet ==
  ASSUME NEW s, Inv(s), NEW P, P \subseteq s.objects, NEW b \in BOOLEAN
  PROVE  /\ Quiet(s, [s EXCEPT !.pending = P]) /\ Quiet(s, [s EXCEPT !.delayed = P])
         /\ Quiet(s, [s EXCEPT !.failing = P]) /\ Quiet(s, [s EXCEPT !.stale = P])
         /\ Quiet(s, [s EXCEPT !.hold = b])
<1>1. s \in Scores /\ P \in SUBSET Ids
  BY DEF Inv, Scores
<1>2. /\ [s EXCEPT !.pending = P] \in Scores /\ [s EXCEPT !.delayed = P] \in Scores
      /\ [s EXCEPT !.failing = P] \in Scores /\ [s EXCEPT !.stale = P] \in Scores
      /\ [s EXCEPT !.hold = b] \in Scores
  BY <1>1, Flags
<1>3. Quiet(s, [s EXCEPT !.pending = P])
  BY <1>1, <1>2 DEF Quiet, Inv, Scores
<1>4. Quiet(s, [s EXCEPT !.delayed = P])
  BY <1>1, <1>2 DEF Quiet, Inv, Scores
<1>5. Quiet(s, [s EXCEPT !.failing = P])
  BY <1>1, <1>2 DEF Quiet, Inv, Scores
<1>6. Quiet(s, [s EXCEPT !.stale = P])
  BY <1>1, <1>2 DEF Quiet, Inv, Scores
<1>7. Quiet(s, [s EXCEPT !.hold = b])
  BY <1>1, <1>2 DEF Quiet, Inv, Scores
<1> QED
  BY <1>3, <1>4, <1>5, <1>6, <1>7

(* update_now sets flags only.                                               *)
LEMMA UpdateNowQuiet ==
  ASSUME NEW s, Inv(s), NEW o
  PROVE  Quiet(s, UpdateNow(s, o))
<1>1. CASE o \in s.failing
  <2>1. s.pending \cup {o} \subseteq s.objects
    BY <1>1 DEF Inv
  <2>2. Quiet(s, [s EXCEPT !.pending = s.pending \cup {o}])
    BY <2>1, FlagsQuiet
  <2> QED
    BY <1>1, <2>2 DEF UpdateNow
<1>2. CASE o \notin s.failing
  <2> DEFINE P == s.pending \ {o}
             S == IF Sources(s, o) \cap s.stale = {} THEN s.stale \ {o} ELSE s.stale
             t == [s EXCEPT !.pending = P]
  <2>1. P \subseteq s.objects /\ S \subseteq s.objects
    BY DEF Inv
  <2>2. UpdateNow(s, o) = [t EXCEPT !.stale = S]
    BY <1>2 DEF UpdateNow, Inv, Scores
  <2> HIDE DEF P, S
  <2>3. Quiet(s, t)
    BY <2>1, FlagsQuiet
  <2>4. t.objects = s.objects
    BY DEF Inv, Scores
  <2> HIDE DEF t
  <2>5. Quiet(t, [t EXCEPT !.stale = S])
    BY <2>1, <2>3, <2>4, QuietInv, FlagsQuiet
  <2> QED
    BY <2>2, <2>3, <2>5, QuietTrans
<1> QED
  BY <1>1, <1>2

(* What follows from a change, level by level: objects.                      *)
OnwardLevels(s, S, it) ==
  /\ Onward(s, S) = it[MaxId] /\ it[0] = S
  /\ \A n \in Ids : it[n] \subseteq s.objects
  /\ \A n \in Ids \ {0} : it[n] = it[n - 1] \cup Dependants(s, it[n - 1])

(* There are such levels, and all they have are objects.                     *)
LEMMA OnwardIn ==
  ASSUME NEW s, Inv(s), NEW S, S \subseteq s.objects
  PROVE  Onward(s, S) \subseteq s.objects /\ \E it : OnwardLevels(s, S, it)
<1> DEFINE V == SUBSET s.objects
           F == [A \in V |-> A \cup Dependants(s, A)]
           Body(f) == [n \in 0 .. MaxId |->
                          IF n = 0 THEN S
                          ELSE f[n - 1] \cup Dependants(s, f[n - 1])]
           it == CHOOSE f : f = Body(f)
<1>1. Onward(s, S) = it[MaxId]
  BY DEF Onward
<1>2. \A A \in V : A \cup Dependants(s, A) \in V /\ F[A] = A \cup Dependants(s, A)
  BY DEF Inv, Dependants
<1> HIDE DEF F, V
<1>3. S \in V /\ Keeps(F, V)
  BY <1>2 DEF V, Keeps
<1>4. PICK f : /\ f = [n \in Ids |-> f[n]] /\ f[0] = S
               /\ \A n \in Ids : f[n] \in V /\ (n # 0 => f[n] = F[f[n - 1]])
  BY <1>3, IterExists
<1>5. /\ MaxId \in Ids /\ 0 \in Ids /\ Ids = 0 .. MaxId
      /\ \A n \in Ids : n # 0 => n - 1 \in Ids
  BY ScoreAssumption DEF Ids
<1>6. \A n \in Ids : n # 0 => f[n] = f[n - 1] \cup Dependants(s, f[n - 1])
  BY <1>2, <1>4, <1>5
<1>7. f = Body(f)
  BY <1>4, <1>5, <1>6
<1>8. it = Body(it)
  <2> HIDE DEF Body
  <2> QED
    BY <1>7
<1>9. it[0] = S /\ \A n \in Ids : n # 0 => it[n] = it[n - 1] \cup Dependants(s, it[n - 1])
  <2> HIDE DEF it
  <2> QED
    BY <1>5, <1>8
<1> HIDE DEF it
<1> DEFINE H == {n \in Nat : n \in Ids => it[n] \in V}
<1>10. 0 \in H
  BY <1>3, <1>9
<1>11. ASSUME NEW n \in Nat, n \in H PROVE n + 1 \in H
  <2>1. n + 1 \in Ids => n \in Ids /\ n + 1 # 0 /\ n + 1 - 1 = n
    BY ScoreAssumption DEF Ids
  <2>2. n + 1 \in Ids => it[n + 1] = it[n] \cup Dependants(s, it[n]) /\ it[n] \in V
    BY <1>9, <1>11, <2>1
  <2>3. n + 1 \in Ids => it[n + 1] \in V
    BY <1>2, <2>2
  <2> QED
    BY <2>3
<1>12. \A n \in Ids : it[n] \in V
  <2>1. \A n \in Ids : n \in Nat
    BY <1>5, ScoreAssumption
  <2>2. \A n \in Nat : n \in H
    <3> HIDE DEF H
    <3> QED
      BY <1>10, <1>11, NatInd
  <2> QED
    BY <2>1, <2>2
<1>13. OnwardLevels(s, S, it)
  BY <1>1, <1>9, <1>12 DEF OnwardLevels, V
<1> QED
  BY <1>1, <1>5, <1>12, <1>13 DEF V

(* A change makes data stale, which is a flag.                               *)
LEMMA ChangedQuiet ==
  ASSUME NEW s, Inv(s), NEW S, S \subseteq s.objects
  PROVE  Quiet(s, Changed(s, S)) /\ Inv(Changed(s, S))
<1>1. s.stale \cup Onward(s, S) \subseteq s.objects
  BY OnwardIn DEF Inv
<1>2. Quiet(s, [s EXCEPT !.stale = s.stale \cup Onward(s, S)])
  BY <1>1, FlagsQuiet
<1> QED
  BY <1>2, QuietInv DEF Changed

------------------------------------------------------------------------------
(***************************************************************************)
(* Trees: the lists in which updates are done.                             *)
(***************************************************************************)

(* Lists of different objects of a set K.                                    *)
Lists(K) == {v \in Seq(K) : \A i, j \in 1 .. Len(v) : v[i] = v[j] => i = j}

(* What a walk adds to the list is not in it yet.                            *)
LEMMA AddedToList ==
  ASSUME NEW K, NEW v \in Lists(K), NEW o \in K
  PROVE  (IF Contains(v, o) THEN v ELSE Append(v, o)) \in Lists(K)
<1>1. CASE ~Contains(v, o)
  <2> DEFINE w == Append(v, o)
  <2>1. v \in Seq(K) /\ w \in Seq(K) /\ Len(w) = Len(v) + 1 /\ Len(v) \in Nat
        /\ w[Len(v) + 1] = o /\ \A i \in 1 .. Len(v) : w[i] = v[i]
    BY DEF Lists
  <2> HIDE DEF w
  <2>2. ASSUME NEW i \in 1 .. Len(w), NEW j \in 1 .. Len(w), w[i] = w[j] PROVE i = j
    <3>1. (i \in 1 .. Len(v) \/ i = Len(v) + 1) /\ (j \in 1 .. Len(v) \/ j = Len(v) + 1)
      BY <2>1
    <3>2. \A n \in 1 .. Len(v) : v[n] # o
      BY <1>1 DEF Contains
    <3> QED
      BY <2>1, <2>2, <3>1, <3>2 DEF Lists
  <2>3. w \in Lists(K)
    BY <2>1, <2>2 DEF Lists
  <2> QED
    BY <1>1, <2>3 DEF w
<1> QED
  BY <1>1

(* A list read backwards has each object once too.                           *)
LEMMA ReversedList ==
  ASSUME NEW K, NEW v \in Lists(K)
  PROVE  Reverse(v) \in Lists(K)
<1> DEFINE w == Reverse(v)
<1>1. v \in Seq(K) /\ Len(v) \in Nat
  BY DEF Lists
<1>2. w = [i \in 1 .. Len(v) |-> v[Len(v) - i + 1]]
  BY DEF Reverse
<1>3. \A i \in 1 .. Len(v) : Len(v) - i + 1 \in 1 .. Len(v) /\ v[Len(v) - i + 1] \in K
  BY <1>1
<1>4. w \in Seq(K) /\ Len(w) = Len(v)
  <2> HIDE DEF w
  <2>1. w \in [1 .. Len(v) -> K]
    BY <1>2, <1>3
  <2> QED
    BY <1>1, <2>1
<1>5. ASSUME NEW i \in 1 .. Len(v), NEW j \in 1 .. Len(v), w[i] = w[j] PROVE i = j
  <2>1. v[Len(v) - i + 1] = v[Len(v) - j + 1]
    BY <1>2, <1>5
  <2>2. Len(v) - i + 1 = Len(v) - j + 1
    BY <1>3, <2>1 DEF Lists
  <2> QED
    BY <1>1, <2>2
<1> HIDE DEF w
<1>6. w \in Lists(K)
  BY <1>4, <1>5 DEF Lists
<1> QED
  BY <1>6 DEF w

(* The numbers of objects are finitely many.                                 *)
LEMMA ObjectsFinite ==
  ASSUME NEW S \in SUBSET Ids
  PROVE  IsFiniteSet(S) /\ S \subseteq Nat
<1>1. IsFiniteSet(Ids) /\ Ids \subseteq Nat
  BY FS_Interval, ScoreAssumption DEF Ids
<1> QED
  BY <1>1, FS_Subset

(* Walks that lead from lists of D to lists of D do so one after the other.  *)
LEMMA FollowingIn ==
  ASSUME NEW D, NEW S \in SUBSET Ids, NEW walks, \A o \in S : \A v \in D : walks[o][v] \in D,
         NEW seen \in D
  PROVE  Following(walks, seen, S) \in D
<1> DEFINE T == [P \in SUBSET S |-> D]
<1>1. IsFiniteSet(S) /\ S \subseteq Nat
  BY ObjectsFinite
<1>2. \A P \in SUBSET S : \A x \in P : \A v \in T[P \ {x}] : walks[x][v] \in T[P]
  OBVIOUS
<1>3. seen \in T[{}] /\ T[S] = D
  OBVIOUS
<1> HIDE DEF T
<1>4. Following(walks, seen, S) \in T[S]
  BY <1>1, <1>2, <1>3, FollowingFold
<1> QED
  BY <1>3, <1>4

Added(v, o) == IF Contains(v, o) THEN v ELSE Append(v, o)

(* The walks of one level after the other.                                   *)
Levels(s, skip, it) ==
  /\ Walks(s, skip) = it[MaxId]
  /\ \A o \in Ids : \A v \in Seq(Ids) : it[0][o][v] = Added(v, o)
  /\ \A n \in Ids \ {0} : \A o \in Ids : \A v \in Seq(Ids) :
         it[n][o][v] = Added(Following(it[n - 1], v, s.children[o] \ skip), o)

(* There are such levels.                                                    *)
LEMMA WalkLevels ==
  ASSUME NEW s \in Scores, NEW skip
  PROVE  \E it : Levels(s, skip, it)
<1> DEFINE Add(w, o) == IF Contains(w, o) THEN w ELSE Append(w, o)
           V == [Ids -> [Seq(Ids) -> Seq(Ids)]]
           First == [o \in Ids |-> [seen \in Seq(Ids) |-> Add(seen, o)]]
           Further(w) == [o \in Ids |-> [seen \in Seq(Ids) |->
                              Add(Following(w, seen, s.children[o] \ skip), o)]]
           F == [w \in V |-> Further(w)]
           Body(f) == [n \in Ids |-> [o \in Ids |-> [seen \in Seq(Ids) |->
                LET below == IF n = 0 THEN seen
                             ELSE Following(f[n - 1], seen, s.children[o] \ skip)
                IN  IF Contains(below, o) THEN below ELSE Append(below, o)]]]
           it == CHOOSE f : f = Body(f)
<1>1. Walks(s, skip) = it[MaxId]
  BY DEF Walks
<1>2. \A v \in Seq(Ids), o \in Ids : Add(v, o) \in Seq(Ids)
  OBVIOUS
<1>3. \A o \in Ids : s.children[o] \ skip \in SUBSET Ids
  BY DEF Scores
<1>4. First \in V
  <2> HIDE DEF Add
  <2> QED
    BY <1>2
<1>5. ASSUME NEW w \in V PROVE Further(w) \in V
  <2>1. ASSUME NEW o \in Ids, NEW seen \in Seq(Ids)
        PROVE  Following(w, seen, s.children[o] \ skip) \in Seq(Ids)
    <3>1. \A x \in s.children[o] \ skip : \A v \in Seq(Ids) : w[x][v] \in Seq(Ids)
      BY <1>3
    <3> QED
      BY <1>3, <3>1, FollowingIn
  <2> HIDE DEF Add
  <2> QED
    BY <1>2, <2>1
<1>6. Keeps(F, V)
  BY <1>5 DEF Keeps
<1>7. ASSUME NEW f, NEW n \in Ids
      PROVE  Body(f)[n] = IF n = 0 THEN First ELSE Further(f[n - 1])
  <2>1. CASE n = 0
    BY <2>1
  <2>2. CASE n # 0
    BY <2>2
  <2> QED
    BY <2>1, <2>2
<1>8. \A f : Body(f) = [n \in Ids |-> Body(f)[n]]
  OBVIOUS
<1>9. \A w \in V : F[w] = Further(w)
  OBVIOUS
<1>10. 0 \in Ids /\ MaxId \in Ids /\ \A n \in Ids : n # 0 => n - 1 \in Ids
  BY ScoreAssumption DEF Ids
<1> HIDE DEF F, V, First, Further, Body
<1>11. PICK f : /\ f = [n \in Ids |-> f[n]] /\ f[0] = First
                /\ \A n \in Ids : f[n] \in V /\ (n # 0 => f[n] = F[f[n - 1]])
  BY <1>4, <1>6, IterExists
<1>12. ASSUME NEW n \in Ids PROVE f[n] = Body(f)[n]
  <2>1. CASE n = 0
    BY <1>7, <1>11, <2>1
  <2>2. CASE n # 0
    <3>1. n - 1 \in Ids /\ f[n - 1] \in V /\ f[n] = F[f[n - 1]]
      BY <1>10, <1>11, <2>2
    <3>2. F[f[n - 1]] = Further(f[n - 1])
      BY <1>9, <3>1
    <3> QED
      BY <1>7, <2>2, <3>1, <3>2
  <2> QED
    BY <2>1, <2>2
<1>13. f = Body(f)
  BY <1>8, <1>11, <1>12
<1>14. it = Body(it)
  BY <1>13
<1> HIDE DEF it
<1>15. it[0] = First /\ \A n \in Ids : n # 0 => it[n] = Further(it[n - 1])
  BY <1>7, <1>10, <1>14
<1>16. \A o \in Ids : \A v \in Seq(Ids) : First[o][v] = Added(v, o)
  BY DEF First, Added
<1>17. \A w : \A o \in Ids : \A v \in Seq(Ids) :
          Further(w)[o][v] = Added(Following(w, v, s.children[o] \ skip), o)
  BY DEF Further, Added
<1>18. \A n \in Ids \ {0} : \A o \in Ids : \A v \in Seq(Ids) :
         it[n][o][v] = Added(Following(it[n - 1], v, s.children[o] \ skip), o)
  BY <1>15, <1>17
<1> QED
  BY <1>1, <1>15, <1>16, <1>18 DEF Levels

(* A walk adds to a list of objects of K only such, when no child of one is  *)
(* outside K.                                                                *)
WalksIn(w, K) == \A o \in K : \A v \in Lists(K) : w[o][v] \in Lists(K)

(* So do all the walks, by induction on how deep they may go.                *)
LEMMA WalksStay ==
  ASSUME NEW s \in Scores, NEW skip, NEW K \in SUBSET Ids,
         \A o \in K : s.children[o] \subseteq K
  PROVE  WalksIn(Walks(s, skip), K)
<1>1. PICK it : Levels(s, skip, it)
  BY WalkLevels
<1>2. Lists(K) \subseteq Seq(Ids)
  BY DEF Lists
<1>3. \A v \in Lists(K), o \in K : Added(v, o) \in Lists(K)
  BY AddedToList DEF Added
<1> DEFINE H == {n \in Nat : n \in Ids => WalksIn(it[n], K)}
<1>4. 0 \in H
  BY <1>1, <1>2, <1>3 DEF Levels, WalksIn
<1>5. ASSUME NEW n \in Nat, n \in H PROVE n + 1 \in H
  <2>1. n + 1 \in Ids => n \in Ids /\ n + 1 \in Ids \ {0} /\ n + 1 - 1 = n
    BY ScoreAssumption DEF Ids
  <2>2. ASSUME n + 1 \in Ids, NEW o \in K, NEW v \in Lists(K)
        PROVE  it[n + 1][o][v] \in Lists(K)
    <3> DEFINE u == Following(it[n], v, s.children[o] \ skip)
    <3>1. s.children[o] \ skip \in SUBSET Ids
      BY DEF Scores
    <3>2. \A x \in s.children[o] \ skip : \A y \in Lists(K) : it[n][x][y] \in Lists(K)
      BY <1>5, <2>1, <2>2 DEF WalksIn
    <3>3. u \in Lists(K)
      BY <3>1, <3>2, FollowingIn
    <3>4. it[n + 1][o][v] = Added(u, o)
      <4>1. PICK m : m = n + 1
        OBVIOUS
      <4>2. m \in Ids \ {0} /\ m - 1 = n
        BY <2>1, <2>2, <4>1
      <4>3. v \in Seq(Ids) /\ o \in Ids
        BY <1>2
      <4>4. it[m][o][v] = Added(Following(it[m - 1], v, s.children[o] \ skip), o)
        BY <1>1, <4>2, <4>3 DEF Levels
      <4> QED
        BY <4>1, <4>2, <4>4
    <3> HIDE DEF u
    <3> QED
      BY <1>3, <3>3, <3>4
  <2> QED
    BY <2>2 DEF WalksIn
<1>6. MaxId \in H /\ MaxId \in Ids
  <2> HIDE DEF H
  <2> QED
    BY <1>4, <1>5, NatInd, ScoreAssumption DEF Ids
<1> QED
  BY <1>1, <1>6 DEF Levels

(* The trees of a score list objects of the score, each of them once.        *)
LEMMA TreesStay ==
  ASSUME NEW s, Inv(s)
  PROVE  /\ \A o \in s.objects : ObjectTree(s, o) \in Lists(s.objects)
         /\ \A S : S \subseteq s.objects => ListTree(s, S) \in Lists(s.objects)
<1>1. s \in Scores /\ s.objects \in SUBSET Ids
  BY DEF Inv, Scores
<1>2. \A o \in s.objects : s.children[o] \subseteq s.objects
  BY <1>1 DEF Inv, Dependants
<1>3. \A skip : WalksIn(Walks(s, skip), s.objects)
  BY <1>1, <1>2, WalksStay
<1>4. <<>> \in Lists(s.objects)
  BY DEF Lists
<1>5. ASSUME NEW o \in s.objects PROVE ObjectTree(s, o) \in Lists(s.objects)
  <2>1. Walks(s, {o})[o][<<>>] \in Lists(s.objects)
    BY <1>3, <1>4 DEF WalksIn
  <2> QED
    BY <2>1, ReversedList DEF ObjectTree
<1>6. ASSUME NEW S, S \subseteq s.objects PROVE ListTree(s, S) \in Lists(s.objects)
  <2>1. \A o \in S : \A v \in Lists(s.objects) : Walks(s, {})[o][v] \in Lists(s.objects)
    BY <1>3, <1>6 DEF WalksIn
  <2>2. S \in SUBSET Ids
    BY <1>1, <1>6
  <2>3. Following(Walks(s, {}), <<>>, S) \in Lists(s.objects)
    BY <1>4, <2>1, <2>2, FollowingIn
  <2> QED
    BY <2>3, ReversedList DEF ListTree
<1> QED
  BY <1>5, <1>6

------------------------------------------------------------------------------
(***************************************************************************)
(* Updates, and the methods that only set flags.                           *)
(***************************************************************************)

(* What the folds over a sequence need to know of it.                        *)
LEMMA ListDomain ==
  ASSUME NEW K, NEW v \in Seq(K)
  PROVE  IsFiniteSet(DOMAIN v) /\ DOMAIN v \subseteq Nat /\ \A i \in DOMAIN v : v[i] \in K
<1>1. DOMAIN v = 1 .. Len(v) /\ Len(v) \in Nat
  OBVIOUS
<1>2. IsFiniteSet(1 .. Len(v))
  BY <1>1, FS_Interval
<1> QED
  BY <1>1, <1>2

(* The states of an update of s.                                             *)
Updating(s) == {q \in [to : Scores, stop : BOOLEAN] : Quiet(s, q.to)}

(* A step of an update leaves such a state.                                  *)
LEMMA UpdateStepQuiet ==
  ASSUME NEW s, Inv(s), NEW q \in Updating(s), NEW o \in s.objects, NEW me, NEW co
  PROVE  UpdateStep(q, o, me, co) \in Updating(s)
<1>1. q \in [to : Scores, stop : BOOLEAN] /\ Quiet(s, q.to) /\ Inv(q.to)
  BY QuietInv DEF Updating
<1> DEFINE t == q.to
<1>2. Inv(t) /\ Quiet(s, t) /\ t \in Scores /\ t.objects = s.objects
  BY <1>1 DEF Quiet
<1>3. CASE q.stop \/ (co = 1 /\ o = me)
  BY <1>3 DEF UpdateStep
<1>4. CASE /\ ~(q.stop \/ (co = 1 /\ o = me))
           /\ o \in q.to.delayed \/ q.to.hold
           /\ co >= 0 \/ o # me
  <2> DEFINE u == [t EXCEPT !.pending = t.pending \cup {o}]
  <2>1. UpdateStep(q, o, me, co) = [q EXCEPT !.to = u]
    BY <1>1, <1>4 DEF UpdateStep
  <2>2. t.pending \cup {o} \subseteq t.objects
    BY <1>2 DEF Inv
  <2> HIDE DEF t
  <2>3. Quiet(t, u)
    BY <1>2, <2>2, FlagsQuiet
  <2> HIDE DEF u
  <2>4. Quiet(s, u) /\ u \in Scores
    BY <1>2, <2>3, QuietTrans DEF Quiet
  <2> QED
    BY <1>1, <2>1, <2>4 DEF Updating
<1>5. CASE /\ ~(q.stop \/ (co = 1 /\ o = me))
           /\ ~(/\ o \in q.to.delayed \/ q.to.hold
                /\ co >= 0 \/ o # me)
  <2> DEFINE u == UpdateNow(t, o)
  <2>1. UpdateStep(q, o, me, co) = [to |-> u, stop |-> o \in q.to.failing]
    BY <1>5 DEF UpdateStep
  <2> HIDE DEF t
  <2>2. Quiet(t, u)
    BY <1>2, UpdateNowQuiet
  <2> HIDE DEF u
  <2>3. Quiet(s, u) /\ u \in Scores
    BY <1>2, <2>2, QuietTrans DEF Quiet
  <2> QED
    BY <2>1, <2>3 DEF Updating
<1> QED
  BY <1>3, <1>4, <1>5

(* update() of an object changes flags only.                                 *)
LEMMA UpdateQuiet ==
  ASSUME NEW s, Inv(s), NEW me \in s.objects, NEW co
  PROVE  Quiet(s, Update(s, me, co)) /\ Inv(Update(s, me, co))
<1> DEFINE seq == ObjectTree(s, me)
           T == [P \in SUBSET DOMAIN seq |-> Updating(s)]
           base == [to |-> s, stop |-> FALSE]
<1>1. seq \in Seq(s.objects)
  BY TreesStay DEF Lists
<1> HIDE DEF seq
<1>2. /\ IsFiniteSet(DOMAIN seq) /\ DOMAIN seq \subseteq Nat
      /\ \A i \in DOMAIN seq : seq[i] \in s.objects
  BY <1>1, ListDomain
<1>3. base \in Updating(s)
  BY QuietSelf DEF Updating, Inv
<1>4. \A P \in SUBSET DOMAIN seq : \A x \in P : \A v \in T[P \ {x}] :
          UpdateStep(v, seq[x], me, co) \in T[P]
  BY <1>2, UpdateStepQuiet
<1>5. base \in T[{}] /\ T[DOMAIN seq] = Updating(s)
  BY <1>3
<1> HIDE DEF T, base
<1>6. UpdateAlong(base, seq, me, co) \in T[DOMAIN seq]
  BY <1>2, <1>4, <1>5, UpdateFold
<1>7. Update(s, me, co) = UpdateAlong(base, seq, me, co).to
  BY DEF Update, base, seq
<1>8. Quiet(s, Update(s, me, co))
  BY <1>5, <1>6, <1>7 DEF Updating
<1> QED
  BY <1>8, QuietInv

(* And so do the updates of what waits along a tree.                         *)
LEMMA UpdateAllQuiet ==
  ASSUME NEW s, Inv(s), NEW K, NEW seq \in Seq(K), NEW force
  PROVE  Quiet(s, UpdateAll(s, seq, force)) /\ Inv(UpdateAll(s, seq, force))
<1> DEFINE Q == {t \in Scores : Quiet(s, t)}
           T == [P \in SUBSET DOMAIN seq |-> Q]
<1>1. IsFiniteSet(DOMAIN seq) /\ DOMAIN seq \subseteq Nat
  BY ListDomain
<1>2. ASSUME NEW t \in Q, NEW o PROVE UpdateAsked(t, o, force) \in Q
  <2>1. Quiet(t, UpdateNow(t, o))
    BY QuietInv, UpdateNowQuiet
  <2>2. Quiet(s, UpdateNow(t, o))
    BY <2>1, QuietTrans
  <2>3. UpdateNow(t, o) \in Q
    BY <2>2 DEF Quiet
  <2> QED
    BY <2>3 DEF UpdateAsked
<1>3. s \in Q
  BY QuietSelf DEF Inv
<1> HIDE DEF Q
<1>4. \A P \in SUBSET DOMAIN seq : \A x \in P : \A v \in T[P \ {x}] :
          UpdateAsked(v, seq[x], force) \in T[P]
  BY <1>2
<1>5. s \in T[{}] /\ T[DOMAIN seq] = Q
  BY <1>3
<1> HIDE DEF T
<1>6. UpdateAll(s, seq, force) \in T[DOMAIN seq]
  BY <1>1, <1>4, <1>5, UpdateAllFold
<1>7. Quiet(s, UpdateAll(s, seq, force))
  BY <1>5, <1>6 DEF Q
<1> QED
  BY <1>7, QuietInv

(* Holding the updates, and letting go of them, changes hold only.           *)
LEMMA HoldQuiet ==
  ASSUME NEW s, Inv(s), NEW b \in BOOLEAN
  PROVE  /\ Quiet(s, Hold(s)) /\ Inv(Hold(s)) /\ Hold(s).hold = TRUE
         /\ Quiet(s, [s EXCEPT !.hold = b]) /\ Inv([s EXCEPT !.hold = b])
<1>1. Quiet(s, [s EXCEPT !.hold = TRUE]) /\ Quiet(s, [s EXCEPT !.hold = b])
  <2>1. s.pending \subseteq s.objects
    BY DEF Inv
  <2> QED
    BY <2>1, FlagsQuiet
<1>2. [s EXCEPT !.hold = TRUE].hold = TRUE
  BY DEF Inv, Scores
<1> QED
  BY <1>1, <1>2, QuietInv DEF Hold

(* Letting go of the updates and doing what waits changes flags only.        *)
LEMMA UnholdQuiet ==
  ASSUME NEW s, Inv(s), NEW b \in BOOLEAN, NEW K, NEW seq \in Seq(K)
  PROVE  Quiet(s, Unhold(s, b, seq)) /\ Inv(Unhold(s, b, seq))
<1> DEFINE t == [s EXCEPT !.hold = b]
<1>1. Quiet(s, t) /\ Inv(t)
  BY HoldQuiet
<1> HIDE DEF t
<1>2. Quiet(t, UpdateAll(t, seq, FALSE))
  BY <1>1, UpdateAllQuiet
<1>3. Quiet(s, UpdateAll(t, seq, FALSE))
  BY <1>1, <1>2, QuietTrans
<1>4. Quiet(s, Unhold(s, b, seq))
  BY <1>1, <1>3 DEF Unhold, t
<1> QED
  BY <1>4, QuietInv

(* Setting delay_update of an object changes flags only.                     *)
LEMMA SetDelayQuiet ==
  ASSUME NEW s, Inv(s), NEW o \in s.objects, NEW on \in BOOLEAN
  PROVE  Quiet(s, SetDelay(s, o, on)) /\ Inv(SetDelay(s, o, on))
<1> DEFINE D == IF on THEN s.delayed \cup {o} ELSE s.delayed \ {o}
           t == [s EXCEPT !.delayed = D]
<1>1. D \subseteq s.objects
  BY DEF Inv
<1>2. SetDelay(s, o, on) = Update(t, o, 0)
  BY DEF SetDelay
<1> HIDE DEF D
<1>3. Quiet(s, t)
  BY <1>1, FlagsQuiet
<1> HIDE DEF t
<1>4. Inv(t) /\ o \in t.objects
  BY <1>3, QuietInv DEF Quiet
<1>5. Quiet(t, Update(t, o, 0))
  BY <1>4, UpdateQuiet
<1>6. Quiet(s, SetDelay(s, o, on))
  BY <1>2, <1>3, <1>5, QuietTrans
<1> QED
  BY <1>6, QuietInv

(* A change of an object and the update after it change flags only.          *)
LEMMA ChangedUpdateQuiet ==
  ASSUME NEW s, Inv(s), NEW o \in s.objects
  PROVE  Quiet(s, Update(Changed(s, {o}), o, 0)) /\ Inv(Update(Changed(s, {o}), o, 0))
<1> DEFINE t == Changed(s, {o})
<1>1. Quiet(s, t) /\ Inv(t)
  BY ChangedQuiet
<1> HIDE DEF t
<1>2. Quiet(t, Update(t, o, 0))
  BY <1>1, UpdateQuiet DEF Quiet
<1>3. Quiet(s, Update(t, o, 0))
  BY <1>1, <1>2, QuietTrans
<1> QED
  BY <1>3, QuietInv DEF t

(* A property that is set, with an error in it or not, changes flags only.   *)
LEMMA EditedQuiet ==
  ASSUME NEW s, Inv(s), NEW o \in s.objects, NEW error \in BOOLEAN
  PROVE  Quiet(s, Edited(s, o, error)) /\ Inv(Edited(s, o, error))
<1> DEFINE D == IF error THEN s.failing \cup {o} ELSE s.failing \ {o}
           t == [s EXCEPT !.failing = D]
<1>1. D \subseteq s.objects
  BY DEF Inv
<1>2. Edited(s, o, error) = Update(Changed(t, {o}), o, 0)
  BY DEF Edited
<1> HIDE DEF D
<1>3. Quiet(s, t)
  BY <1>1, FlagsQuiet
<1> HIDE DEF t
<1>4. Inv(t) /\ o \in t.objects
  BY <1>3, QuietInv DEF Quiet
<1>5. Quiet(t, Update(Changed(t, {o}), o, 0))
  BY <1>4, ChangedUpdateQuiet
<1>6. Quiet(s, Edited(s, o, error))
  BY <1>2, <1>3, <1>5, QuietTrans
<1> QED
  BY <1>6, QuietInv

(* move_done of an object changes flags only.                                *)
LEMMA MoveDoneQuiet ==
  ASSUME NEW s, Inv(s), NEW o \in s.objects
  PROVE  Quiet(s, MoveDone(s, o)) /\ Inv(MoveDone(s, o))
<1>1. Quiet(s, MoveDone(s, o))
  BY UpdateQuiet, QuietSelf DEF MoveDone
<1> QED
  BY <1>1, QuietInv

(* A move of some objects makes data stale and changes nothing else.         *)
LEMMA MovedQuiet ==
  ASSUME NEW s, Inv(s), NEW S, S \subseteq s.objects
  PROVE  Quiet(s, Moved(s, S)) /\ Inv(Moved(s, S))
<1>1. {o \in S : HasParents(s, o)} \cup Dependants(s, S) \subseteq s.objects
  BY DEF Inv, Dependants
<1> QED
  BY <1>1, ChangedQuiet DEF Moved

------------------------------------------------------------------------------
(***************************************************************************)
(* Moves and connections.                                                  *)
(***************************************************************************)

(* Links tie both ways.                                                      *)
LEMMA TiesFacts ==
  ASSUME NEW L \in [Ids -> SUBSET Ids]
  PROVE  Symmetric(Ties(L)) /\ Ties(L) \subseteq Ids \X Ids
BY DEF Ties, Symmetric

(* Objects hang together with objects only.                                  *)
LEMMA GroupIn ==
  ASSUME NEW s, Inv(s), NEW me \in s.objects
  PROVE  s.group[me] \subseteq s.objects /\ me \in s.group[me] /\ me \in Ids
<1>1. me \in Ids /\ s.objects \in SUBSET Ids
  BY DEF Inv, Scores
<1>2. s.group[me] = Hull(Ties(s.links), me)
  BY <1>1 DEF Inv, GroupsOf
<1>3. Closed(Ties(s.links), s.objects)
  BY DEF Inv, Closed, Ties
<1> QED
  BY <1>1, <1>2, <1>3, HullFacts, HullLeast

(* move_done of each object of a group changes flags only.                   *)
LEMMA GroupMoveDoneQuiet ==
  ASSUME NEW s, Inv(s), NEW S, S \subseteq s.objects
  PROVE  Quiet(s, GroupMoveDone(s, S)) /\ Inv(GroupMoveDone(s, S))
<1> DEFINE Q == {t \in Scores : Quiet(s, t)}
           T == [P \in SUBSET S |-> Q]
<1>1. IsFiniteSet(S) /\ S \subseteq Nat
  <2>1. S \in SUBSET Ids
    BY DEF Inv, Scores
  <2> QED
    BY <2>1, ObjectsFinite
<1>2. ASSUME NEW t \in Q, NEW o \in S PROVE MoveDone(t, o) \in Q
  <2>1. Inv(t) /\ o \in t.objects
    BY QuietInv DEF Quiet
  <2>2. Quiet(s, MoveDone(t, o))
    BY <2>1, MoveDoneQuiet, QuietTrans
  <2> QED
    BY <2>2 DEF Quiet
<1>3. s \in Q
  BY QuietSelf DEF Inv
<1> HIDE DEF Q
<1>4. \A P \in SUBSET S : \A x \in P : \A v \in T[P \ {x}] : MoveDone(v, x) \in T[P]
  BY <1>2
<1>5. s \in T[{}] /\ T[S] = Q
  BY <1>3
<1> HIDE DEF T
<1>6. GroupMoveDone(s, S) \in T[S]
  BY <1>1, <1>4, <1>5, GroupFold
<1>7. Quiet(s, GroupMoveDone(s, S))
  BY <1>5, <1>6 DEF Q
<1> QED
  BY <1>7, QuietInv

(* The end of a drag changes flags only.                                     *)
LEMMA DragEndQuiet ==
  ASSUME NEW s, Inv(s), NEW me \in s.objects, NEW shifted \in BOOLEAN,
         NEW told \in SUBSET s.group[me]
  PROVE  LET t == DragEnd(s, me, shifted, told) IN Quiet(s, t) /\ Inv(t)
<1> DEFINE g == s.group[me]
           u == IF shifted THEN Moved(s, g \ s.busses) ELSE s
           held == Hold(u)
           done == GroupMoveDone(held, told)
           t == DragEnd(s, me, shifted, told)
<1>1. g \subseteq s.objects /\ told \subseteq s.objects
  BY GroupIn
<1> HIDE DEF g
<1>2. Quiet(s, u) /\ Inv(u)
  <2>1. CASE shifted
    BY <1>1, <2>1, MovedQuiet
  <2>2. CASE ~shifted
    BY <2>2, QuietSelf DEF Inv
  <2> QED
    BY <2>1, <2>2
<1> HIDE DEF u
<1>3. Quiet(s, held) /\ Inv(held)
  BY <1>2, HoldQuiet, QuietTrans
<1> HIDE DEF held
<1>4. Quiet(s, done) /\ Inv(done)
  <2>1. told \subseteq held.objects
    BY <1>1, <1>3 DEF Quiet
  <2>2. Quiet(held, done) /\ Inv(done)
    BY <1>3, <2>1, GroupMoveDoneQuiet
  <2> QED
    BY <1>3, <2>2, QuietTrans
<1> HIDE DEF done
<1>5. ListTree(done, g) \in Seq(done.objects)
  BY <1>1, <1>4, TreesStay DEF Quiet, Lists
<1>6. s.hold \in BOOLEAN
  BY DEF Inv, Scores
<1>7. Quiet(done, Unhold(done, s.hold, ListTree(done, g)))
  BY <1>4, <1>5, <1>6, UnholdQuiet
<1>8. t = Unhold(done, s.hold, ListTree(done, g))
  BY DEF DragEnd, done, held, u, g
<1>9. Quiet(s, t)
  BY <1>4, <1>7, <1>8, QuietTrans
<1> QED
  BY <1>9, QuietInv

(* t is s but for the connections, C, and flags.                             *)
Rewired(s, t, C) ==
  /\ Inv(t)
  /\ t.objects = s.objects /\ t.lastId = s.lastId /\ t.busses = s.busses
  /\ t.links = s.links /\ t.group = s.group
  /\ t.conn = C

(* The flags and hold are those of s.                                        *)
SameFlags(s, t) ==
  /\ t.hold = s.hold /\ t.pending = s.pending /\ t.delayed = s.delayed
  /\ t.failing = s.failing /\ t.stale = s.stale

(* Flags may change after the connections.                                   *)
LEMMA QuietRewired ==
  ASSUME NEW s, NEW t, NEW u, NEW C, Rewired(s, t, C), Quiet(t, u)
  PROVE  Rewired(s, u, C)
BY QuietInv DEF Rewired, Quiet

(* Two changes of the connections make one.                                  *)
LEMMA RewiredTrans ==
  ASSUME NEW s, NEW t, NEW u, NEW C, NEW D, Rewired(s, t, C), Rewired(t, u, D)
  PROVE  Rewired(s, u, D)
BY DEF Rewired

(* A connection leads from an object of the score to one, at an inlet.       *)
LEMMA ConnectionShape ==
  ASSUME NEW s, Inv(s), NEW k \in s.conn
  PROVE  /\ k = <<k[1], k[2], k[3]>> /\ k[1] \in s.objects /\ k[3] \in s.objects
         /\ k[1] \in Ids /\ k[2] \in InletNames /\ k[3] \in Ids
BY DEF Inv, Scores

(* An inlet is disconnected: the source keeps the child as long as another   *)
(* inlet of it is connected with the source.                                 *)
LEMMA InletDisconnectInv ==
  ASSUME NEW s, Inv(s), NEW d, NEW src, NEW i
  PROVE  /\ Rewired(s, InletDisconnect(s, d, src, i), s.conn \ {<<src, i, d>>})
         /\ SameFlags(s, InletDisconnect(s, d, src, i))
<1> DEFINE k == <<src, i, d>>
           left == s.conn \ {k}
           C == IF Remains(left, src, d) THEN s.children[src] ELSE s.children[src] \ {d}
           t == [s EXCEPT !.conn = left, !.children[src] = C]
<1>1. CASE k \notin s.conn
  <2>1. InletDisconnect(s, d, src, i) = s
    BY <1>1 DEF InletDisconnect
  <2>2. s.conn \ {k} = s.conn
    BY <1>1
  <2> HIDE DEF k
  <2> QED
    BY <2>1, <2>2 DEF Rewired, SameFlags, k
<1>2. CASE k \in s.conn
  <2>1. InletDisconnect(s, d, src, i) = t
    BY <1>2 DEF InletDisconnect
  <2>2. src \in s.objects /\ d \in s.objects /\ src \in Ids /\ d \in Ids
    BY <1>2, ConnectionShape
  <2>3. C \in SUBSET Ids /\ left \subseteq s.conn
    BY <2>2 DEF Inv, Scores
  <2>4. C = {c[3] : c \in {x \in left : x[1] \in {src}}}
    <3>1. s.children[src] = {c[3] : c \in {x \in s.conn : x[1] \in {src}}}
      BY <2>2 DEF Inv, Dependants
    <3>2. \A y : y # d =>
             ((\E c \in left : c[1] = src /\ c[3] = y)
                 <=> \E c \in s.conn : c[1] = src /\ c[3] = y)
      OBVIOUS
    <3>3. Remains(left, src, d) <=> \E c \in left : c[1] = src /\ c[3] = d
      BY DEF Remains
    <3>4. \A y : y \in s.children[src] <=> \E c \in s.conn : c[1] = src /\ c[3] = y
      BY <3>1
    <3>5. d \in s.children[src]
      BY <1>2, <3>4
    <3>6. \A y : y \in C <=> \E c \in left : c[1] = src /\ c[3] = y
      <4> HIDE DEF left
      <4> QED
        BY <3>2, <3>3, <3>4, <3>5
    <3> HIDE DEF left, C
    <3> QED
      BY <3>6
  <2> HIDE DEF C
  <2>5. t.conn = left /\ t.children = [s.children EXCEPT ![src] = C]
        /\ t.objects = s.objects /\ t.lastId = s.lastId /\ t.busses = s.busses
        /\ t.links = s.links /\ t.group = s.group
        /\ t.pending = s.pending /\ t.delayed = s.delayed /\ t.failing = s.failing
        /\ t.stale = s.stale /\ t.hold = s.hold
    BY DEF Inv, Scores
  <2>6. t \in Scores
    BY <2>2, <2>3 DEF Inv, Scores
  <2>7. ASSUME NEW o \in Ids PROVE t.children[o] = Dependants(t, {o})
    <3>1. CASE o = src
      BY <2>2, <2>4, <2>5, <3>1 DEF Inv, Scores, Dependants
    <3>2. CASE o # src
      <4>1. t.children[o] = s.children[o]
        BY <2>2, <2>5, <3>2 DEF Inv, Scores
      <4>2. s.children[o] = {c[3] : c \in {x \in s.conn : x[1] \in {o}}}
        BY DEF Inv, Dependants
      <4>3. {x \in s.conn : x[1] \in {o}} = {x \in left : x[1] \in {o}}
        BY <3>2
      <4> QED
        BY <2>5, <4>1, <4>2, <4>3 DEF Dependants
    <3> QED
      BY <3>1, <3>2
  <2> HIDE DEF t
  <2>8. IsFiniteSet(left)
    BY <2>3, FS_Subset DEF Inv
  <2> HIDE DEF left
  <2>9. Inv(t)
    BY <2>3, <2>5, <2>6, <2>7, <2>8 DEF Inv
  <2> QED
    BY <2>1, <2>5, <2>9 DEF Rewired, SameFlags, left
<1> QED
  BY <1>1, <1>2

(* The same with the update of the destination.                              *)
LEMMA DisconnectInv ==
  ASSUME NEW s, Inv(s), NEW d \in s.objects, NEW src, NEW i
  PROVE  Rewired(s, Disconnect(s, d, src, i), s.conn \ {<<src, i, d>>})
<1> DEFINE t == InletDisconnect(s, d, src, i)
           C == s.conn \ {<<src, i, d>>}
<1>1. Rewired(s, t, C)
  BY InletDisconnectInv
<1>2. CASE <<src, i, d>> \notin s.conn
  BY <1>1, <1>2 DEF Disconnect, InletDisconnect
<1>3. CASE <<src, i, d>> \in s.conn
  <2>1. Disconnect(s, d, src, i) = Update(Changed(t, {d}), d, 0)
    BY <1>3 DEF Disconnect
  <2> HIDE DEF t, C
  <2>2. Inv(t) /\ d \in t.objects
    BY <1>1 DEF Rewired
  <2>3. Quiet(t, Update(Changed(t, {d}), d, 0))
    BY <2>2, ChangedUpdateQuiet
  <2>4. Rewired(s, Update(Changed(t, {d}), d, 0), C)
    BY <1>1, <2>3, QuietRewired
  <2> QED
    BY <2>1, <2>4 DEF C
<1> QED
  BY <1>2, <1>3

(* connect enters the connection in both tables, and updates.                *)
LEMMA ConnectSteps ==
  ASSUME NEW s, Inv(s), NEW d \in s.objects, NEW src \in s.objects, NEW i \in InletNames
  PROVE  \E t : /\ Rewired(s, t, s.conn \cup {<<src, i, d>>}) /\ SameFlags(s, t)
                /\ Connect(s, d, src, i) = Update(Changed(t, {d}), d, 0)
<1> DEFINE C == s.conn \cup {<<src, i, d>>}
           t == [s EXCEPT !.conn = C, !.children[src] = s.children[src] \cup {d}]
<1>1. src \in Ids /\ d \in Ids
  BY DEF Inv, Scores
<1>2. Connect(s, d, src, i) = Update(Changed(t, {d}), d, 0)
  BY DEF Connect, Inv, Scores
<1>3. t.conn = C /\ t.children = [s.children EXCEPT ![src] = s.children[src] \cup {d}]
      /\ t.objects = s.objects /\ t.lastId = s.lastId /\ t.busses = s.busses
      /\ t.links = s.links /\ t.group = s.group
      /\ t.pending = s.pending /\ t.delayed = s.delayed /\ t.failing = s.failing
      /\ t.stale = s.stale /\ t.hold = s.hold
  BY DEF Inv, Scores
<1>4. t \in Scores
  <2>1. C \in SUBSET (Ids \X InletNames \X Ids)
    BY <1>1 DEF Inv, Scores
  <2>2. s.children[src] \cup {d} \in SUBSET Ids
    BY <1>1 DEF Inv, Scores
  <2> HIDE DEF C
  <2> QED
    BY <1>1, <2>1, <2>2 DEF Inv, Scores
<1>5. ASSUME NEW o \in Ids PROVE t.children[o] = Dependants(t, {o})
  <2>1. s.children[o] = {c[3] : c \in {x \in s.conn : x[1] \in {o}}}
    BY DEF Inv, Dependants
  <2>2. t.children[o] = IF o = src THEN s.children[o] \cup {d} ELSE s.children[o]
    BY <1>1, <1>3 DEF Inv, Scores
  <2>3. Dependants(t, {o}) = {c[3] : c \in {x \in C : x[1] \in {o}}}
    BY <1>3 DEF Dependants
  <2>4. \A y : y \in s.children[o] <=> \E c \in s.conn : c[1] = o /\ c[3] = y
    BY <2>1
  <2>5. \A y : y \in Dependants(t, {o}) <=> \E c \in C : c[1] = o /\ c[3] = y
    BY <2>3
  <2>6. \A y : y \in t.children[o] <=> y \in s.children[o] \/ (o = src /\ y = d)
    BY <2>2
  <2>7. \A y : y \in t.children[o] <=> y \in Dependants(t, {o})
    <3>1. \A y : (\E c \in C : c[1] = o /\ c[3] = y)
               <=> (\E c \in s.conn : c[1] = o /\ c[3] = y) \/ (o = src /\ y = d)
      <4>1. <<src, i, d>>[1] = src /\ <<src, i, d>>[3] = d
        OBVIOUS
      <4>2. \A c : c \in C <=> c \in s.conn \/ c = <<src, i, d>>
        OBVIOUS
      <4> HIDE DEF C, t
      <4> QED
        BY <4>1, <4>2
    <3> HIDE DEF C, t
    <3> QED
      BY <2>4, <2>5, <2>6, <3>1
  <2> HIDE DEF t
  <2> QED
    BY <2>7
<1>6. IsFiniteSet(C)
  BY FS_AddElement DEF Inv
<1>7. \A k \in C : k[1] \in s.objects /\ k[3] \in s.objects
  BY DEF Inv
<1> HIDE DEF t, C
<1>8. Inv(t)
  BY <1>3, <1>4, <1>5, <1>6, <1>7 DEF Inv
<1>9. Rewired(s, t, C) /\ SameFlags(s, t)
  BY <1>3, <1>8 DEF Rewired, SameFlags
<1> QED
  BY <1>2, <1>9 DEF C

(* An inlet is connected: the source gets the child at the same time.        *)
LEMMA ConnectInv ==
  ASSUME NEW s, Inv(s), NEW d \in s.objects, NEW src \in s.objects, NEW i \in InletNames
  PROVE  Rewired(s, Connect(s, d, src, i), s.conn \cup {<<src, i, d>>})
<1> DEFINE C == s.conn \cup {<<src, i, d>>}
<1>1. PICK t : Rewired(s, t, C) /\ Connect(s, d, src, i) = Update(Changed(t, {d}), d, 0)
  BY ConnectSteps
<1> HIDE DEF C
<1>2. Inv(t) /\ d \in t.objects
  BY <1>1 DEF Rewired
<1>3. Quiet(t, Update(Changed(t, {d}), d, 0))
  BY <1>2, ChangedUpdateQuiet
<1>4. Rewired(s, Connect(s, d, src, i), C)
  BY <1>1, <1>3, QuietRewired
<1> QED
  BY <1>4 DEF C

------------------------------------------------------------------------------
(***************************************************************************)
(* Links.                                                                  *)
(***************************************************************************)

(* The links L may be those of a score with the objects S.                   *)
LinksOf(S, L) ==
  /\ L \in [Ids -> SUBSET Ids]
  /\ \A o \in Ids : /\ L[o] \subseteq S
                    /\ o \notin S => L[o] = {}
                    /\ \A x \in L[o] : o \notin L[x]

(* t is s but for the links, L, and the groups.                              *)
Retied(s, t, L) ==
  /\ Inv(t)
  /\ t.objects = s.objects /\ t.lastId = s.lastId /\ t.busses = s.busses
  /\ t.conn = s.conn /\ t.children = s.children
  /\ t.links = L
  /\ SameFlags(s, t)

Retie(s, L) == Regrouped([s EXCEPT !.links = L], Ties(L))

(* Links with the groups they make keep the invariant.                       *)
LEMMA RetieInv ==
  ASSUME NEW s, Inv(s), NEW L, LinksOf(s.objects, L)
  PROVE  Retied(s, Retie(s, L), L)
<1> DEFINE G == GroupsOf(Ties(L))
           t == [s EXCEPT !.links = L, !.group = G]
<1>1. G \in [Ids -> SUBSET Ids]
  BY HullFacts DEF GroupsOf
<1> HIDE DEF G
<1>2. Retie(s, L) = t
  BY DEF Retie, Regrouped, Inv, Scores, G
<1>3. t \in Scores
  BY <1>1 DEF Inv, Scores, LinksOf
<1>4. t.objects = s.objects /\ t.lastId = s.lastId /\ t.conn = s.conn /\ t.busses = s.busses
      /\ t.children = s.children /\ t.links = L /\ t.group = G
      /\ t.pending = s.pending /\ t.delayed = s.delayed
      /\ t.failing = s.failing /\ t.stale = s.stale /\ t.hold = s.hold
  BY DEF Inv, Scores
<1> HIDE DEF t
<1>5. Inv(t)
  BY <1>3, <1>4 DEF Inv, Dependants, LinksOf, G
<1> QED
  BY <1>2, <1>4, <1>5 DEF Retied, SameFlags

(* What the invariant says of links and groups.                              *)
LEMMA LinksFacts ==
  ASSUME NEW s, Inv(s)
  PROVE  /\ LinksOf(s.objects, s.links) /\ s.objects \in SUBSET Ids
         /\ s.group = GroupsOf(Ties(s.links)) /\ s \in Scores
         /\ Symmetric(Ties(s.links)) /\ Ties(s.links) \subseteq Ids \X Ids
BY TiesFacts DEF Inv, LinksOf, Scores

(* add_link turns a link round if it is there and joins two groups.          *)
LEMMA AddLinkInv ==
  ASSUME NEW s, Inv(s), NEW me \in s.objects, NEW src \in s.objects
  PROVE  \E L : /\ Retied(s, AddLink(s, me, src), L)
                /\ \A o \in Ids : \A x \in L[o] : x \in s.links[o] \/ (o = me /\ x = src)
                /\ src # me => \A o \in Ids : \A x : x \in L[o] <=>
                                   \/ x \in s.links[o] /\ ~(o = src /\ x = me)
                                   \/ o = me /\ x = src
<1> DEFINE E == Ties(s.links)
           L == [s.links EXCEPT ![src] = @ \ {me}, ![me] = @ \cup {src}]
           s0 == [s EXCEPT !.links = L]
<1>1. CASE src = me
  BY <1>1 DEF AddLink, Retied, SameFlags
<1>2. CASE src # me
  <2>1. me \in Ids /\ src \in Ids /\ s.links \in [Ids -> SUBSET Ids] /\ s \in Scores
    BY LinksFacts DEF LinksOf
  <2>2. \A o \in Ids : L[o] = IF o = me THEN s.links[o] \cup {src}
                              ELSE IF o = src THEN s.links[o] \ {me} ELSE s.links[o]
    BY <1>2, <2>1
  <2>3. L \in [Ids -> SUBSET Ids]
    BY <2>1
  <2>4. AddLink(s, me, src) = AddGroup(s0, me, src)
    BY <1>2, <2>1 DEF AddLink, Scores
  <2> HIDE DEF L
  <2>5. LinksOf(s.objects, L)
    <3>0. \A o \in Ids : /\ s.links[o] \subseteq s.objects
                         /\ o \notin s.objects => s.links[o] = {}
                         /\ \A x \in s.links[o] : x \in Ids /\ o \notin s.links[x]
      BY <2>1, LinksFacts DEF LinksOf
    <3> HIDE DEF s0, E
    <3>1. \A o \in Ids : L[o] \subseteq s.objects /\ (o \notin s.objects => L[o] = {})
      BY <2>2, <3>0
    <3>2. ASSUME NEW o \in Ids, NEW x \in L[o] PROVE o \notin L[x]
      <4>1. x \in Ids
        BY <2>3
      <4>2. CASE o = me
        <5>1. x = src \/ x \in s.links[me]
          BY <2>1, <2>2, <3>2, <4>2
        <5> QED
          BY <1>2, <2>1, <2>2, <3>0, <4>1, <4>2, <5>1
      <4>3. CASE o = src
        <5>1. x \in s.links[src] /\ x # me
          BY <1>2, <2>1, <2>2, <3>2, <4>3
        <5> QED
          BY <1>2, <2>1, <2>2, <3>0, <4>1, <4>3, <5>1
      <4>4. CASE o # me /\ o # src
        <5>1. x \in s.links[o] /\ o \notin s.links[x]
          BY <2>2, <3>0, <3>2, <4>4
        <5> QED
          BY <2>1, <2>2, <4>1, <4>4, <5>1
      <4> QED
        BY <4>2, <4>3, <4>4
    <3> QED
      BY <2>3, <3>1, <3>2 DEF LinksOf
  <2>6. Ties(L) = E \cup Both(me, src)
    <3> HIDE DEF s0
    <3>1. ASSUME NEW x \in Ids, NEW y \in Ids
          PROVE  <<x, y>> \in Ties(L) <=> <<x, y>> \in E \cup Both(me, src)
      <4>1. <<x, y>> \in Ties(L) <=> y \in L[x] \/ x \in L[y]
        BY DEF Ties
      <4>2. <<x, y>> \in E <=> y \in s.links[x] \/ x \in s.links[y]
        BY DEF Ties
      <4>3. <<x, y>> \in Both(me, src) <=> (x = me /\ y = src) \/ (x = src /\ y = me)
        BY DEF Both
      <4> HIDE DEF E
      <4> QED
        BY <1>2, <2>1, <2>2, <4>1, <4>2, <4>3
    <3>2. Ties(L) \subseteq Ids \X Ids /\ E \cup Both(me, src) \subseteq Ids \X Ids
      BY <2>1, <2>3, TiesFacts DEF Both
    <3>3. \A p \in Ids \X Ids : p = <<p[1], p[2]>> /\ p[1] \in Ids /\ p[2] \in Ids
      OBVIOUS
    <3> HIDE DEF E
    <3>4. \A p \in Ids \X Ids : p \in Ties(L) <=> p \in E \cup Both(me, src)
      BY <3>1, <3>3
    <3> QED
      BY <3>2, <3>4
  <2>7. Regrouped(s0, E) = s0 /\ s0 \in Scores
    BY <2>1, <2>3, LinksFacts DEF Regrouped, Scores
  <2>8. Symmetric(E)
    BY LinksFacts
  <2> HIDE DEF E
  <2>9. AddGroup(Regrouped(s0, E), me, src) = Regrouped(s0, Ties(L))
    <3> HIDE DEF s0
    <3> QED
      BY <2>1, <2>6, <2>7, <2>8, AddGroupHulls
  <2>10. AddLink(s, me, src) = Retie(s, L)
    BY <2>4, <2>7, <2>9 DEF Retie
  <2>11. \A o \in Ids : \A x \in L[o] : x \in s.links[o] \/ (o = me /\ x = src)
    BY <2>2
  <2>12. \A o \in Ids : \A x : x \in L[o] <=> \/ x \in s.links[o] /\ ~(o = src /\ x = me)
                                              \/ o = me /\ x = src
    BY <1>2, <2>2
  <2>13. Retied(s, AddLink(s, me, src), L)
    BY <2>5, <2>10, RetieInv
  <2> QED
    BY <2>11, <2>12, <2>13
<1> QED
  BY <1>1, <1>2

(* Links are taken away within the group of me.                              *)
LEMMA RebuildInv ==
  ASSUME NEW s, Inv(s), NEW me \in Ids, NEW L \in [Ids -> SUBSET Ids],
         \A o \in Ids : L[o] \subseteq s.links[o],
         \A x, y \in Ids : <<x, y>> \in Ties(s.links) /\ x \notin s.group[me]
                             => <<x, y>> \in Ties(L)
  PROVE  Retied(s, RebuildGroups([s EXCEPT !.links = L], me), L)
<1> DEFINE E == Ties(s.links)
           s0 == [s EXCEPT !.links = L]
<1>1. LinksOf(s.objects, L)
  BY LinksFacts DEF LinksOf
<1>2. s0 \in Scores /\ s0.links = L /\ s0.group = s.group
  BY LinksFacts DEF Scores
<1>3. s0.group = GroupsOf(E) /\ Symmetric(E) /\ E \subseteq Ids \X Ids
  BY <1>2, LinksFacts
<1>4. Ties(s0.links) \subseteq E
  BY <1>2 DEF Ties
<1>5. \A e \in E : e[1] \notin s0.group[me] => e \in Ties(s0.links)
  <2> HIDE DEF s0
  <2>1. ASSUME NEW e \in E, e[1] \notin s0.group[me] PROVE e \in Ties(s0.links)
    <3>1. e = <<e[1], e[2]>> /\ e[1] \in Ids /\ e[2] \in Ids
      BY <1>3
    <3>2. <<e[1], e[2]>> \in E
      BY <3>1
    <3> HIDE DEF E
    <3>3. <<e[1], e[2]>> \in Ties(L)
      BY <1>2, <2>1, <3>1, <3>2 DEF E
    <3> QED
      BY <1>2, <3>1, <3>3
  <2> QED
    BY <2>1
<1> HIDE DEF E, s0
<1>6. RebuildGroups(s0, me) = Regrouped(s0, Ties(s0.links))
  BY <1>2, <1>3, <1>4, <1>5, RebuildHulls DEF Regrouped
<1>7. RebuildGroups(s0, me) = Retie(s, L)
  BY <1>2, <1>6 DEF Retie, s0
<1> QED
  BY <1>1, <1>7, RetieInv DEF s0

------------------------------------------------------------------------------
(***************************************************************************)
(* Links taken away; objects created and destroyed.                        *)
(***************************************************************************)

(* remove_link takes one link away, within one group.                        *)
LEMMA RemoveLinkInv ==
  ASSUME NEW s, Inv(s), NEW me \in s.objects, NEW src \in s.objects
  PROVE  \E L : /\ Retied(s, RemoveLink(s, me, src), L)
                /\ \A o \in Ids : L[o] \subseteq s.links[o]
<1> DEFINE L == [s.links EXCEPT ![me] = @ \ {src}, ![src] = @ \ {me}]
<1>1. me \in Ids /\ src \in Ids /\ s.links \in [Ids -> SUBSET Ids] /\ s \in Scores
      /\ s.group = GroupsOf(Ties(s.links)) /\ Symmetric(Ties(s.links))
  BY LinksFacts DEF LinksOf
<1>2. CASE ~IsLinked(s, me, src)
  BY <1>2 DEF RemoveLink, Retied, SameFlags
<1>3. CASE IsLinked(s, me, src)
  <2>1. RemoveLink(s, me, src) = RebuildGroups([s EXCEPT !.links = L], me)
    BY <1>1, <1>3 DEF RemoveLink, Scores
  <2>2. L \in [Ids -> SUBSET Ids]
    BY <1>1
  <2>3. \A o \in Ids : L[o] \subseteq s.links[o]
    BY <1>1
  <2>4. \A o \in Ids, x \in Ids : x \in s.links[o] /\ x \notin L[o]
                                    => (o = me /\ x = src) \/ (o = src /\ x = me)
    BY <1>1
  <2> HIDE DEF L
  <2>5. me \in s.group[me] /\ src \in s.group[me]
    <3>1. s.group[me] = Hull(Ties(s.links), me)
      BY <1>1 DEF GroupsOf
    <3>2. <<me, src>> \in Ties(s.links)
      BY <1>1, <1>3 DEF IsLinked, Ties
    <3> QED
      BY <1>1, <3>1, <3>2, HullFacts DEF Closed
  <2>6. ASSUME NEW x \in Ids, NEW y \in Ids, <<x, y>> \in Ties(s.links), x \notin s.group[me]
        PROVE  <<x, y>> \in Ties(L)
    <3>1. y \in s.links[x] \/ x \in s.links[y]
      BY <2>6 DEF Ties
    <3>2. y \in L[x] \/ x \in L[y]
      BY <2>4, <2>5, <2>6, <3>1
    <3> QED
      BY <3>2 DEF Ties
  <2>7. Retied(s, RebuildGroups([s EXCEPT !.links = L], me), L)
    BY <1>1, <2>2, <2>3, <2>6, RebuildInv
  <2> QED
    BY <2>1, <2>3, <2>7
<1> QED
  BY <1>2, <1>3

(* remove_all_links takes away all links of me, which are within its group.  *)
LEMMA RemoveAllLinksInv ==
  ASSUME NEW s, Inv(s), NEW me \in s.objects
  PROVE  \E L : /\ Retied(s, RemoveAllLinks(s, me), L)
                /\ L[me] = {} /\ \A o \in Ids : me \notin L[o] /\ L[o] \subseteq s.links[o]
<1> DEFINE L == [o \in Ids |-> IF o = me THEN {}
                               ELSE IF o \in s.group[me] THEN s.links[o] \ {me} ELSE s.links[o]]
<1>1. me \in Ids /\ s.links \in [Ids -> SUBSET Ids] /\ s \in Scores
      /\ s.group = GroupsOf(Ties(s.links)) /\ Symmetric(Ties(s.links))
  BY LinksFacts DEF LinksOf
<1>2. RemoveAllLinks(s, me) = RebuildGroups([s EXCEPT !.links = L], me)
  BY DEF RemoveAllLinks
<1>3. L \in [Ids -> SUBSET Ids]
  BY <1>1
<1>4. \A o \in Ids : L[o] \subseteq s.links[o]
  OBVIOUS
<1>5. \A o \in Ids : o \notin s.group[me] /\ o # me => L[o] = s.links[o]
  OBVIOUS
<1>6. \A o \in Ids : o \in s.group[me] => me \notin L[o]
  BY <1>1
<1>7. L[me] = {}
  BY <1>1
<1> HIDE DEF L
<1>8. s.group[me] = Hull(Ties(s.links), me) /\ me \in s.group[me]
      /\ Closed(Ties(s.links), s.group[me])
  BY <1>1, HullFacts DEF GroupsOf
<1>9. ASSUME NEW x \in Ids, NEW y \in Ids, <<x, y>> \in Ties(s.links), x \notin s.group[me]
      PROVE  <<x, y>> \in Ties(L)
  <2>1. <<y, x>> \in Ties(s.links)
    BY <1>1, <1>9 DEF Symmetric
  <2>2. y \notin s.group[me]
    BY <1>8, <1>9, <2>1 DEF Closed
  <2>3. L[x] = s.links[x] /\ L[y] = s.links[y]
    BY <1>5, <1>8, <1>9, <2>2
  <2> QED
    BY <1>9, <2>3 DEF Ties
<1>10. \A o \in Ids : me \notin L[o]
  <2>1. ASSUME NEW o \in Ids, me \in L[o] PROVE FALSE
    <3>1. me \in s.links[o]
      BY <1>4, <2>1
    <3>2. <<me, o>> \in Ties(s.links)
      BY <1>1, <3>1 DEF Ties
    <3>3. o \in s.group[me]
      BY <1>8, <3>2 DEF Closed
    <3> QED
      BY <1>6, <2>1, <3>3
  <2> QED
    BY <2>1
<1>11. Retied(s, RebuildGroups([s EXCEPT !.links = L], me), L)
  BY <1>1, <1>3, <1>4, <1>9, RebuildInv
<1> QED
  BY <1>2, <1>4, <1>7, <1>10, <1>11

(* The first free number from the last one given.                            *)
LEMMA FreeIdFacts ==
  ASSUME NEW s, Inv(s)
  PROVE  /\ FreeId(s) \in s.lastId .. (MaxId + 1) /\ FreeId(s) \notin s.objects
         /\ \A j \in s.lastId .. (FreeId(s) - 1) : j \in s.objects
<1> DEFINE U == {k \in s.lastId .. (MaxId + 1) : k \notin s.objects}
<1>1. s.lastId \in 0 .. MaxId /\ s.objects \subseteq 0 .. MaxId /\ MaxId \in Nat
  BY ScoreAssumption DEF Inv, Scores, Ids
<1>2. MaxId + 1 \in U /\ U \subseteq Nat
  BY <1>1
<1> HIDE DEF U
<1>3. PICK k \in U : \A m \in U : k <= m
  BY <1>2, NatMin
<1>4. k \in s.lastId .. (MaxId + 1) /\ k \notin s.objects /\ k \in Nat
  BY <1>2, <1>3 DEF U
<1>5. ASSUME NEW j \in s.lastId .. (k - 1) PROVE j \in s.objects
  <2>1. j \in s.lastId .. (MaxId + 1) /\ j < k
    BY <1>1, <1>4
  <2>2. j \notin U
    BY <1>3, <1>4, <2>1
  <2> QED
    BY <2>1, <2>2 DEF U
<1>6. \E n \in s.lastId .. (MaxId + 1) :
          n \notin s.objects /\ \A j \in s.lastId .. (n - 1) : j \in s.objects
  BY <1>4, <1>5
<1> QED
  BY <1>6 DEF FreeId

(* new_obj_by_name registers the object, and updates.                        *)
LEMMA NewObjectSteps ==
  ASSUME NEW s, Inv(s), FreeId(s) \in Ids, NEW bus \in BOOLEAN
  PROVE  \E t : /\ Inv(t) /\ SameFlags(s, t) /\ t.conn = s.conn /\ t.links = s.links
                /\ t.objects = s.objects \cup {FreeId(s)} /\ t.lastId = FreeId(s)
                /\ \A x : x \in t.busses <=> x \in s.busses \/ (bus /\ x = FreeId(s))
                /\ NewObject(s, bus) = Update(Changed(t, {FreeId(s)}), FreeId(s), 0)
<1> DEFINE k == FreeId(s)
           B == IF bus THEN s.busses \cup {k} ELSE s.busses
           t == [s EXCEPT !.objects = @ \cup {k}, !.lastId = k, !.busses = B,
                          !.children[k] = {}, !.links[k] = {}, !.group[k] = {k}]
<1>1. k \in Ids /\ k \notin s.objects
  BY FreeIdFacts
<1>2. NewObject(s, bus) = Update(Changed(t, {k}), k, 0)
  BY DEF NewObject
<1>8. \A x : x \in B <=> x \in s.busses \/ (bus /\ x = k)
  OBVIOUS
<1> HIDE DEF k, B
<1>3. s.links \in [Ids -> SUBSET Ids] /\ s.children \in [Ids -> SUBSET Ids]
      /\ s.group \in [Ids -> SUBSET Ids] /\ s.objects \in SUBSET Ids
      /\ s.busses \subseteq s.objects
  BY DEF Inv, Scores
<1>4. s.children[k] = {} /\ s.links[k] = {} /\ s.group[k] = {k}
  <2>1. s.children[k] = {} /\ s.links[k] = {}
    BY <1>1 DEF Inv, Dependants
  <2>2. \A y \in Ids : <<k, y>> \notin Ties(s.links)
    BY <1>1, <1>3, <2>1 DEF Inv, Ties
  <2>3. Closed(Ties(s.links), {k})
    BY <2>2 DEF Closed
  <2>4. s.group[k] = Hull(Ties(s.links), k)
    BY <1>1 DEF Inv, GroupsOf
  <2>5. Hull(Ties(s.links), k) \subseteq {k} /\ k \in Hull(Ties(s.links), k)
    BY <1>1, <2>3, HullFacts, HullLeast
  <2> QED
    BY <2>1, <2>4, <2>5
<1>5. /\ t.objects = s.objects \cup {k} /\ t.lastId = k /\ t.conn = s.conn /\ t.busses = B
      /\ t.children = s.children /\ t.links = s.links /\ t.group = s.group
      /\ t.pending = s.pending /\ t.delayed = s.delayed
      /\ t.failing = s.failing /\ t.stale = s.stale /\ t.hold = s.hold
  <2>1. [s.children EXCEPT ![k] = {}] = s.children /\ [s.links EXCEPT ![k] = {}] = s.links
        /\ [s.group EXCEPT ![k] = {k}] = s.group
    BY <1>1, <1>3, <1>4
  <2> QED
    BY <2>1 DEF Inv, Scores
<1>6. t \in Scores
  <2>1. [s.children EXCEPT ![k] = {}] = s.children /\ [s.links EXCEPT ![k] = {}] = s.links
        /\ [s.group EXCEPT ![k] = {k}] = s.group
    BY <1>1, <1>3, <1>4
  <2> DEFINE u == [s EXCEPT !.objects = s.objects \cup {k}, !.lastId = k, !.busses = B]
  <2>2. u \in Scores
    <3>1. B \in SUBSET Ids /\ s.objects \cup {k} \in SUBSET Ids
      BY <1>1, <1>3, <1>8
    <3> QED
      BY <1>1, <3>1 DEF Inv, Scores
  <2>3. t = u
    BY <2>1 DEF Inv, Scores
  <2> QED
    BY <2>2, <2>3
<1> HIDE DEF t
<1>7. Inv(t)
  BY <1>3, <1>5, <1>6, <1>8 DEF Inv, Dependants
<1> QED
  BY <1>2, <1>5, <1>7, <1>8 DEF SameFlags, k

(* A new object gets a free number, no children, no links and a group of its *)
(* own.                                                                      *)
LEMMA NewObjectInv ==
  ASSUME NEW s, Inv(s), FreeId(s) \in Ids, NEW bus \in BOOLEAN
  PROVE  /\ Inv(NewObject(s, bus))
         /\ NewObject(s, bus).objects = s.objects \cup {FreeId(s)}
         /\ NewObject(s, bus).lastId = FreeId(s) /\ NewObject(s, bus).links = s.links
         /\ \A x \in NewObject(s, bus).busses : x \in s.busses \/ (bus /\ x = FreeId(s))
<1>1. PICK t : /\ Inv(t) /\ t.objects = s.objects \cup {FreeId(s)} /\ t.lastId = FreeId(s)
               /\ t.links = s.links
               /\ \A x \in t.busses : x \in s.busses \/ (bus /\ x = FreeId(s))
               /\ NewObject(s, bus) = Update(Changed(t, {FreeId(s)}), FreeId(s), 0)
  BY NewObjectSteps
<1>2. Quiet(t, NewObject(s, bus))
  BY <1>1, ChangedUpdateQuiet
<1> QED
  BY <1>1, <1>2, QuietInv DEF Quiet

(* destroy cuts the outlets, with updates, and then takes the object away.   *)
LEMMA DestroyObjectSteps ==
  ASSUME NEW s, Inv(s), NEW me \in s.objects
  PROVE  \E gone : LET cut == DisconnectOutlets(Hold(s), me, {k \in s.conn : k[1] = me}) IN
            /\ DestroyObject(s, me) = Unhold(gone, s.hold, ScoreTree(gone))
            /\ Inv(gone) /\ gone.conn \subseteq cut.conn /\ gone.conn \subseteq s.conn
            /\ gone.busses \subseteq s.busses /\ \A o \in Ids : gone.links[o] \subseteq s.links[o]
            /\ gone.pending = cut.pending \ {me} /\ gone.delayed = cut.delayed \ {me}
            /\ gone.failing = cut.failing \ {me} /\ gone.stale = cut.stale \ {me}
<1> DEFINE out == {k \in s.conn : k[1] = me}
           in == {k \in s.conn : k[3] = me}
           held == Hold(s)
           cut == DisconnectOutlets(held, me, out)
           free == DisconnectInlets(cut, me, in)
           alone == RemoveAllLinks(free, me)
           gone == [alone EXCEPT !.objects = @ \ {me}, !.busses = @ \ {me},
                                 !.pending = @ \ {me},
                                 !.delayed = @ \ {me}, !.failing = @ \ {me},
                                 !.stale = @ \ {me}]
<1>1. DestroyObject(s, me) = Unhold(gone, s.hold, ScoreTree(gone))
  BY DEF DestroyObject
<1>2. IsFiniteSet(out) /\ IsFiniteSet(in)
  BY FS_Subset DEF Inv
<1>3. Inv(held) /\ held.conn = s.conn /\ held.objects = s.objects
      /\ held.links = s.links /\ held.busses = s.busses
  BY HoldQuiet DEF Quiet
<1> HIDE DEF held
<1>4. Rewired(held, cut, s.conn \ out)
  <2> DEFINE T == [P \in SUBSET out |-> {t \in Scores : Rewired(held, t, s.conn \ P)}]
  <2>1. ASSUME NEW P \in SUBSET out, NEW x \in P, NEW v \in T[P \ {x}]
        PROVE  Disconnect(v, x[3], me, x[2]) \in T[P]
    <3>1. Rewired(held, v, s.conn \ (P \ {x}))
      BY <2>1
    <3>2. x = <<me, x[2], x[3]>> /\ x[3] \in s.objects
      BY <1>3, <2>1, ConnectionShape
    <3>3. Inv(v) /\ x[3] \in v.objects /\ v.conn \ {x} = s.conn \ P
      BY <1>3, <2>1, <3>1, <3>2 DEF Rewired
    <3> DEFINE u == Disconnect(v, x[3], me, x[2])
    <3>4. Rewired(v, u, v.conn \ {<<me, x[2], x[3]>>})
      BY <3>3, DisconnectInv
    <3> HIDE DEF u
    <3>5. Rewired(v, u, s.conn \ P)
      BY <3>2, <3>3, <3>4
    <3>6. Rewired(held, u, s.conn \ P)
      BY <3>1, <3>5, RewiredTrans
    <3>7. u \in Scores
      BY <3>6 DEF Rewired, Inv
    <3> QED
      BY <2>1, <3>6, <3>7 DEF u
  <2>2. held \in T[{}]
    <3>1. Rewired(held, held, s.conn \ {}) /\ held \in Scores
      BY <1>3 DEF Rewired, Inv
    <3> QED
      BY <3>1
  <2>3. T[out] = {t \in Scores : Rewired(held, t, s.conn \ out)}
    OBVIOUS
  <2> HIDE DEF T, out
  <2>4. cut \in T[out]
    BY <1>2, <2>1, <2>2, OutletsFold
  <2> QED
    BY <2>3, <2>4
<1> HIDE DEF cut
<1>5. Inv(cut) /\ cut.objects = s.objects /\ cut.conn = s.conn \ out
      /\ cut.links = s.links /\ cut.busses = s.busses
  BY <1>3, <1>4 DEF Rewired
<1>6. Rewired(cut, free, cut.conn \ in) /\ SameFlags(cut, free)
  <2> DEFINE Q(P) == {t \in Scores : Rewired(cut, t, cut.conn \ P) /\ SameFlags(cut, t)}
             T == [P \in SUBSET in |-> Q(P)]
  <2>1. ASSUME NEW P \in SUBSET in, NEW x \in P, NEW v \in T[P \ {x}]
        PROVE  InletDisconnect(v, me, x[1], x[2]) \in T[P]
    <3>1. Rewired(cut, v, cut.conn \ (P \ {x})) /\ SameFlags(cut, v)
      BY <2>1
    <3>2. x = <<x[1], x[2], me>>
      BY <2>1, ConnectionShape
    <3>3. Inv(v) /\ v.conn \ {x} = cut.conn \ P
      BY <2>1, <3>1 DEF Rewired
    <3> DEFINE u == InletDisconnect(v, me, x[1], x[2])
    <3>4. Rewired(v, u, v.conn \ {<<x[1], x[2], me>>}) /\ SameFlags(v, u)
      BY <3>3, InletDisconnectInv
    <3> HIDE DEF u
    <3>5. Rewired(v, u, cut.conn \ P)
      BY <3>2, <3>3, <3>4
    <3>6. Rewired(cut, u, cut.conn \ P) /\ SameFlags(cut, u)
      BY <3>1, <3>4, <3>5, RewiredTrans DEF SameFlags
    <3>7. u \in Scores
      BY <3>6 DEF Rewired, Inv
    <3> QED
      BY <2>1, <3>6, <3>7 DEF u
  <2>2. cut \in T[{}]
    <3>1. Rewired(cut, cut, cut.conn \ {}) /\ cut \in Scores /\ SameFlags(cut, cut)
      BY <1>5 DEF Rewired, Inv, SameFlags
    <3> QED
      BY <3>1
  <2>3. T[in] = Q(in)
    OBVIOUS
  <2> HIDE DEF T, in
  <2>4. free \in T[in]
    BY <1>2, <2>1, <2>2, InletsFold
  <2> QED
    BY <2>3, <2>4
<1> HIDE DEF free
<1>7. Inv(free) /\ free.objects = s.objects
      /\ (\A k \in free.conn : k[1] # me /\ k[3] # me)
      /\ free.conn \subseteq cut.conn /\ free.links = s.links /\ free.busses = s.busses
  BY <1>5, <1>6 DEF Rewired
<1>8. PICK L : /\ Retied(free, alone, L) /\ L[me] = {}
               /\ \A o \in Ids : me \notin L[o] /\ L[o] \subseteq free.links[o]
  BY <1>7, RemoveAllLinksInv
<1> HIDE DEF alone, in
<1>9. Inv(alone) /\ alone.objects = s.objects /\ alone.links = L
      /\ (\A k \in alone.conn : k[1] # me /\ k[3] # me) /\ alone.conn \subseteq cut.conn
      /\ SameFlags(cut, alone)
  BY <1>6, <1>7, <1>8 DEF Retied, SameFlags
<1>14. alone.busses = s.busses /\ \A o \in Ids : L[o] \subseteq s.links[o]
  BY <1>7, <1>8 DEF Retied
<1>10. /\ gone.objects = s.objects \ {me} /\ gone.conn = alone.conn
       /\ gone.busses = s.busses \ {me}
       /\ gone.children = alone.children /\ gone.links = L /\ gone.group = alone.group
       /\ gone.pending = alone.pending \ {me} /\ gone.delayed = alone.delayed \ {me}
       /\ gone.failing = alone.failing \ {me} /\ gone.stale = alone.stale \ {me}
  BY <1>9, <1>14 DEF Inv, Scores
<1>11. gone \in Scores
  BY <1>9 DEF Inv, Scores
<1> HIDE DEF gone
<1>12. Inv(gone)
  <2>1. \A o \in Ids : o \notin gone.objects => gone.links[o] = {}
    BY <1>8, <1>9, <1>10 DEF Inv
  <2>2. \A o \in Ids : gone.links[o] \subseteq gone.objects
    BY <1>8, <1>9, <1>10 DEF Inv
  <2>3. \A o \in Ids : gone.children[o] = Dependants(gone, {o})
    BY <1>9, <1>10 DEF Inv, Dependants
  <2>4. gone.group = GroupsOf(Ties(gone.links))
    BY <1>9, <1>10 DEF Inv
  <2> QED
    BY <1>9, <1>10, <1>11, <1>14, <2>1, <2>2, <2>3, <2>4 DEF Inv
<1>13. cut = DisconnectOutlets(Hold(s), me, {k \in s.conn : k[1] = me})
  BY DEF cut, held, out
<1>15. gone.conn \subseteq cut.conn /\ gone.conn \subseteq s.conn
  BY <1>5, <1>9, <1>10
<1> QED
  BY <1>1, <1>9, <1>10, <1>12, <1>13, <1>14, <1>15 DEF SameFlags

(* An object is destroyed: its outlets, its inlets, its links and then the   *)
(* object itself, from which nothing leads and to which nothing leads by     *)
(* then.                                                                     *)
LEMMA DestroyObjectInv ==
  ASSUME NEW s, Inv(s), NEW me \in s.objects
  PROVE  Inv(DestroyObject(s, me))
<1>1. PICK gone : Inv(gone) /\ DestroyObject(s, me) = Unhold(gone, s.hold, ScoreTree(gone))
  BY DestroyObjectSteps
<1>2. ScoreTree(gone) \in Seq(gone.objects)
  BY <1>1, TreesStay DEF ScoreTree, Lists
<1>3. s.hold \in BOOLEAN
  BY DEF Inv, Scores
<1> QED
  BY <1>1, <1>2, <1>3, UnholdQuiet

------------------------------------------------------------------------------
(***************************************************************************)
(* Saving and loading.                                                     *)
(***************************************************************************)

(* A list of objects, each there once, is no longer than there are numbers.  *)
LEMMA ListLength ==
  ASSUME NEW K \in SUBSET Ids, NEW v \in Lists(K)
  PROVE  Len(v) \in Nat /\ Len(v) <= MaxId + 1
<1>1. v \in Seq(K) /\ Len(v) \in Nat /\ DOMAIN v = 1 .. Len(v)
  BY DEF Lists
<1>2. v \in [1 .. Len(v) -> Ids]
  BY <1>1
<1>3. v \in Injection(1 .. Len(v), Ids)
  BY <1>1, <1>2 DEF Lists, Injection, IsInjective
<1>4. IsFiniteSet(Ids) /\ Cardinality(Ids) = MaxId + 1
  BY FS_Interval, ScoreAssumption DEF Ids
<1>5. Cardinality(1 .. Len(v)) <= Cardinality(Ids)
  BY <1>3, <1>4, FS_Injection
<1>6. Cardinality(1 .. Len(v)) = Len(v)
  BY <1>1, FS_Interval
<1> QED
  BY <1>1, <1>4, <1>5, <1>6

(* The empty score has the invariant.                                        *)
LEMMA EmptyInv == Inv(Empty) /\ Empty.objects = {} /\ Empty.lastId = 0
<1> DEFINE none == [o \in Ids |-> {}]
<1>1. Empty \in Scores /\ Empty.links = none /\ Empty.children = none
      /\ Empty.group = [o \in Ids |-> {o}] /\ Empty.conn = {} /\ Empty.objects = {}
      /\ Empty.busses = {}
      /\ Empty.pending = {} /\ Empty.delayed = {} /\ Empty.failing = {} /\ Empty.stale = {}
      /\ Empty.lastId = 0
  BY ScoreAssumption DEF Empty, Scores, Ids
<1>2. Ties(none) = {}
  BY DEF Ties
<1>3. ASSUME NEW o \in Ids PROVE Hull({}, o) = {o}
  <2>1. Closed({}, {o})
    BY DEF Closed
  <2> QED
    BY <2>1, HullFacts, HullLeast
<1>4. GroupsOf({}) = [o \in Ids |-> {o}]
  BY <1>3 DEF GroupsOf
<1>5. IsFiniteSet({})
  BY FS_EmptySet
<1>6. \A o \in Ids : Dependants(Empty, {o}) = {}
  BY <1>1 DEF Dependants
<1> QED
  BY <1>1, <1>2, <1>4, <1>5, <1>6 DEF Inv

(* A run of the file, whose names stand for objects of the score it makes.   *)
Names == UNION {[D -> Ids] : D \in SUBSET Ids}
Runs == [to : Scores, env : Names, ok : BOOLEAN]
RunInv(q) ==
  /\ q \in Runs /\ Inv(q.to)
  /\ \A n \in DOMAIN q.env : q.env[n] \in q.to.objects

SameObjects(q, r) ==
  r.to.objects = q.to.objects /\ r.to.lastId = q.to.lastId /\ r.env = q.env

(* A connection of the file is made, or ends the run.                        *)
LEMMA WireInv ==
  ASSUME NEW q, RunInv(q), NEW k, k[2] \in InletNames, k[3] \in DOMAIN q.env
  PROVE  RunInv(Wire(q, k)) /\ SameObjects(q, Wire(q, k))
<1>1. CASE ~q.ok \/ k[1] \notin DOMAIN q.env
  <2> DEFINE r == [q EXCEPT !.ok = FALSE]
  <2>1. Wire(q, k) = r
    BY <1>1 DEF Wire
  <2>2. r \in Runs /\ r.to = q.to /\ r.env = q.env
    BY DEF RunInv, Runs
  <2> HIDE DEF r
  <2> QED
    BY <2>1, <2>2 DEF RunInv, SameObjects
<1>2. CASE q.ok /\ k[1] \in DOMAIN q.env
  <2> DEFINE t == Connect(q.to, q.env[k[3]], q.env[k[1]], k[2])
             r == [q EXCEPT !.to = t]
  <2>1. Wire(q, k) = r
    BY <1>2 DEF Wire, RunInv, Runs
  <2>2. Inv(t) /\ t.objects = q.to.objects /\ t.lastId = q.to.lastId
    BY <1>2, ConnectInv DEF RunInv, Rewired
  <2>3. t \in Scores
    BY <2>2 DEF Inv
  <2> HIDE DEF t
  <2>4. r \in Runs /\ r.to = t /\ r.env = q.env
    BY <2>3 DEF RunInv, Runs
  <2> HIDE DEF r
  <2> QED
    BY <2>1, <2>2, <2>4 DEF RunInv, SameObjects
<1> QED
  BY <1>1, <1>2

(* The connections of a line are made one after the other.                   *)
LEMMA WireAllInv ==
  ASSUME NEW q, RunInv(q), NEW C, IsFiniteSet(C),
         \A k \in C : k[2] \in InletNames /\ k[3] \in DOMAIN q.env
  PROVE  RunInv(WireAll(q, C)) /\ SameObjects(q, WireAll(q, C))
<1> DEFINE R == {r \in Runs : RunInv(r) /\ SameObjects(q, r)}
           T == [P \in SUBSET C |-> R]
<1>1. ASSUME NEW r \in R, NEW k \in C PROVE Wire(r, k) \in R
  <2>1. RunInv(r) /\ k[2] \in InletNames /\ k[3] \in DOMAIN r.env
    BY DEF SameObjects
  <2>2. RunInv(Wire(r, k)) /\ SameObjects(r, Wire(r, k))
    BY <2>1, WireInv
  <2> QED
    BY <2>2 DEF SameObjects, RunInv
<1>2. q \in R
  BY DEF RunInv, SameObjects
<1> HIDE DEF R
<1>3. \A P \in SUBSET C : \A x \in P : \A v \in T[P \ {x}] : Wire(v, x) \in T[P]
  BY <1>1
<1>4. q \in T[{}] /\ T[C] = R
  BY <1>2
<1> HIDE DEF T
<1>5. WireAll(q, C) \in T[C]
  BY <1>3, <1>4, WireFold
<1> QED
  BY <1>4, <1>5 DEF R

(* A link of the file is made, or ends the run.                              *)
LEMMA TieInv ==
  ASSUME NEW q, RunInv(q), NEW p
  PROVE  RunInv(Tie(q, p))
<1>1. CASE ~q.ok \/ ~({p[1], p[2]} \subseteq DOMAIN q.env)
  <2> DEFINE r == [q EXCEPT !.ok = FALSE]
  <2>1. Tie(q, p) = r
    BY <1>1 DEF Tie
  <2>2. r \in Runs /\ r.to = q.to /\ r.env = q.env
    BY DEF RunInv, Runs
  <2> HIDE DEF r
  <2> QED
    BY <2>1, <2>2 DEF RunInv
<1>2. CASE q.ok /\ {p[1], p[2]} \subseteq DOMAIN q.env
  <2> DEFINE t == AddLink(q.to, q.env[p[1]], q.env[p[2]])
             r == [q EXCEPT !.to = t]
  <2>1. Tie(q, p) = r
    BY <1>2 DEF Tie, RunInv, Runs
  <2>2. Inv(t) /\ t.objects = q.to.objects
    BY <1>2, AddLinkInv DEF RunInv, Retied
  <2>3. t \in Scores
    BY <2>2 DEF Inv
  <2> HIDE DEF t
  <2>4. r \in Runs /\ r.to = t /\ r.env = q.env
    BY <2>3 DEF RunInv, Runs
  <2> HIDE DEF r
  <2> QED
    BY <2>1, <2>2, <2>4 DEF RunInv
<1> QED
  BY <1>1, <1>2

(* The links of the file are made one after the other.                       *)
LEMMA TieAllInv ==
  ASSUME NEW q, RunInv(q), NEW L, IsFiniteSet(L)
  PROVE  RunInv(TieAll(q, L))
<1> DEFINE R == {r \in Runs : RunInv(r)}
           T == [P \in SUBSET L |-> R]
<1>1. \A r \in R : \A p : Tie(r, p) \in R
  BY TieInv DEF RunInv
<1>2. q \in R
  BY DEF RunInv
<1> HIDE DEF R
<1>3. \A P \in SUBSET L : \A x \in P : \A v \in T[P \ {x}] : Tie(v, x) \in T[P]
  BY <1>1
<1>4. q \in T[{}] /\ T[L] = R
  BY <1>2
<1> HIDE DEF T
<1>5. TieAll(q, L) \in T[L]
  BY <1>3, <1>4, TieFold
<1> QED
  BY <1>4, <1>5 DEF R

(* A line makes the object after those of the lines before it.               *)
After(q, m) ==
  q.ok => /\ q.to.objects = 0 .. m - 1
          /\ q.to.lastId = IF m = 0 THEN 0 ELSE m - 1

(* The object of a line: the number it gets, and the names after it.         *)
LEMMA MadeInv ==
  ASSUME NEW q, RunInv(q), q.ok, NEW m \in Ids, After(q, m), NEW e,
         e.name \in Ids, e.bus \in BOOLEAN, e.error \in BOOLEAN, e.delay \in BOOLEAN
  PROVE  LET t == NewObject(q.to, e.bus)
             r == Made(t, q.env, e)
         IN  /\ FreeId(q.to) = m
             /\ r.to = SetDelay(Edited(t, m, e.error), m, e.delay)
             /\ RunInv(r) /\ r.to.objects = 0 .. m /\ r.to.lastId = m
             /\ r.to.links = q.to.links
             /\ \A x \in r.to.busses : x \in q.to.busses \/ (e.bus /\ x = m)
             /\ e.name \in DOMAIN r.env /\ r.env[e.name] = m
             /\ \A n \in DOMAIN r.env :
                    n = e.name \/ (n \in DOMAIN q.env /\ r.env[n] = q.env[n])
<1> PICK b \in BOOLEAN : b = e.bus
  OBVIOUS
<1> DEFINE s == q.to
           t == NewObject(s, b)
           u == Edited(t, m, e.error)
           w == SetDelay(u, m, e.delay)
           env == [n \in DOMAIN q.env \cup {e.name} |->
                      IF n = e.name THEN m ELSE q.env[n]]
           r == Made(t, q.env, e)
<1>1. Inv(s) /\ s.objects = 0 .. m - 1 /\ s.lastId = (IF m = 0 THEN 0 ELSE m - 1)
  BY DEF RunInv, After
<1>2. m \in 0 .. MaxId /\ MaxId \in Nat
  BY ScoreAssumption DEF Ids
<1>3. FreeId(s) = m
  <2> HIDE DEF s
  <2>1. PICK k : k = FreeId(s)
    OBVIOUS
  <2>2. k \in s.lastId .. (MaxId + 1) /\ k \notin s.objects
        /\ \A j \in s.lastId .. (k - 1) : j \in s.objects
    BY <1>1, <2>1, FreeIdFacts
  <2>3. k \in Int /\ k >= 0
    BY <1>1, <1>2, <2>2
  <2>4. k >= m
    BY <1>1, <1>2, <2>2, <2>3
  <2>5. ~(k > m)
    <3>1. ASSUME k > m PROVE FALSE
      <4>1. m \in s.lastId .. (k - 1)
        BY <1>1, <1>2, <2>2, <2>3, <3>1
      <4>2. m \notin s.objects
        BY <1>1, <1>2
      <4> QED
        BY <2>2, <4>1, <4>2
    <3> QED
      BY <3>1
  <2> QED
    BY <1>2, <2>1, <2>3, <2>4, <2>5
<1> HIDE DEF s
<1>4. /\ Inv(t) /\ t.objects = s.objects \cup {m} /\ t.lastId = m /\ t.links = s.links
      /\ \A x \in t.busses : x \in s.busses \/ (b /\ x = m)
  BY <1>1, <1>3, NewObjectInv
<1> HIDE DEF t
<1>5. Quiet(t, u) /\ Inv(u)
  BY <1>4, EditedQuiet
<1>6. m \in u.objects /\ u.objects = t.objects /\ u.lastId = m
  BY <1>4, <1>5 DEF Quiet
<1> HIDE DEF u
<1>7. Quiet(u, w) /\ Inv(w)
  BY <1>5, <1>6, SetDelayQuiet
<1>8. w.objects = s.objects \cup {m} /\ w.lastId = m /\ w.links = s.links
      /\ w.busses = t.busses
  BY <1>4, <1>5, <1>6, <1>7 DEF Quiet
<1>9. r = [to |-> w, env |-> env, ok |-> TRUE]
  BY <1>4 DEF Made, u
<1> HIDE DEF w
<1>10. /\ env \in Names /\ e.name \in DOMAIN env /\ env[e.name] = m
       /\ \A n \in DOMAIN env :
              n = e.name \/ (n \in DOMAIN q.env /\ env[n] = q.env[n])
  <2>1. q.env \in Names
    BY DEF RunInv, Runs
  <2>2. PICK D \in SUBSET Ids : q.env \in [D -> Ids]
    BY <2>1 DEF Names
  <2>3. env = [n \in D \cup {e.name} |-> IF n = e.name THEN m ELSE q.env[n]]
    BY <2>2
  <2> HIDE DEF env
  <2>4. env \in [D \cup {e.name} -> Ids]
    BY <2>2, <2>3
  <2> QED
    BY <2>2, <2>3, <2>4 DEF Names
<1> HIDE DEF env
<1>11. RunInv(r) /\ r.to = w /\ r.env = env
  <2>1. \A n \in DOMAIN env : env[n] \in w.objects
    BY <1>8, <1>10 DEF RunInv, s
  <2>2. w \in Scores
    BY <1>7 DEF Inv
  <2> QED
    BY <1>7, <1>9, <1>10, <2>1, <2>2 DEF RunInv, Runs
<1> HIDE DEF r
<1>12. s.objects \cup {m} = 0 .. m
  BY <1>1, <1>2
<1>13. t = NewObject(q.to, e.bus)
  BY DEF t, s
<1>14. r = Made(NewObject(q.to, e.bus), q.env, e)
  BY <1>13 DEF r
<1>15. w = SetDelay(Edited(NewObject(q.to, e.bus), m, e.error), m, e.delay)
  BY <1>13 DEF w, u
<1>16. \A x \in w.busses : x \in q.to.busses \/ (e.bus /\ x = m)
  BY <1>4, <1>8 DEF s
<1>17. w.objects = 0 .. m /\ w.lastId = m /\ w.links = q.to.links
  BY <1>8, <1>12 DEF s
<1>18. FreeId(q.to) = m
  BY <1>3 DEF s
<1> QED
  BY <1>10, <1>11, <1>14, <1>15, <1>16, <1>17, <1>18

(* The object a line makes gets the next number, its flags and its           *)
(* connections.                                                              *)
LEMMA RunLineInv ==
  ASSUME NEW q, RunInv(q), NEW m \in Ids, After(q, m), NEW e,
         e.name \in Ids, e.bus \in BOOLEAN, e.error \in BOOLEAN, e.delay \in BOOLEAN,
         IsFiniteSet(e.conn),
         \A k \in e.conn : k[2] \in InletNames /\ k[3] = e.name
  PROVE  RunInv(RunLine(q, e)) /\ After(RunLine(q, e), m + 1)
<1>1. CASE ~q.ok
  BY <1>1 DEF RunLine, After
<1>2. CASE q.ok
  <2> DEFINE r == Made(NewObject(q.to, e.bus), q.env, e)
             v == WireAll(r, e.conn)
  <2>1. /\ RunInv(r) /\ r.to.objects = 0 .. m /\ r.to.lastId = m /\ e.name \in DOMAIN r.env
    BY <1>2, MadeInv
  <2>2. RunLine(q, e) = v
    BY <1>2 DEF RunLine
  <2> HIDE DEF r
  <2>3. RunInv(v) /\ SameObjects(r, v)
    BY <2>1, WireAllInv
  <2>4. v.to.objects = 0 .. m /\ v.to.lastId = m
    BY <2>1, <2>3 DEF SameObjects
  <2> HIDE DEF v
  <2>5. PICK n : n = m + 1
    OBVIOUS
  <2>6. n # 0 /\ n - 1 = m
    BY <2>5, ScoreAssumption DEF Ids
  <2>7. After(v, n)
    BY <2>4, <2>6 DEF After
  <2> QED
    BY <2>2, <2>3, <2>5, <2>7
<1> QED
  BY <1>1, <1>2

(* What a line says of its object is so in the score that is saved.          *)
Tells(s, e) ==
  /\ e.bus = (e.name \in s.busses)
  /\ e.delay = (e.name \in s.delayed) /\ e.error = (e.name \in s.failing)
  /\ e.conn \subseteq s.conn

(* Saving writes lines that a run can deal with, one for each object.        *)
LEMMA DumpLines ==
  ASSUME NEW s, Inv(s)
  PROVE  LET seq == Dump(s).lines IN
         /\ IsFiniteSet(DOMAIN seq) /\ DOMAIN seq \subseteq Nat
         /\ Cardinality(DOMAIN seq) \in Nat /\ Cardinality(DOMAIN seq) <= MaxId + 1
         /\ \A n \in DOMAIN seq :
                /\ seq[n].name \in Ids /\ seq[n].bus \in BOOLEAN /\ seq[n].error \in BOOLEAN
                /\ seq[n].delay \in BOOLEAN /\ IsFiniteSet(seq[n].conn)
                /\ \A k \in seq[n].conn : k[2] \in InletNames /\ k[3] = seq[n].name
                /\ Tells(s, seq[n])
<1> DEFINE tree == ScoreTree(s)
           line(o) == [ name |-> o, bus |-> o \in s.busses,
                        delay |-> o \in s.delayed, error |-> o \in s.failing,
                        conn |-> {k \in s.conn : k[3] = o} ]
           seq == Dump(s).lines
<1>1. seq = [n \in DOMAIN tree |-> line(tree[n])]
  BY DEF Dump
<1>2. tree \in Lists(s.objects) /\ s.objects \in SUBSET Ids
  <2>1. {o \in s.objects : ~HasParents(s, o)} \subseteq s.objects
    OBVIOUS
  <2>2. s.objects \in SUBSET Ids
    BY DEF Inv, Scores
  <2> QED
    BY <2>1, <2>2, TreesStay DEF ScoreTree
<1> HIDE DEF tree
<1>3. Len(tree) \in Nat /\ Len(tree) <= MaxId + 1
  BY <1>2, ListLength
<1>4. tree \in Seq(s.objects) /\ DOMAIN tree = 1 .. Len(tree)
  BY <1>2 DEF Lists
<1>5. IsFiniteSet(DOMAIN tree) /\ DOMAIN tree \subseteq Nat
      /\ \A n \in DOMAIN tree : tree[n] \in s.objects
  BY <1>4, ListDomain
<1>6. Cardinality(1 .. Len(tree)) = Len(tree)
  <2>1. PICK n : n = Len(tree)
    OBVIOUS
  <2>2. n \in Nat
    BY <1>3, <2>1
  <2>3. Cardinality(1 .. n) = n
    BY <2>2, FS_Interval
  <2> QED
    BY <2>1, <2>3
<1>7. ASSUME NEW o \in s.objects
      PROVE  /\ line(o).name \in Ids /\ line(o).bus \in BOOLEAN /\ line(o).error \in BOOLEAN
             /\ line(o).delay \in BOOLEAN /\ IsFiniteSet(line(o).conn)
             /\ \A k \in line(o).conn : k[2] \in InletNames /\ k[3] = line(o).name
             /\ Tells(s, line(o))
  <2>1. IsFiniteSet(s.conn)
    BY DEF Inv
  <2>2. {k \in s.conn : k[3] = o} \subseteq s.conn
    OBVIOUS
  <2>3. IsFiniteSet({k \in s.conn : k[3] = o})
    BY <2>1, <2>2, FS_Subset
  <2>4. \A k \in s.conn : k[2] \in InletNames
    BY ConnectionShape
  <2> QED
    BY <1>2, <2>3, <2>4 DEF Tells
<1> HIDE DEF line
<1>8. DOMAIN seq = DOMAIN tree /\ \A n \in DOMAIN seq : seq[n] = line(tree[n])
  BY <1>1
<1> HIDE DEF seq
<1>9. \A n \in DOMAIN seq : tree[n] \in s.objects
  BY <1>5, <1>8
<1>10. \A n \in DOMAIN seq :
                /\ seq[n].name \in Ids /\ seq[n].bus \in BOOLEAN /\ seq[n].error \in BOOLEAN
                /\ seq[n].delay \in BOOLEAN /\ IsFiniteSet(seq[n].conn)
                /\ \A k \in seq[n].conn : k[2] \in InletNames /\ k[3] = seq[n].name
                /\ Tells(s, seq[n])
  BY <1>7, <1>8, <1>9
<1>11. Cardinality(DOMAIN seq) = Len(tree)
  BY <1>4, <1>6, <1>8
<1>12. /\ IsFiniteSet(DOMAIN seq) /\ DOMAIN seq \subseteq Nat
       /\ Cardinality(DOMAIN seq) \in Nat /\ Cardinality(DOMAIN seq) <= MaxId + 1
  BY <1>3, <1>5, <1>8, <1>11
<1> QED
  BY <1>10, <1>12 DEF seq

(* Running the lines makes the objects 0, 1, ... in turn.                    *)
LEMMA RunLinesInv ==
  ASSUME NEW q, RunInv(q), After(q, 0), NEW seq,
         IsFiniteSet(DOMAIN seq), DOMAIN seq \subseteq Nat,
         Cardinality(DOMAIN seq) \in Nat, Cardinality(DOMAIN seq) <= MaxId + 1,
         \A n \in DOMAIN seq :
             /\ seq[n].name \in Ids /\ seq[n].bus \in BOOLEAN /\ seq[n].error \in BOOLEAN
             /\ seq[n].delay \in BOOLEAN /\ IsFiniteSet(seq[n].conn)
             /\ \A k \in seq[n].conn : k[2] \in InletNames /\ k[3] = seq[n].name,
         NEW G, q \in G[{}],
         \A P \in SUBSET DOMAIN seq : \A x \in P : (\A y \in P : y <= x) =>
             \A m \in Ids : \A v \in G[P \ {x}] :
                 RunInv(v) /\ After(v, m) => RunLine(v, seq[x]) \in G[P]
  PROVE  RunInv(RunLines(q, seq)) /\ RunLines(q, seq) \in G[DOMAIN seq]
<1> DEFINE D == DOMAIN seq
           T == [P \in SUBSET D |-> {r \in G[P] : RunInv(r) /\ After(r, Cardinality(P))}]
<1>1. ASSUME NEW P \in SUBSET D, NEW x \in P, \A y \in P : y <= x, NEW v \in T[P \ {x}]
      PROVE  RunLine(v, seq[x]) \in T[P]
  <2> DEFINE m == Cardinality(P \ {x})
  <2>1. P \ {x} \in SUBSET D /\ IsFiniteSet(P) /\ IsFiniteSet(P \ {x})
    BY FS_Subset
  <2>2. RunInv(v) /\ After(v, m) /\ v \in G[P \ {x}]
    BY <2>1
  <2>3. Cardinality(P) = m + 1 /\ m \in Nat
    <3>1. Cardinality(P \ {x}) = Cardinality(P) - 1 /\ Cardinality(P) \in Nat
          /\ Cardinality(P \ {x}) \in Nat
      BY <2>1, FS_RemoveElement, FS_CardinalityType
    <3> QED
      BY <3>1
  <2>4. Cardinality(P) <= Cardinality(D)
    BY FS_Subset
  <2>5. m \in Ids
    <3> HIDE DEF m, D
    <3>1. Cardinality(D) \in Nat /\ Cardinality(D) <= MaxId + 1
      BY DEF D
    <3> QED
      BY <2>3, <2>4, <3>1, ScoreAssumption DEF Ids
  <2>6. x \in DOMAIN seq
    OBVIOUS
  <2> HIDE DEF m, T
  <2>7. RunInv(RunLine(v, seq[x])) /\ After(RunLine(v, seq[x]), m + 1)
    BY <2>2, <2>5, <2>6, RunLineInv
  <2>8. RunLine(v, seq[x]) \in {r \in G[P] : RunInv(r) /\ After(r, Cardinality(P))}
    BY <1>1, <2>2, <2>3, <2>5, <2>6, <2>7
  <2> QED
    BY <2>8 DEF T
<1>2. q \in T[{}]
  BY FS_EmptySet
<1>3. T[D] \subseteq {r \in G[D] : RunInv(r)}
  OBVIOUS
<1> HIDE DEF T
<1>4. RunLines(q, seq) \in T[D]
  BY <1>1, <1>2, LinesFold
<1> QED
  BY <1>3, <1>4

(* What a file makes, run to its end or to an error, is in order.            *)
LEMMA ReplayInv ==
  ASSUME NEW s, Inv(s)
  PROVE  RunInv(Replay(Dump(s)))
<1> DEFINE start == [to |-> Hold(Empty), env |-> <<>>, ok |-> TRUE]
           file == Dump(s)
<1>1. Quiet(Empty, Hold(Empty)) /\ Inv(Hold(Empty))
  BY EmptyInv, HoldQuiet
<1>2. <<>> \in Names /\ DOMAIN <<>> = {}
  <2>1. DOMAIN <<>> = {} /\ <<>> \in [{} -> Ids]
    OBVIOUS
  <2>2. {} \in SUBSET Ids
    OBVIOUS
  <2> QED
    BY <2>1, <2>2 DEF Names
<1>3. RunInv(start)
  BY <1>1, <1>2 DEF RunInv, Runs, Inv
<1>4. After(start, 0)
  <2>1. start.to.objects = {} /\ start.to.lastId = 0
    BY <1>1, EmptyInv DEF Quiet
  <2>2. 0 .. 0 - 1 = {}
    OBVIOUS
  <2> QED
    BY <2>1, <2>2 DEF After
<1> HIDE DEF start
<1>5. RunInv(RunLines(start, file.lines))
  <2>1. /\ IsFiniteSet(DOMAIN file.lines) /\ DOMAIN file.lines \subseteq Nat
        /\ Cardinality(DOMAIN file.lines) \in Nat
        /\ Cardinality(DOMAIN file.lines) <= MaxId + 1
        /\ \A n \in DOMAIN file.lines :
                /\ file.lines[n].name \in Ids /\ file.lines[n].bus \in BOOLEAN
                /\ file.lines[n].error \in BOOLEAN
                /\ file.lines[n].delay \in BOOLEAN /\ IsFiniteSet(file.lines[n].conn)
                /\ \A k \in file.lines[n].conn :
                       k[2] \in InletNames /\ k[3] = file.lines[n].name
    BY DumpLines
  <2> HIDE DEF file
  <2> DEFINE G == [P \in SUBSET DOMAIN file.lines |-> Runs]
  <2>2. \A m \in Ids : \A v \in Runs : \A n \in DOMAIN file.lines :
            RunInv(v) /\ After(v, m) => RunLine(v, file.lines[n]) \in Runs
    BY <2>1, RunLineInv DEF RunInv
  <2>3. start \in G[{}]
    BY <1>3 DEF RunInv
  <2>4. \A P \in SUBSET DOMAIN file.lines : \A x \in P : (\A y \in P : y <= x) =>
            \A m \in Ids : \A v \in G[P \ {x}] :
                RunInv(v) /\ After(v, m) => RunLine(v, file.lines[x]) \in G[P]
    BY <2>2
  <2> HIDE DEF G
  <2> QED
    BY <1>3, <1>4, <2>1, <2>3, <2>4, RunLinesInv
<1>6. IsFiniteSet(file.links)
  <2>1. s.objects \in SUBSET Ids
    BY DEF Inv, Scores
  <2>2. file.links \in SUBSET (Ids \X Ids)
    BY <2>1 DEF Dump
  <2> QED
    BY <2>2, PairsFinite
<1> HIDE DEF file
<1>7. RunInv(TieAll(RunLines(start, file.lines), file.links))
  BY <1>5, <1>6, TieAllInv
<1> QED
  BY <1>7 DEF Replay, start, file

(* The score that a file leads to, with the updates let go after it or not.  *)
LEMMA ReopenInv ==
  ASSUME NEW s, Inv(s)
  PROVE  Inv(Loaded(Replay(Dump(s)), s.hold))
<1> DEFINE run == Replay(Dump(s))
           t == run.to
<1>1. Inv(t)
  BY ReplayInv DEF RunInv
<1>2. s.hold \in BOOLEAN
  BY DEF Inv, Scores
<1>3. ScoreTree(t) \in Seq(t.objects)
  <2>1. {o \in t.objects : ~HasParents(t, o)} \subseteq t.objects
    OBVIOUS
  <2> HIDE DEF t
  <2> QED
    BY <1>1, <2>1, TreesStay DEF ScoreTree, Lists
<1>4. Inv(Unhold(t, s.hold, ScoreTree(t)))
  <2> HIDE DEF t
  <2> QED
    BY <1>1, <1>2, <1>3, UnholdQuiet
<1> QED
  BY <1>1, <1>4 DEF Loaded

(* The end of an alignment keeps the invariant, with a link or without.      *)
LEMMA AlignEndInv ==
  ASSUME NEW s, Inv(s), NEW me \in s.objects, NEW target \in s.objects, NEW do_link \in BOOLEAN
  PROVE  /\ Inv(AlignEnd(s, me, target, do_link))
         /\ \E t : /\ Quiet(s, t) /\ Inv(t)
                   /\ AlignEnd(s, me, target, do_link) =
                          IF do_link THEN AddLink(t, me, target) ELSE t
<1> DEFINE u == Moved(s, s.group[me] \ s.busses)
           t == MoveDone(u, me)
<1>1. s.group[me] \ s.busses \subseteq s.objects
  BY GroupIn
<1>2. Quiet(s, u) /\ Inv(u)
  BY <1>1, MovedQuiet
<1>3. me \in u.objects /\ u.objects = s.objects
  BY <1>2 DEF Quiet
<1> HIDE DEF u
<1>4. Quiet(u, t) /\ Inv(t)
  BY <1>2, <1>3, MoveDoneQuiet
<1>5. me \in t.objects /\ target \in t.objects
  BY <1>3, <1>4 DEF Quiet
<1> HIDE DEF t
<1>6. \E L : Retied(t, AddLink(t, me, target), L)
  BY <1>4, <1>5, AddLinkInv
<1>7. Inv(AddLink(t, me, target))
  BY <1>6 DEF Retied
<1>8. Quiet(s, t)
  BY <1>2, <1>4, QuietTrans
<1>9. AlignEnd(s, me, target, do_link) = IF do_link THEN AddLink(t, me, target) ELSE t
  BY DEF AlignEnd, t, u
<1> QED
  BY <1>4, <1>7, <1>8, <1>9

(* An object is destroyed in a score like the one before it, in which the    *)
(* others of its group have moved or not.                                    *)
LEMMA DestroyFacts ==
  ASSUME Inv(score), Destroy
  PROVE  \E t : \E o \in t.objects :
             /\ Quiet(score, t) /\ Inv(t)
             /\ score' = DestroyObject(t, o)
             /\ \/ t = score
                \/ /\ "delete moved" \in Practice
                   /\ \E S : S \subseteq score.objects /\ t = Moved(score, S)
<1>1. PICK o \in score.objects, slid \in BOOLEAN :
          /\ slid => "delete moved" \in Practice
          /\ score' = DestroyObject(IF slid
                                    THEN Moved(score, score.group[o] \ ({o} \cup score.busses))
                                    ELSE score, o)
  BY DEF Destroy
<1>2. CASE slid
  <2>1. PICK S : S = score.group[o] \ ({o} \cup score.busses)
    OBVIOUS
  <2>2. S \subseteq score.objects
    BY <2>1, GroupIn
  <2>3. Quiet(score, Moved(score, S)) /\ Inv(Moved(score, S))
    BY <2>2, MovedQuiet
  <2>4. o \in Moved(score, S).objects
    BY <2>3 DEF Quiet
  <2>5. score' = DestroyObject(Moved(score, S), o)
    BY <1>1, <1>2, <2>1
  <2> QED
    BY <1>1, <1>2, <2>2, <2>3, <2>4, <2>5
<1>3. CASE ~slid
  BY <1>1, <1>3, QuietSelf DEF Inv
<1> QED
  BY <1>2, <1>3

(* Each action keeps the invariant.                                          *)
LEMMA NextInv ==
  ASSUME Inv(score), Next
  PROVE  Inv(score')
<1>0. \A S : S \subseteq score.objects => ListTree(score, S) \in Seq(score.objects)
  BY TreesStay DEF Lists
<1>1. CASE Create
  BY <1>1, NewObjectInv DEF Create
<1>2. CASE Destroy
  BY <1>2, DestroyFacts, DestroyObjectInv
<1>3. CASE Edit
  BY <1>3, EditedQuiet DEF Edit
<1>4. CASE SetDelayUpdate
  BY <1>4, SetDelayQuiet DEF SetDelayUpdate
<1>5. CASE ConnectTo
  <2>1. PICK d \in score.objects, src \in score.objects :
            \E i \in Inlets[d] : score' = Connect(score, d, src, i)
    BY <1>5 DEF ConnectTo
  <2>4. PICK i \in Inlets[d] : score' = Connect(score, d, src, i)
    BY <2>1
  <2>2. i \in InletNames
    <3>1. score.objects \subseteq Ids
      BY DEF Inv, Scores
    <3> QED
      BY <2>4, <3>1 DEF InletNames
  <2>3. Rewired(score, Connect(score, d, src, i), score.conn \cup {<<src, i, d>>})
    BY <2>2, ConnectInv
  <2> QED
    BY <2>4, <2>3 DEF Rewired
<1>6. CASE DisconnectFrom
  <2>1. PICK k \in score.conn : score' = Disconnect(score, k[3], k[1], k[2])
    BY <1>6 DEF DisconnectFrom
  <2>2. k[3] \in score.objects
    BY ConnectionShape
  <2>3. Rewired(score, Disconnect(score, k[3], k[1], k[2]),
                score.conn \ {<<k[1], k[2], k[3]>>})
    BY <2>2, DisconnectInv
  <2> QED
    BY <2>1, <2>3 DEF Rewired
<1>7. CASE Link
  <2>1. PICK o \in score.objects, target \in score.objects :
            score' = AddLink(score, o, target)
    BY <1>7 DEF Link
  <2>2. \E L : Retied(score, AddLink(score, o, target), L)
    BY AddLinkInv
  <2> QED
    BY <2>1, <2>2 DEF Retied
<1>8. CASE Unlink
  BY <1>8, RemoveLinkInv DEF Unlink, Retied
<1>9. CASE Drag
  BY <1>9, DragEndQuiet DEF Drag
<1>10. CASE Align
  <2>1. PICK o \in score.objects, target \in score.objects, do_link \in BOOLEAN :
            score' = AlignEnd(score, o, target, do_link)
    BY <1>10 DEF Align
  <2> QED
    BY <2>1, AlignEndInv
<1>11. CASE ToggleHold
  <2> DEFINE t == [score EXCEPT !.hold = ~@]
  <2>1. score.hold \in BOOLEAN
    BY DEF Inv, Scores
  <2>2. Quiet(score, [score EXCEPT !.hold = ~score.hold])
        /\ Inv([score EXCEPT !.hold = ~score.hold])
    BY <2>1, HoldQuiet
  <2>3. Inv(t)
    BY <2>2
  <2>4. score' = IF t.hold THEN t ELSE UpdateAll(t, ScoreTree(t), FALSE)
    BY <1>11 DEF ToggleHold
  <2> HIDE DEF t
  <2>5. {o \in t.objects : ~HasParents(t, o)} \subseteq t.objects
    OBVIOUS
  <2>6. ScoreTree(t) \in Seq(t.objects)
    BY <2>3, <2>5, TreesStay DEF ScoreTree, Lists
  <2>7. Inv(UpdateAll(t, ScoreTree(t), FALSE))
    BY <2>3, <2>6, UpdateAllQuiet
  <2> QED
    BY <2>3, <2>4, <2>7
<1>12. CASE UpdateButton
  <2>1. {o \in score.objects : ~HasParents(score, o)} \subseteq score.objects
    OBVIOUS
  <2>2. ScoreTree(score) \in Seq(score.objects)
    BY <1>0, <2>1 DEF ScoreTree
  <2> QED
    BY <1>12, <2>2, UpdateAllQuiet DEF UpdateButton
<1>13. CASE UpdateKey
  BY <1>13, UpdateQuiet DEF UpdateKey
<1>14. CASE Reopen
  BY <1>14, ReopenInv DEF Reopen
<1> QED
  BY <1>1, <1>2, <1>3, <1>4, <1>5, <1>6, <1>7, <1>8, <1>9, <1>10, <1>11, <1>12,
     <1>13, <1>14 DEF Next

(* The hulls of the ties are what hangs together with an object by links.    *)
LEMMA HullIsTied ==
  ASSUME NEW s, s.links \in [Ids -> SUBSET Ids], NEW o \in Ids
  PROVE  Hull(Ties(s.links), o) = Tied(s, o)
<1>1. \A y, z \in Ids : <<y, z>> \in Ties(s.links) <=> IsLinked(s, y, z)
  BY DEF Ties, IsLinked
<1>2. ASSUME NEW S \in SUBSET Ids
      PROVE  Closed(Ties(s.links), S) <=> \A y \in S, z \in Ids : IsLinked(s, y, z) => z \in S
  BY <1>1 DEF Closed
<1> QED
  BY <1>2 DEF Hull, Tied

(* The invariant says all that TablesAgree says.                             *)
LEMMA InvAgrees ==
  ASSUME Inv(score)
  PROVE  TablesAgree
<1>1. TypeOK
  BY DEF TypeOK, Inv, Scores
<1>2. ASSUME NEW o \in Ids
      PROVE  score.group[o] = Tied(score, o)
  <2>1. score.group = GroupsOf(Ties(score.links)) /\ score.links \in [Ids -> SUBSET Ids]
    BY DEF Inv, Scores
  <2>2. score.group[o] = Hull(Ties(score.links), o)
    BY <2>1 DEF GroupsOf
  <2> QED
    BY <2>1, <2>2, HullIsTied
<1>3. ASSUME NEW o \in Ids
      PROVE  /\ score.children[o] = Dependants(score, {o})
             /\ score.links[o] \subseteq score.objects
             /\ \A x \in score.links[o] : o \notin score.links[x]
  BY DEF Inv
<1> QED
  BY <1>1, <1>2, <1>3 DEF TablesAgree

(* Whatever is created, destroyed, connected, linked, moved, updated, saved  *)
(* and loaded, by users of any practice: the tables of the score that are    *)
(* kept by hand beside one another say the same.                             *)
THEOREM TablesStayAgreed == Spec => []TablesAgree
<1> DEFINE I == Inv(score)
<1>1. Init => I
  BY EmptyInv DEF Init
<1>2. I /\ [Next]_score => I'
  <2>1. Inv(score) /\ Next => Inv(score')
    BY NextInv
  <2>2. Inv(score) /\ UNCHANGED score => Inv(score')
    OBVIOUS
  <2> QED
    BY <2>1, <2>2
<1>3. I => TablesAgree
  BY InvAgrees
<1> HIDE DEF I
<1> QED
  BY <1>1, <1>2, <1>3, PTL DEF Spec

------------------------------------------------------------------------------
(***************************************************************************)
(* Scores without circles: the trees order what they list.                 *)
(***************************************************************************)

(* No circle: among any objects there is one that takes data from none of    *)
(* them.                                                                     *)
Acyclic(s) ==
  \A S \in SUBSET Ids : S # {} =>
      \E x \in S : \A k \in s.conn : k[3] = x => k[1] \notin S

(* The objects can then be ranked along the connections: by how many lead    *)
(* to them.                                                                  *)
LEMMA RankExists ==
  ASSUME NEW s, Inv(s), Acyclic(s)
  PROVE  \E f \in [Ids -> Ids] : \A x \in Ids : \A y \in s.children[x] : f[x] < f[y]
<1> DEFINE E == {<<k[3], k[1]>> : k \in s.conn}
           A(x) == Hull(E, x)
           f == [x \in Ids |-> Cardinality(A(x)) - 1]
<1>1. ASSUME NEW x \in Ids
      PROVE  A(x) \in SUBSET Ids /\ x \in A(x) /\ Closed(E, A(x))
  BY HullFacts
<1>2. \A x, y : <<y, x>> \in E <=> \E k \in s.conn : k[1] = x /\ k[3] = y
  OBVIOUS
<1>3. \A k \in s.conn : k[1] \in Ids /\ k[3] \in Ids
  BY ConnectionShape
<1>4. \A x \in Ids : s.children[x] = {k[3] : k \in {c \in s.conn : c[1] = x}}
  BY DEF Inv, Dependants
<1> HIDE DEF E
<1>5. ASSUME NEW x \in Ids, NEW y \in s.children[x]
      PROVE  y \in Ids /\ A(x) \subseteq A(y) /\ y \notin A(x)
  <2>1. PICK k \in s.conn : k[1] = x /\ k[3] = y
    BY <1>4
  <2>2. y \in Ids /\ <<y, x>> \in E
    BY <1>2, <1>3, <2>1
  <2>3. x \in A(y)
    BY <1>1, <2>2 DEF Closed
  <2>4. A(x) \subseteq A(y)
    BY <1>1, <2>2, <2>3, HullLeast
  <2>5. ASSUME y \in A(x) PROVE FALSE
    <3> DEFINE S == {z \in A(x) : y \in A(z)}
    <3>1. S \in SUBSET Ids /\ y \in S
      BY <1>1, <2>2, <2>5
    <3>2. PICK z \in S : \A c \in s.conn : c[3] = z => c[1] \notin S
      BY <3>1 DEF Acyclic
    <3>3. \A p : <<z, p>> \in E => p \notin S
      BY <1>2, <3>2
    <3>4. \A p \in Ids : <<z, p>> \in E => p \in A(x)
      BY <1>1, <3>2 DEF Closed
    <3>5. z # y
      <4>1. x \in S
        BY <1>1, <2>5
      <4> QED
        BY <2>2, <3>3, <4>1
    <3> DEFINE G == {z} \cup {u \in Ids : \E p \in Ids : <<z, p>> \in E /\ u \in A(p)}
    <3>6. z \in Ids /\ G \in SUBSET Ids
      BY <3>1
    <3>7. ASSUME NEW u \in G, NEW w \in Ids, <<u, w>> \in E PROVE w \in G
      <4>1. CASE u = z
        BY <1>1, <3>7, <4>1
      <4>2. CASE u # z
        <5>1. PICK p \in Ids : <<z, p>> \in E /\ u \in A(p)
          BY <3>7, <4>2
        <5>2. w \in A(p)
          BY <1>1, <3>7, <5>1 DEF Closed
        <5> QED
          BY <5>1, <5>2
      <4> QED
        BY <4>1, <4>2
    <3>8. Closed(E, G)
      BY <3>7 DEF Closed
    <3>9. A(z) \subseteq G
      BY <3>6, <3>8, HullLeast
    <3>10. PICK p \in Ids : <<z, p>> \in E /\ y \in A(p)
      BY <3>2, <3>5, <3>9
    <3>11. p \in S
      BY <3>4, <3>10
    <3> QED
      BY <3>3, <3>10, <3>11
  <2> QED
    BY <2>2, <2>4, <2>5
<1>6. IsFiniteSet(Ids) /\ Cardinality(Ids) = MaxId + 1 /\ MaxId \in Nat
  BY FS_Interval, ScoreAssumption DEF Ids
<1>7. ASSUME NEW x \in Ids
      PROVE  /\ IsFiniteSet(A(x)) /\ Cardinality(A(x)) \in Nat
             /\ Cardinality(A(x)) > 0 /\ Cardinality(A(x)) <= MaxId + 1
  <2>1. IsFiniteSet(A(x)) /\ Cardinality(A(x)) <= Cardinality(Ids)
    BY <1>1, <1>6, FS_Subset
  <2>2. Cardinality(A(x)) \in Nat /\ A(x) # {}
    BY <1>1, <2>1, FS_CardinalityType
  <2>3. Cardinality(A(x)) # 0
    BY <2>1, <2>2, FS_EmptySet
  <2> QED
    BY <1>6, <2>1, <2>2, <2>3
<1>8. ASSUME NEW x \in Ids, NEW y \in s.children[x]
      PROVE  Cardinality(A(x)) < Cardinality(A(y))
  <2>1. y \in Ids /\ A(x) \in SUBSET A(y) /\ A(x) # A(y)
    BY <1>1, <1>5
  <2>2. Cardinality(A(x)) <= Cardinality(A(y)) /\ Cardinality(A(x)) # Cardinality(A(y))
    BY <1>7, <2>1, FS_Subset
  <2> QED
    BY <1>7, <2>1, <2>2
<1> HIDE DEF A
<1>9. ASSUME NEW x \in Ids PROVE f[x] \in Ids
  BY <1>6, <1>7 DEF Ids
<1>10. ASSUME NEW x \in Ids, NEW y \in s.children[x] PROVE f[x] < f[y]
  BY <1>5, <1>7, <1>8
<1>11. f \in [Ids -> Ids]
  BY <1>9
<1> QED
  BY <1>10, <1>11

(* Lists in which the children of an object, by a table ch, come before it.  *)
Upwards(v, ch) ==
  \A i \in 1 .. Len(v) : \A y \in ch[v[i]] : \E j \in 1 .. Len(v) : j < i /\ v[j] = y
Sorted(ch) == {v \in Lists(Ids) : Upwards(v, ch)}

(* An object whose children are in the list can be added to it.              *)
LEMMA AddedSorted ==
  ASSUME NEW ch, NEW v \in Sorted(ch), NEW o \in Ids, ch[o] \subseteq Range(v)
  PROVE  Added(v, o) \in Sorted(ch) /\ Range(Added(v, o)) = Range(v) \cup {o}
<1>1. v \in Lists(Ids) /\ v \in Seq(Ids) /\ Len(v) \in Nat /\ DOMAIN v = 1 .. Len(v)
  BY DEF Sorted, Lists
<1>2. Added(v, o) \in Lists(Ids)
  BY <1>1, AddedToList DEF Added
<1>3. CASE Contains(v, o)
  BY <1>1, <1>3 DEF Added, Contains, Range
<1>4. CASE ~Contains(v, o)
  <2> DEFINE w == Append(v, o)
  <2>1. Added(v, o) = w
    BY <1>4 DEF Added
  <2>2. Len(w) = Len(v) + 1 /\ w[Len(v) + 1] = o /\ \A i \in 1 .. Len(v) : w[i] = v[i]
    BY <1>1
  <2>3. DOMAIN w = 1 .. Len(v) + 1
    BY <1>1
  <2>4. 1 .. Len(v) + 1 = (1 .. Len(v)) \cup {Len(v) + 1}
    BY <1>1
  <2> HIDE DEF w
  <2>5. Range(w) = Range(v) \cup {o}
    BY <1>1, <2>2, <2>3, <2>4 DEF Range
  <2>6. ASSUME NEW i \in 1 .. Len(v) + 1, NEW y \in ch[w[i]]
        PROVE  \E j \in 1 .. Len(v) + 1 : j < i /\ w[j] = y
    <3>1. CASE i \in 1 .. Len(v)
      <4>1. PICK j \in 1 .. Len(v) : j < i /\ v[j] = y
        BY <2>2, <2>6, <3>1 DEF Sorted, Upwards
      <4> QED
        BY <2>2, <2>4, <4>1
    <3>2. CASE i = Len(v) + 1
      <4>1. y \in Range(v)
        BY <2>2, <2>6, <3>2
      <4>2. PICK j \in 1 .. Len(v) : v[j] = y
        BY <1>1, <4>1 DEF Range
      <4> QED
        BY <1>1, <2>2, <2>4, <3>2, <4>2
    <3> QED
      BY <2>4, <3>1, <3>2
  <2>7. Upwards(w, ch)
    BY <2>2, <2>6 DEF Upwards
  <2> QED
    BY <1>2, <2>1, <2>5, <2>7 DEF Sorted
<1> QED
  BY <1>3, <1>4

(* A walk from o keeps the order, loses nothing and gets to o.               *)
Reaches(walks, ch, o) ==
  \A v \in Sorted(ch) : /\ walks[o][v] \in Sorted(ch)
                        /\ Range(v) \cup {o} \subseteq Range(walks[o][v])

(* So do the walks from all objects of S.                                    *)
LEMMA FollowingSorted ==
  ASSUME NEW ch, NEW S \in SUBSET Ids, NEW walks, \A o \in S : Reaches(walks, ch, o),
         NEW seen \in Sorted(ch)
  PROVE  /\ Following(walks, seen, S) \in Sorted(ch)
         /\ Range(seen) \cup S \subseteq Range(Following(walks, seen, S))
<1> DEFINE T == [P \in SUBSET S |-> {v \in Sorted(ch) : Range(seen) \cup P \subseteq Range(v)}]
<1>1. IsFiniteSet(S) /\ S \subseteq Nat
  BY ObjectsFinite
<1>2. ASSUME NEW P \in SUBSET S, NEW x \in P, NEW v \in T[P \ {x}]
      PROVE  walks[x][v] \in T[P]
  <2>1. P \ {x} \in SUBSET S
    OBVIOUS
  <2>2. v \in Sorted(ch) /\ Range(seen) \cup (P \ {x}) \subseteq Range(v)
    BY <2>1
  <2>3. walks[x][v] \in Sorted(ch) /\ Range(v) \cup {x} \subseteq Range(walks[x][v])
    BY <2>2 DEF Reaches
  <2> QED
    BY <2>2, <2>3
<1>3. seen \in T[{}] /\ T[S] = {v \in Sorted(ch) : Range(seen) \cup S \subseteq Range(v)}
  OBVIOUS
<1> HIDE DEF T
<1>4. Following(walks, seen, S) \in T[S]
  BY <1>1, <1>2, <1>3, FollowingFold
<1> QED
  BY <1>3, <1>4

(* And the walks of a score, when the table has a rank: those from objects   *)
(* of high rank need not go deep.                                            *)
LEMMA WalksSorted ==
  ASSUME NEW s \in Scores, NEW skip, NEW ch, ch = [x \in Ids |-> s.children[x] \ skip],
         NEW f \in [Ids -> Ids], \A x \in Ids : \A y \in ch[x] : f[x] < f[y]
  PROVE  \A o \in Ids : Reaches(Walks(s, skip), ch, o)
<1>1. PICK it : Levels(s, skip, it)
  BY WalkLevels
<1>2. \A o \in Ids : ch[o] \in SUBSET Ids /\ ch[o] = s.children[o] \ skip
  BY DEF Scores
<1>3. Sorted(ch) \subseteq Seq(Ids)
  BY DEF Sorted, Lists
<1>4. MaxId \in Nat /\ \A o \in Ids : f[o] \in Nat /\ f[o] <= MaxId
  BY ScoreAssumption DEF Ids
<1> DEFINE H == {n \in Nat : n \in Ids =>
                   \A o \in Ids : f[o] + n >= MaxId => Reaches(it[n], ch, o)}
<1>5. 0 \in H
  <2>1. ASSUME NEW o \in Ids, f[o] + 0 >= MaxId, NEW v \in Sorted(ch)
        PROVE  it[0][o][v] \in Sorted(ch) /\ Range(v) \cup {o} \subseteq Range(it[0][o][v])
    <3>1. ch[o] = {}
      <4>1. ASSUME NEW y \in ch[o] PROVE FALSE
        <5>1. y \in Ids /\ f[o] < f[y]
          BY <1>2
        <5> QED
          BY <1>4, <2>1, <5>1
      <4> QED
        BY <4>1
    <3>2. it[0][o][v] = Added(v, o)
      BY <1>1, <1>3 DEF Levels
    <3> QED
      BY <3>1, <3>2, AddedSorted
  <2> QED
    BY <2>1 DEF Reaches
<1>6. ASSUME NEW n \in Nat, n \in H PROVE n + 1 \in H
  <2>1. PICK m : m = n + 1
    OBVIOUS
  <2>2. m \in Ids => n \in Ids /\ m \in Ids \ {0} /\ m - 1 = n
    BY <2>1, ScoreAssumption DEF Ids
  <2>3. ASSUME m \in Ids, NEW o \in Ids, f[o] + m >= MaxId, NEW v \in Sorted(ch)
        PROVE  it[m][o][v] \in Sorted(ch) /\ Range(v) \cup {o} \subseteq Range(it[m][o][v])
    <3> DEFINE u == Following(it[n], v, ch[o])
    <3>1. ASSUME NEW y \in ch[o] PROVE Reaches(it[n], ch, y)
      <4>1. y \in Ids /\ f[o] < f[y]
        BY <1>2
      <4>2. f[y] + n >= MaxId
        BY <1>4, <2>1, <2>3, <4>1
      <4> QED
        BY <1>6, <2>2, <2>3, <4>1, <4>2
    <3>2. u \in Sorted(ch) /\ Range(v) \cup ch[o] \subseteq Range(u)
      BY <1>2, <3>1, FollowingSorted
    <3>3. v \in Seq(Ids)
      BY <1>3
    <3>4. it[m][o][v] = Added(Following(it[m - 1], v, s.children[o] \ skip), o)
      BY <1>1, <2>2, <2>3, <3>3 DEF Levels
    <3>5. it[m][o][v] = Added(u, o)
      BY <1>2, <2>2, <2>3, <3>4
    <3> HIDE DEF u
    <3>6. Added(u, o) \in Sorted(ch) /\ Range(Added(u, o)) = Range(u) \cup {o}
      BY <3>2, AddedSorted
    <3> QED
      BY <3>2, <3>5, <3>6
  <2> QED
    BY <2>1, <2>3 DEF Reaches
<1>7. MaxId \in H /\ MaxId \in Ids
  <2> HIDE DEF H
  <2>1. Nat \subseteq H
    BY <1>5, <1>6, NatInd
  <2>2. MaxId \in Nat /\ MaxId \in Ids
    BY ScoreAssumption DEF Ids
  <2> QED
    BY <2>1, <2>2
<1>8. \A o \in Ids : f[o] + MaxId >= MaxId
  BY <1>4
<1> QED
  BY <1>1, <1>7, <1>8 DEF Levels

(* Lists of objects in which an object comes before its children, all of     *)
(* which are in the list: what the trees of the score are.                   *)
Downwards(v, ch) ==
  \A i \in 1 .. Len(v) : \A y \in ch[v[i]] : \E j \in 1 .. Len(v) : i < j /\ v[j] = y
Orders(s) == {v \in Lists(s.objects) : Downwards(v, s.children)}

(* A list read backwards is ordered the other way round.                     *)
LEMMA ReversedOrder ==
  ASSUME NEW K, NEW v \in Lists(K), NEW ch, Upwards(v, ch)
  PROVE  Downwards(Reverse(v), ch) /\ Range(Reverse(v)) = Range(v)
<1> DEFINE w == Reverse(v)
           n == Len(v)
<1>1. v \in Seq(K) /\ n \in Nat /\ DOMAIN v = 1 .. n
  BY DEF Lists
<1>2. w = [i \in 1 .. n |-> v[(n - i) + 1]]
  BY DEF Reverse
<1>3. Len(w) = n /\ DOMAIN w = 1 .. n /\ \A i \in 1 .. n : w[i] = v[(n - i) + 1]
  BY <1>1, <1>2
<1> HIDE DEF w
<1>4. \A i \in 1 .. n : (n - i) + 1 \in 1 .. n /\ (n - ((n - i) + 1)) + 1 = i
  BY <1>1
<1> HIDE DEF n
<1>5. \A i \in 1 .. n : w[(n - i) + 1] = v[i]
  BY <1>3, <1>4
<1>6. ASSUME NEW i \in 1 .. n, NEW y \in ch[w[i]]
      PROVE  \E j \in 1 .. n : i < j /\ w[j] = y
  <2>1. PICK k : k = (n - i) + 1
    OBVIOUS
  <2>2. k \in 1 .. n /\ w[i] = v[k]
    BY <1>3, <1>4, <2>1
  <2>3. PICK j \in 1 .. n : j < k /\ v[j] = y
    BY <1>6, <2>2 DEF Upwards, n
  <2>4. (n - j) + 1 \in 1 .. n /\ w[(n - j) + 1] = y
    BY <1>4, <1>5, <2>3
  <2>5. i < (n - j) + 1
    BY <1>1, <2>1, <2>2, <2>3
  <2> QED
    BY <2>4, <2>5
<1>7. Range(w) = Range(v)
  BY <1>1, <1>3, <1>4, <1>5 DEF Range
<1> QED
  BY <1>3, <1>6, <1>7 DEF Downwards, w

(* What an order of updates says of the objects in it.                       *)
LEMMA OrderFacts ==
  ASSUME NEW s, NEW v \in Orders(s)
  PROVE  /\ v \in Seq(s.objects) /\ DOMAIN v = 1 .. Len(v) /\ Len(v) \in Nat
         /\ Range(v) \subseteq s.objects
         /\ \A x \in Range(v) : s.children[x] \subseteq Range(v)
         /\ \A i \in DOMAIN v : \A x \in Range(v) :
                v[i] \in s.children[x] => \E j \in DOMAIN v : j < i /\ v[j] = x
<1>1. v \in Seq(s.objects) /\ DOMAIN v = 1 .. Len(v) /\ Len(v) \in Nat
  BY DEF Orders, Lists
<1>2. Range(v) \subseteq s.objects
  BY <1>1 DEF Range
<1>3. \A x \in Range(v) : s.children[x] \subseteq Range(v)
  BY <1>1 DEF Orders, Downwards, Range
<1>4. ASSUME NEW i \in DOMAIN v, NEW x \in Range(v), v[i] \in s.children[x]
      PROVE  \E j \in DOMAIN v : j < i /\ v[j] = x
  <2>1. PICK j \in DOMAIN v : v[j] = x
    BY DEF Range
  <2>2. PICK k \in 1 .. Len(v) : j < k /\ v[k] = v[i]
    BY <1>1, <1>4, <2>1 DEF Orders, Downwards
  <2>3. k = i
    BY <1>1, <2>2 DEF Orders, Lists
  <2> QED
    BY <2>1, <2>2, <2>3
<1> QED
  BY <1>1, <1>2, <1>3, <1>4

(* The trees of the score are such orders: of an object, of a list and of    *)
(* the score, in which every object is.                                      *)
LEMMA TreeOrders ==
  ASSUME NEW s, Inv(s), Acyclic(s)
  PROVE  /\ \A o \in s.objects :
                ObjectTree(s, o) \in Orders(s) /\ o \in Range(ObjectTree(s, o))
         /\ \A S : S \subseteq s.objects =>
                ListTree(s, S) \in Orders(s) /\ S \subseteq Range(ListTree(s, S))
         /\ ScoreTree(s) \in Orders(s) /\ Range(ScoreTree(s)) = s.objects
<1>1. s \in Scores /\ s.objects \in SUBSET Ids /\ s.children \in [Ids -> SUBSET Ids]
      /\ \A o \in Ids : s.children[o] = Dependants(s, {o})
  BY DEF Inv, Scores
<1>2. PICK f \in [Ids -> Ids] : \A x \in Ids : \A y \in s.children[x] : f[x] < f[y]
  BY RankExists
<1>3. \A n \in Ids : n \in Nat
  BY ScoreAssumption DEF Ids
<1>4. \A x \in Ids : s.children[x] \subseteq s.objects
  BY <1>1 DEF Inv, Dependants
<1>5. \A ch : <<>> \in Sorted(ch)
  BY DEF Sorted, Lists, Upwards
<1>6. <<>> \in Lists(s.objects)
  BY DEF Lists
<1>7. ASSUME NEW o \in s.objects
      PROVE  ObjectTree(s, o) \in Orders(s) /\ o \in Range(ObjectTree(s, o))
  <2> DEFINE ch == [x \in Ids |-> s.children[x] \ {o}]
             K == {x \in s.objects : f[o] <= f[x]}
             v == Walks(s, {o})[o][<<>>]
  <2>1. \A x \in Ids : \A y \in ch[x] : f[x] < f[y]
    BY <1>2
  <2> HIDE DEF ch
  <2>2. Reaches(Walks(s, {o}), ch, o)
    BY <1>1, <1>2, <2>1, WalksSorted DEF ch
  <2>3. v \in Sorted(ch) /\ o \in Range(v)
    BY <1>5, <2>2 DEF Reaches
  <2>4. o \in K /\ K \in SUBSET Ids
    BY <1>1, <1>2, <1>3
  <2>5. ASSUME NEW x \in K, NEW y \in s.children[x] PROVE y \in K /\ y # o
    <3>1. x \in Ids /\ y \in s.objects /\ y \in Ids /\ o \in Ids
      BY <1>1, <1>4, <2>4
    <3>2. f[x] < f[y] /\ f[o] <= f[x] /\ f[x] \in Nat /\ f[y] \in Nat /\ f[o] \in Nat
      BY <1>2, <1>3, <2>5, <3>1
    <3> QED
      BY <3>1, <3>2
  <2> HIDE DEF K
  <2>6. \A x \in K : s.children[x] \subseteq K
    BY <2>5
  <2>7. WalksIn(Walks(s, {o}), K)
    BY <1>1, <2>4, <2>6, WalksStay
  <2>8. <<>> \in Lists(K)
    BY DEF Lists
  <2>9. v \in Lists(K)
    BY <2>4, <2>7, <2>8 DEF WalksIn
  <2> HIDE DEF v
  <2>10. DOMAIN v = 1 .. Len(v) /\ \A i \in 1 .. Len(v) : v[i] \in K /\ v[i] \in Ids
    BY <2>4, <2>9 DEF Lists
  <2>11. \A i \in 1 .. Len(v) : ch[v[i]] = s.children[v[i]]
    <3>1. \A x \in K : ch[x] = s.children[x]
      BY <2>4, <2>5 DEF ch
    <3> QED
      BY <2>10, <3>1
  <2>12. Upwards(v, s.children)
    BY <2>3, <2>11 DEF Sorted, Upwards
  <2>13. Downwards(Reverse(v), s.children) /\ Range(Reverse(v)) = Range(v)
    BY <2>9, <2>12, ReversedOrder
  <2>14. ObjectTree(s, o) = Reverse(v)
    BY DEF ObjectTree, v
  <2>15. ObjectTree(s, o) \in Lists(s.objects)
    BY TreesStay
  <2> QED
    BY <2>3, <2>13, <2>14, <2>15 DEF Orders
<1>8. ASSUME NEW S, S \subseteq s.objects
      PROVE  ListTree(s, S) \in Orders(s) /\ S \subseteq Range(ListTree(s, S))
  <2> DEFINE ch == [x \in Ids |-> s.children[x] \ {}]
             v == Following(Walks(s, {}), <<>>, S)
  <2>1. ch = s.children
    BY <1>1
  <2>2. \A o \in Ids : Reaches(Walks(s, {}), ch, o)
    <3>1. \A x \in Ids : \A y \in ch[x] : f[x] < f[y]
      BY <1>2, <2>1
    <3> HIDE DEF ch
    <3> QED
      BY <1>1, <1>2, <3>1, WalksSorted DEF ch
  <2> HIDE DEF ch
  <2>3. S \in SUBSET Ids
    BY <1>1, <1>8
  <2>4. v \in Sorted(ch) /\ S \subseteq Range(v)
    BY <1>5, <2>2, <2>3, FollowingSorted
  <2> HIDE DEF v
  <2>5. Downwards(Reverse(v), s.children) /\ Range(Reverse(v)) = Range(v)
    BY <2>1, <2>4, ReversedOrder DEF Sorted
  <2>6. ListTree(s, S) = Reverse(v)
    BY DEF ListTree, v
  <2>7. ListTree(s, S) \in Lists(s.objects)
    BY <1>8, TreesStay
  <2> QED
    BY <2>4, <2>5, <2>6, <2>7 DEF Orders
<1>9. ScoreTree(s) \in Orders(s) /\ Range(ScoreTree(s)) = s.objects
  <2> DEFINE tops == {o \in s.objects : ~HasParents(s, o)}
             v == ScoreTree(s)
             S == s.objects \ Range(v)
  <2>1. v \in Orders(s) /\ tops \subseteq Range(v)
    BY <1>8 DEF ScoreTree
  <2> HIDE DEF v
  <2>2. Range(v) \subseteq s.objects /\ \A x \in Range(v) : s.children[x] \subseteq Range(v)
    BY <2>1, OrderFacts
  <2>3. ASSUME S # {} PROVE FALSE
    <3>1. PICK x \in S : \A k \in s.conn : k[3] = x => k[1] \notin S
      BY <1>1, <2>3 DEF Acyclic
    <3>2. HasParents(s, x)
      BY <2>1, <3>1
    <3>3. PICK k \in s.conn : k[3] = x
      BY <3>2 DEF HasParents, Sources
    <3>4. k[1] \in s.objects /\ k[1] \in Ids
      BY <3>3, ConnectionShape
    <3>5. x \in s.children[k[1]]
      BY <1>1, <3>3, <3>4 DEF Dependants
    <3>6. k[1] \in Range(v)
      BY <3>1, <3>3, <3>4
    <3> QED
      BY <2>2, <3>1, <3>5, <3>6
  <2> QED
    BY <2>1, <2>2, <2>3 DEF v
<1> QED
  BY <1>7, <1>8, <1>9

------------------------------------------------------------------------------
(***************************************************************************)
(* What an update leaves waiting, and what it leaves stale.                *)
(***************************************************************************)

(* What an update keeps: all but what waits and what is stale.               *)
Updated(s, t) ==
  /\ Quiet(s, t)
  /\ t.hold = s.hold /\ t.delayed = s.delayed /\ t.failing = s.failing

(* What an update leaves as it was.                                          *)
LEMMA UpdatedFacts ==
  ASSUME NEW s, NEW t, Inv(s), Updated(s, t)
  PROVE  /\ Inv(t) /\ t.conn = s.conn /\ t.objects = s.objects
         /\ t.children = s.children
         /\ Acyclic(s) => Acyclic(t)
         /\ \A o : Sources(t, o) = Sources(s, o)
         /\ \A u : Updated(t, u) => Updated(s, u)
BY QuietInv, QuietTrans DEF Updated, Quiet, Acyclic, Sources

(* Setting what waits and what is stale.                                     *)
Repainted(s, P, S) == [s EXCEPT !.pending = P, !.stale = S]

(* Flags of what waits and what is stale, set for objects of the score, are  *)
(* such a change.                                                            *)
LEMMA RepaintedFacts ==
  ASSUME NEW s, Inv(s), NEW P, P \subseteq s.objects, NEW S, S \subseteq s.objects
  PROVE  /\ Updated(s, Repainted(s, P, S))
         /\ Repainted(s, P, S).pending = P /\ Repainted(s, P, S).stale = S
<1> DEFINE t == [s EXCEPT !.pending = P, !.stale = S]
<1>1. t \in Scores
  BY DEF Inv, Scores
<1>2. Updated(s, t) /\ t.pending = P /\ t.stale = S
  BY <1>1 DEF Updated, Quiet, Inv, Scores
<1> HIDE DEF t
<1> QED
  BY <1>2 DEF Repainted, t

(* update_now, of an object whose script has no error: it is up to date if   *)
(* its sources are.                                                          *)
LEMMA UpdateNowFlags ==
  ASSUME NEW s, Inv(s), s.failing = {}, NEW o
  PROVE  LET t == UpdateNow(s, o) IN
         /\ Updated(s, t)
         /\ t.pending = s.pending \ {o} /\ t.stale \subseteq s.stale
         /\ Sources(s, o) \cap s.stale = {} => o \notin t.stale
<1> DEFINE P == s.pending \ {o}
           S == IF Sources(s, o) \cap s.stale = {} THEN s.stale \ {o} ELSE s.stale
<1>1. P \subseteq s.objects /\ S \subseteq s.objects
  BY DEF Inv
<1>2. UpdateNow(s, o) = [s EXCEPT !.pending = P, !.stale = S]
  BY DEF UpdateNow
<1>3. S \subseteq s.stale /\ (Sources(s, o) \cap s.stale = {} => o \notin S)
  OBVIOUS
<1> DEFINE t == UpdateNow(s, o)
<1> HIDE DEF S, P, t
<1>4. Updated(s, t) /\ t.pending = P /\ t.stale = S
  <2>1. t = Repainted(s, P, S)
    BY <1>2 DEF t, Repainted
  <2> QED
    BY <1>1, <2>1, RepaintedFacts
<1> QED
  BY <1>3, <1>4 DEF P, t

(* The objects an update of me gets to, and those it has to leave waiting.   *)
Covered(s, me, co) == Range(ObjectTree(s, me)) \ (IF co = 1 THEN {me} ELSE {})
Waits(s, me, co) ==
  (IF s.hold THEN s.objects ELSE s.delayed) \ (IF co = -1 THEN {me} ELSE {})

(* A step of an update marks the object or updates it.                       *)
LEMMA UpdateStepFlags ==
  ASSUME NEW s, Inv(s), s.failing = {}, NEW o \in s.objects, NEW me, NEW co \in {-1, 0, 1},
         NEW q, q \in [to : Scores, stop : BOOLEAN], Updated(s, q.to), ~q.stop
  PROVE  LET r == UpdateStep(q, o, me, co) IN
         /\ r \in [to : Scores, stop : BOOLEAN] /\ Updated(s, r.to) /\ ~r.stop
         /\ r.to.stale \subseteq q.to.stale
         /\ co = 1 /\ o = me => r.to.pending = q.to.pending
         /\ ~(co = 1 /\ o = me) /\ o \in Waits(s, me, co)
                => r.to.pending = q.to.pending \cup {o}
         /\ ~(co = 1 /\ o = me) /\ o \notin Waits(s, me, co)
                => /\ r.to.pending = q.to.pending \ {o}
                   /\ Sources(s, o) \cap q.to.stale = {} => o \notin r.to.stale
<1> DEFINE t == q.to
           r == UpdateStep(q, o, me, co)
<1>1. /\ Inv(t) /\ t \in Scores /\ t.objects = s.objects /\ t.failing = {}
      /\ t.hold = s.hold /\ t.delayed = s.delayed /\ Sources(t, o) = Sources(s, o)
      /\ \A u : Updated(t, u) => Updated(s, u) /\ u \in Scores
  <2>1. /\ Inv(t) /\ t.objects = s.objects /\ Sources(t, o) = Sources(s, o)
        /\ \A u : Updated(t, u) => Updated(s, u)
    BY UpdatedFacts
  <2>2. t \in Scores /\ t.failing = {} /\ t.hold = s.hold /\ t.delayed = s.delayed
    BY DEF Updated, Quiet
  <2>3. \A u : Updated(t, u) => u \in Scores
    BY DEF Updated, Quiet
  <2> QED
    BY <2>1, <2>2, <2>3
<1>2. CASE co = 1 /\ o = me
  BY <1>2 DEF UpdateStep
<1>3. CASE ~(co = 1 /\ o = me) /\ o \in Waits(s, me, co)
  <2> DEFINE u == [t EXCEPT !.pending = t.pending \cup {o}]
  <2>1. o \in q.to.delayed \/ q.to.hold
    BY <1>1, <1>3 DEF Waits
  <2>2. co >= 0 \/ o # me
    BY <1>3 DEF Waits
  <2>3. r = [q EXCEPT !.to = u]
    BY <1>3, <2>1, <2>2 DEF UpdateStep
  <2>4. u = Repainted(t, t.pending \cup {o}, t.stale)
    BY <1>1 DEF Scores, Repainted
  <2>5. t.pending \cup {o} \subseteq t.objects /\ t.stale \subseteq t.objects
    BY <1>1 DEF Inv
  <2> HIDE DEF t, u
  <2>6. Updated(t, u) /\ u.pending = t.pending \cup {o} /\ u.stale = t.stale
    BY <1>1, <2>4, <2>5, RepaintedFacts
  <2>7. r.to = u /\ r.stop = q.stop /\ r = [to |-> u, stop |-> q.stop]
    BY <2>3
  <2> HIDE DEF r
  <2> QED
    BY <1>1, <1>3, <2>6, <2>7 DEF t, r
<1>4. CASE ~(co = 1 /\ o = me) /\ o \notin Waits(s, me, co)
  <2> DEFINE u == UpdateNow(t, o)
  <2>1. ~((o \in q.to.delayed \/ q.to.hold) /\ (co >= 0 \/ o # me))
    BY <1>1, <1>4 DEF Waits
  <2>2. r = [to |-> u, stop |-> FALSE]
    <3>1. r = [to |-> u, stop |-> o \in q.to.failing]
      BY <1>4, <2>1 DEF UpdateStep
    <3>2. (o \in q.to.failing) = FALSE
      BY <1>1
    <3> QED
      BY <3>1, <3>2
  <2> HIDE DEF t
  <2>3. /\ Updated(t, u) /\ u.pending = t.pending \ {o} /\ u.stale \subseteq t.stale
        /\ Sources(t, o) \cap t.stale = {} => o \notin u.stale
    BY <1>1, UpdateNowFlags
  <2> HIDE DEF u
  <2>4. r.to = u /\ r.stop = FALSE
    BY <2>2
  <2> HIDE DEF r
  <2> QED
    BY <1>1, <1>4, <2>2, <2>3, <2>4 DEF t, r
<1> QED
  BY <1>2, <1>3, <1>4

(* When an update of me begins, what is out of date elsewhere waits, but     *)
(* held back updates aside only by its own delay_update, and what does has   *)
(* no children; one update now takes no data that are out of date.           *)
Ready(s, me, co) ==
  /\ s.stale \ Covered(s, me, co) \subseteq s.pending
  /\ ~s.hold => s.pending \ Covered(s, me, co) \subseteq s.delayed
  /\ \A k \in s.conn : k[1] \notin s.delayed
  /\ co = -1 => Sources(s, me) \cap s.stale = {}

(* Along an order each object comes behind its sources, so that what was     *)
(* stale in the part that is updated is not any more.                        *)
LEMMA UpdateFlags ==
  ASSUME NEW s, Inv(s), Acyclic(s), s.failing = {}, NEW me \in s.objects, NEW co \in {-1, 0, 1}
  PROVE  /\ Updated(s, Update(s, me, co))
         /\ Update(s, me, co).stale \subseteq s.stale
         /\ \A x \in s.objects :
                x \in Update(s, me, co).pending
                   <=> IF x \in Covered(s, me, co) THEN x \in Waits(s, me, co)
                       ELSE x \in s.pending
         /\ Ready(s, me, co) =>
                Update(s, me, co).stale \cap Covered(s, me, co) \subseteq Waits(s, me, co)
<1> DEFINE seq == ObjectTree(s, me)
           D == DOMAIN seq
           Skip == IF co = 1 THEN {me} ELSE {}
           W == Waits(s, me, co)
           Q == [to : Scores, stop : BOOLEAN]
           Done(P) == {seq[i] : i \in P} \ Skip
           First(P) == \A i \in P : \A j \in D : j < i => j \in P
           Good(q, P) ==
             /\ Updated(s, q.to) /\ ~q.stop /\ q.to.stale \subseteq s.stale
             /\ \A x \in s.objects :
                   x \in q.to.pending <=> IF x \in Done(P) THEN x \in W ELSE x \in s.pending
             /\ Ready(s, me, co) /\ First(P) => q.to.stale \cap Done(P) \subseteq W
           T == [P \in SUBSET D |-> {q \in Q : Good(q, P)}]
           base == [to |-> s, stop |-> FALSE]
<1>1. seq \in Orders(s)
  BY TreeOrders
<1> HIDE DEF seq
<1>2. /\ seq \in Seq(s.objects) /\ Range(seq) = {seq[i] : i \in D}
      /\ \A i \in D : \A x \in Range(seq) :
             seq[i] \in s.children[x] => \E j \in D : j < i /\ seq[j] = x
  <2>1. Range(seq) = {seq[i] : i \in D}
    BY DEF Range
  <2> QED
    BY <1>1, <2>1, OrderFacts
<1>3. IsFiniteSet(D) /\ D \subseteq Nat /\ \A i \in D : seq[i] \in s.objects
  BY <1>2, ListDomain
<1>4. Covered(s, me, co) = Done(D)
  BY <1>2 DEF Covered, seq
<1>5. \A x \in s.objects : \A y \in Sources(s, x) : x \in s.children[y] /\ y \in s.objects
  <2>1. s.objects \in SUBSET Ids
    BY DEF Inv, Scores
  <2> QED
    BY <2>1 DEF Inv, Sources, Dependants
<1>6. ASSUME NEW P \in SUBSET D, NEW x \in P, \A y \in P : y <= x, NEW q \in T[P \ {x}]
      PROVE  UpdateStep(q, seq[x], me, co) \in T[P]
  <2> DEFINE o == seq[x]
             B == P \ {x}
             r == UpdateStep(q, o, me, co)
  <2>1. q \in Q /\ Good(q, B)
    BY <1>6
  <2>2. o \in s.objects
    BY <1>3
  <2>3. /\ r \in Q /\ Updated(s, r.to) /\ ~r.stop
        /\ r.to.stale \subseteq q.to.stale
        /\ co = 1 /\ o = me => r.to.pending = q.to.pending
        /\ ~(co = 1 /\ o = me) /\ o \in W => r.to.pending = q.to.pending \cup {o}
        /\ ~(co = 1 /\ o = me) /\ o \notin W
               => /\ r.to.pending = q.to.pending \ {o}
                  /\ Sources(s, o) \cap q.to.stale = {} => o \notin r.to.stale
    <3> HIDE DEF o
    <3> QED
      BY <2>1, <2>2, UpdateStepFlags
  <2>4. First(P) => First(B)
    <3>1. ASSUME First(P), NEW i \in B, NEW j \in D, j < i PROVE j \in B
      <4>1. j \in P /\ i <= x /\ i \in Nat /\ j \in Nat /\ x \in Nat
        BY <1>3, <1>6, <3>1
      <4> QED
        BY <3>1, <4>1
    <3> QED
      BY <3>1
  <2>5. Done(P) = Done(B) \cup ({o} \ Skip)
    OBVIOUS
  <2>6. ASSUME Ready(s, me, co), First(P), ~(co = 1 /\ o = me), o \notin W,
               NEW y \in Sources(s, o), y \in q.to.stale
        PROVE  FALSE
    <3>1. y \in s.stale /\ y \in s.objects /\ o \in s.children[y] /\ y \notin s.delayed
      <4>1. y \notin s.delayed
        BY <2>6 DEF Ready, Sources
      <4>2. y \in s.stale
        BY <2>1, <2>6
      <4> QED
        BY <1>5, <2>2, <2>6, <4>1, <4>2
    <3>2. ~s.hold
      <4>1. ASSUME s.hold PROVE FALSE
        <5>1. co = -1 /\ o = me
          BY <2>2, <2>6, <4>1 DEF Waits
        <5>2. Sources(s, me) \cap s.stale = {}
          BY <2>6, <5>1 DEF Ready
        <5> QED
          BY <2>6, <3>1, <5>1, <5>2
      <4> QED
        BY <4>1
    <3>3. y \notin W
      BY <3>1, <3>2 DEF Waits
    <3>4. y \notin Done(B)
      BY <2>1, <2>4, <2>6, <3>3
    <3>5. y \in Covered(s, me, co)
      BY <2>6, <3>1, <3>2 DEF Ready
    <3>6. y \in Range(seq) /\ y \notin Skip
      BY <1>2, <1>4, <3>5
    <3>7. PICK j \in D : j < x /\ seq[j] = y
      BY <1>2, <3>1, <3>6
    <3>8. j \in B
      BY <1>3, <2>6, <3>7
    <3> QED
      BY <3>4, <3>6, <3>7, <3>8
  <2>7. Good(q, B) /\ Ready(s, me, co) /\ First(P) => q.to.stale \cap Done(B) \subseteq W
    BY <2>4
  <2>8. ASSUME NEW z \in s.objects
        PROVE  z \in r.to.pending <=> IF z \in Done(P) THEN z \in W ELSE z \in s.pending
    <3>1. z \in q.to.pending <=> IF z \in Done(B) THEN z \in W ELSE z \in s.pending
      BY <2>1
    <3>2. o \in Skip <=> co = 1 /\ o = me
      OBVIOUS
    <3> HIDE DEF Done, r, o, W, Skip
    <3> QED
      BY <2>3, <2>5, <3>1, <3>2
  <2>9. ASSUME Ready(s, me, co), First(P) PROVE r.to.stale \cap Done(P) \subseteq W
    <3>1. q.to.stale \cap Done(B) \subseteq W
      BY <2>1, <2>7, <2>9
    <3>2. o \in Skip <=> co = 1 /\ o = me
      OBVIOUS
    <3>3. ~(co = 1 /\ o = me) /\ o \notin W => Sources(s, o) \cap q.to.stale = {}
      BY <2>6, <2>9
    <3> HIDE DEF Done, r, o, W, Skip
    <3> QED
      BY <2>3, <2>5, <3>1, <3>2, <3>3
  <2>10. Good(r, P)
    <3>1. q.to.stale \subseteq s.stale
      BY <2>1
    <3> HIDE DEF Done, r, o, W, First
    <3> QED
      BY <2>3, <2>8, <2>9, <3>1
  <2> QED
    BY <2>3, <2>10
<1>7. base \in T[{}]
  <2>1. Updated(s, s) /\ s \in Scores
    BY QuietSelf DEF Updated, Inv
  <2> QED
    BY <2>1
<1>8. Update(s, me, co) = UpdateAlong(base, seq, me, co).to
  BY DEF Update, seq
<1>9. First(D)
  OBVIOUS
<1>10. T[D] = {q \in Q : Good(q, D)}
  OBVIOUS
<1> HIDE DEF T, base, D
<1>11. UpdateAlong(base, seq, me, co) \in T[D]
  <2>1. \A P \in SUBSET D : \A x \in P : (\A y \in P : y <= x) =>
            \A v \in T[P \ {x}] : UpdateStep(v, seq[x], me, co) \in T[P]
    BY <1>6
  <2> QED
    BY <1>3, <1>7, <2>1, UpdateFold DEF D
<1> HIDE DEF First, Q, Done, W
<1>12. Good(UpdateAlong(base, seq, me, co), D)
  BY <1>10, <1>11
<1> QED
  BY <1>4, <1>8, <1>9, <1>12 DEF W

(* What updates of all that waits in a list leave alone.                     *)
Spared(s, force) == IF force THEN {} ELSE s.delayed

(* When they begin, all that is out of date waits, what waits elsewhere is   *)
(* spared, and what is spared has no children.                               *)
ReadyAll(s, K, force) ==
  /\ s.stale \subseteq s.pending
  /\ s.pending \ K \subseteq Spared(s, force)
  /\ \A k \in s.conn : k[1] \notin Spared(s, force)

(* And so do the updates of what waits along an order.                       *)
LEMMA UpdateAllFlags ==
  ASSUME NEW s, Inv(s), s.failing = {}, NEW seq \in Orders(s), NEW force \in BOOLEAN
  PROVE  /\ Updated(s, UpdateAll(s, seq, force))
         /\ UpdateAll(s, seq, force).stale \subseteq s.stale
         /\ UpdateAll(s, seq, force).pending
                = s.pending \ (Range(seq) \ Spared(s, force))
         /\ ReadyAll(s, Range(seq), force) =>
                UpdateAll(s, seq, force).stale \cap Range(seq) \subseteq Spared(s, force)
<1> DEFINE D == DOMAIN seq
           K == Range(seq)
           W == Spared(s, force)
           Done(P) == {seq[i] : i \in P}
           First(P) == \A i \in P : \A j \in D : j < i => j \in P
           Good(t, P) ==
             /\ Updated(s, t) /\ t.stale \subseteq s.stale
             /\ t.pending = s.pending \ (Done(P) \ W)
             /\ ReadyAll(s, K, force) /\ First(P) => t.stale \cap Done(P) \subseteq W
           T == [P \in SUBSET D |-> {t \in Scores : Good(t, P)}]
<1>2. /\ seq \in Seq(s.objects) /\ K = {seq[i] : i \in D}
      /\ \A i \in D : \A x \in K :
             seq[i] \in s.children[x] => \E j \in D : j < i /\ seq[j] = x
  <2>1. K = {seq[i] : i \in D}
    BY DEF Range
  <2> QED
    BY <2>1, OrderFacts
<1>3. IsFiniteSet(D) /\ D \subseteq Nat /\ \A i \in D : seq[i] \in s.objects
  BY <1>2, ListDomain
<1>4. K = Done(D)
  BY <1>2
<1>5. \A x \in s.objects : \A y \in Sources(s, x) : x \in s.children[y] /\ y \in s.objects
  <2>1. s.objects \in SUBSET Ids
    BY DEF Inv, Scores
  <2> QED
    BY <2>1 DEF Inv, Sources, Dependants
<1>6. ASSUME NEW P \in SUBSET D, NEW x \in P, \A y \in P : y <= x, NEW t \in T[P \ {x}]
      PROVE  UpdateAsked(t, seq[x], force) \in T[P]
  <2> DEFINE o == seq[x]
             B == P \ {x}
             r == UpdateAsked(t, o, force)
  <2>1. t \in Scores /\ Good(t, B)
    BY <1>6
  <2>2. o \in s.objects
    BY <1>3
  <2>3. Inv(t) /\ t.failing = {} /\ t.delayed = s.delayed /\ Sources(t, o) = Sources(s, o)
        /\ \A u : Updated(t, u) => Updated(s, u)
    <3>1. Updated(s, t)
      BY <2>1
    <3>2. t.failing = {} /\ t.delayed = s.delayed
      BY <3>1 DEF Updated
    <3> QED
      BY <3>1, <3>2, UpdatedFacts
  <2>4. First(P) => First(B)
    <3>1. ASSUME First(P), NEW i \in B, NEW j \in D, j < i PROVE j \in B
      <4>1. j \in P /\ i <= x /\ i \in Nat /\ j \in Nat /\ x \in Nat
        BY <1>3, <1>6, <3>1
      <4> QED
        BY <3>1, <4>1
    <3> QED
      BY <3>1
  <2>5. Done(P) = Done(B) \cup {o}
    OBVIOUS
  <2>6. CASE ~Asks(t, o, force)
    <3>1. r = t /\ (o \in W \/ o \notin t.pending)
      BY <2>3, <2>6 DEF UpdateAsked, Asks, Spared
    <3>2. t.pending = s.pending \ (Done(B) \ W)
      BY <2>1
    <3>3. r.pending = s.pending \ (Done(P) \ W)
      <4> HIDE DEF o, Done, W
      <4> QED
        BY <2>5, <3>1, <3>2
    <3>4. ASSUME ReadyAll(s, K, force), First(P) PROVE t.stale \cap Done(P) \subseteq W
      <4>1. t.stale \cap Done(B) \subseteq W /\ t.stale \subseteq s.pending
        BY <2>1, <2>4, <3>4 DEF ReadyAll
      <4> HIDE DEF o, Done, W
      <4> QED
        BY <2>5, <3>1, <3>2, <4>1
    <3> HIDE DEF o, Done, W, r, First
    <3>5. Good(r, P)
      BY <2>1, <3>1, <3>3, <3>4
    <3> QED
      BY <2>1, <3>1, <3>5 DEF r, o
  <2>7. CASE Asks(t, o, force)
    <3>1. o \notin W /\ r = UpdateNow(t, o)
      BY <2>3, <2>7 DEF UpdateAsked, Asks, Spared
    <3>2. /\ Updated(t, r) /\ r.pending = t.pending \ {o} /\ r.stale \subseteq t.stale
          /\ Sources(s, o) \cap t.stale = {} => o \notin r.stale
      <4>1. PICK z : z = o
        OBVIOUS
      <4>2. /\ Updated(t, UpdateNow(t, z)) /\ UpdateNow(t, z).pending = t.pending \ {z}
            /\ UpdateNow(t, z).stale \subseteq t.stale
            /\ Sources(t, z) \cap t.stale = {} => z \notin UpdateNow(t, z).stale
        BY <2>3, UpdateNowFlags
      <4> QED
        BY <2>3, <3>1, <4>1, <4>2
    <3>3. ASSUME ReadyAll(s, K, force), First(P), NEW y \in Sources(s, o), y \in t.stale
          PROVE  FALSE
      <4>1. y \in s.stale /\ y \in s.pending /\ o \in s.children[y] /\ y \notin W
        BY <1>5, <2>1, <2>2, <3>3 DEF ReadyAll, Sources
      <4>2. y \in K
        BY <3>3, <4>1 DEF ReadyAll
      <4>3. PICK j \in D : j < x /\ seq[j] = y
        BY <1>2, <4>1, <4>2
      <4>4. j \in B
        BY <1>3, <3>3, <4>3
      <4>5. y \in Done(B)
        BY <4>3, <4>4
      <4> QED
        BY <2>1, <2>4, <3>3, <4>1, <4>5
    <3>4. ASSUME ReadyAll(s, K, force), First(P) PROVE r.stale \cap Done(P) \subseteq W
      <4>1. t.stale \cap Done(B) \subseteq W /\ o \notin r.stale
        BY <2>1, <2>4, <3>2, <3>3, <3>4
      <4> HIDE DEF o, Done, W, r
      <4> QED
        BY <2>5, <3>2, <4>1
    <3>5. r.pending = s.pending \ (Done(P) \ W)
      <4>1. t.pending = s.pending \ (Done(B) \ W)
        BY <2>1
      <4> HIDE DEF o, Done, W, r
      <4> QED
        BY <2>5, <3>1, <3>2, <4>1
    <3>6. t.stale \subseteq s.stale
      BY <2>1
    <3> HIDE DEF o, Done, W, r, First
    <3>7. Good(r, P)
      BY <2>3, <3>2, <3>4, <3>5, <3>6
    <3>8. r \in Scores
      BY <3>2 DEF Updated, Quiet
    <3> QED
      BY <3>7, <3>8 DEF r, o
  <2> QED
    BY <2>6, <2>7
<1>7. s \in T[{}]
  <2>1. Updated(s, s) /\ s \in Scores
    BY QuietSelf DEF Updated, Inv
  <2> QED
    BY <2>1
<1>9. First(D)
  OBVIOUS
<1>10. T[D] = {t \in Scores : Good(t, D)}
  OBVIOUS
<1> HIDE DEF T, D
<1>11. UpdateAll(s, seq, force) \in T[D]
  <2>1. \A P \in SUBSET D : \A x \in P : (\A y \in P : y <= x) =>
            \A v \in T[P \ {x}] : UpdateAsked(v, seq[x], force) \in T[P]
    BY <1>6
  <2> QED
    BY <1>3, <1>7, <2>1, UpdateAllFold DEF D
<1> HIDE DEF First, Done, W, K
<1>12. Good(UpdateAll(s, seq, force), D)
  BY <1>10, <1>11
<1> QED
  BY <1>4, <1>9, <1>12 DEF W, K

------------------------------------------------------------------------------
(***************************************************************************)
(* What follows from a change, and the two parts of the invariant.         *)
(***************************************************************************)

(* Dependants are children.                                                  *)
LEMMA DependantsFacts ==
  ASSUME NEW s, Inv(s), NEW A, A \subseteq s.objects
  PROVE  /\ \A y : y \in Dependants(s, A) <=> \E x \in A : y \in s.children[x]
         /\ Dependants(s, A) \subseteq s.objects
<1>1. s.objects \in SUBSET Ids
  BY DEF Inv, Scores
<1>2. \A x \in A : s.children[x] = Dependants(s, {x})
  BY <1>1 DEF Inv
<1> QED
  BY <1>2 DEF Dependants, Inv

(* What follows from S is in any set with S that has the children of its     *)
(* objects ...                                                               *)
LEMMA OnwardLeast ==
  ASSUME NEW s, Inv(s), NEW S, S \subseteq s.objects,
         NEW K, S \subseteq K, \A x \in K : x \in s.objects => s.children[x] \subseteq K
  PROVE  Onward(s, S) \subseteq K
<1>1. PICK it : OnwardLevels(s, S, it)
  BY OnwardIn
<1> DEFINE H == {n \in Nat : n \in Ids => it[n] \subseteq K}
<1>2. 0 \in H
  BY <1>1 DEF OnwardLevels
<1>3. ASSUME NEW n \in Nat, n \in H PROVE n + 1 \in H
  <2>1. n + 1 \in Ids => n \in Ids /\ n + 1 \in Ids \ {0} /\ n + 1 - 1 = n
    BY ScoreAssumption DEF Ids
  <2>2. n + 1 \in Ids => /\ it[n] \subseteq K /\ it[n] \subseteq s.objects
                         /\ it[n + 1] = it[n] \cup Dependants(s, it[n])
    BY <1>1, <1>3, <2>1 DEF OnwardLevels
  <2>3. it[n] \subseteq K /\ it[n] \subseteq s.objects => Dependants(s, it[n]) \subseteq K
    BY DependantsFacts
  <2>4. n + 1 \in Ids => it[n + 1] \subseteq K
    BY <2>2, <2>3
  <2> QED
    BY <2>4
<1>4. MaxId \in H /\ MaxId \in Ids
  <2> HIDE DEF H
  <2>1. Nat \subseteq H
    BY <1>2, <1>3, NatInd
  <2>2. MaxId \in Nat /\ MaxId \in Ids
    BY ScoreAssumption DEF Ids
  <2> QED
    BY <2>1, <2>2
<1> QED
  BY <1>1, <1>4 DEF OnwardLevels

(* ... and is such a set: every level has one object more, or is the last.   *)
LEMMA OnwardClosed ==
  ASSUME NEW s, Inv(s), NEW d \in s.objects
  PROVE  /\ d \in Onward(s, {d}) /\ Onward(s, {d}) \subseteq s.objects
         /\ \A x \in Onward(s, {d}) : s.children[x] \subseteq Onward(s, {d})
<1> DEFINE S == {d}
<1>1. PICK it : OnwardLevels(s, S, it)
  BY OnwardIn
<1>2. MaxId \in Nat /\ MaxId \in Ids /\ 0 \in Ids /\ Ids = 0 .. MaxId
  BY ScoreAssumption DEF Ids
<1>3. s.objects \in SUBSET Ids
  BY DEF Inv, Scores
<1>4. IsFiniteSet(Ids) /\ Cardinality(Ids) = MaxId + 1
  BY <1>2, FS_Interval
<1>5. \A n \in Ids : it[n] \subseteq s.objects /\ it[n] \subseteq Ids
      /\ IsFiniteSet(it[n]) /\ Cardinality(it[n]) \in Nat
  <2>1. \A n \in Ids : it[n] \subseteq s.objects /\ it[n] \subseteq Ids
    BY <1>1, <1>3 DEF OnwardLevels
  <2> QED
    BY <1>4, <2>1, FS_Subset, FS_CardinalityType
<1> DEFINE Full(n) == Dependants(s, it[n]) \subseteq it[n]
           H == {n \in Nat : n \in Ids => d \in it[n] /\ (Full(n) \/ Cardinality(it[n]) >= n + 1)}
<1>6. 0 \in H
  <2>1. it[0] = {d}
    BY <1>1 DEF OnwardLevels
  <2>2. Cardinality({d}) = 1
    BY FS_Singleton
  <2> QED
    BY <2>1, <2>2
<1>7. ASSUME NEW n \in Nat, n \in H PROVE n + 1 \in H
  <2>1. PICK m : m = n + 1
    OBVIOUS
  <2>2. m \in Ids => n \in Ids /\ m \in Ids \ {0} /\ m - 1 = n
    BY <1>2, <2>1
  <2>3. ASSUME m \in Ids
        PROVE  d \in it[m] /\ (Full(m) \/ Cardinality(it[m]) >= m + 1)
    <3>1. it[m] = it[n] \cup Dependants(s, it[n])
      BY <1>1, <2>2, <2>3 DEF OnwardLevels
    <3>2. d \in it[n] /\ (Full(n) \/ Cardinality(it[n]) >= n + 1)
      BY <1>7, <2>2, <2>3
    <3>3. CASE Full(n)
      <4>1. it[m] = it[n]
        BY <3>1, <3>3
      <4> QED
        BY <3>2, <3>3, <4>1
    <3>4. CASE ~Full(n)
      <4>1. it[n] \in SUBSET it[m] /\ it[n] # it[m]
        BY <3>1, <3>4
      <4>2. Cardinality(it[n]) <= Cardinality(it[m]) /\ Cardinality(it[n]) # Cardinality(it[m])
        BY <1>5, <2>2, <2>3, <4>1, FS_Subset
      <4>3. Cardinality(it[n]) \in Nat /\ Cardinality(it[m]) \in Nat
        BY <1>5, <2>2, <2>3
      <4>4. Cardinality(it[n]) >= n + 1
        BY <3>2, <3>4
      <4>5. Cardinality(it[m]) >= m + 1
        BY <2>1, <4>2, <4>3, <4>4
      <4> QED
        BY <3>1, <3>2, <4>5
    <3> QED
      BY <3>3, <3>4
  <2> QED
    BY <2>1, <2>3
<1>8. MaxId \in H
  <2> HIDE DEF H
  <2>1. Nat \subseteq H
    BY <1>6, <1>7, NatInd
  <2> QED
    BY <1>2, <2>1
<1> DEFINE O == it[MaxId]
<1>9. d \in O /\ O \subseteq s.objects /\ Dependants(s, O) \subseteq O
  <2>1. CASE Cardinality(O) >= MaxId + 1
    <3>1. O \in SUBSET Ids
      BY <1>2, <1>5
    <3>2. Cardinality(O) <= Cardinality(Ids) /\ Cardinality(O) \in Nat
      BY <1>2, <1>4, <1>5, <3>1, FS_Subset
    <3>3. Cardinality(O) = Cardinality(Ids)
      BY <1>2, <1>4, <2>1, <3>2
    <3>4. O = Ids
      BY <1>4, <3>1, <3>3, FS_Subset
    <3>5. O \subseteq s.objects
      BY <1>2, <1>5
    <3>6. Dependants(s, O) \subseteq s.objects
      BY <3>5, DependantsFacts
    <3> QED
      BY <1>2, <1>3, <1>8, <3>4, <3>5, <3>6
  <2> QED
    BY <1>2, <1>5, <1>8, <2>1
<1> HIDE DEF O
<1>10. \A x \in O : s.children[x] \subseteq O
  BY <1>9, DependantsFacts
<1>11. O = Onward(s, {d})
  BY <1>1 DEF OnwardLevels, O
<1> QED
  BY <1>9, <1>10, <1>11

(* The guard of connect keeps a score without circles so.                    *)
LEMMA ConnectAcyclic ==
  ASSUME NEW s, Inv(s), Acyclic(s), NEW d \in s.objects, NEW src \in s.objects,
         src \notin Onward(s, {d}), NEW i, NEW t, t.conn = s.conn \cup {<<src, i, d>>}
  PROVE  Acyclic(t)
<1> DEFINE O == Onward(s, {d})
<1>1. d \in O /\ src \notin O
  BY OnwardClosed
<1>2. ASSUME NEW k \in s.conn, k[1] \in O PROVE k[3] \in O
  <2>1. k[1] \in s.objects /\ k[1] \in Ids
    BY ConnectionShape
  <2>2. k[3] \in s.children[k[1]]
    BY <2>1 DEF Inv, Dependants
  <2> QED
    BY <1>2, <2>2, OnwardClosed
<1> HIDE DEF O
<1>3. ASSUME NEW S \in SUBSET Ids, S # {}
      PROVE  \E x \in S : \A k \in t.conn : k[3] = x => k[1] \notin S
  <2>1. CASE S \ O # {}
    <3>1. S \ O \in SUBSET Ids
      OBVIOUS
    <3>2. PICK x \in S \ O : \A k \in s.conn : k[3] = x => k[1] \notin S \ O
      BY <2>1, <3>1 DEF Acyclic
    <3>3. \A k \in s.conn : k[3] = x => k[1] \notin S
      BY <1>2, <3>2
    <3>4. d # x /\ <<src, i, d>>[3] = d
      BY <1>1, <3>2
    <3> QED
      BY <3>2, <3>3, <3>4
  <2>2. CASE S \subseteq O
    <3>1. PICK x \in S : \A k \in s.conn : k[3] = x => k[1] \notin S
      BY <1>3 DEF Acyclic
    <3>2. <<src, i, d>>[1] = src /\ src \notin S
      BY <1>1, <2>2
    <3> QED
      BY <3>1, <3>2
  <2> QED
    BY <2>1, <2>2
<1> QED
  BY <1>3 DEF Acyclic

(* A score without circles and errors in which, unless updates are held,     *)
(* nothing waits but what has a delay_update of its own.                     *)
Punctual(s) ==
  /\ Inv(s) /\ Acyclic(s) /\ s.failing = {}
  /\ ~s.hold => s.pending \subseteq s.delayed

(* What is out of date waits, and what has a delay_update no children.       *)
Visible(s) ==
  /\ s.stale \subseteq s.pending
  /\ \A k \in s.conn : k[1] \notin s.delayed

(* What a method that leaves t keeps of what holds of s.                     *)
Sound(s, t) == Punctual(t) /\ (Visible(s) => Visible(t))

(* Objects together with all that follows from them.                         *)
Whole(s, K) == K \subseteq s.objects /\ \A x \in K : s.children[x] \subseteq K

(* What an update covers is the least set with the object and all that       *)
(* follows from its members.                                                 *)
LEMMA CoveredFacts ==
  ASSUME NEW s, Inv(s), Acyclic(s), NEW me \in s.objects
  PROVE  /\ me \in Covered(s, me, 0) /\ Whole(s, Covered(s, me, 0))
         /\ Covered(s, me, -1) = Covered(s, me, 0)
         /\ Covered(s, me, 1) = Covered(s, me, 0) \ {me}
         /\ \A K : Whole(s, K) /\ me \in K => Covered(s, me, 0) \subseteq K
<1> DEFINE seq == ObjectTree(s, me)
<1>1. seq \in Orders(s) /\ me \in Range(seq)
  BY TreeOrders
<1>2. /\ Covered(s, me, 0) = Range(seq) /\ Covered(s, me, -1) = Range(seq)
      /\ Covered(s, me, 1) = Range(seq) \ {me}
  BY DEF Covered
<1>3. ASSUME NEW K, Whole(s, K), me \in K PROVE Range(seq) \subseteq K
  <2>1. s \in Scores /\ K \in SUBSET Ids /\ \A x \in K : s.children[x] \subseteq K
    BY <1>3 DEF Whole, Inv, Scores
  <2>2. WalksIn(Walks(s, {me}), K)
    BY <2>1, WalksStay
  <2>3. <<>> \in Lists(K)
    BY DEF Lists
  <2> DEFINE v == Walks(s, {me})[me][<<>>]
  <2>4. v \in Lists(K)
    BY <1>3, <2>2, <2>3 DEF WalksIn
  <2>5. seq = Reverse(v)
    BY DEF ObjectTree
  <2> HIDE DEF v, seq
  <2>6. seq \in Seq(K)
    BY <2>4, <2>5, ReversedList DEF Lists
  <2> QED
    BY <2>6 DEF Range
<1> HIDE DEF seq
<1> QED
  BY <1>1, <1>2, <1>3, OrderFacts DEF Whole

(* An update that is Ready leaves all as it should be.                       *)
LEMMA UpdateSound ==
  ASSUME NEW s, Inv(s), Acyclic(s), s.failing = {},
         NEW me \in s.objects, NEW co \in {-1, 0, 1},
         ~s.hold => s.pending \ Covered(s, me, co) \subseteq s.delayed
  PROVE  /\ Updated(s, Update(s, me, co)) /\ Punctual(Update(s, me, co))
         /\ Ready(s, me, co) => Visible(Update(s, me, co))
<1> DEFINE U == Covered(s, me, co)
           W == Waits(s, me, co)
           t == Update(s, me, co)
<1>1. /\ Updated(s, t) /\ t.stale \subseteq s.stale
      /\ \A x \in s.objects : x \in t.pending <=> IF x \in U THEN x \in W ELSE x \in s.pending
      /\ Ready(s, me, co) => t.stale \cap U \subseteq W
  BY UpdateFlags
<1> HIDE DEF t
<1>2. /\ Inv(t) /\ Acyclic(t) /\ t.failing = {} /\ t.hold = s.hold /\ t.delayed = s.delayed
      /\ t.conn = s.conn /\ t.objects = s.objects
  BY <1>1, UpdatedFacts DEF Updated
<1>3. t.pending \subseteq s.objects /\ s.stale \subseteq s.objects
  BY <1>2 DEF Inv
<1>4. ~s.hold => W \subseteq s.delayed
  BY DEF Waits
<1> HIDE DEF U, W
<1>5. Punctual(t)
  BY <1>1, <1>2, <1>3, <1>4 DEF Punctual, U
<1>6. Ready(s, me, co) => Visible(t)
  BY <1>1, <1>2, <1>3 DEF Ready, Visible, U
<1> QED
  BY <1>1, <1>5, <1>6 DEF t

(* A change makes stale all that follows from it, and nothing else happens.  *)
LEMMA ChangedFlags ==
  ASSUME NEW s, Inv(s), NEW S, S \subseteq s.objects
  PROVE  /\ Updated(s, Changed(s, S)) /\ Changed(s, S).pending = s.pending
         /\ Changed(s, S).stale = s.stale \cup Onward(s, S)
<1> DEFINE P == s.stale \cup Onward(s, S)
<1>1. P \subseteq s.objects /\ s.pending \subseteq s.objects
  BY OnwardIn DEF Inv
<1>2. Changed(s, S) = Repainted(s, s.pending, P)
  BY DEF Changed, Repainted, Inv, Scores
<1> HIDE DEF P
<1>3. Updated(s, Repainted(s, s.pending, P)) /\ Repainted(s, s.pending, P).pending = s.pending
      /\ Repainted(s, s.pending, P).stale = P
  BY <1>1, RepaintedFacts
<1> QED
  BY <1>2, <1>3 DEF P

(* A change with the update that follows it.                                 *)
LEMMA ChangedUpdateSound ==
  ASSUME NEW s, Punctual(s), NEW o \in s.objects
  PROVE  /\ Updated(s, Update(Changed(s, {o}), o, 0))
         /\ Sound(s, Update(Changed(s, {o}), o, 0))
<1> DEFINE u == Changed(s, {o})
           t == Update(u, o, 0)
           U == Covered(u, o, 0)
<1>1. Updated(s, u) /\ u.pending = s.pending /\ u.stale = s.stale \cup Onward(s, {o})
  BY ChangedFlags DEF Punctual
<1> HIDE DEF u
<1>2. /\ Inv(u) /\ Acyclic(u) /\ u.failing = {} /\ u.hold = s.hold /\ u.delayed = s.delayed
      /\ u.conn = s.conn /\ u.objects = s.objects /\ u.children = s.children
  BY <1>1, UpdatedFacts DEF Updated, Punctual
<1>3. o \in U /\ Whole(u, U)
  BY <1>2, CoveredFacts
<1>4. Onward(s, {o}) \subseteq U
  <2> HIDE DEF U
  <2> QED
    BY <1>2, <1>3, OnwardLeast DEF Whole, Punctual
<1>5. ~u.hold => u.pending \ Covered(u, o, 0) \subseteq u.delayed
  BY <1>1, <1>2 DEF Punctual
<1>6. Visible(s) => Ready(u, o, 0)
  BY <1>1, <1>2, <1>4, <1>5 DEF Ready, Visible
<1>7. Updated(u, t) /\ Punctual(t) /\ (Ready(u, o, 0) => Visible(t))
  BY <1>2, <1>5, UpdateSound
<1>8. Updated(s, t)
  <2> HIDE DEF t
  <2> QED
    BY <1>1, <1>7, UpdatedFacts DEF Punctual
<1> QED
  BY <1>6, <1>7, <1>8 DEF Sound, u

------------------------------------------------------------------------------
(***************************************************************************)
(* The methods keep both parts.                                            *)
(***************************************************************************)

(* Two such methods make one.                                                *)
LEMMA SoundTrans ==
  ASSUME NEW s, NEW t, NEW u, Sound(s, t), Sound(t, u)
  PROVE  Sound(s, u)
BY DEF Sound

(* Fewer connections do no harm.                                             *)
LEMMA SameSound ==
  ASSUME NEW s, Punctual(s), NEW t, Inv(t), SameFlags(s, t), t.conn \subseteq s.conn
  PROVE  Sound(s, t)
BY DEF Sound, Punctual, Visible, SameFlags, Acyclic

(* A property is set, without an error.                                      *)
LEMMA EditedSound ==
  ASSUME NEW s, Punctual(s), NEW o \in s.objects
  PROVE  /\ Updated(s, Edited(s, o, FALSE)) /\ Sound(s, Edited(s, o, FALSE))
<1>1. [s EXCEPT !.failing = s.failing \ {o}] = s
  BY DEF Punctual, Inv, Scores
<1>2. Edited(s, o, FALSE) = Update(Changed(s, {o}), o, 0)
  BY <1>1 DEF Edited
<1> QED
  BY <1>2, ChangedUpdateSound

(* What t is after the delay_update of o has been set or cleared.            *)
DelaySet(s, o, on, t) ==
  /\ Punctual(t) /\ t.hold = s.hold
  /\ \A x \in t.delayed : x \in s.delayed \/ x = o
  /\ o \in t.delayed => on
  /\ (on => s.children[o] = {}) => Sound(s, t)

(* Setting delay_update of an object that others depend on may hide what is  *)
(* stale; nothing waits unasked even then.                                   *)
LEMMA SetDelaySound ==
  ASSUME NEW s, Punctual(s), NEW o \in s.objects, NEW on \in BOOLEAN
  PROVE  DelaySet(s, o, on, SetDelay(s, o, on))
<1> DEFINE D == IF on THEN s.delayed \cup {o} ELSE s.delayed \ {o}
           t == [s EXCEPT !.delayed = D]
           u == Update(t, o, 0)
<1>1. D \subseteq s.objects /\ (\A x \in D : x \in s.delayed \/ (on /\ x = o))
      /\ (o \in D => on)
  BY DEF Punctual, Inv
<1>2. SetDelay(s, o, on) = u /\ \A x \in s.delayed : x \in D \/ x = o
  BY DEF SetDelay
<1> HIDE DEF D
<1>3. Quiet(s, t) /\ Inv(t)
  BY <1>1, FlagsQuiet, QuietInv DEF Punctual
<1>4. t.delayed = D /\ t.hold = s.hold /\ t.pending = s.pending /\ t.failing = s.failing
      /\ t.stale = s.stale /\ t.conn = s.conn /\ t.objects = s.objects
  BY DEF Punctual, Inv, Scores
<1> HIDE DEF t
<1>5. Acyclic(t) /\ t.failing = {}
  BY <1>4 DEF Acyclic, Punctual
<1>6. o \in Covered(t, o, 0)
  BY <1>3, <1>4, <1>5, CoveredFacts
<1>7. ~t.hold => t.pending \ Covered(t, o, 0) \subseteq t.delayed
  BY <1>2, <1>4, <1>6 DEF Punctual
<1>8. Updated(t, u) /\ Punctual(u) /\ (Ready(t, o, 0) => Visible(u))
  BY <1>3, <1>4, <1>5, <1>7, UpdateSound
<1>9. u.hold = s.hold /\ u.delayed = D
  BY <1>4, <1>8 DEF Updated
<1>10. ASSUME on => s.children[o] = {}, Visible(s) PROVE Ready(t, o, 0)
  <2>1. \A k \in s.conn : k[1] \notin D
    <3>1. ASSUME on, NEW k \in s.conn, k[1] = o PROVE FALSE
      <4>1. o \in Ids
        BY DEF Punctual, Inv, Scores
      <4>2. k[3] \in s.children[o]
        BY <3>1, <4>1 DEF Punctual, Inv, Dependants
      <4> QED
        BY <1>10, <3>1, <4>2
    <3> QED
      BY <1>1, <1>10, <3>1 DEF Visible
  <2> QED
    BY <1>4, <1>7, <1>10, <2>1 DEF Ready, Visible
<1> HIDE DEF u
<1> QED
  BY <1>1, <1>2, <1>8, <1>9, <1>10 DEF Sound, DelaySet

(* An inlet is disconnected, and its object updated.                         *)
LEMMA DisconnectSound ==
  ASSUME NEW s, Punctual(s), NEW d \in s.objects, NEW src, NEW i
  PROVE  /\ Sound(s, Disconnect(s, d, src, i))
         /\ Disconnect(s, d, src, i).hold = s.hold
<1> DEFINE t == InletDisconnect(s, d, src, i)
           u == Update(Changed(t, {d}), d, 0)
<1>1. Rewired(s, t, s.conn \ {<<src, i, d>>}) /\ SameFlags(s, t)
  BY InletDisconnectInv DEF Punctual
<1>2. Disconnect(s, d, src, i) = u \/ Disconnect(s, d, src, i) = s
  BY DEF Disconnect
<1> HIDE DEF t
<1>3. Sound(s, t) /\ Punctual(t) /\ d \in t.objects /\ t.hold = s.hold
  BY <1>1, SameSound DEF Rewired, SameFlags, Sound
<1>4. Updated(t, u) /\ Sound(t, u)
  BY <1>3, ChangedUpdateSound
<1> HIDE DEF u
<1>5. Sound(s, u) /\ u.hold = s.hold
  BY <1>3, <1>4, SoundTrans DEF Updated
<1> QED
  BY <1>2, <1>5 DEF Sound

(* A connection that closes no circle; its source has no delay_update.       *)
LEMMA ConnectSound ==
  ASSUME NEW s, Punctual(s), NEW d \in s.objects, NEW src \in s.objects, NEW i \in InletNames,
         \A t : t.conn = s.conn \cup {<<src, i, d>>} => Acyclic(t)
  PROVE  LET u == Connect(s, d, src, i) IN
         /\ Punctual(u) /\ u.hold = s.hold /\ u.delayed = s.delayed
         /\ src \notin s.delayed => Sound(s, u)
<1> DEFINE C == s.conn \cup {<<src, i, d>>}
           u == Connect(s, d, src, i)
<1>1. PICK t : Rewired(s, t, C) /\ SameFlags(s, t) /\ u = Update(Changed(t, {d}), d, 0)
  BY ConnectSteps DEF Punctual
<1>2. Acyclic(t)
  BY <1>1 DEF Rewired
<1>3. \A k \in C : k \in s.conn \/ k[1] = src
  OBVIOUS
<1> HIDE DEF C, u
<1>4. Punctual(t) /\ d \in t.objects
  BY <1>1, <1>2 DEF Punctual, Rewired, SameFlags
<1>5. Updated(t, u) /\ Sound(t, u)
  BY <1>1, <1>4, ChangedUpdateSound
<1>6. Visible(s) /\ src \notin s.delayed => Visible(t)
  BY <1>1, <1>3 DEF Visible, Rewired, SameFlags
<1>7. u.hold = s.hold /\ u.delayed = s.delayed
  BY <1>1, <1>5 DEF Updated, SameFlags
<1> QED
  BY <1>5, <1>6, <1>7 DEF Sound, u

(* A new object is updated at once, or waits.                                *)
LEMMA NewObjectSound ==
  ASSUME NEW s, Punctual(s), FreeId(s) \in Ids, NEW bus \in BOOLEAN
  PROVE  LET u == NewObject(s, bus) IN
         /\ Sound(s, u) /\ u.conn = s.conn /\ u.hold = s.hold /\ u.delayed = s.delayed
<1> DEFINE k == FreeId(s)
           u == NewObject(s, bus)
<1>1. PICK t : /\ Inv(t) /\ SameFlags(s, t) /\ t.conn = s.conn /\ k \in t.objects
               /\ u = Update(Changed(t, {k}), k, 0)
  <2>1. Inv(s)
    BY DEF Punctual
  <2>2. PICK t : /\ Inv(t) /\ SameFlags(s, t) /\ t.conn = s.conn
                 /\ t.objects = s.objects \cup {k}
                 /\ NewObject(s, bus) = Update(Changed(t, {k}), k, 0)
    BY <2>1, NewObjectSteps
  <2> QED
    BY <2>2
<1> HIDE DEF u, k
<1>2. Sound(s, t) /\ Punctual(t)
  BY <1>1, SameSound DEF Sound
<1>3. Updated(t, u) /\ Sound(t, u)
  BY <1>1, <1>2, ChangedUpdateSound
<1>4. u.conn = t.conn
  BY <1>2, <1>3, UpdatedFacts DEF Punctual
<1> QED
  BY <1>1, <1>2, <1>3, <1>4, SoundTrans DEF Updated, SameFlags, u

(* Updates of all that waits in a list, when what waits elsewhere is spared. *)
LEMMA UpdateAllSound ==
  ASSUME NEW s, Inv(s), Acyclic(s), s.failing = {}, NEW seq \in Orders(s), NEW force \in BOOLEAN,
         s.pending \ Range(seq) \subseteq Spared(s, force)
  PROVE  /\ Punctual(UpdateAll(s, seq, force)) /\ UpdateAll(s, seq, force).hold = s.hold
         /\ Visible(s) => /\ Visible(UpdateAll(s, seq, force))
                          /\ UpdateAll(s, seq, force).stale \subseteq Spared(s, force)
<1> DEFINE t == UpdateAll(s, seq, force)
           K == Range(seq)
           W == Spared(s, force)
<1>1. /\ Updated(s, t) /\ t.stale \subseteq s.stale /\ t.pending = s.pending \ (K \ W)
      /\ ReadyAll(s, K, force) => t.stale \cap K \subseteq W
  BY UpdateAllFlags
<1> HIDE DEF t
<1>2. /\ Inv(t) /\ Acyclic(t) /\ t.failing = {} /\ t.hold = s.hold /\ t.delayed = s.delayed
      /\ t.conn = s.conn
  BY <1>1, UpdatedFacts DEF Updated
<1>3. W \subseteq s.delayed
  BY DEF Spared
<1> HIDE DEF K, W
<1>4. t.pending \subseteq W
  BY <1>1 DEF K, W
<1>5. Punctual(t)
  BY <1>2, <1>3, <1>4 DEF Punctual
<1>6. ASSUME Visible(s) PROVE Visible(t) /\ t.stale \subseteq W
  <2>1. ReadyAll(s, K, force)
    BY <1>3, <1>6 DEF ReadyAll, Visible, K, W
  <2>2. t.stale \subseteq t.pending
    BY <1>1, <1>6, <2>1 DEF Visible
  <2> QED
    BY <1>2, <1>4, <1>6, <2>2 DEF Visible
<1> QED
  BY <1>2, <1>5, <1>6 DEF t, W

(* The updates are let go: what waited is updated along an order that has it *)
(* all.                                                                      *)
LEMMA UnholdSound ==
  ASSUME NEW s, Inv(s), Acyclic(s), s.failing = {}, NEW seq \in Orders(s), NEW b \in BOOLEAN,
         ~b => s.pending \ Range(seq) \subseteq s.delayed
  PROVE  Punctual(Unhold(s, b, seq)) /\ (Visible(s) => Visible(Unhold(s, b, seq)))
<1> DEFINE t == [s EXCEPT !.hold = b]
<1>1. Inv(t)
  BY HoldQuiet
<1>2. t.hold = b /\ t.pending = s.pending /\ t.delayed = s.delayed /\ t.failing = s.failing
      /\ t.stale = s.stale /\ t.conn = s.conn /\ t.children = s.children
      /\ t.objects = s.objects
  BY DEF Inv, Scores
<1>3. Unhold(s, b, seq) = IF b THEN t ELSE UpdateAll(t, seq, FALSE)
  BY DEF Unhold
<1> HIDE DEF t
<1>4. Acyclic(t) /\ seq \in Orders(t) /\ t.failing = {}
  BY <1>2 DEF Acyclic, Orders
<1>5. Visible(s) => Visible(t)
  BY <1>2 DEF Visible
<1>6. CASE b
  BY <1>1, <1>2, <1>3, <1>4, <1>5, <1>6 DEF Punctual
<1>7. CASE ~b
  <2>1. t.pending \ Range(seq) \subseteq Spared(t, FALSE)
    BY <1>2, <1>7 DEF Spared
  <2>2. Punctual(UpdateAll(t, seq, FALSE))
        /\ (Visible(t) => Visible(UpdateAll(t, seq, FALSE)))
    BY <1>1, <1>4, <2>1, UpdateAllSound
  <2> QED
    BY <1>3, <1>5, <1>7, <2>2
<1> QED
  BY <1>6, <1>7

(* The button that holds and lets go of the updates.                         *)
LEMMA ToggleHoldSound ==
  ASSUME NEW s, Punctual(s)
  PROVE  LET t == [s EXCEPT !.hold = ~@] IN
         Sound(s, IF t.hold THEN t ELSE UpdateAll(t, ScoreTree(t), FALSE))
<1> DEFINE b == ~s.hold
           t == [s EXCEPT !.hold = b]
<1>1. b \in BOOLEAN /\ Inv(t)
  <2>1. b \in BOOLEAN /\ Inv(s)
    BY DEF Punctual, Inv, Scores
  <2> HIDE DEF b
  <2> QED
    BY <2>1, HoldQuiet
<1>2. t.hold = b /\ t.pending = s.pending /\ t.delayed = s.delayed /\ t.failing = s.failing
      /\ t.stale = s.stale /\ t.conn = s.conn
  BY DEF Punctual, Inv, Scores
<1> HIDE DEF t
<1>3. Acyclic(t) /\ t.failing = {} /\ (Visible(s) => Visible(t))
  BY <1>2 DEF Acyclic, Punctual, Visible
<1>4. ScoreTree(t) \in Orders(t) /\ Range(ScoreTree(t)) = t.objects
  BY <1>1, <1>3, TreeOrders
<1>5. t.pending \ Range(ScoreTree(t)) \subseteq Spared(t, FALSE)
  BY <1>1, <1>4 DEF Inv
<1>6. Punctual(UpdateAll(t, ScoreTree(t), FALSE))
      /\ (Visible(t) => Visible(UpdateAll(t, ScoreTree(t), FALSE)))
  BY <1>1, <1>3, <1>4, <1>5, UpdateAllSound
<1>7. t.hold => Punctual(t)
  BY <1>1, <1>3 DEF Punctual
<1> QED
  BY <1>3, <1>6, <1>7 DEF Sound, t

(* The update button: with all that waits updated, nothing is out of date.   *)
LEMMA UpdateButtonSound ==
  ASSUME NEW s, Punctual(s)
  PROVE  /\ Sound(s, UpdateAll(s, ScoreTree(s), TRUE))
         /\ Visible(s) => UpdateAll(s, ScoreTree(s), TRUE).stale = {}
<1>1. ScoreTree(s) \in Orders(s) /\ Range(ScoreTree(s)) = s.objects
  BY TreeOrders DEF Punctual
<1>2. s.pending \ Range(ScoreTree(s)) \subseteq Spared(s, TRUE)
  BY <1>1 DEF Punctual, Inv
<1>3. Spared(s, TRUE) = {}
  BY DEF Spared
<1> QED
  BY <1>1, <1>2, <1>3, UpdateAllSound DEF Sound, Punctual

(* The key u on an object none of whose sources waits.                       *)
LEMMA UpdateKeySound ==
  ASSUME NEW s, Punctual(s), NEW o \in s.objects
  PROVE  /\ Punctual(Update(s, o, -1))
         /\ Sources(s, o) \cap s.pending = {} => Sound(s, Update(s, o, -1))
<1>1. ~s.hold => s.pending \ Covered(s, o, -1) \subseteq s.delayed
  BY DEF Punctual
<1>2. Punctual(Update(s, o, -1)) /\ (Ready(s, o, -1) => Visible(Update(s, o, -1)))
  BY <1>1, UpdateSound DEF Punctual
<1>3. Sources(s, o) \cap s.pending = {} /\ Visible(s) => Ready(s, o, -1)
  BY <1>1 DEF Ready, Visible
<1> QED
  BY <1>2, <1>3 DEF Sound

------------------------------------------------------------------------------
(***************************************************************************)
(* Moves: what is told, and to whom.                                       *)
(***************************************************************************)

(* What move_done of o is about: what follows from o, and o itself when it   *)
(* has sources.                                                              *)
Told(s, o, U) ==
  /\ Whole(s, U) /\ s.children[o] \subseteq U /\ (HasParents(s, o) => o \in U)
  /\ \A K : Whole(s, K) /\ o \in K => U \subseteq K

(* It updates that, for now or later.                                        *)
LEMMA MoveDoneSound ==
  ASSUME NEW s, Punctual(s), NEW o \in s.objects
  PROVE  \E U : /\ Told(s, o, U)
                /\ Updated(s, MoveDone(s, o)) /\ Punctual(MoveDone(s, o))
                /\ MoveDone(s, o).stale \subseteq s.stale
                /\ s.hold => MoveDone(s, o).pending = s.pending \cup U
                /\ s.stale \ U \subseteq s.pending /\ (\A k \in s.conn : k[1] \notin s.delayed)
                       => Visible(MoveDone(s, o))
<1> DEFINE t == MoveDone(s, o)
           A == Covered(s, o, 0)
           B == Covered(s, o, 1)
           Good(U) ==
             /\ Updated(s, t) /\ Punctual(t) /\ t.stale \subseteq s.stale
             /\ s.hold => t.pending = s.pending \cup U
             /\ s.stale \ U \subseteq s.pending /\ (\A k \in s.conn : k[1] \notin s.delayed)
                    => Visible(t)
<1>1. Inv(s) /\ Acyclic(s) /\ s.failing = {} /\ (~s.hold => s.pending \subseteq s.delayed)
  BY DEF Punctual
<1>2. /\ o \in A /\ Whole(s, A) /\ B = A \ {o}
      /\ \A K : Whole(s, K) /\ o \in K => A \subseteq K
  BY <1>1, CoveredFacts
<1>3. s.children[o] \subseteq A /\ A \subseteq s.objects
  BY <1>2 DEF Whole
<1>4. ASSUME NEW co \in {0, 1}, t = Update(s, o, co), NEW U, U = Covered(s, o, co)
      PROVE  Good(U)
  <2>1. co \in {-1, 0, 1} /\ co # -1
    BY <1>4
  <2>2. Updated(s, t) /\ Punctual(t) /\ (Ready(s, o, co) => Visible(t))
    BY <1>1, <1>4, <2>1, UpdateSound
  <2>3. /\ t.stale \subseteq s.stale
        /\ \A x \in s.objects : x \in t.pending
               <=> IF x \in U THEN x \in Waits(s, o, co) ELSE x \in s.pending
    BY <1>1, <1>4, <2>1, UpdateFlags
  <2>4. U \subseteq s.objects
    BY <1>2, <1>3, <1>4
  <2>5. s.hold => t.pending = s.pending \cup U
    <3>1. s.pending \subseteq s.objects
      BY <1>1 DEF Inv
    <3>2. t.pending \subseteq s.objects
      BY <2>2 DEF Updated, Quiet
    <3>3. s.hold => Waits(s, o, co) = s.objects
      BY <2>1 DEF Waits
    <3> HIDE DEF t
    <3> QED
      BY <2>3, <2>4, <3>1, <3>2, <3>3
  <2>6. s.stale \ U \subseteq s.pending /\ (\A k \in s.conn : k[1] \notin s.delayed)
            => Ready(s, o, co)
    BY <1>1, <1>4, <2>1 DEF Ready
  <2> QED
    BY <2>2, <2>3, <2>5, <2>6
<1> HIDE DEF A, B, Good, t
<1>5. ASSUME HasParents(s, o) PROVE \E U : Told(s, o, U) /\ Good(U)
  <2>1. t = Update(s, o, 0)
    BY <1>5 DEF MoveDone, t
  <2>2. Told(s, o, A)
    BY <1>2, <1>3 DEF Told
  <2>3. A = Covered(s, o, 0) /\ 0 \in {0, 1}
    BY DEF A
  <2> QED
    BY <1>4, <2>1, <2>2, <2>3
<1>6. ASSUME ~HasParents(s, o), NEW x \in s.objects PROVE o \notin s.children[x]
  <2>1. x \in Ids
    BY <1>1 DEF Inv, Scores
  <2> QED
    BY <1>1, <1>6, <2>1 DEF Inv, HasParents, Sources, Dependants
<1>7. ASSUME ~HasParents(s, o), s.children[o] # {}
      PROVE  \E U : Told(s, o, U) /\ Good(U)
  <2>1. t = Update(s, o, 1)
    BY <1>7 DEF MoveDone, t
  <2>2. \A x \in s.objects : o \notin s.children[x]
    BY <1>6, <1>7
  <2>3. Told(s, o, B)
    BY <1>2, <1>3, <1>7, <2>2 DEF Told, Whole
  <2>4. B = Covered(s, o, 1) /\ 1 \in {0, 1}
    BY DEF B
  <2> QED
    BY <1>4, <2>1, <2>3, <2>4
<1>8. ASSUME ~HasParents(s, o), s.children[o] = {}
      PROVE  \E U : Told(s, o, U) /\ Good(U)
  <2>1. t = s
    BY <1>8 DEF MoveDone, t
  <2>2. Told(s, o, {})
    BY <1>8 DEF Told, Whole
  <2>3. Updated(s, s)
    BY <1>1, QuietSelf DEF Updated
  <2>4. s.stale \ {} = s.stale /\ s.pending \cup {} = s.pending
    OBVIOUS
  <2>5. Good({})
    BY <2>1, <2>3, <2>4 DEF Visible, Good
  <2> QED
    BY <2>2, <2>5
<1>9. PICK U : Told(s, o, U) /\ Good(U)
  BY <1>5, <1>7, <1>8
<1> QED
  BY <1>9 DEF Good, t

(* A move makes stale only what move_done is about.                          *)
LEMMA MovedFlags ==
  ASSUME NEW s, Inv(s), NEW S, S \subseteq s.objects, NEW K, Whole(s, K),
         \A o \in S : s.children[o] \subseteq K /\ (HasParents(s, o) => o \in K)
  PROVE  Moved(s, S).stale \subseteq s.stale \cup K
<1> DEFINE C == {o \in S : HasParents(s, o)} \cup Dependants(s, S)
<1>1. C \subseteq K
  BY DependantsFacts
<1>2. C \subseteq s.objects
  BY DependantsFacts
<1>3. Moved(s, S) = Changed(s, C)
  BY DEF Moved
<1> HIDE DEF C
<1>4. Changed(s, C).stale = s.stale \cup Onward(s, C)
  BY <1>2, ChangedFlags
<1>5. Onward(s, C) \subseteq K
  BY <1>1, <1>2, OnwardLeast DEF Whole
<1> QED
  BY <1>3, <1>4, <1>5

(* A move leaves waiting what waits.                                         *)
LEMMA MovedSound ==
  ASSUME NEW s, Punctual(s), NEW S, S \subseteq s.objects
  PROVE  /\ Updated(s, Moved(s, S)) /\ Moved(s, S).pending = s.pending
         /\ Punctual(Moved(s, S))
<1> DEFINE C == {o \in S : HasParents(s, o)} \cup Dependants(s, S)
           t == Moved(s, S)
<1>1. C \subseteq s.objects
  BY DependantsFacts DEF Punctual
<1>2. Moved(s, S) = Changed(s, C)
  BY DEF Moved
<1> HIDE DEF C, t
<1>3. Updated(s, t) /\ t.pending = s.pending
  BY <1>1, <1>2, ChangedFlags DEF Punctual, t
<1>4. Punctual(t)
  BY <1>3, UpdatedFacts DEF Punctual, Updated
<1> QED
  BY <1>3, <1>4 DEF t

(* Told, after a step that keeps the connections.                            *)
LEMMA SameTold ==
  ASSUME NEW s, NEW t, Inv(s), Updated(s, t)
  PROVE  /\ \A K : Whole(t, K) <=> Whole(s, K)
         /\ \A o, U : Told(t, o, U) <=> Told(s, o, U)
         /\ \A o : HasParents(t, o) <=> HasParents(s, o)
<1>1. t.objects = s.objects /\ t.children = s.children /\ t.conn = s.conn
  BY UpdatedFacts
<1>2. \A K : Whole(t, K) <=> Whole(s, K)
  BY <1>1 DEF Whole
<1>3. \A o : HasParents(t, o) <=> HasParents(s, o)
  BY <1>1 DEF HasParents, Sources
<1> QED
  BY <1>1, <1>2, <1>3 DEF Told

(* The end of an alignment, of an object that is in no group with others.    *)
LEMMA AlignEndSound ==
  ASSUME NEW s, Punctual(s), NEW me \in s.objects, NEW target \in s.objects,
         NEW do_link \in BOOLEAN
  PROVE  LET t == AlignEnd(s, me, target, do_link) IN
         /\ Punctual(t)
         /\ s.group[me] \subseteq {me} => Sound(s, t)
<1> DEFINE S == s.group[me] \ s.busses
           u == Moved(s, S)
           t == MoveDone(u, me)
<1>1. S \subseteq s.objects /\ Inv(s)
  BY GroupIn DEF Punctual
<1>2. s.group[me] \subseteq {me} => S \subseteq {me}
  OBVIOUS
<1> HIDE DEF S
<1>3. Updated(s, u) /\ u.pending = s.pending /\ Punctual(u)
  BY <1>1, MovedSound
<1>4. \A K : /\ Whole(s, K)
             /\ \A o \in S : s.children[o] \subseteq K /\ (HasParents(s, o) => o \in K)
             => u.stale \subseteq s.stale \cup K
  BY <1>1, MovedFlags
<1> HIDE DEF u
<1>5. u.objects = s.objects /\ u.conn = s.conn /\ u.delayed = s.delayed
  BY <1>1, <1>3, UpdatedFacts DEF Updated
<1>6. PICK U : /\ Told(u, me, U)
               /\ Updated(u, t) /\ Punctual(t)
               /\ u.stale \ U \subseteq u.pending /\ (\A k \in u.conn : k[1] \notin u.delayed)
                       => Visible(t)
  BY <1>3, <1>5, MoveDoneSound
<1> HIDE DEF t
<1>7. Told(s, me, U)
  BY <1>1, <1>3, <1>6, SameTold
<1>8. s.group[me] \subseteq {me} /\ Visible(s) => Visible(t)
  <2>1. S \subseteq {me} => u.stale \subseteq s.stale \cup U
    BY <1>4, <1>7 DEF Told
  <2> QED
    BY <1>2, <1>3, <1>5, <1>6, <2>1 DEF Visible
<1>9. Inv(t) /\ t.objects = s.objects
  BY <1>3, <1>5, <1>6, UpdatedFacts DEF Punctual
<1>10. PICK L : Retied(t, AddLink(t, me, target), L)
  BY <1>9, AddLinkInv
<1>11. Sound(t, AddLink(t, me, target))
  BY <1>6, <1>10, SameSound DEF Retied
<1>12. AlignEnd(s, me, target, do_link) = IF do_link THEN AddLink(t, me, target) ELSE t
  BY DEF AlignEnd, t, u, S
<1> QED
  BY <1>6, <1>8, <1>11, <1>12 DEF Sound

(* move_done of a group while updates are held: the sets its objects are     *)
(* about have come to wait, and nothing else.                                *)
Asked(s, S, t) ==
  /\ Updated(s, t) /\ t.stale \subseteq s.stale
  /\ \E U : /\ Whole(s, U) /\ t.pending = s.pending \cup U
            /\ \A o \in S : s.children[o] \subseteq U /\ (HasParents(s, o) => o \in U)
            /\ \A K : Whole(s, K) /\ S \subseteq K => U \subseteq K

(* While updates are held, move_done of some objects marks all that follows  *)
(* from them.                                                                *)
LEMMA GroupMoveDoneAsks ==
  ASSUME NEW s, Punctual(s), s.hold = TRUE, NEW S, S \subseteq s.objects
  PROVE  Asked(s, S, GroupMoveDone(s, S)) /\ Punctual(GroupMoveDone(s, S))
<1> DEFINE Q(P) == {t \in Scores : Asked(s, P, t) /\ Punctual(t)}
           T == [P \in SUBSET S |-> Q(P)]
<1>1. IsFiniteSet(S) /\ S \subseteq Nat /\ Inv(s)
  <2>1. S \in SUBSET Ids /\ Inv(s)
    BY DEF Punctual, Inv, Scores
  <2> QED
    BY <2>1, ObjectsFinite
<1>2. ASSUME NEW P \in SUBSET S, NEW x \in P, NEW t \in Q(P \ {x})
      PROVE  MoveDone(t, x) \in Q(P)
  <2> DEFINE r == MoveDone(t, x)
             B == P \ {x}
  <2>1. Updated(s, t) /\ t.stale \subseteq s.stale /\ Punctual(t)
    BY <1>2 DEF Asked
  <2>2. PICK U : /\ Whole(s, U) /\ t.pending = s.pending \cup U
                 /\ \A o \in B : s.children[o] \subseteq U /\ (HasParents(s, o) => o \in U)
                 /\ \A K : Whole(s, K) /\ B \subseteq K => U \subseteq K
    BY <1>2 DEF Asked
  <2>3. x \in t.objects /\ t.hold = TRUE
    BY <1>1, <2>1, UpdatedFacts DEF Updated
  <2>4. PICK V : /\ Told(t, x, V) /\ Updated(t, r) /\ Punctual(r)
                 /\ r.stale \subseteq t.stale /\ (t.hold => r.pending = t.pending \cup V)
    BY <2>1, <2>3, MoveDoneSound
  <2> HIDE DEF r
  <2>5. Told(s, x, V) /\ Updated(s, r)
    BY <1>1, <2>1, <2>4, SameTold, UpdatedFacts
  <2> DEFINE N == U \cup V
  <2>6. Whole(s, N)
    BY <2>2, <2>5 DEF Told, Whole
  <2>7. r.pending = s.pending \cup N
    BY <2>2, <2>3, <2>4
  <2>8. \A o \in P : s.children[o] \subseteq N /\ (HasParents(s, o) => o \in N)
    BY <2>2, <2>5 DEF Told
  <2>9. \A K : Whole(s, K) /\ P \subseteq K => N \subseteq K
    BY <1>2, <2>2, <2>5 DEF Told
  <2> HIDE DEF N
  <2>10. Asked(s, P, r)
    BY <2>1, <2>4, <2>5, <2>6, <2>7, <2>8, <2>9 DEF Asked
  <2>11. r \in Scores
    BY <2>4 DEF Punctual, Inv
  <2> QED
    BY <2>4, <2>10, <2>11 DEF r
<1>3. s \in Q({})
  <2>1. Updated(s, s) /\ s \in Scores
    BY <1>1, QuietSelf DEF Updated, Inv
  <2>2. Whole(s, {}) /\ s.pending = s.pending \cup {}
    BY DEF Whole
  <2>3. Asked(s, {}, s)
    BY <2>1, <2>2 DEF Asked
  <2> QED
    BY <2>1, <2>3
<1> HIDE DEF Q
<1>4. \A P \in SUBSET S : \A x \in P : \A v \in T[P \ {x}] : MoveDone(v, x) \in T[P]
  BY <1>2
<1>5. s \in T[{}] /\ T[S] = Q(S)
  BY <1>3
<1> HIDE DEF T
<1>6. GroupMoveDone(s, S) \in T[S]
  BY <1>1, <1>4, <1>5, GroupFold
<1> QED
  BY <1>5, <1>6 DEF Q

------------------------------------------------------------------------------
(***************************************************************************)
(* What is done while the updates are held.                                *)
(***************************************************************************)

(* Holding the updates disturbs nothing.                                     *)
LEMMA HoldSound ==
  ASSUME NEW s, Inv(s), Acyclic(s), s.failing = {}
  PROVE  LET t == Hold(s) IN
         /\ Punctual(t) /\ t.hold = TRUE /\ t.failing = {}
         /\ t.pending = s.pending /\ t.delayed = s.delayed /\ t.stale = s.stale
         /\ t.conn = s.conn /\ t.children = s.children /\ t.objects = s.objects
         /\ Visible(s) => Visible(t)
<1> DEFINE t == [s EXCEPT !.hold = TRUE]
<1>1. Inv(t)
  BY HoldQuiet DEF Hold
<1>2. t.hold = TRUE /\ t.pending = s.pending /\ t.delayed = s.delayed /\ t.failing = s.failing
      /\ t.stale = s.stale /\ t.conn = s.conn /\ t.children = s.children
      /\ t.objects = s.objects
  BY DEF Inv, Scores
<1> HIDE DEF t
<1>3. Hold(s) = t
  BY DEF Hold, t
<1>4. Acyclic(t)
  BY <1>2 DEF Acyclic
<1> QED
  BY <1>1, <1>2, <1>3, <1>4 DEF Punctual, Visible

(* The end of a drag: when the group shifts, all its members are told or the *)
(* output busses alone are in it.                                            *)
LEMMA DragEndSound ==
  ASSUME NEW s, Punctual(s), NEW me \in s.objects, NEW shifted \in BOOLEAN,
         NEW told \in SUBSET s.group[me]
  PROVE  LET t == DragEnd(s, me, shifted, told) IN
         /\ Punctual(t)
         /\ ~shifted \/ told = s.group[me] \/ s.group[me] \subseteq s.busses => Sound(s, t)
<1> DEFINE g == s.group[me]
           S == IF shifted THEN g \ s.busses ELSE {}
           u == IF shifted THEN Moved(s, g \ s.busses) ELSE s
           held == Hold(u)
           done == GroupMoveDone(held, told)
           seq == ListTree(done, g)
<1>1. Inv(s) /\ g \subseteq s.objects /\ told \subseteq g
  BY GroupIn DEF Punctual
<1>2. DragEnd(s, me, shifted, told) = Unhold(done, s.hold, seq)
  BY DEF DragEnd
<1>3. /\ S \subseteq g
      /\ ~shifted \/ told = g \/ g \subseteq s.busses => S \subseteq told
  OBVIOUS
<1> HIDE DEF g
<1>4. Updated(s, u) /\ u.pending = s.pending /\ Punctual(u)
  <2>1. CASE shifted
    BY <1>1, <2>1, MovedSound
  <2>2. CASE ~shifted
    BY <1>1, <2>2, QuietSelf DEF Updated
  <2> QED
    BY <2>1, <2>2
<1>5. \A K : /\ Whole(s, K)
             /\ \A o \in S : s.children[o] \subseteq K /\ (HasParents(s, o) => o \in K)
             => u.stale \subseteq s.stale \cup K
  <2>1. CASE shifted
    BY <1>1, <2>1, MovedFlags
  <2>2. CASE ~shifted
    BY <2>2
  <2> QED
    BY <2>1, <2>2
<1> HIDE DEF u, S
<1>6. /\ u.objects = s.objects /\ u.conn = s.conn /\ u.delayed = s.delayed
      /\ u.children = s.children /\ u.failing = {} /\ Inv(u) /\ Acyclic(u)
  BY <1>1, <1>4, UpdatedFacts DEF Updated, Punctual
<1>7. /\ Punctual(held) /\ held.hold = TRUE
      /\ held.pending = s.pending /\ held.delayed = s.delayed /\ held.stale = u.stale
      /\ held.conn = s.conn /\ held.children = s.children /\ held.objects = s.objects
  BY <1>4, <1>6, HoldSound
<1> HIDE DEF held
<1>8. \A K : Whole(held, K) <=> Whole(s, K)
  BY <1>7 DEF Whole
<1>9. \A o : HasParents(held, o) <=> HasParents(s, o)
  BY <1>7 DEF HasParents, Sources
<1>10. PICK U : /\ Updated(held, done) /\ Punctual(done) /\ done.stale \subseteq held.stale
                /\ Whole(s, U) /\ done.pending = s.pending \cup U
                /\ \A o \in told : s.children[o] \subseteq U /\ (HasParents(s, o) => o \in U)
                /\ \A K : Whole(s, K) /\ told \subseteq K => U \subseteq K
  <2>1. Asked(held, told, done) /\ Punctual(done)
    BY <1>1, <1>7, GroupMoveDoneAsks
  <2> HIDE DEF done
  <2>2. PICK U : /\ Whole(held, U) /\ done.pending = held.pending \cup U
                 /\ \A o \in told : held.children[o] \subseteq U
                                    /\ (HasParents(held, o) => o \in U)
                 /\ \A K : Whole(held, K) /\ told \subseteq K => U \subseteq K
    BY <2>1 DEF Asked
  <2>3. Updated(held, done) /\ done.stale \subseteq held.stale
    BY <2>1 DEF Asked
  <2> QED
    BY <1>7, <1>8, <1>9, <2>1, <2>2, <2>3
<1> HIDE DEF done
<1>11. /\ Inv(done) /\ Acyclic(done) /\ done.failing = {} /\ done.delayed = s.delayed
       /\ done.conn = s.conn /\ done.objects = s.objects /\ done.children = s.children
  BY <1>7, <1>10, UpdatedFacts DEF Punctual, Updated
<1>12. seq \in Orders(done) /\ g \subseteq Range(seq)
  BY <1>1, <1>11, TreeOrders
<1> HIDE DEF seq
<1>13. U \subseteq Range(seq)
  <2>1. Whole(done, Range(seq))
    BY <1>12, OrderFacts DEF Whole
  <2>2. Whole(s, Range(seq))
    BY <1>11, <2>1 DEF Whole
  <2> QED
    BY <1>1, <1>10, <1>12, <2>2
<1>14. ~s.hold => done.pending \ Range(seq) \subseteq done.delayed
  BY <1>10, <1>11, <1>13 DEF Punctual
<1>15. s.hold \in BOOLEAN
  BY <1>1 DEF Inv, Scores
<1>16. Punctual(Unhold(done, s.hold, seq))
       /\ (Visible(done) => Visible(Unhold(done, s.hold, seq)))
  BY <1>11, <1>12, <1>14, <1>15, UnholdSound
<1>17. ASSUME S \subseteq told, Visible(s) PROVE Visible(done)
  <2>1. held.stale \subseteq s.stale \cup U
    BY <1>5, <1>7, <1>10, <1>17
  <2> QED
    BY <1>10, <1>11, <1>17, <2>1 DEF Visible
<1> QED
  BY <1>2, <1>3, <1>16, <1>17 DEF Sound, g

(* The outlets of an object that is destroyed are cut one by one.            *)
LEMMA OutletsSound ==
  ASSUME NEW s, Punctual(s), NEW me, NEW C, IsFiniteSet(C), \A k \in C : k[3] \in s.objects
  PROVE  Sound(s, DisconnectOutlets(s, me, C))
<1> DEFINE Q == {t \in Scores : Sound(s, t) /\ t.objects = s.objects}
           T == [P \in SUBSET C |-> Q]
<1>1. ASSUME NEW k \in C, NEW t \in Q PROVE Disconnect(t, k[3], me, k[2]) \in Q
  <2>1. Sound(s, t) /\ Punctual(t) /\ t.objects = s.objects /\ k[3] \in t.objects
    BY DEF Sound
  <2>2. PICK u : u = Disconnect(t, k[3], me, k[2])
    OBVIOUS
  <2>3. Sound(t, u)
    BY <2>1, <2>2, DisconnectSound
  <2>4. u.objects = t.objects
    BY <2>1, <2>2, DisconnectInv DEF Punctual, Rewired
  <2>5. Sound(s, u) /\ u \in Scores
    BY <2>1, <2>3, SoundTrans DEF Sound, Punctual, Inv
  <2> QED
    BY <2>1, <2>2, <2>4, <2>5
<1>2. s \in Q
  BY DEF Sound, Punctual, Inv
<1>3. \A t \in Q : Sound(s, t)
  OBVIOUS
<1> HIDE DEF Q
<1>4. \A P \in SUBSET C : \A x \in P : \A v \in T[P \ {x}] :
          Disconnect(v, x[3], me, x[2]) \in T[P]
  BY <1>1
<1>5. s \in T[{}] /\ T[C] = Q
  BY <1>2
<1> HIDE DEF T
<1>6. DisconnectOutlets(s, me, C) \in T[C]
  BY <1>4, <1>5, OutletsFold
<1> QED
  BY <1>3, <1>5, <1>6

(* An object is destroyed: the updates are held meanwhile, and what it fed   *)
(* is updated in the end.                                                    *)
LEMMA DestroyObjectSound ==
  ASSUME NEW s, Punctual(s), NEW me \in s.objects
  PROVE  Sound(s, DestroyObject(s, me))
<1> DEFINE C == {k \in s.conn : k[1] = me}
           cut == DisconnectOutlets(Hold(s), me, C)
<1>1. PICK gone : /\ DestroyObject(s, me) = Unhold(gone, s.hold, ScoreTree(gone))
                  /\ Inv(gone) /\ gone.conn \subseteq cut.conn
                  /\ gone.pending = cut.pending \ {me} /\ gone.delayed = cut.delayed \ {me}
                  /\ gone.failing = cut.failing \ {me} /\ gone.stale = cut.stale \ {me}
  BY DestroyObjectSteps DEF Punctual
<1>2. Punctual(Hold(s)) /\ (Visible(s) => Visible(Hold(s))) /\ Hold(s).objects = s.objects
  BY HoldSound DEF Punctual
<1>3. IsFiniteSet(C) /\ \A k \in C : k[3] \in s.objects
  BY FS_Subset DEF Punctual, Inv
<1> HIDE DEF C
<1>4. Sound(Hold(s), cut)
  BY <1>2, <1>3, OutletsSound
<1> HIDE DEF cut
<1>5. Punctual(cut) /\ (Visible(s) => Visible(cut))
  BY <1>2, <1>4 DEF Sound
<1>6. Acyclic(gone) /\ gone.failing = {} /\ (Visible(cut) => Visible(gone))
  BY <1>1, <1>5 DEF Punctual, Acyclic, Visible
<1>7. ScoreTree(gone) \in Orders(gone) /\ Range(ScoreTree(gone)) = gone.objects
  BY <1>1, <1>6, TreeOrders
<1>8. gone.pending \ Range(ScoreTree(gone)) \subseteq gone.delayed
  BY <1>1, <1>7 DEF Inv
<1>9. s.hold \in BOOLEAN
  BY DEF Punctual, Inv, Scores
<1>10. Punctual(Unhold(gone, s.hold, ScoreTree(gone)))
       /\ (Visible(gone) => Visible(Unhold(gone, s.hold, ScoreTree(gone))))
  BY <1>1, <1>6, <1>7, <1>8, <1>9, UnholdSound
<1> QED
  BY <1>1, <1>5, <1>6, <1>10 DEF Sound

------------------------------------------------------------------------------
(***************************************************************************)
(* Links and output busses.                                                *)
(***************************************************************************)

(* No link leads to an output bus or from one.                               *)
Aside(s) == \A o \in Ids : \A x \in s.links[o] : o \notin s.busses /\ x \notin s.busses

(* It stays so with fewer links, and when a new object is made a bus.        *)
LEMMA FewerAside ==
  ASSUME NEW s, Inv(s), Aside(s), NEW t, \A o \in Ids : t.links[o] \subseteq s.links[o],
         \A x \in t.busses : x \in s.busses \/ x \notin s.objects
  PROVE  Aside(t)
<1>1. ASSUME NEW o \in Ids, NEW x \in t.links[o] PROVE o \notin t.busses /\ x \notin t.busses
  <2>1. x \in s.links[o] /\ o \notin s.busses /\ x \notin s.busses
    BY <1>1 DEF Aside
  <2>2. x \in s.objects /\ o \in s.objects
    BY <2>1 DEF Inv
  <2> QED
    BY <2>1, <2>2
<1> QED
  BY <1>1 DEF Aside

(* What keeps links and busses keeps that.                                   *)
LEMMA SameAside ==
  ASSUME NEW s, Aside(s), NEW t, t.links = s.links, t.busses = s.busses
  PROVE  Aside(t)
BY DEF Aside

(* A link between two objects that are not busses keeps it too.              *)
LEMMA AddLinkAside ==
  ASSUME NEW s, Inv(s), Aside(s), NEW me \in s.objects, NEW src \in s.objects,
         me \notin s.busses, src \notin s.busses
  PROVE  Aside(AddLink(s, me, src))
<1>1. PICK L : /\ Retied(s, AddLink(s, me, src), L)
               /\ \A o \in Ids : \A x \in L[o] : x \in s.links[o] \/ (o = me /\ x = src)
  BY AddLinkInv
<1> QED
  BY <1>1 DEF Aside, Retied

(* A bus is in no group with others then.                                    *)
LEMMA AsideAlone ==
  ASSUME NEW s, Inv(s), Aside(s), NEW me \in s.objects, me \in s.busses
  PROVE  s.group[me] \subseteq {me}
<1>1. me \in Ids
  BY GroupIn
<1>2. s.group[me] = Hull(Ties(s.links), me)
  BY <1>1 DEF Inv, GroupsOf
<1>3. Closed(Ties(s.links), {me})
  <2>1. ASSUME NEW z \in Ids, <<me, z>> \in Ties(s.links) PROVE FALSE
    BY <1>1, <2>1 DEF Ties, Aside
  <2> QED
    BY <2>1 DEF Closed
<1> QED
  BY <1>1, <1>2, <1>3, HullLeast

(* An object is destroyed: links go and none comes.                          *)
LEMMA DestroyAside ==
  ASSUME NEW s, Inv(s), Aside(s), NEW me \in s.objects
  PROVE  Aside(DestroyObject(s, me))
<1>1. PICK gone : /\ Inv(gone) /\ DestroyObject(s, me) = Unhold(gone, s.hold, ScoreTree(gone))
                  /\ gone.busses \subseteq s.busses
                  /\ \A o \in Ids : gone.links[o] \subseteq s.links[o]
  BY DestroyObjectSteps
<1>2. ScoreTree(gone) \in Seq(gone.objects)
  BY <1>1, TreesStay DEF ScoreTree, Lists
<1>3. s.hold \in BOOLEAN
  BY DEF Inv, Scores
<1>4. Quiet(gone, Unhold(gone, s.hold, ScoreTree(gone)))
  BY <1>1, <1>2, <1>3, UnholdQuiet
<1>5. Aside(gone)
  BY <1>1, FewerAside
<1> QED
  BY <1>1, <1>4, <1>5, SameAside DEF Quiet

(* The end of an alignment, with a link between such objects or without.     *)
LEMMA AlignAside ==
  ASSUME NEW s, Inv(s), Aside(s), NEW me \in s.objects, NEW target \in s.objects,
         NEW do_link \in BOOLEAN, do_link => me \notin s.busses /\ target \notin s.busses
  PROVE  Aside(AlignEnd(s, me, target, do_link))
<1>1. PICK t : /\ Quiet(s, t) /\ Inv(t)
               /\ AlignEnd(s, me, target, do_link) = IF do_link THEN AddLink(t, me, target) ELSE t
  BY AlignEndInv
<1>2. Aside(t) /\ me \in t.objects /\ target \in t.objects /\ t.busses = s.busses
  BY <1>1, SameAside DEF Quiet
<1>3. do_link => Aside(AddLink(t, me, target))
  BY <1>1, <1>2, AddLinkAside
<1> QED
  BY <1>1, <1>2, <1>3

------------------------------------------------------------------------------
(***************************************************************************)
(* Files.                                                                  *)
(***************************************************************************)

(* A score in which data go from smaller to greater numbers has no circle.   *)
Forward(C) == \A k \in C : k[1] < k[3]

(* The least of some objects takes data from none of them.                   *)
LEMMA ForwardAcyclic ==
  ASSUME NEW t, \A k \in t.conn : k[1] \in Ids /\ k[3] \in Ids, Forward(t.conn)
  PROVE  Acyclic(t)
<1> SUFFICES ASSUME NEW S \in SUBSET Ids, S # {}
             PROVE  \E x \in S : \A k \in t.conn : k[3] = x => k[1] \notin S
  BY DEF Acyclic
<1>1. S \subseteq Nat /\ Ids \subseteq Int
  BY ScoreAssumption DEF Ids
<1>2. PICK x \in S : \A y \in S : x <= y
  BY <1>1, NatMin
<1>3. ASSUME NEW k \in t.conn, k[3] = x, k[1] \in S PROVE FALSE
  <2>1. k[1] \in Int /\ k[3] \in Int /\ k[1] < k[3] /\ x <= k[1]
    BY <1>1, <1>2, <1>3 DEF Forward
  <2> QED
    BY <1>3, <2>1
<1> QED
  BY <1>3

(* A run of the file of s, as long as it goes: the updates are held, data    *)
(* go from older to newer objects, delays and busses are where they were.    *)
Restarts(s, q) ==
  /\ Punctual(q.to) /\ q.to.hold = TRUE /\ Forward(q.to.conn)
  /\ \A n \in DOMAIN q.env : q.env[n] \in q.to.delayed => n \in s.delayed
  /\ \A n \in DOMAIN q.env : q.env[n] \in q.to.busses => n \in s.busses
  /\ Visible(s) => Visible(q.to)
  /\ Aside(s) => Aside(q.to)

(* A connection of the file leads from an object made before to the one that *)
(* the line makes.                                                           *)
LEMMA WireSound ==
  ASSUME NEW s, NEW q, RunInv(q), Restarts(s, q), NEW k, k[2] \in InletNames,
         k[3] \in DOMAIN q.env, k[1] \in DOMAIN q.env => q.env[k[1]] < q.env[k[3]],
         Visible(s) => k[1] \notin s.delayed
  PROVE  Restarts(s, Wire(q, k))
<1>1. CASE ~q.ok \/ k[1] \notin DOMAIN q.env
  <2> DEFINE r == [q EXCEPT !.ok = FALSE]
  <2>1. Wire(q, k) = r /\ r.to = q.to /\ r.env = q.env
    BY <1>1 DEF Wire, RunInv, Runs
  <2> HIDE DEF r
  <2> QED
    BY <2>1 DEF Restarts
<1>2. CASE q.ok /\ k[1] \in DOMAIN q.env
  <2>0. PICK a, b : a = q.env[k[1]] /\ b = q.env[k[3]]
    OBVIOUS
  <2> DEFINE i == k[2]
             t == Connect(q.to, b, a, i)
             r == [q EXCEPT !.to = t]
  <2>1. Wire(q, k) = r /\ r.to = t /\ r.env = q.env
    BY <1>2, <2>0 DEF Wire, RunInv, Runs
  <2>2. a \in q.to.objects /\ b \in q.to.objects /\ a < b /\ i \in InletNames
    BY <1>2, <2>0 DEF RunInv
  <2>3. ASSUME NEW u, u.conn = q.to.conn \cup {<<a, i, b>>}
        PROVE  Acyclic(u) /\ Forward(u.conn)
    <3>1. \A c \in q.to.conn : c[1] \in Ids /\ c[3] \in Ids
      BY ConnectionShape DEF RunInv
    <3>2. q.to.objects \subseteq Ids
      BY DEF RunInv, Inv, Scores
    <3>3. Forward(u.conn)
      BY <2>2, <2>3 DEF Forward, Restarts
    <3>4. \A c \in u.conn : c[1] \in Ids /\ c[3] \in Ids
      BY <2>2, <2>3, <3>1, <3>2
    <3> QED
      BY <3>3, <3>4, ForwardAcyclic
  <2>4. /\ Punctual(t) /\ t.hold = q.to.hold /\ t.delayed = q.to.delayed
        /\ a \notin q.to.delayed => Sound(q.to, t)
    BY <2>2, <2>3, ConnectSound DEF Restarts
  <2>5. /\ t.conn = q.to.conn \cup {<<a, i, b>>}
        /\ t.links = q.to.links /\ t.busses = q.to.busses
    BY <2>2, ConnectInv DEF RunInv, Rewired
  <2> HIDE DEF t, r, i
  <2>6. Forward(t.conn)
    BY <2>3, <2>5
  <2>7. Visible(s) => Visible(t)
    BY <1>2, <2>0, <2>4 DEF Restarts, Sound
  <2>8. Aside(s) => Aside(t)
    BY <2>5, SameAside DEF Restarts
  <2> QED
    BY <2>1, <2>4, <2>5, <2>6, <2>7, <2>8 DEF Restarts
<1> QED
  BY <1>1, <1>2

(* So do all connections of a line.                                          *)
LEMMA WireAllSound ==
  ASSUME NEW s, NEW q, RunInv(q), Restarts(s, q), NEW C, IsFiniteSet(C),
         \A k \in C : /\ k[2] \in InletNames /\ k[3] \in DOMAIN q.env
                      /\ k[1] \in DOMAIN q.env => q.env[k[1]] < q.env[k[3]]
                      /\ Visible(s) => k[1] \notin s.delayed
  PROVE  Restarts(s, WireAll(q, C))
<1> DEFINE R == {r \in Runs : RunInv(r) /\ SameObjects(q, r) /\ Restarts(s, r)}
           T == [P \in SUBSET C |-> R]
<1>1. ASSUME NEW r \in R, NEW k \in C PROVE Wire(r, k) \in R
  <2>1. /\ RunInv(r) /\ r.env = q.env /\ k[2] \in InletNames /\ k[3] \in DOMAIN r.env
        /\ k[1] \in DOMAIN r.env => r.env[k[1]] < r.env[k[3]]
        /\ Visible(s) => k[1] \notin s.delayed
    BY DEF SameObjects
  <2>2. RunInv(Wire(r, k)) /\ SameObjects(r, Wire(r, k)) /\ Restarts(s, Wire(r, k))
    BY <2>1, WireInv, WireSound
  <2> QED
    BY <2>2 DEF SameObjects, RunInv
<1>2. q \in R
  BY DEF RunInv, SameObjects
<1> HIDE DEF R
<1>3. \A P \in SUBSET C : \A x \in P : \A v \in T[P \ {x}] : Wire(v, x) \in T[P]
  BY <1>1
<1>4. q \in T[{}] /\ T[C] = R
  BY <1>2
<1> HIDE DEF T
<1>5. WireAll(q, C) \in T[C]
  BY <1>3, <1>4, WireFold
<1> QED
  BY <1>4, <1>5 DEF R

(* The object a line makes has nothing depending on it yet when its          *)
(* delay_update is set.                                                      *)
LEMMA RunLineSound ==
  ASSUME NEW s, Punctual(s), NEW q, RunInv(q), Restarts(s, q),
         NEW m \in Ids, After(q, m), NEW e, Tells(s, e),
         e.name \in Ids, e.bus \in BOOLEAN, e.error \in BOOLEAN, e.delay \in BOOLEAN,
         IsFiniteSet(e.conn),
         \A k \in e.conn : k[2] \in InletNames /\ k[3] = e.name
  PROVE  Restarts(s, RunLine(q, e))
<1>1. CASE ~q.ok
  BY <1>1 DEF RunLine
<1>2. CASE q.ok
  <2> DEFINE t == NewObject(q.to, e.bus)
             u == Edited(t, m, FALSE)
             w == SetDelay(u, m, e.delay)
             r == Made(t, q.env, e)
  <2>1. e.error = FALSE /\ (e.delay <=> e.name \in s.delayed) /\ e.conn \subseteq s.conn
    BY DEF Tells, Punctual
  <2>2. /\ FreeId(q.to) = m /\ r.to = SetDelay(Edited(t, m, e.error), m, e.delay)
        /\ RunInv(r) /\ r.to.objects = 0 .. m /\ r.to.links = q.to.links
        /\ \A x \in r.to.busses : x \in q.to.busses \/ (e.bus /\ x = m)
        /\ e.name \in DOMAIN r.env /\ r.env[e.name] = m
        /\ \A n \in DOMAIN r.env :
              n = e.name \/ (n \in DOMAIN q.env /\ r.env[n] = q.env[n])
    BY <1>2, MadeInv
  <2>3. r.to = w
    BY <2>1, <2>2
  <2>4. RunLine(q, e) = WireAll(r, e.conn)
    BY <1>2 DEF RunLine
  <2> HIDE DEF r
  <2>5. q.to.objects = 0 .. m - 1 /\ MaxId \in Nat /\ m \in 0 .. MaxId
    BY <1>2, ScoreAssumption DEF After, Ids
  <2>6. Inv(q.to) /\ Punctual(q.to) /\ \A n \in DOMAIN q.env : q.env[n] \in q.to.objects
    BY DEF RunInv, Restarts
  <2>7. /\ Sound(q.to, t) /\ t.conn = q.to.conn /\ t.hold = TRUE /\ t.delayed = q.to.delayed
        /\ Inv(t) /\ t.objects = q.to.objects \cup {m}
    <3>1. PICK b \in BOOLEAN : b = e.bus
      OBVIOUS
    <3>2. t = NewObject(q.to, b)
      BY <3>1
    <3> HIDE DEF t
    <3>3. FreeId(q.to) \in Ids /\ q.to.hold = TRUE
      BY <2>2 DEF Restarts
    <3>4. /\ Inv(NewObject(q.to, b)) /\ Sound(q.to, NewObject(q.to, b))
          /\ NewObject(q.to, b).objects = q.to.objects \cup {FreeId(q.to)}
          /\ NewObject(q.to, b).conn = q.to.conn /\ NewObject(q.to, b).hold = q.to.hold
          /\ NewObject(q.to, b).delayed = q.to.delayed
      BY <2>6, <3>3, NewObjectSound, NewObjectInv
    <3> QED
      BY <2>2, <3>2, <3>3, <3>4
  <2> HIDE DEF t
  <2>8. Updated(t, u) /\ Sound(t, u) /\ Inv(u)
    BY <2>7, EditedSound DEF Sound, Punctual
  <2>9. u.conn = t.conn /\ u.objects = t.objects
    BY <2>7, <2>8, UpdatedFacts
  <2> HIDE DEF u
  <2>10. u.children[m] = {}
    <3>1. \A k \in u.conn : k[1] # m
      BY <2>5, <2>6, <2>7, <2>9 DEF Inv
    <3> QED
      BY <2>8, <3>1 DEF Inv, Dependants
  <2>11. /\ Punctual(w) /\ w.hold = u.hold /\ Sound(u, w)
         /\ (\A x \in w.delayed : x \in u.delayed \/ x = m) /\ (m \in w.delayed => e.delay)
    <3>1. Punctual(u) /\ m \in u.objects
      BY <2>7, <2>8, <2>9 DEF Sound
    <3>2. PICK b \in BOOLEAN : b = e.delay
      OBVIOUS
    <3>3. DelaySet(u, m, b, SetDelay(u, m, b))
      BY <3>1, SetDelaySound
    <3>4. w = SetDelay(u, m, b)
      BY <3>2
    <3> HIDE DEF w
    <3> QED
      BY <2>10, <3>2, <3>3, <3>4 DEF DelaySet
  <2>12. w.conn = q.to.conn
    <3>1. PICK b \in BOOLEAN : b = e.delay
      OBVIOUS
    <3>2. Quiet(u, w)
      BY <2>7, <2>8, <2>9, <3>1, SetDelayQuiet
    <3> QED
      BY <2>7, <2>9, <3>2 DEF Quiet
  <2> HIDE DEF w
  <2>13. w.hold = TRUE /\ u.delayed = q.to.delayed
    BY <2>7, <2>8, <2>11 DEF Updated
  <2>14. ASSUME NEW n \in DOMAIN r.env, n # e.name
         PROVE  r.env[n] \in q.to.objects /\ r.env[n] = q.env[n] /\ r.env[n] # m
    BY <2>2, <2>5, <2>6, <2>14
  <2>15. Restarts(s, r)
    <3>1. \A n \in DOMAIN r.env : r.env[n] \in r.to.delayed => n \in s.delayed
      <4>1. ASSUME NEW n \in DOMAIN r.env, n # e.name, r.env[n] \in w.delayed
            PROVE  n \in s.delayed
        BY <2>2, <2>11, <2>13, <2>14, <4>1 DEF Restarts
      <4>2. r.env[e.name] \in w.delayed => e.name \in s.delayed
        BY <2>1, <2>2, <2>11
      <4> QED
        BY <2>3, <4>1, <4>2
    <3>2. Visible(s) => Visible(w)
      BY <2>7, <2>8, <2>11 DEF Restarts, Sound
    <3>3. \A n \in DOMAIN r.env : r.env[n] \in r.to.busses => n \in s.busses
      <4>1. ASSUME NEW n \in DOMAIN r.env, n # e.name, r.env[n] \in r.to.busses
            PROVE  n \in s.busses
        BY <2>2, <2>14, <4>1 DEF Restarts
      <4>2. m \notin q.to.busses
        BY <2>5, <2>6 DEF Inv
      <4>3. r.env[e.name] \in r.to.busses => e.name \in s.busses
        BY <2>2, <4>2 DEF Tells
      <4> QED
        BY <4>1, <4>3
    <3>4. Aside(s) => Aside(r.to)
      <4>1. \A x \in r.to.busses : x \in q.to.busses \/ x \notin q.to.objects
        BY <2>2, <2>5
      <4> QED
        BY <2>2, <2>6, <4>1, FewerAside DEF Restarts
    <3> QED
      BY <2>3, <2>11, <2>12, <2>13, <3>1, <3>2, <3>3, <3>4 DEF Restarts
  <2>16. ASSUME NEW k \in e.conn
         PROVE  /\ k[2] \in InletNames /\ k[3] \in DOMAIN r.env
                /\ k[1] \in DOMAIN r.env => r.env[k[1]] < r.env[k[3]]
                /\ Visible(s) => k[1] \notin s.delayed
    <3>1. k[1] # k[3]
      <4>1. k \in s.conn /\ {k[1]} \in SUBSET Ids
        BY <2>1, ConnectionShape DEF Punctual
      <4>2. k[3] = k[1] => k[1] \notin {k[1]}
        BY <4>1 DEF Punctual, Acyclic
      <4> QED
        BY <4>2
    <3>2. ASSUME k[1] \in DOMAIN r.env PROVE r.env[k[1]] < r.env[k[3]]
      <4>1. r.env[k[1]] \in 0 .. m - 1 /\ r.env[k[3]] = m
        BY <2>2, <2>5, <2>14, <3>1, <3>2
      <4> QED
        BY <2>5, <4>1
    <3> QED
      BY <2>1, <2>2, <3>2 DEF Visible
  <2> QED
    BY <2>2, <2>4, <2>15, <2>16, WireAllSound
<1> QED
  BY <1>1, <1>2

(* The lines of the file, one after the other.                               *)
LEMMA RunLinesSound ==
  ASSUME NEW s, Punctual(s), NEW q, RunInv(q), Restarts(s, q), After(q, 0), NEW seq,
         IsFiniteSet(DOMAIN seq), DOMAIN seq \subseteq Nat,
         Cardinality(DOMAIN seq) \in Nat, Cardinality(DOMAIN seq) <= MaxId + 1,
         \A n \in DOMAIN seq :
             /\ seq[n].name \in Ids /\ seq[n].bus \in BOOLEAN
             /\ seq[n].error \in BOOLEAN
             /\ seq[n].delay \in BOOLEAN /\ IsFiniteSet(seq[n].conn)
             /\ \A k \in seq[n].conn : k[2] \in InletNames /\ k[3] = seq[n].name
             /\ Tells(s, seq[n])
  PROVE  RunInv(RunLines(q, seq)) /\ Restarts(s, RunLines(q, seq))
<1> DEFINE R == {r \in Runs : Restarts(s, r)}
           G == [P \in SUBSET DOMAIN seq |-> R]
<1>1. q \in R
  BY DEF RunInv
<1>2. ASSUME NEW m \in Ids, NEW v \in R, NEW n \in DOMAIN seq, RunInv(v), After(v, m)
      PROVE  RunLine(v, seq[n]) \in R
  BY <1>2, RunLineInv, RunLineSound DEF RunInv
<1>3. \A r \in R : Restarts(s, r)
  OBVIOUS
<1> HIDE DEF R
<1>4. \A P \in SUBSET DOMAIN seq : \A x \in P : (\A y \in P : y <= x) =>
          \A m \in Ids : \A v \in G[P \ {x}] :
              RunInv(v) /\ After(v, m) => RunLine(v, seq[x]) \in G[P]
  BY <1>2
<1>5. q \in G[{}] /\ G[DOMAIN seq] = R
  BY <1>1
<1> HIDE DEF G
<1>6. RunInv(RunLines(q, seq)) /\ RunLines(q, seq) \in G[DOMAIN seq]
  BY <1>4, <1>5, RunLinesInv
<1> QED
  BY <1>3, <1>5, <1>6

(* Links change no flags and no connections.                                 *)
LEMMA TieSound ==
  ASSUME NEW s, NEW q, RunInv(q), Restarts(s, q), NEW p,
         Aside(s) => p[1] \notin s.busses /\ p[2] \notin s.busses
  PROVE  Restarts(s, Tie(q, p))
<1>1. CASE ~q.ok \/ ~({p[1], p[2]} \subseteq DOMAIN q.env)
  <2> DEFINE r == [q EXCEPT !.ok = FALSE]
  <2>1. Tie(q, p) = r /\ r.to = q.to /\ r.env = q.env
    BY <1>1 DEF Tie, RunInv, Runs
  <2> HIDE DEF r
  <2> QED
    BY <2>1 DEF Restarts
<1>2. CASE q.ok /\ {p[1], p[2]} \subseteq DOMAIN q.env
  <2> DEFINE t == AddLink(q.to, q.env[p[1]], q.env[p[2]])
             r == [q EXCEPT !.to = t]
  <2>1. Tie(q, p) = r /\ r.to = t /\ r.env = q.env
    BY <1>2 DEF Tie, RunInv, Runs
  <2>2. q.env[p[1]] \in q.to.objects /\ q.env[p[2]] \in q.to.objects /\ Inv(q.to)
    BY <1>2 DEF RunInv
  <2>3. /\ Inv(t) /\ SameFlags(q.to, t) /\ t.conn = q.to.conn /\ t.busses = q.to.busses
    BY <2>2, AddLinkInv DEF Retied
  <2>4. Aside(s) => Aside(t)
    <3>1. Aside(s) => /\ Aside(q.to) /\ q.env[p[1]] \notin q.to.busses
                      /\ q.env[p[2]] \notin q.to.busses
      BY <1>2 DEF Restarts
    <3> QED
      BY <2>2, <3>1, AddLinkAside
  <2> HIDE DEF t, r
  <2>5. Sound(q.to, t)
    BY <2>3, SameSound DEF Restarts
  <2> QED
    BY <2>1, <2>3, <2>5, <2>4 DEF Restarts, Sound, SameFlags
<1> QED
  BY <1>1, <1>2

(* The links of the file, one after the other.                               *)
LEMMA TieAllSound ==
  ASSUME NEW s, NEW q, RunInv(q), Restarts(s, q), NEW L, IsFiniteSet(L),
         Aside(s) => \A p \in L : p[1] \notin s.busses /\ p[2] \notin s.busses
  PROVE  Restarts(s, TieAll(q, L))
<1> DEFINE R == {r \in Runs : RunInv(r) /\ Restarts(s, r)}
           T == [P \in SUBSET L |-> R]
<1>1. ASSUME NEW r \in R, NEW p \in L PROVE Tie(r, p) \in R
  BY TieInv, TieSound DEF RunInv
<1>2. q \in R
  BY DEF RunInv
<1>3. \A r \in R : Restarts(s, r)
  OBVIOUS
<1> HIDE DEF R
<1>4. \A P \in SUBSET L : \A x \in P : \A v \in T[P \ {x}] : Tie(v, x) \in T[P]
  BY <1>1
<1>5. q \in T[{}] /\ T[L] = R
  BY <1>2
<1> HIDE DEF T
<1>6. TieAll(q, L) \in T[L]
  BY <1>4, <1>5, TieFold
<1> QED
  BY <1>3, <1>5, <1>6

(* A file is run with the updates held, from an empty score.                 *)
LEMMA ReplaySound ==
  ASSUME NEW s, Punctual(s)
  PROVE  Restarts(s, Replay(Dump(s)))
<1> DEFINE base == Hold(Empty)
           start == [to |-> base, env |-> <<>>, ok |-> TRUE]
           file == Dump(s)
<1>1. Inv(s) /\ Inv(Empty) /\ Acyclic(Empty) /\ Visible(Empty) /\ Empty.failing = {}
      /\ Empty.conn = {} /\ Empty.objects = {} /\ Empty.lastId = 0 /\ Empty.busses = {}
  <2>1. Empty.stale = {} /\ Empty.conn = {} /\ Empty.failing = {} /\ Empty.busses = {}
    BY DEF Empty
  <2> QED
    BY <2>1, EmptyInv DEF Acyclic, Visible, Punctual
<1>2. Punctual(base) /\ Visible(base) /\ base.hold = TRUE /\ base.conn = {}
  BY <1>1, HoldSound
<1>3. base.objects = {} /\ base.lastId = 0 /\ Inv(base) /\ Aside(base)
  BY <1>1, HoldQuiet DEF Quiet, Hold, Aside
<1> HIDE DEF base
<1>4. <<>> \in Names /\ DOMAIN <<>> = {}
  <2>1. DOMAIN <<>> = {} /\ <<>> \in [{} -> Ids]
    OBVIOUS
  <2>2. {} \in SUBSET Ids
    OBVIOUS
  <2> QED
    BY <2>1, <2>2 DEF Names
<1>5. RunInv(start) /\ Restarts(s, start)
  BY <1>2, <1>3, <1>4 DEF RunInv, Runs, Inv, Restarts, Forward
<1>6. After(start, 0)
  <2>1. 0 .. 0 - 1 = {}
    OBVIOUS
  <2> QED
    BY <1>3, <2>1 DEF After
<1> HIDE DEF start
<1>7. RunInv(RunLines(start, file.lines)) /\ Restarts(s, RunLines(start, file.lines))
  <2>1. /\ IsFiniteSet(DOMAIN file.lines) /\ DOMAIN file.lines \subseteq Nat
        /\ Cardinality(DOMAIN file.lines) \in Nat
        /\ Cardinality(DOMAIN file.lines) <= MaxId + 1
        /\ \A n \in DOMAIN file.lines :
                /\ file.lines[n].name \in Ids /\ file.lines[n].bus \in BOOLEAN
                /\ file.lines[n].error \in BOOLEAN
                /\ file.lines[n].delay \in BOOLEAN /\ IsFiniteSet(file.lines[n].conn)
                /\ \A k \in file.lines[n].conn :
                       k[2] \in InletNames /\ k[3] = file.lines[n].name
                /\ Tells(s, file.lines[n])
    BY <1>1, DumpLines
  <2> HIDE DEF file
  <2> QED
    BY <1>5, <1>6, <2>1, RunLinesSound
<1>8. IsFiniteSet(file.links)
  <2>1. s.objects \in SUBSET Ids
    BY <1>1 DEF Inv, Scores
  <2>2. file.links \in SUBSET (Ids \X Ids)
    BY <2>1 DEF Dump
  <2> QED
    BY <2>2, PairsFinite
<1>9. Aside(s) => \A p \in file.links : p[1] \notin s.busses /\ p[2] \notin s.busses
  <2>1. s.objects \subseteq Ids
    BY <1>1 DEF Inv, Scores
  <2> QED
    BY <2>1 DEF Dump, Aside
<1> HIDE DEF file
<1>10. Restarts(s, TieAll(RunLines(start, file.lines), file.links))
  BY <1>7, <1>8, <1>9, TieAllSound
<1> QED
  BY <1>10 DEF Replay, start, base, file

(* The score that a file leads to, with the updates let go after it or not.  *)
LEMMA ReopenSound ==
  ASSUME NEW s, Punctual(s)
  PROVE  LET t == Loaded(Replay(Dump(s)), s.hold) IN
         Sound(s, t) /\ (Aside(s) => Aside(t))
<1> DEFINE run == Replay(Dump(s))
<1> PICK t : t = run.to
  OBVIOUS
<1>1. Punctual(t) /\ (Visible(s) => Visible(t)) /\ (Aside(s) => Aside(t))
  BY ReplaySound DEF Restarts
<1>2. Inv(t) /\ Acyclic(t) /\ t.failing = {}
  BY <1>1 DEF Punctual
<1>3. PICK b \in BOOLEAN : b = s.hold
  BY DEF Punctual, Inv, Scores
<1>4. ScoreTree(t) \in Orders(t) /\ Range(ScoreTree(t)) = t.objects
  BY <1>2, TreeOrders
<1>5. t.pending \ Range(ScoreTree(t)) \subseteq t.delayed
  BY <1>2, <1>4 DEF Inv
<1>6. Punctual(Unhold(t, b, ScoreTree(t)))
      /\ (Visible(t) => Visible(Unhold(t, b, ScoreTree(t))))
  BY <1>2, <1>4, <1>5, UnholdSound
<1>7. Aside(t) => Aside(Unhold(t, b, ScoreTree(t)))
  <2>1. ScoreTree(t) \in Seq(t.objects)
    BY <1>2, TreesStay DEF ScoreTree, Lists
  <2>2. Quiet(t, Unhold(t, b, ScoreTree(t)))
    BY <1>2, <2>1, UnholdQuiet
  <2> QED
    BY <2>2, SameAside DEF Quiet
<1>8. Loaded(run, s.hold) = IF run.ok THEN Unhold(t, b, ScoreTree(t)) ELSE t
  BY <1>3 DEF Loaded
<1> HIDE DEF run
<1>9. Sound(s, Loaded(run, s.hold)) /\ (Aside(s) => Aside(Loaded(run, s.hold)))
  BY <1>1, <1>6, <1>8, <1>7 DEF Sound
<1> QED
  BY <1>9 DEF run

------------------------------------------------------------------------------
(***************************************************************************)
(* What waits, and what is shown.                                          *)
(***************************************************************************)

(* What the users must leave alone for nothing to wait unasked: circles,     *)
(* and errors left in scripts.                                               *)
Orderly == {"failing", "cycles"} \cap Practice = {}

(* And, for what is out of date to be shown, besides: what the code does     *)
(* not pass on to all it is about.                                           *)
Careful ==
  /\ Orderly
  /\ {"inner delay", "single update", "align groups", "bus groups", "delete moved",
      "negative start"} \cap Practice = {}

(* Links make nothing stale, and nothing wait.                               *)
LEMMA RetiedSound ==
  ASSUME NEW s, Punctual(s), NEW t, \E L : Retied(s, t, L)
  PROVE  Sound(s, t)
BY SameSound DEF Retied

(* Links are made between other objects than busses, if so the users do.     *)
LEMMA NextAside ==
  ASSUME Punctual(score), Aside(score), "bus groups" \notin Practice, Next
  PROVE  Aside(score')
<1>0. Inv(score)
  BY DEF Punctual
<1>1. CASE Create
  <2>1. PICK bus \in BOOLEAN : FreeId(score) \in Ids /\ score' = NewObject(score, bus)
    BY <1>1 DEF Create
  <2>2. /\ score'.links = score.links
        /\ \A x \in score'.busses : x \in score.busses \/ (bus /\ x = FreeId(score))
    BY <1>0, <2>1, NewObjectInv
  <2>3. FreeId(score) \notin score.objects
    BY <1>0, <2>1, FreeIdFacts
  <2> QED
    BY <1>0, <2>2, <2>3, FewerAside
<1>2. CASE Destroy
  <2>1. PICK t, o :
            o \in t.objects /\ Quiet(score, t) /\ Inv(t) /\ score' = DestroyObject(t, o)
    BY <1>0, <1>2, DestroyFacts
  <2>2. Aside(t)
    BY <2>1, SameAside DEF Quiet
  <2> QED
    BY <2>1, <2>2, DestroyAside
<1>3. CASE Edit
  <2>1. PICK o \in score.objects, error \in BOOLEAN : score' = Edited(score, o, error)
    BY <1>3 DEF Edit
  <2>2. Quiet(score, Edited(score, o, error))
    BY <1>0, EditedQuiet
  <2> QED
    BY <2>1, <2>2, SameAside DEF Quiet
<1>4. CASE SetDelayUpdate
  <2>1. PICK o \in score.objects, on \in BOOLEAN : score' = SetDelay(score, o, on)
    BY <1>4 DEF SetDelayUpdate
  <2>2. Quiet(score, SetDelay(score, o, on))
    BY <1>0, SetDelayQuiet
  <2> QED
    BY <2>1, <2>2, SameAside DEF Quiet
<1>5. CASE ConnectTo
  <2>1. PICK d \in score.objects, src \in score.objects :
            \E i \in Inlets[d] : score' = Connect(score, d, src, i)
    BY <1>5 DEF ConnectTo
  <2>2. PICK i \in InletNames : score' = Connect(score, d, src, i)
    BY <1>0, <2>1 DEF Inv, Scores, InletNames
  <2>3. Rewired(score, score', score.conn \cup {<<src, i, d>>})
    BY <1>0, <2>1, <2>2, ConnectInv
  <2> QED
    BY <2>3, SameAside DEF Rewired
<1>6. CASE DisconnectFrom
  <2>1. PICK k \in score.conn : score' = Disconnect(score, k[3], k[1], k[2])
    BY <1>6 DEF DisconnectFrom
  <2>2. k[3] \in score.objects
    BY <1>0, ConnectionShape
  <2>3. Rewired(score, score', score.conn \ {<<k[1], k[2], k[3]>>})
    BY <1>0, <2>1, <2>2, DisconnectInv
  <2> QED
    BY <2>3, SameAside DEF Rewired
<1>7. CASE Link
  BY <1>0, <1>7, AddLinkAside DEF Link, MayLink
<1>8. CASE Unlink
  <2>1. PICK o \in score.objects, target \in score.objects :
            score' = RemoveLink(score, o, target)
    BY <1>8 DEF Unlink
  <2>2. PICK L : Retied(score, score', L) /\ \A x \in Ids : L[x] \subseteq score.links[x]
    BY <1>0, <2>1, RemoveLinkInv
  <2> QED
    BY <1>0, <2>2, FewerAside DEF Retied
<1>9. CASE Drag
  <2>1. Quiet(score, score')
    BY <1>0, <1>9, DragEndQuiet DEF Drag
  <2> QED
    BY <2>1, SameAside DEF Quiet
<1>10. CASE Align
  <2>1. PICK o \in score.objects, target \in score.objects, do_link \in BOOLEAN :
            /\ do_link => MayLink(o, target)
            /\ score' = AlignEnd(score, o, target, do_link)
    BY <1>10 DEF Align
  <2>2. do_link => o \notin score.busses /\ target \notin score.busses
    BY <2>1 DEF MayLink
  <2> QED
    BY <1>0, <2>1, <2>2, AlignAside
<1>11. ASSUME NEW t, Quiet(score, t), score' = t PROVE Aside(score')
  BY <1>11, SameAside DEF Quiet
<1>12. ScoreTree(score) \in Seq(score.objects)
  BY <1>0, TreesStay DEF ScoreTree, Lists
<1>13. CASE ToggleHold
  <2> DEFINE t == [score EXCEPT !.hold = ~@]
  <2>1. PICK b \in BOOLEAN : b = ~score.hold
    BY <1>0 DEF Inv, Scores
  <2>2. Quiet(score, t) /\ Inv(t)
    BY <1>0, <2>1, HoldQuiet
  <2>3. ScoreTree(t) \in Seq(t.objects)
    BY <1>0, <2>2, TreesStay DEF ScoreTree, Lists
  <2>4. score' = IF t.hold THEN t ELSE UpdateAll(t, ScoreTree(t), FALSE)
    BY <1>13 DEF ToggleHold
  <2> HIDE DEF t
  <2>5. Quiet(t, UpdateAll(t, ScoreTree(t), FALSE))
    BY <1>0, <2>2, <2>3, UpdateAllQuiet
  <2>6. Quiet(score, score')
    BY <2>2, <2>4, <2>5, QuietTrans
  <2> QED
    BY <1>11, <2>6
<1>14. CASE UpdateButton
  BY <1>0, <1>11, <1>12, <1>14, UpdateAllQuiet DEF UpdateButton
<1>15. CASE UpdateKey
  BY <1>0, <1>11, <1>15, UpdateQuiet DEF UpdateKey
<1>16. CASE Reopen
  BY <1>16, ReopenSound DEF Reopen
<1> QED
  BY <1>1, <1>2, <1>3, <1>4, <1>5, <1>6, <1>7, <1>8, <1>9, <1>10, <1>13, <1>14,
     <1>15, <1>16 DEF Next

(* Each action keeps both parts.                                             *)
LEMMA NextSound ==
  ASSUME Orderly, Punctual(score), Next
  PROVE  Punctual(score') /\ (Careful /\ Aside(score) => Sound(score, score'))
<1>0. Inv(score) /\ Acyclic(score)
  BY DEF Punctual
<1>1. CASE Create
  <2>1. PICK bus \in BOOLEAN : FreeId(score) \in Ids /\ score' = NewObject(score, bus)
    BY <1>1 DEF Create
  <2>2. Sound(score, NewObject(score, bus))
    BY <2>1, NewObjectSound
  <2> QED
    BY <2>1, <2>2 DEF Sound
<1>2. CASE Destroy
  <2>1. PICK t, o :
            /\ o \in t.objects
            /\ score' = DestroyObject(t, o)
            /\ \/ t = score
               \/ /\ "delete moved" \in Practice
                  /\ \E S : S \subseteq score.objects /\ t = Moved(score, S)
    BY <1>0, <1>2, DestroyFacts
  <2>2. Punctual(t)
    BY <2>1, MovedSound
  <2>3. Sound(t, DestroyObject(t, o))
    BY <2>1, <2>2, DestroyObjectSound
  <2>4. Careful => t = score
    BY <2>1 DEF Careful
  <2> QED
    BY <2>1, <2>3, <2>4 DEF Sound
<1>3. CASE Edit
  <2>1. PICK o \in score.objects : score' = Edited(score, o, FALSE)
    BY <1>3 DEF Edit, Orderly
  <2> QED
    BY <2>1, EditedSound DEF Sound
<1>4. CASE SetDelayUpdate
  <2>1. PICK o \in score.objects, on \in BOOLEAN :
            /\ on => "inner delay" \in Practice \/ score.children[o] = {}
            /\ score' = SetDelay(score, o, on)
    BY <1>4 DEF SetDelayUpdate
  <2>2. DelaySet(score, o, on, score')
    BY <2>1, SetDelaySound
  <2> QED
    BY <2>1, <2>2 DEF DelaySet, Careful
<1>5. CASE ConnectTo
  <2>1. PICK d \in score.objects, src \in score.objects :
            \E i \in Inlets[d] :
              /\ src \notin Onward(score, {d})
              /\ "inner delay" \in Practice \/ src \notin score.delayed
              /\ score' = Connect(score, d, src, i)
    BY <1>5 DEF ConnectTo, Orderly
  <2>2. PICK i \in Inlets[d] :
              /\ src \notin Onward(score, {d})
              /\ "inner delay" \in Practice \/ src \notin score.delayed
              /\ score' = Connect(score, d, src, i)
    BY <2>1
  <2>3. i \in InletNames
    BY <1>0, <2>2 DEF Inv, Scores, InletNames
  <2>4. \A t : t.conn = score.conn \cup {<<src, i, d>>} => Acyclic(t)
    BY <1>0, <2>2, ConnectAcyclic
  <2>5. /\ Punctual(Connect(score, d, src, i))
        /\ src \notin score.delayed => Sound(score, Connect(score, d, src, i))
    BY <2>3, <2>4, ConnectSound
  <2> QED
    BY <2>2, <2>5 DEF Careful
<1>6. CASE DisconnectFrom
  <2>1. PICK k \in score.conn : score' = Disconnect(score, k[3], k[1], k[2])
    BY <1>6 DEF DisconnectFrom
  <2>2. k[3] \in score.objects
    BY <1>0, ConnectionShape
  <2> QED
    BY <2>1, <2>2, DisconnectSound DEF Sound
<1>7. CASE Link
  <2>1. PICK o \in score.objects, target \in score.objects :
            score' = AddLink(score, o, target)
    BY <1>7 DEF Link
  <2>2. Sound(score, AddLink(score, o, target))
    BY <1>0, AddLinkInv, RetiedSound
  <2> QED
    BY <2>1, <2>2 DEF Sound
<1>8. CASE Unlink
  <2>1. PICK o \in score.objects, target \in score.objects :
            score' = RemoveLink(score, o, target)
    BY <1>8 DEF Unlink
  <2>2. Sound(score, RemoveLink(score, o, target))
    BY <1>0, RemoveLinkInv, RetiedSound
  <2> QED
    BY <2>1, <2>2 DEF Sound
<1>9. CASE Drag
  <2>1. PICK o, shifted, told :
            /\ o \in score.objects /\ shifted \in BOOLEAN
            /\ told \in SUBSET score.group[o]
            /\ \/ o \in score.busses \/ ~shifted \/ told = score.group[o]
               \/ "negative start" \in Practice
            /\ score' = DragEnd(score, o, shifted, told)
    BY <1>9 DEF Drag
  <2>2. Aside(score) /\ o \in score.busses => score.group[o] \subseteq score.busses
    BY <1>0, <2>1, AsideAlone
  <2>3. /\ Punctual(score')
        /\ ~shifted \/ told = score.group[o] \/ score.group[o] \subseteq score.busses
                => Sound(score, score')
    BY <2>1, DragEndSound
  <2> QED
    BY <2>1, <2>2, <2>3 DEF Careful
<1>10. CASE Align
  <2>1. PICK o \in score.objects, target \in score.objects, do_link \in BOOLEAN :
            /\ "align groups" \in Practice \/ score.group[o] = {o}
            /\ score' = AlignEnd(score, o, target, do_link)
    BY <1>10 DEF Align
  <2>2. /\ Punctual(AlignEnd(score, o, target, do_link))
        /\ score.group[o] \subseteq {o} => Sound(score, AlignEnd(score, o, target, do_link))
    BY <1>0, AlignEndSound
  <2> QED
    BY <2>1, <2>2 DEF Careful
<1>11. CASE ToggleHold
  BY <1>11, ToggleHoldSound DEF ToggleHold, Sound
<1>12. CASE UpdateButton
  BY <1>12, UpdateButtonSound DEF UpdateButton, Sound
<1>13. CASE UpdateKey
  BY <1>13, UpdateKeySound DEF UpdateKey, Careful
<1>14. CASE Reopen
  BY <1>14, ReopenSound DEF Reopen, Sound
<1> QED
  BY <1>1, <1>2, <1>3, <1>4, <1>5, <1>6, <1>7, <1>8, <1>9, <1>10, <1>11, <1>12,
     <1>13, <1>14 DEF Next

(* They are true of the empty score.                                         *)
LEMMA EmptySound == Punctual(Empty) /\ Visible(Empty) /\ Aside(Empty)
<1>1. /\ Empty.busses = {} /\ Empty.stale = {} /\ Empty.conn = {}
      /\ Empty.failing = {} /\ Empty.pending = {}
  BY DEF Empty
<1> QED
  BY <1>1, EmptyInv DEF Acyclic, Visible, Punctual, Aside

(* When no circle is made and no error left in a script: unless updates are  *)
(* held, nothing waits for an update but what has a delay_update of its own, *)
(* also after a drag, a removal or an opened file, for which they are held.  *)
THEOREM NothingWaitsUnasked ==
  ASSUME Orderly
  PROVE  Spec => []AutomaticMeansDone
<1> DEFINE I == Punctual(score)
<1>1. Init => I
  BY EmptySound DEF Init
<1>2. I /\ [Next]_score => I'
  BY NextSound DEF Punctual
<1>3. I => AutomaticMeansDone
  BY DEF Punctual, AutomaticMeansDone
<1> HIDE DEF I
<1> QED
  BY <1>1, <1>2, <1>3, PTL DEF Spec

(* When besides nothing others depend on gets a delay_update, the key u is   *)
(* kept from objects whose sources wait, no member of a group is aligned,    *)
(* none is deleted in the middle of a drag, none starts before zero, and no  *)
(* output bus is linked: all that is out of date has the red bar.            *)
THEOREM NeedsAreShown ==
  ASSUME Careful
  PROVE  Spec => []NeedsShown
<1> DEFINE I == Punctual(score) /\ Visible(score) /\ Aside(score)
<1>1. Init => I
  BY EmptySound DEF Init
<1>2. I /\ [Next]_score => I'
  <2>1. Orderly /\ "bus groups" \notin Practice
    BY DEF Careful
  <2>2. ASSUME I, Next PROVE I'
    BY <2>1, <2>2, NextSound, NextAside DEF Sound
  <2>3. ASSUME I, UNCHANGED score PROVE I'
    BY <2>3
  <2> QED
    BY <2>2, <2>3
<1>3. I => NeedsShown
  BY DEF Visible, NeedsShown
<1> HIDE DEF I
<1> QED
  BY <1>1, <1>2, <1>3, PTL DEF Spec

(* Then the update button brings everything up to date whenever it is        *)
(* pressed: the tree holds all objects, each behind all it takes data from.  *)
THEOREM ButtonSuffices ==
  ASSUME Careful
  PROVE  Spec => []UpdateButtonSuffices
<1> DEFINE I == Punctual(score) /\ Visible(score) /\ Aside(score)
<1>1. Init => I
  BY EmptySound DEF Init
<1>2. I /\ [Next]_score => I'
  <2>1. Orderly /\ "bus groups" \notin Practice
    BY DEF Careful
  <2>2. ASSUME I, Next PROVE I'
    BY <2>1, <2>2, NextSound, NextAside DEF Sound
  <2>3. ASSUME I, UNCHANGED score PROVE I'
    BY <2>3
  <2> QED
    BY <2>2, <2>3
<1>3. I => UpdateButtonSuffices
  BY UpdateButtonSound DEF UpdateButtonSuffices
<1> HIDE DEF I
<1> QED
  BY <1>1, <1>2, <1>3, PTL DEF Spec

------------------------------------------------------------------------------
(***************************************************************************)
(* What a file keeps: the methods it calls, exactly.                       *)
(***************************************************************************)

(* Whatever it updates, an update leaves each delay_update as it is.         *)
LEMMA UpdateStepDelays ==
  ASSUME NEW s, Inv(s), NEW q \in Updating(s), q.to.delayed = s.delayed,
         NEW o \in s.objects, NEW me, NEW co
  PROVE  UpdateStep(q, o, me, co).to.delayed = s.delayed
<1>1. q \in [to : Scores, stop : BOOLEAN] /\ q.to \in Scores
  BY DEF Updating
<1>2. CASE q.stop \/ (co = 1 /\ o = me)
  BY <1>2 DEF UpdateStep
<1>3. CASE /\ ~(q.stop \/ (co = 1 /\ o = me))
           /\ o \in q.to.delayed \/ q.to.hold
           /\ co >= 0 \/ o # me
  <2> DEFINE u == [q.to EXCEPT !.pending = q.to.pending \cup {o}]
  <2>1. UpdateStep(q, o, me, co) = [q EXCEPT !.to = u]
    BY <1>1, <1>3 DEF UpdateStep
  <2>2. u.delayed = q.to.delayed
    BY <1>1 DEF Scores
  <2> HIDE DEF u
  <2> QED
    BY <1>1, <2>1, <2>2
<1>4. CASE /\ ~(q.stop \/ (co = 1 /\ o = me))
           /\ ~(/\ o \in q.to.delayed \/ q.to.hold
                /\ co >= 0 \/ o # me)
  <2>1. UpdateStep(q, o, me, co).to = UpdateNow(q.to, o)
    BY <1>4 DEF UpdateStep
  <2>2. UpdateNow(q.to, o).delayed = q.to.delayed
    BY <1>1 DEF UpdateNow, Scores
  <2> QED
    BY <2>1, <2>2
<1> QED
  BY <1>2, <1>3, <1>4

(* update() of an object leaves them as they are.                            *)
LEMMA UpdateDelays ==
  ASSUME NEW s, Inv(s), NEW me \in s.objects, NEW co
  PROVE  Update(s, me, co).delayed = s.delayed
<1> DEFINE seq == ObjectTree(s, me)
           Q == {q \in Updating(s) : q.to.delayed = s.delayed}
           T == [P \in SUBSET DOMAIN seq |-> Q]
           base == [to |-> s, stop |-> FALSE]
<1>1. seq \in Seq(s.objects)
  BY TreesStay DEF Lists
<1> HIDE DEF seq
<1>2. /\ IsFiniteSet(DOMAIN seq) /\ DOMAIN seq \subseteq Nat
      /\ \A i \in DOMAIN seq : seq[i] \in s.objects
  BY <1>1, ListDomain
<1>3. base \in Q
  BY QuietSelf DEF Updating, Inv
<1>4. ASSUME NEW q \in Q, NEW i \in DOMAIN seq PROVE UpdateStep(q, seq[i], me, co) \in Q
  BY <1>2, UpdateStepQuiet, UpdateStepDelays
<1>5. \A q \in Q : q.to.delayed = s.delayed
  OBVIOUS
<1> HIDE DEF Q
<1>6. \A P \in SUBSET DOMAIN seq : \A x \in P : \A v \in T[P \ {x}] :
          UpdateStep(v, seq[x], me, co) \in T[P]
  BY <1>4
<1>7. base \in T[{}] /\ T[DOMAIN seq] = Q
  BY <1>3
<1> HIDE DEF T, base
<1>8. UpdateAlong(base, seq, me, co) \in T[DOMAIN seq]
  BY <1>2, <1>6, <1>7, UpdateFold
<1>9. Update(s, me, co) = UpdateAlong(base, seq, me, co).to
  BY DEF Update, base, seq
<1> QED
  BY <1>5, <1>7, <1>8, <1>9

(* And so does a change of an object with the update after it.               *)
LEMMA ChangedUpdateDelays ==
  ASSUME NEW s, Inv(s), NEW o \in s.objects
  PROVE  Update(Changed(s, {o}), o, 0).delayed = s.delayed
<1> DEFINE t == Changed(s, {o})
<1>1. Quiet(s, t) /\ Inv(t)
  BY ChangedQuiet
<1>2. t.delayed = s.delayed
  BY DEF Changed, Inv, Scores
<1> HIDE DEF t
<1>3. Update(t, o, 0).delayed = t.delayed
  BY <1>1, UpdateDelays DEF Quiet
<1> QED
  BY <1>2, <1>3 DEF t

(* A property that is set is no delay_update.                                *)
LEMMA EditedDelays ==
  ASSUME NEW s, Inv(s), NEW o \in s.objects, NEW error \in BOOLEAN
  PROVE  Edited(s, o, error).delayed = s.delayed
<1> DEFINE D == IF error THEN s.failing \cup {o} ELSE s.failing \ {o}
           t == [s EXCEPT !.failing = D]
<1>1. D \subseteq s.objects
  BY DEF Inv
<1>2. Edited(s, o, error) = Update(Changed(t, {o}), o, 0)
  BY DEF Edited
<1> HIDE DEF D
<1>3. Quiet(s, t)
  BY <1>1, FlagsQuiet
<1>4. t.delayed = s.delayed
  BY DEF Inv, Scores
<1> HIDE DEF t
<1>5. Inv(t) /\ o \in t.objects
  BY <1>3, QuietInv DEF Quiet
<1> QED
  BY <1>2, <1>4, <1>5, ChangedUpdateDelays

(* Setting delay_update of an object sets it for this object alone.          *)
LEMMA SetDelayDelays ==
  ASSUME NEW s, Inv(s), NEW o \in s.objects, NEW on \in BOOLEAN
  PROVE  \A x : x \in SetDelay(s, o, on).delayed <=>
                    \/ x = o /\ on
                    \/ x # o /\ x \in s.delayed
<1> DEFINE D == IF on THEN s.delayed \cup {o} ELSE s.delayed \ {o}
           t == [s EXCEPT !.delayed = D]
<1>1. D \subseteq s.objects /\ \A x : x \in D <=> (x = o /\ on) \/ (x # o /\ x \in s.delayed)
  BY DEF Inv
<1>2. SetDelay(s, o, on) = Update(t, o, 0)
  BY DEF SetDelay
<1> HIDE DEF D
<1>3. Quiet(s, t)
  BY <1>1, FlagsQuiet
<1>4. t.delayed = D
  BY DEF Inv, Scores
<1> HIDE DEF t
<1>5. Inv(t) /\ o \in t.objects
  BY <1>3, QuietInv DEF Quiet
<1>6. Update(t, o, 0).delayed = D
  BY <1>4, <1>5, UpdateDelays
<1> QED
  BY <1>1, <1>2, <1>6

(* A new object is a bus or not, and nothing else changes but flags.         *)
LEMMA NewObjectExact ==
  ASSUME NEW s, Inv(s), FreeId(s) \in Ids, NEW bus \in BOOLEAN
  PROVE  LET u == NewObject(s, bus) IN
         /\ u.conn = s.conn /\ u.links = s.links /\ u.delayed = s.delayed
         /\ \A x : x \in u.busses <=> x \in s.busses \/ (bus /\ x = FreeId(s))
<1>1. PICK t : /\ Inv(t) /\ SameFlags(s, t) /\ t.conn = s.conn /\ t.links = s.links
               /\ t.objects = s.objects \cup {FreeId(s)}
               /\ \A x : x \in t.busses <=> x \in s.busses \/ (bus /\ x = FreeId(s))
               /\ NewObject(s, bus) = Update(Changed(t, {FreeId(s)}), FreeId(s), 0)
  BY NewObjectSteps
<1>2. FreeId(s) \in t.objects
  BY <1>1
<1>3. Quiet(t, NewObject(s, bus))
  BY <1>1, <1>2, ChangedUpdateQuiet
<1>4. NewObject(s, bus).delayed = t.delayed
  BY <1>1, <1>2, ChangedUpdateDelays
<1> QED
  BY <1>1, <1>3, <1>4 DEF Quiet, SameFlags

(* A connection sets none.                                                   *)
LEMMA ConnectDelays ==
  ASSUME NEW s, Inv(s), NEW d \in s.objects, NEW src \in s.objects, NEW i \in InletNames
  PROVE  Connect(s, d, src, i).delayed = s.delayed
<1>1. PICK t : /\ Rewired(s, t, s.conn \cup {<<src, i, d>>}) /\ SameFlags(s, t)
               /\ Connect(s, d, src, i) = Update(Changed(t, {d}), d, 0)
  BY ConnectSteps
<1>2. Inv(t) /\ d \in t.objects
  BY <1>1 DEF Rewired
<1>3. Update(Changed(t, {d}), d, 0).delayed = t.delayed
  BY <1>2, ChangedUpdateDelays
<1> QED
  BY <1>1, <1>3 DEF SameFlags

------------------------------------------------------------------------------
(***************************************************************************)
(* The copy that a file makes.                                             *)
(***************************************************************************)

(* The run has made the objects K of s, and of the connections of s those    *)
(* of C, under new numbers.                                                  *)
Copies(s, q, K, C) ==
  /\ q.ok = TRUE /\ DOMAIN q.env = K
  /\ \A a, b \in K : q.env[a] = q.env[b] => a = b
  /\ \A x : x \in q.to.objects <=> \E o \in K : x = q.env[o]
  /\ \A k : k \in q.to.conn <=> \E c \in C : k = <<q.env[c[1]], c[2], q.env[c[3]]>>
  /\ \A o \in K : /\ q.env[o] \in q.to.delayed <=> o \in s.delayed
                  /\ q.env[o] \in q.to.busses <=> o \in s.busses
  /\ \A o \in Ids : q.to.links[o] = {}

(* What the first lines for an object make: the object alone, with the flags *)
(* the line says.                                                            *)
LEMMA MadeExact ==
  ASSUME NEW q, RunInv(q), q.ok, NEW m \in Ids, After(q, m), NEW e,
         e.name \in Ids, e.bus \in BOOLEAN, e.error \in BOOLEAN, e.delay \in BOOLEAN
  PROVE  LET r == Made(NewObject(q.to, e.bus), q.env, e) IN
         /\ r.ok = TRUE /\ DOMAIN r.env = DOMAIN q.env \cup {e.name} /\ r.env[e.name] = m
         /\ \A n \in DOMAIN q.env : n # e.name => r.env[n] = q.env[n]
         /\ r.to.conn = q.to.conn /\ r.to.links = q.to.links
         /\ \A x : x \in r.to.delayed <=> (x = m /\ e.delay) \/ (x # m /\ x \in q.to.delayed)
         /\ \A x : x \in r.to.busses <=> x \in q.to.busses \/ (e.bus /\ x = m)
<1> DEFINE r == Made(NewObject(q.to, e.bus), q.env, e)
<1>1. PICK b, f, d : b = e.bus /\ f = e.error /\ d = e.delay
  OBVIOUS
<1>2. b \in BOOLEAN /\ f \in BOOLEAN /\ d \in BOOLEAN
  BY <1>1
<1> DEFINE t == NewObject(q.to, b)
           u == Edited(t, m, f)
           w == SetDelay(u, m, d)
<1>3. /\ FreeId(q.to) = m /\ r.to = w
      /\ e.name \in DOMAIN r.env /\ r.env[e.name] = m
      /\ \A n \in DOMAIN r.env : n = e.name \/ r.env[n] = q.env[n]
  BY <1>1, MadeInv
<1>4. r.ok = TRUE /\ DOMAIN r.env = DOMAIN q.env \cup {e.name}
  BY DEF Made
<1> HIDE DEF r
<1>5. Inv(q.to) /\ FreeId(q.to) \in Ids
  BY <1>3 DEF RunInv
<1>6. /\ Inv(t) /\ t.objects = q.to.objects \cup {m}
      /\ t.conn = q.to.conn /\ t.links = q.to.links /\ t.delayed = q.to.delayed
      /\ \A x : x \in t.busses <=> x \in q.to.busses \/ (b /\ x = m)
  BY <1>2, <1>3, <1>5, NewObjectInv, NewObjectExact
<1> HIDE DEF t
<1>7. Quiet(t, u) /\ Inv(u) /\ u.delayed = t.delayed
  BY <1>2, <1>6, EditedQuiet, EditedDelays
<1>8. m \in u.objects
  BY <1>6, <1>7 DEF Quiet
<1> HIDE DEF u
<1>9. /\ Quiet(u, w)
      /\ \A x : x \in w.delayed <=> (x = m /\ d) \/ (x # m /\ x \in u.delayed)
  BY <1>2, <1>7, <1>8, SetDelayQuiet, SetDelayDelays
<1> HIDE DEF w
<1>10. w.conn = q.to.conn /\ w.links = q.to.links /\ w.busses = t.busses
  BY <1>6, <1>7, <1>9 DEF Quiet
<1>11. \A x : x \in w.delayed <=> (x = m /\ e.delay) \/ (x # m /\ x \in q.to.delayed)
  BY <1>1, <1>6, <1>7, <1>9
<1>12. \A x : x \in w.busses <=> x \in q.to.busses \/ (e.bus /\ x = m)
  BY <1>1, <1>6, <1>10
<1> QED
  BY <1>3, <1>4, <1>10, <1>11, <1>12 DEF r

(* Then the run has made one object more, and no connection more.            *)
LEMMA MadeCopies ==
  ASSUME NEW s, NEW q, RunInv(q), NEW m \in Ids, After(q, m), NEW e, Tells(s, e),
         e.name \in Ids, e.bus \in BOOLEAN, e.error \in BOOLEAN, e.delay \in BOOLEAN,
         NEW K, NEW C, Copies(s, q, K, C), e.name \notin K,
         \A c \in C : c[1] \in K /\ c[3] \in K
  PROVE  Copies(s, Made(NewObject(q.to, e.bus), q.env, e), K \cup {e.name}, C)
<1> DEFINE r == Made(NewObject(q.to, e.bus), q.env, e)
           N == K \cup {e.name}
<1>1. q.ok
  BY DEF Copies
<1>2. /\ r.ok = TRUE /\ DOMAIN r.env = DOMAIN q.env \cup {e.name} /\ r.env[e.name] = m
      /\ \A n \in DOMAIN q.env : n # e.name => r.env[n] = q.env[n]
      /\ r.to.conn = q.to.conn /\ r.to.links = q.to.links
      /\ \A x : x \in r.to.delayed <=> (x = m /\ e.delay) \/ (x # m /\ x \in q.to.delayed)
      /\ \A x : x \in r.to.busses <=> x \in q.to.busses \/ (e.bus /\ x = m)
  BY <1>1, MadeExact
<1>3. r.to.objects = 0 .. m
  BY <1>1, MadeInv
<1> HIDE DEF r
<1>4. q.to.objects = 0 .. m - 1 /\ q.to.busses \subseteq q.to.objects
  BY <1>1 DEF After, RunInv, Inv
<1>5. m \in Nat
  BY ScoreAssumption DEF Ids
<1>6. m \notin q.to.objects /\ r.to.objects = q.to.objects \cup {m}
  <2>1. \A x : x \in 0 .. m <=> x \in 0 .. m - 1 \/ x = m
    BY <1>5
  <2> QED
    BY <1>3, <1>4, <1>5, <2>1
<1>7. /\ DOMAIN r.env = N /\ r.env[e.name] = m
      /\ \A o \in K : r.env[o] = q.env[o] /\ q.env[o] \in q.to.objects /\ q.env[o] # m
  BY <1>2, <1>6 DEF Copies
<1>8. \A a, b \in N : r.env[a] = r.env[b] => a = b
  BY <1>7 DEF Copies
<1>9. \A x : x \in r.to.objects <=> \E o \in N : x = r.env[o]
  BY <1>6, <1>7 DEF Copies
<1>10. \A k : k \in r.to.conn <=> \E c \in C : k = <<r.env[c[1]], c[2], r.env[c[3]]>>
  <2>1. \A c \in C : r.env[c[1]] = q.env[c[1]] /\ r.env[c[3]] = q.env[c[3]]
    BY <1>7
  <2> QED
    BY <1>2, <2>1 DEF Copies
<1>11. \A o \in N : /\ r.env[o] \in r.to.delayed <=> o \in s.delayed
                    /\ r.env[o] \in r.to.busses <=> o \in s.busses
  <2>1. \A o \in K : /\ r.env[o] \in r.to.delayed <=> o \in s.delayed
                     /\ r.env[o] \in r.to.busses <=> o \in s.busses
    BY <1>2, <1>7 DEF Copies
  <2>2. m \notin q.to.busses
    BY <1>4, <1>6
  <2>3. /\ r.env[e.name] \in r.to.delayed <=> e.name \in s.delayed
        /\ r.env[e.name] \in r.to.busses <=> e.name \in s.busses
    BY <1>2, <2>2 DEF Tells
  <2> QED
    BY <2>1, <2>3
<1>12. \A o \in Ids : r.to.links[o] = {}
  BY <1>2 DEF Copies
<1> HIDE DEF N
<1>13. Copies(s, r, N, C)
  BY <1>2, <1>7, <1>8, <1>9, <1>10, <1>11, <1>12 DEF Copies
<1> QED
  BY <1>13 DEF r, N

(* A connection of the file between objects that have been made is made      *)
(* between their copies.                                                     *)
LEMMA WireCopies ==
  ASSUME NEW s, NEW q, RunInv(q), NEW K, NEW C, Copies(s, q, K, C),
         NEW k, k[1] \in K, k[2] \in InletNames, k[3] \in K
  PROVE  Copies(s, Wire(q, k), K, C \cup {k})
<1>1. PICK a, b, i : a = q.env[k[1]] /\ b = q.env[k[3]] /\ i = k[2]
  OBVIOUS
<1> DEFINE t == Connect(q.to, b, a, i)
           r == [q EXCEPT !.to = t]
<1>2. q.ok = TRUE /\ DOMAIN q.env = K
  BY DEF Copies
<1>3. Wire(q, k) = r /\ r.to = t /\ r.env = q.env /\ r.ok = TRUE
  BY <1>1, <1>2 DEF Wire, RunInv, Runs
<1>4. a \in q.to.objects /\ b \in q.to.objects /\ Inv(q.to)
  BY <1>1, <1>2 DEF RunInv
<1>5. /\ t.objects = q.to.objects /\ t.busses = q.to.busses /\ t.links = q.to.links
      /\ t.conn = q.to.conn \cup {<<a, i, b>>} /\ t.delayed = q.to.delayed
  BY <1>1, <1>4, ConnectInv, ConnectDelays DEF Rewired
<1> HIDE DEF t, r
<1>6. \A x : x \in t.conn <=>
           \E c \in C \cup {k} : x = <<q.env[c[1]], c[2], q.env[c[3]]>>
  BY <1>1, <1>5 DEF Copies
<1> QED
  BY <1>3, <1>5, <1>6 DEF Copies

(* So are all connections of a line.                                         *)
LEMMA WireAllCopies ==
  ASSUME NEW s, NEW q, RunInv(q), NEW K, NEW C, Copies(s, q, K, C),
         NEW D, IsFiniteSet(D), \A k \in D : k[1] \in K /\ k[2] \in InletNames /\ k[3] \in K
  PROVE  Copies(s, WireAll(q, D), K, C \cup D)
<1> DEFINE R(P) == {r \in Runs : RunInv(r) /\ Copies(s, r, K, C \cup P)}
           T == [P \in SUBSET D |-> R(P)]
<1>1. ASSUME NEW P \in SUBSET D, NEW k \in P, NEW r \in R(P \ {k}) PROVE Wire(r, k) \in R(P)
  <2>1. RunInv(r) /\ Copies(s, r, K, C \cup (P \ {k})) /\ k \in D /\ DOMAIN r.env = K
    BY DEF Copies
  <2>2. RunInv(Wire(r, k))
    BY <2>1, WireInv
  <2>3. Copies(s, Wire(r, k), K, (C \cup (P \ {k})) \cup {k})
    BY <2>1, WireCopies
  <2>4. (C \cup (P \ {k})) \cup {k} = C \cup P
    OBVIOUS
  <2> QED
    BY <2>2, <2>3, <2>4 DEF RunInv
<1>2. q \in R({})
  <2>1. C \cup {} = C
    OBVIOUS
  <2> QED
    BY <2>1 DEF RunInv
<1>3. \A r \in R(D) : Copies(s, r, K, C \cup D)
  OBVIOUS
<1> HIDE DEF R
<1>4. \A P \in SUBSET D : \A x \in P : \A v \in T[P \ {x}] : Wire(v, x) \in T[P]
  BY <1>1
<1>5. q \in T[{}] /\ T[D] = R(D)
  BY <1>2
<1> HIDE DEF T
<1>6. WireAll(q, D) \in T[D]
  BY <1>4, <1>5, WireFold
<1> QED
  BY <1>3, <1>5, <1>6

(* A line makes its object, and the connections into it.                     *)
LEMMA RunLineCopies ==
  ASSUME NEW s, NEW q, RunInv(q), NEW m \in Ids, After(q, m), NEW e, Tells(s, e),
         e.name \in Ids, e.bus \in BOOLEAN, e.error \in BOOLEAN, e.delay \in BOOLEAN,
         IsFiniteSet(e.conn),
         NEW K, NEW C, Copies(s, q, K, C), e.name \notin K,
         \A c \in C : c[1] \in K /\ c[3] \in K,
         \A k \in e.conn : k[1] \in K /\ k[2] \in InletNames /\ k[3] = e.name
  PROVE  Copies(s, RunLine(q, e), K \cup {e.name}, C \cup e.conn)
<1> DEFINE r == Made(NewObject(q.to, e.bus), q.env, e)
           N == K \cup {e.name}
<1>1. Copies(s, r, N, C)
  BY MadeCopies
<1>2. RunInv(r)
  BY MadeInv DEF Copies
<1>3. RunLine(q, e) = WireAll(r, e.conn)
  BY DEF RunLine, Copies
<1> HIDE DEF r
<1>4. \A k \in e.conn : k[1] \in N /\ k[2] \in InletNames /\ k[3] \in N
  OBVIOUS
<1> HIDE DEF N
<1>5. Copies(s, WireAll(r, e.conn), N, C \cup e.conn)
  BY <1>1, <1>2, <1>4, WireAllCopies
<1> QED
  BY <1>3, <1>5 DEF N

(* The connections of s into objects of K.                                   *)
Into(s, K) == {k \in s.conn : k[3] \in K}

(* The lines make every object of s behind those it takes data from.         *)
LEMMA LinesCopy ==
  ASSUME NEW s, Inv(s), Acyclic(s), NEW q, RunInv(q), After(q, 0), Copies(s, q, {}, {})
  PROVE  LET r == RunLines(q, Dump(s).lines) IN
         RunInv(r) /\ Copies(s, r, s.objects, s.conn)
<1> DEFINE tree == ScoreTree(s)
           seq == Dump(s).lines
<1>1. tree \in Orders(s) /\ Range(tree) = s.objects
  BY TreeOrders
<1>2. /\ DOMAIN seq = DOMAIN tree
      /\ \A n \in DOMAIN tree : /\ seq[n].name = tree[n]
                                /\ seq[n].conn = {k \in s.conn : k[3] = tree[n]}
  BY DEF Dump
<1>3. /\ IsFiniteSet(DOMAIN seq) /\ DOMAIN seq \subseteq Nat
      /\ Cardinality(DOMAIN seq) \in Nat /\ Cardinality(DOMAIN seq) <= MaxId + 1
      /\ \A n \in DOMAIN seq :
             /\ seq[n].name \in Ids /\ seq[n].bus \in BOOLEAN /\ seq[n].error \in BOOLEAN
             /\ seq[n].delay \in BOOLEAN /\ IsFiniteSet(seq[n].conn)
             /\ \A k \in seq[n].conn : k[2] \in InletNames /\ k[3] = seq[n].name
             /\ Tells(s, seq[n])
  BY DumpLines
<1> HIDE DEF seq, tree
<1>4. /\ DOMAIN tree = 1 .. Len(tree) /\ Len(tree) \in Nat
      /\ \A i \in DOMAIN tree : tree[i] \in s.objects
      /\ \A i, j \in DOMAIN tree : tree[i] = tree[j] => i = j
  BY <1>1, OrderFacts DEF Orders, Lists
<1>5. ASSUME NEW k \in s.conn, NEW i \in DOMAIN tree, k[3] = tree[i]
      PROVE  \E j \in DOMAIN tree : j < i /\ tree[j] = k[1]
  <2>1. k[1] \in Range(tree) /\ k[1] \in Ids
    BY <1>1, ConnectionShape DEF Inv
  <2>2. tree[i] \in s.children[k[1]]
    BY <1>5, <2>1 DEF Inv, Dependants
  <2> QED
    BY <1>1, <2>1, <2>2, OrderFacts
<1> DEFINE Of(P) == {tree[n] : n \in P}
           Shut(P) == \A k \in s.conn : k[3] \in Of(P) => k[1] \in Of(P)
           G == [P \in SUBSET DOMAIN seq |->
                    {r \in Runs : Shut(P) => Copies(s, r, Of(P), Into(s, Of(P)))}]
<1>6. q \in G[{}]
  <2>1. Of({}) = {} /\ Into(s, {}) = {}
    BY DEF Into
  <2>2. q \in Runs
    BY DEF RunInv
  <2> QED
    BY <2>1, <2>2
<1>7. ASSUME NEW P \in SUBSET DOMAIN seq, NEW x \in P, \A y \in P : y <= x,
             NEW m \in Ids, NEW v \in G[P \ {x}], RunInv(v), After(v, m)
      PROVE  RunLine(v, seq[x]) \in G[P]
  <2> DEFINE B == P \ {x}
             e == seq[x]
             r == RunLine(v, e)
  <2>1. x \in DOMAIN seq /\ x \in DOMAIN tree /\ B \subseteq DOMAIN tree /\ B \in SUBSET DOMAIN seq
    BY <1>2
  <2>2. Of(P) = Of(B) \cup {tree[x]}
    OBVIOUS
  <2>3. tree[x] \notin Of(B)
    BY <1>4, <2>1
  <2>4. r \in Runs
    BY <1>3, <1>7, <2>1, RunLineInv DEF RunInv
  <2>5. ASSUME Shut(P) PROVE Copies(s, r, Of(P), Into(s, Of(P)))
    <3>1. ASSUME NEW k \in s.conn, k[3] \in Of(B) PROVE k[1] \in Of(B)
      <4>1. PICK i \in B : k[3] = tree[i]
        BY <3>1
      <4>2. PICK j \in DOMAIN tree : j < i /\ tree[j] = k[1]
        BY <1>5, <2>1, <4>1
      <4>3. i <= x /\ i \in Nat /\ x \in Nat /\ j \in Nat
        BY <1>4, <1>7, <2>1
      <4>4. j # x
        BY <4>2, <4>3
      <4>5. k[1] # tree[x]
        BY <1>4, <2>1, <4>2, <4>4
      <4> QED
        BY <2>2, <2>5, <3>1, <4>5
    <3>2. Copies(s, v, Of(B), Into(s, Of(B)))
      <4>1. v \in {w \in Runs : Shut(B) => Copies(s, w, Of(B), Into(s, Of(B)))}
        BY <2>1
      <4>2. Shut(B)
        BY <3>1
      <4> QED
        BY <4>1, <4>2
    <3>3. ASSUME NEW k \in e.conn
          PROVE  k[1] \in Of(B) /\ k[2] \in InletNames /\ k[3] = e.name
      <4>1. k \in s.conn /\ k[3] = tree[x]
        BY <1>2, <2>1
      <4>2. PICK j \in DOMAIN tree : j < x /\ tree[j] = k[1]
        BY <1>5, <2>1, <4>1
      <4>3. k[1] # tree[x]
        BY <1>4, <2>1, <4>2
      <4>4. k[1] \in Of(P)
        BY <2>2, <2>5, <4>1
      <4> QED
        BY <1>3, <2>1, <2>2, <4>3, <4>4
    <3>4. \A c \in Into(s, Of(B)) : c[1] \in Of(B) /\ c[3] \in Of(B)
      BY <3>1 DEF Into
    <3>5. e.name = tree[x] /\ e.name \notin Of(B)
      BY <1>2, <2>1, <2>3
    <3>6. /\ Tells(s, e) /\ e.name \in Ids /\ e.bus \in BOOLEAN /\ e.error \in BOOLEAN
          /\ e.delay \in BOOLEAN /\ IsFiniteSet(e.conn)
      BY <1>3, <2>1
    <3>7. Into(s, Of(P)) = Into(s, Of(B)) \cup e.conn
      <4>1. e.conn = {k \in s.conn : k[3] = tree[x]}
        BY <1>2, <2>1
      <4> HIDE DEF Of, e
      <4> QED
        BY <2>2, <4>1 DEF Into
    <3> HIDE DEF Of, e
    <3>8. Copies(s, RunLine(v, e), Of(B) \cup {e.name}, Into(s, Of(B)) \cup e.conn)
      BY <1>7, <3>2, <3>3, <3>4, <3>5, <3>6, RunLineCopies
    <3> QED
      BY <2>2, <3>5, <3>7, <3>8
  <2> QED
    BY <2>4, <2>5
<1>8. Of(DOMAIN seq) = s.objects /\ Into(s, s.objects) = s.conn
  BY <1>1, <1>2 DEF Range, Into, Inv
<1>9. ASSUME NEW r \in G[DOMAIN seq] PROVE Copies(s, r, s.objects, s.conn)
  <2>1. \A k \in s.conn : k[1] \in s.objects
    BY DEF Inv
  <2>2. r \in {w \in Runs : Shut(DOMAIN seq)
                    => Copies(s, w, Of(DOMAIN seq), Into(s, Of(DOMAIN seq)))}
    OBVIOUS
  <2>3. Shut(DOMAIN seq)
    BY <1>8, <2>1
  <2> QED
    BY <1>8, <2>2, <2>3
<1>10. \A P \in SUBSET DOMAIN seq : \A x \in P : (\A y \in P : y <= x) =>
           \A m \in Ids : \A v \in G[P \ {x}] :
               RunInv(v) /\ After(v, m) => RunLine(v, seq[x]) \in G[P]
  BY <1>7
<1> HIDE DEF G
<1>11. RunInv(RunLines(q, seq)) /\ RunLines(q, seq) \in G[DOMAIN seq]
  BY <1>3, <1>6, <1>10, RunLinesInv
<1> QED
  BY <1>9, <1>11 DEF seq

(* From q on, the links P between objects of K have been made, all else is   *)
(* as it was.                                                                *)
Linked(q, K, P, r) ==
  /\ RunInv(r) /\ r.ok = TRUE /\ r.env = q.env
  /\ r.to.objects = q.to.objects /\ r.to.conn = q.to.conn
  /\ r.to.delayed = q.to.delayed /\ r.to.busses = q.to.busses
  /\ \A o \in K : \A y : y \in r.to.links[q.env[o]] <=> \E p \in P : p[1] = o /\ y = q.env[p[2]]

(* A link of the file is made between the copies, and takes none of the      *)
(* others away: no two objects are linked both ways.                         *)
LEMMA TieLinks ==
  ASSUME NEW q, NEW K, DOMAIN q.env = K, \A a, b \in K : q.env[a] = q.env[b] => a = b,
         NEW P, NEW p, p[1] \in K, p[2] \in K, p[1] # p[2],
         \A x \in P : x[1] \in K /\ x[2] \in K /\ ~(x[1] = p[2] /\ x[2] = p[1]),
         NEW r, Linked(q, K, P, r)
  PROVE  Linked(q, K, P \cup {p}, Tie(r, p))
<1>1. PICK a, b : a = q.env[p[1]] /\ b = q.env[p[2]]
  OBVIOUS
<1> DEFINE t == AddLink(r.to, a, b)
           u == [r EXCEPT !.to = t]
<1>2. RunInv(r) /\ r.ok = TRUE /\ r.env = q.env /\ r.to.objects = q.to.objects
  BY DEF Linked
<1>3. Tie(r, p) = u /\ u.to = t /\ u.env = q.env /\ u.ok = TRUE
  BY <1>1, <1>2 DEF Tie, RunInv, Runs
<1>4. a \in r.to.objects /\ b \in r.to.objects /\ Inv(r.to) /\ a # b
  BY <1>1, <1>2 DEF RunInv
<1>5. PICK L : /\ Retied(r.to, t, L)
               /\ \A o \in Ids : \A x : x \in L[o] <=> \/ x \in r.to.links[o] /\ ~(o = b /\ x = a)
                                                       \/ o = a /\ x = b
  BY <1>4, AddLinkInv
<1>6. RunInv(Tie(r, p))
  BY <1>2, TieInv
<1> HIDE DEF t, u
<1>7. /\ t.objects = r.to.objects /\ t.conn = r.to.conn /\ t.busses = r.to.busses
      /\ t.delayed = r.to.delayed /\ t.links = L
  BY <1>5 DEF Retied, SameFlags
<1>8. ASSUME NEW o \in K, NEW y
      PROVE  y \in t.links[q.env[o]] <=> \E x \in P \cup {p} : x[1] = o /\ y = q.env[x[2]]
  <2>1. q.env[o] \in Ids
    BY <1>2 DEF RunInv, Inv, Scores
  <2>2. y \in r.to.links[q.env[o]] <=> \E x \in P : x[1] = o /\ y = q.env[x[2]]
    BY DEF Linked
  <2>3. q.env[o] = a <=> o = p[1]
    BY <1>1
  <2>4. y \in t.links[q.env[o]] <=> \/ y \in r.to.links[q.env[o]] /\ ~(q.env[o] = b /\ y = a)
                                    \/ o = p[1] /\ y = b
    BY <1>5, <1>7, <2>1, <2>3
  <2>5. ASSUME y \in r.to.links[q.env[o]], q.env[o] = b, y = a PROVE FALSE
    <3>1. PICK x \in P : x[1] = o /\ y = q.env[x[2]]
      BY <2>2, <2>5
    <3>2. x[1] = p[2] /\ x[2] = p[1]
      BY <1>1, <2>5, <3>1
    <3> QED
      BY <3>2
  <2> QED
    BY <1>1, <2>2, <2>4, <2>5
<1> DEFINE z == Tie(r, p)
<1>9. z.ok = TRUE /\ z.env = q.env /\ z.to = t /\ RunInv(z)
  BY <1>3, <1>6
<1> HIDE DEF z
<1>10. /\ z.to.objects = q.to.objects /\ z.to.conn = q.to.conn
       /\ z.to.delayed = q.to.delayed /\ z.to.busses = q.to.busses
  BY <1>7, <1>9 DEF Linked
<1>11. \A o \in K : \A y : y \in z.to.links[q.env[o]]
                              <=> \E x \in P \cup {p} : x[1] = o /\ y = q.env[x[2]]
  BY <1>8, <1>9
<1>12. Linked(q, K, P \cup {p}, z)
  BY <1>9, <1>10, <1>11 DEF Linked
<1> QED
  BY <1>12 DEF z

(* So are all links of the file.                                             *)
LEMMA TieAllLinks ==
  ASSUME NEW q, NEW K, DOMAIN q.env = K, \A a, b \in K : q.env[a] = q.env[b] => a = b,
         NEW C, IsFiniteSet(C), C \subseteq K \X K,
         \A x, y \in C : ~(x[1] = y[2] /\ x[2] = y[1]), Linked(q, K, {}, q)
  PROVE  Linked(q, K, C, TieAll(q, C))
<1> DEFINE R(P) == {r \in Runs : Linked(q, K, P, r)}
           T == [P \in SUBSET C |-> R(P)]
<1>1. ASSUME NEW P \in SUBSET C, NEW p \in P, NEW r \in R(P \ {p}) PROVE Tie(r, p) \in R(P)
  <2>1. p[1] \in K /\ p[2] \in K /\ p[1] # p[2]
        /\ \A x \in P \ {p} : x[1] \in K /\ x[2] \in K /\ ~(x[1] = p[2] /\ x[2] = p[1])
    <3>1. p \in C /\ P \ {p} \subseteq C
      OBVIOUS
    <3>2. \A x \in C : x[1] \in K /\ x[2] \in K
      OBVIOUS
    <3> QED
      BY <3>1, <3>2
  <2>2. Linked(q, K, (P \ {p}) \cup {p}, Tie(r, p))
    BY <2>1, TieLinks
  <2>3. (P \ {p}) \cup {p} = P
    OBVIOUS
  <2> QED
    BY <2>2, <2>3 DEF Linked, RunInv
<1>2. q \in R({})
  BY DEF Linked, RunInv
<1>3. \A r \in R(C) : Linked(q, K, C, r)
  OBVIOUS
<1> HIDE DEF R
<1>4. \A P \in SUBSET C : \A x \in P : \A v \in T[P \ {x}] : Tie(v, x) \in T[P]
  BY <1>1
<1>5. q \in T[{}] /\ T[C] = R(C)
  BY <1>2
<1> HIDE DEF T
<1>6. TieAll(q, C) \in T[C]
  BY <1>4, <1>5, TieFold
<1> QED
  BY <1>3, <1>5, <1>6

(* The run of a file makes the score again, under other numbers.             *)
LEMMA ReplayRestores ==
  ASSUME NEW s, Inv(s), Acyclic(s)
  PROVE  LET run == Replay(Dump(s)) IN
         /\ RunInv(run) /\ Restores(run, run.env, s)
         /\ \A a, b \in s.objects : run.env[a] = run.env[b] => a = b
<1> DEFINE base == Hold(Empty)
           start == [to |-> base, env |-> <<>>, ok |-> TRUE]
           file == Dump(s)
           q == RunLines(start, file.lines)
           run == TieAll(q, file.links)
<1>1. /\ base.objects = {} /\ base.lastId = 0 /\ base.conn = {} /\ base.busses = {}
      /\ Inv(base) /\ \A o \in Ids : base.links[o] = {}
  <2>1. Empty.conn = {} /\ Empty.busses = {} /\ Empty.links = [o \in Ids |-> {}]
    BY DEF Empty
  <2> QED
    BY <2>1, EmptyInv, HoldQuiet DEF Quiet, Hold
<1> HIDE DEF base
<1>2. <<>> \in Names /\ DOMAIN <<>> = {}
  <2>1. DOMAIN <<>> = {} /\ <<>> \in [{} -> Ids]
    OBVIOUS
  <2>2. {} \in SUBSET Ids
    OBVIOUS
  <2> QED
    BY <2>1, <2>2 DEF Names
<1>3. /\ start.to = base /\ start.env = <<>> /\ start.ok = TRUE
      /\ start \in Runs
  BY <1>1, <1>2 DEF Runs, Inv
<1> HIDE DEF start
<1>4. RunInv(start) /\ After(start, 0)
  <2>1. 0 .. 0 - 1 = {}
    OBVIOUS
  <2> QED
    BY <1>1, <1>2, <1>3, <2>1 DEF RunInv, After
<1>5. Copies(s, start, {}, {})
  BY <1>1, <1>2, <1>3 DEF Copies
<1>6. RunInv(q) /\ Copies(s, q, s.objects, s.conn)
  BY <1>4, <1>5, LinesCopy
<1>7. file.links = {p \in s.objects \X Ids : p[2] \in s.links[p[1]]}
  BY DEF Dump
<1>8. Replay(file) = run
  BY DEF Replay, start, base
<1> HIDE DEF q, file
<1>9. /\ file.links \subseteq s.objects \X s.objects /\ IsFiniteSet(file.links)
      /\ \A x, y \in file.links : ~(x[1] = y[2] /\ x[2] = y[1])
  <2>1. /\ s.objects \in SUBSET Ids
        /\ \A o \in Ids : /\ s.links[o] \subseteq s.objects
                           /\ \A x \in s.links[o] : o \notin s.links[x]
    BY DEF Inv, Scores
  <2>2. file.links \in SUBSET (Ids \X Ids)
    BY <1>7, <2>1
  <2>3. IsFiniteSet(file.links)
    BY <2>2, PairsFinite
  <2> QED
    BY <1>7, <2>1, <2>3
<1>10. DOMAIN q.env = s.objects /\ \A a, b \in s.objects : q.env[a] = q.env[b] => a = b
  BY <1>6 DEF Copies
<1>11. Linked(q, s.objects, {}, q)
  <2>1. \A o \in s.objects : q.env[o] \in Ids
    BY <1>6, <1>10 DEF RunInv, Inv, Scores
  <2> QED
    BY <1>6, <2>1 DEF Copies, Linked
<1>12. Linked(q, s.objects, file.links, run)
  BY <1>9, <1>10, <1>11, TieAllLinks
<1> HIDE DEF run
<1>13. /\ RunInv(run) /\ run.ok = TRUE /\ run.env = q.env
       /\ run.to.objects = q.to.objects /\ run.to.conn = q.to.conn
       /\ run.to.delayed = q.to.delayed /\ run.to.busses = q.to.busses
  BY <1>12 DEF Linked
<1>14. run.to.objects = {run.env[o] : o \in s.objects}
  BY <1>6, <1>13 DEF Copies
<1>15. run.to.conn = {<<run.env[k[1]], k[2], run.env[k[3]]>> : k \in s.conn}
  BY <1>6, <1>13 DEF Copies
<1>16. ASSUME NEW o \in s.objects
       PROVE  /\ run.to.links[run.env[o]] = {run.env[x] : x \in s.links[o]}
              /\ run.env[o] \in run.to.delayed <=> o \in s.delayed
              /\ run.env[o] \in run.to.busses <=> o \in s.busses
  <2>1. \A y : y \in run.to.links[run.env[o]]
                 <=> \E p \in file.links : p[1] = o /\ y = run.env[p[2]]
    BY <1>12, <1>13 DEF Linked
  <2>2. \A x : x \in s.links[o] => <<o, x>> \in file.links
    BY <1>7 DEF Inv, Scores
  <2>3. \A y : y \in run.to.links[run.env[o]] <=> \E x \in s.links[o] : y = run.env[x]
    <3>1. ASSUME NEW y, y \in run.to.links[run.env[o]] PROVE \E x \in s.links[o] : y = run.env[x]
      BY <1>7, <2>1, <3>1
    <3>2. ASSUME NEW x \in s.links[o] PROVE run.env[x] \in run.to.links[run.env[o]]
      <4>1. <<o, x>> \in file.links /\ <<o, x>>[1] = o /\ <<o, x>>[2] = x
        BY <2>2
      <4> QED
        BY <2>1, <4>1
    <3> QED
      BY <3>1, <3>2
  <2> QED
    BY <1>6, <1>13, <2>3 DEF Copies
<1>17. Restores(run, run.env, s)
  BY <1>10, <1>13, <1>14, <1>15, <1>16 DEF Restores
<1> QED
  BY <1>8, <1>10, <1>13, <1>17 DEF file

------------------------------------------------------------------------------
(***************************************************************************)
(* No circles, and so the file.                                            *)
(***************************************************************************)

(* With fewer connections there is no circle that there was not.             *)
LEMMA FewerAcyclic ==
  ASSUME NEW s, Acyclic(s), NEW t, t.conn \subseteq s.conn
  PROVE  Acyclic(t)
BY DEF Acyclic

(* The connections of the score that a file leads to are those of the score  *)
(* saved, under other names.                                                 *)
LEMMA ReopenAcyclic ==
  ASSUME NEW s, Inv(s), Acyclic(s)
  PROVE  Acyclic(Loaded(Replay(Dump(s)), s.hold))
<1> PICK run : run = Replay(Dump(s))
  OBVIOUS
<1>1. /\ RunInv(run) /\ Restores(run, run.env, s)
      /\ \A a, b \in s.objects : run.env[a] = run.env[b] => a = b
  BY ReplayRestores
<1> PICK t : t = run.to
  OBVIOUS
<1>2. Inv(t) /\ run.ok = TRUE
  BY <1>1 DEF RunInv, Restores, Runs
<1>3. \A k \in t.conn : \E c \in s.conn : k = <<run.env[c[1]], c[2], run.env[c[3]]>>
  BY <1>1 DEF Restores
<1>4. \A c \in s.conn : c[1] \in s.objects /\ c[3] \in s.objects
  BY ConnectionShape
<1>5. t.objects = {run.env[o] : o \in s.objects} /\ s.objects \subseteq Ids
  BY <1>1 DEF Restores, Inv, Scores
<1>6. Acyclic(t)
  <2> SUFFICES ASSUME NEW S \in SUBSET Ids, S # {}
               PROVE  \E x \in S : \A k \in t.conn : k[3] = x => k[1] \notin S
    BY DEF Acyclic
  <2> DEFINE back == {o \in s.objects : run.env[o] \in S}
  <2>1. CASE back = {}
    <3>1. PICK x : x \in S
      OBVIOUS
    <3>2. \A k \in t.conn : k[3] # x
      BY <1>3, <1>4, <2>1, <3>1
    <3> QED
      BY <3>1, <3>2
  <2>2. CASE back # {}
    <3>1. back \in SUBSET Ids
      BY <1>5
    <3>2. PICK o \in back : \A c \in s.conn : c[3] = o => c[1] \notin back
      BY <2>2, <3>1 DEF Acyclic
    <3>3. ASSUME NEW k \in t.conn, k[3] = run.env[o] PROVE k[1] \notin S
      <4>1. PICK c \in s.conn : k = <<run.env[c[1]], c[2], run.env[c[3]]>>
        BY <1>3
      <4>2. k[1] = run.env[c[1]] /\ k[3] = run.env[c[3]]
        BY <4>1
      <4>3. c[3] = o
        BY <1>1, <1>4, <3>2, <3>3, <4>2
      <4> QED
        BY <1>4, <3>2, <4>2, <4>3
    <3> QED
      BY <3>2, <3>3
  <2> QED
    BY <2>1, <2>2
<1>7. PICK b \in BOOLEAN : b = s.hold
  BY DEF Inv, Scores
<1>8. ScoreTree(t) \in Seq(t.objects)
  BY <1>2, TreesStay DEF ScoreTree, Lists
<1>9. Quiet(t, Unhold(t, b, ScoreTree(t)))
  BY <1>2, <1>8, UnholdQuiet
<1>10. Loaded(run, b) = Unhold(t, b, ScoreTree(t))
  BY <1>2 DEF Loaded
<1>11. Acyclic(Loaded(run, b))
  BY <1>6, <1>9, <1>10, FewerAcyclic DEF Quiet
<1> QED
  BY <1>7, <1>11

(* No step makes a circle if the users do not.                               *)
LEMMA NextAcyclic ==
  ASSUME Inv(score), Acyclic(score), "cycles" \notin Practice, Next
  PROVE  Acyclic(score')
<1>1. ASSUME NEW t, Quiet(score, t), score' = t PROVE Acyclic(score')
  BY <1>1, FewerAcyclic DEF Quiet
<1>2. CASE Create
  <2>1. PICK bus \in BOOLEAN : FreeId(score) \in Ids /\ score' = NewObject(score, bus)
    BY <1>2 DEF Create
  <2> QED
    BY <2>1, NewObjectExact, FewerAcyclic
<1>3. CASE Destroy
  <2>1. PICK t, o :
            o \in t.objects /\ Quiet(score, t) /\ Inv(t) /\ score' = DestroyObject(t, o)
    BY <1>3, DestroyFacts
  <2>7. t.conn = score.conn
    BY <2>1 DEF Quiet
  <2>2. PICK gone : /\ DestroyObject(t, o) = Unhold(gone, t.hold, ScoreTree(gone))
                    /\ Inv(gone) /\ gone.conn \subseteq score.conn
    BY <2>1, <2>7, DestroyObjectSteps
  <2>3. PICK b \in BOOLEAN : b = t.hold
    BY <2>1 DEF Inv, Scores
  <2>4. ScoreTree(gone) \in Seq(gone.objects)
    BY <2>2, TreesStay DEF ScoreTree, Lists
  <2>5. Quiet(gone, Unhold(gone, b, ScoreTree(gone)))
    BY <2>2, <2>4, UnholdQuiet
  <2>6. score'.conn \subseteq score.conn
    BY <2>1, <2>2, <2>3, <2>5 DEF Quiet
  <2> QED
    BY <2>6, FewerAcyclic
<1>4. CASE Edit
  <2>1. PICK o \in score.objects, error \in BOOLEAN : score' = Edited(score, o, error)
    BY <1>4 DEF Edit
  <2> QED
    BY <1>1, <2>1, EditedQuiet
<1>5. CASE SetDelayUpdate
  <2>1. PICK o \in score.objects, on \in BOOLEAN : score' = SetDelay(score, o, on)
    BY <1>5 DEF SetDelayUpdate
  <2> QED
    BY <1>1, <2>1, SetDelayQuiet
<1>6. CASE ConnectTo
  <2>1. PICK d \in score.objects, src \in score.objects :
            \E i \in Inlets[d] : src \notin Onward(score, {d}) /\ score' = Connect(score, d, src, i)
    BY <1>6 DEF ConnectTo
  <2>2. PICK i \in InletNames : src \notin Onward(score, {d}) /\ score' = Connect(score, d, src, i)
    BY <2>1 DEF Inv, Scores, InletNames
  <2>3. Rewired(score, score', score.conn \cup {<<src, i, d>>})
    BY <2>1, <2>2, ConnectInv
  <2>4. score'.conn = score.conn \cup {<<src, i, d>>}
    BY <2>3 DEF Rewired
  <2> QED
    BY <2>1, <2>2, <2>4, ConnectAcyclic
<1>7. CASE DisconnectFrom
  <2>1. PICK k \in score.conn : score' = Disconnect(score, k[3], k[1], k[2])
    BY <1>7 DEF DisconnectFrom
  <2>2. k[3] \in score.objects
    BY ConnectionShape
  <2>3. Rewired(score, score', score.conn \ {<<k[1], k[2], k[3]>>})
    BY <2>1, <2>2, DisconnectInv
  <2>4. score'.conn \subseteq score.conn
    BY <2>3 DEF Rewired
  <2> QED
    BY <2>4, FewerAcyclic
<1>8. ASSUME NEW t, NEW L, Retied(score, t, L), score' = t PROVE Acyclic(score')
  BY <1>8, FewerAcyclic DEF Retied
<1>9. CASE Link
  <2>1. PICK o \in score.objects, target \in score.objects : score' = AddLink(score, o, target)
    BY <1>9 DEF Link
  <2> QED
    BY <1>8, <2>1, AddLinkInv
<1>10. CASE Unlink
  <2>1. PICK o \in score.objects, target \in score.objects : score' = RemoveLink(score, o, target)
    BY <1>10 DEF Unlink
  <2> QED
    BY <1>8, <2>1, RemoveLinkInv
<1>11. CASE Drag
  BY <1>1, <1>11, DragEndQuiet DEF Drag
<1>12. CASE Align
  <2>1. PICK o \in score.objects, target \in score.objects, do_link \in BOOLEAN :
            score' = AlignEnd(score, o, target, do_link)
    BY <1>12 DEF Align
  <2>2. PICK t : /\ Quiet(score, t) /\ Inv(t)
                 /\ score' = IF do_link THEN AddLink(t, o, target) ELSE t
    BY <2>1, AlignEndInv
  <2>3. o \in t.objects /\ target \in t.objects /\ t.conn = score.conn
    BY <2>1, <2>2 DEF Quiet
  <2>4. \E L : Retied(t, AddLink(t, o, target), L)
    BY <2>2, <2>3, AddLinkInv
  <2>5. AddLink(t, o, target).conn = t.conn
    BY <2>4 DEF Retied
  <2>6. score'.conn \subseteq score.conn
    BY <2>2, <2>3, <2>5
  <2> QED
    BY <2>6, FewerAcyclic
<1>13. ScoreTree(score) \in Seq(score.objects)
  BY TreesStay DEF ScoreTree, Lists
<1>14. CASE ToggleHold
  <2> DEFINE t == [score EXCEPT !.hold = ~@]
  <2>1. PICK b \in BOOLEAN : b = ~score.hold
    BY DEF Inv, Scores
  <2>2. Quiet(score, t) /\ Inv(t)
    BY <2>1, HoldQuiet
  <2>3. ScoreTree(t) \in Seq(t.objects)
    BY <2>2, TreesStay DEF ScoreTree, Lists
  <2>4. score' = IF t.hold THEN t ELSE UpdateAll(t, ScoreTree(t), FALSE)
    BY <1>14 DEF ToggleHold
  <2> HIDE DEF t
  <2>5. Quiet(t, UpdateAll(t, ScoreTree(t), FALSE))
    BY <2>2, <2>3, UpdateAllQuiet
  <2>6. Quiet(score, score')
    BY <2>2, <2>4, <2>5, QuietTrans
  <2> QED
    BY <1>1, <2>6
<1>15. CASE UpdateButton
  BY <1>1, <1>13, <1>15, UpdateAllQuiet DEF UpdateButton
<1>16. CASE UpdateKey
  BY <1>1, <1>16, UpdateQuiet DEF UpdateKey
<1>17. CASE Reopen
  BY <1>17, ReopenAcyclic DEF Reopen
<1> QED
  BY <1>2, <1>3, <1>4, <1>5, <1>6, <1>7, <1>9, <1>10, <1>11, <1>12, <1>14, <1>15,
     <1>16, <1>17 DEF Next

(* When no circle is made, whatever else is done: the file of the score      *)
(* runs without an error and makes the score again, each object with its     *)
(* connections, links and flags, under numbers that no two objects share.    *)
THEOREM FilesRestore ==
  ASSUME "cycles" \notin Practice
  PROVE  Spec => []SaveRestores
<1> DEFINE I == Inv(score) /\ Acyclic(score)
<1>1. Init => I
  BY EmptySound DEF Init, Punctual
<1>2. I /\ [Next]_score => I'
  BY NextInv, NextAcyclic
<1>3. I => SaveRestores
  BY ReplayRestores DEF SaveRestores
<1> HIDE DEF I
<1> QED
  BY <1>1, <1>2, <1>3, PTL DEF Spec

==============================================================================
