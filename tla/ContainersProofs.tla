---------------------------- MODULE ContainersProofs ----------------------------
(***************************************************************************)
(* A Nasal hash is a map and a vector a list, and keys() lists the names   *)
(* in the map, for any keys, hash function, width of hash codes, values    *)
(* and sizes: each operation on the records is that of Collections, and    *)
(* the records stay well formed (HInv for hashes, RecOK for vectors).      *)
(* And the exported files hold what was exported, for any events, sounds   *)
(* and sizes: a reader gets it back.                                       *)
(***************************************************************************)
EXTENDS Library, FiniteSetTheorems, SequenceTheorems, TLAPS

-----------------------------------------------------------------------------
(***************************************************************************)
(* Hashes.  The odd steps of a search lead to all cells of a table, whose  *)
(* number is a power of two; there is always an empty one; so every search *)
(* ends, and it ends at the cell with the name because no empty cell lies  *)
(* before that one on its walk (Good).  Making the table again enters the  *)
(* same names once more, by induction over its cells.                      *)
(***************************************************************************)
(* A set of natural numbers has a least element.                            *)
LEMMA NatMin ==
  ASSUME NEW T, T \subseteq Nat, T # {}
  PROVE  \E n \in T : \A m \in T : n <= m
<1>1. PICK x \in T : \A y \in T : ~(<<y, x>> \in OpToRel(<, Nat))
  BY NatLessThanWellFounded, WFMin
<1>2. ASSUME NEW y \in T PROVE x <= y
  <2>1. ~(<<y, x>> \in {ss \in Nat \X Nat : ss[1] < ss[2]})
    BY <1>1 DEF OpToRel
  <2> QED
    BY <2>1
<1> QED
  BY <1>2

(* Induction over the numbers that have a property.                         *)
LEMMA NatInd ==
  ASSUME NEW T, 0 \in T, \A n \in Nat : n \in T => n + 1 \in T
  PROVE  Nat \subseteq T
<1> DEFINE U == Nat \ T
<1>1. ASSUME U # {} PROVE FALSE
  <2>1. PICK n \in U : \A m \in U : n <= m
    BY <1>1, NatMin
  <2>2. n # 0 /\ n - 1 \in Nat
    BY <2>1
  <2>3. n - 1 \in T
    BY <2>1, <2>2
  <2> QED
    BY <2>2, <2>3
<1> QED
  BY <1>1

(* A recursion has a solution: the values f[0], f[1], ... that begin with   *)
(* base and go on with step.                                                *)
Solves(f, S, base, step) ==
  f \in [Nat -> S] /\ f[0] = base /\ \A n \in Nat : f[n + 1] = step[n][f[n]]

LEMMA Recursion ==
  ASSUME NEW S, NEW base, NEW step, base \in S, step \in [Nat -> [S -> S]]
  PROVE  \E f : Solves(f, S, base, step)
<1> DEFINE Begins(n, g) == g \in [0..n -> S] /\ g[0] = base
                           /\ \A i \in 0..(n - 1) : g[i + 1] = step[i][g[i]]
           T == {n \in Nat : \E g : Begins(n, g)}
<1>1. 0 \in T
  <2>1. Begins(0, [i \in 0..0 |-> base])
    OBVIOUS
  <2> QED
    BY <2>1
<1>2. ASSUME NEW n \in Nat, n \in T PROVE n + 1 \in T
  <2>1. PICK g : Begins(n, g)
    BY <1>2
  <2> DEFINE h == [i \in 0..(n + 1) |-> IF i <= n THEN g[i] ELSE step[n][g[n]]]
  <2>2. h \in [0..(n + 1) -> S] /\ h[0] = base
    BY <2>1
  <2>3. \A i \in 0..((n + 1) - 1) : h[i + 1] = step[i][h[i]]
    BY <2>1
  <2>4. Begins(n + 1, h)
    BY <2>2, <2>3
  <2> HIDE DEF h, Begins
  <2> QED
    BY <2>4
<1>3. Nat \subseteq T
  <2> HIDE DEF T
  <2> QED
    BY <1>1, <1>2, NatInd
<1>4. PICK G : \A n \in Nat : Begins(n, G[n])
  <2>1. \A n \in Nat : \E g : Begins(n, g)
    BY <1>3
  <2> HIDE DEF Begins
  <2>2. \A n \in Nat : Begins(n, [k \in Nat |-> CHOOSE g : Begins(k, g)][n])
    BY <2>1
  <2> QED
    BY <2>2
<1> DEFINE V == {i \in Nat : \A n, m \in Nat : i <= n /\ i <= m => G[n][i] = G[m][i]}
<1>5. \A i, n, m \in Nat : i <= n /\ i <= m => G[n][i] = G[m][i]
  <2>1. 0 \in V
    <3>1. \A n \in Nat : G[n][0] = base
      BY <1>4
    <3> QED
      BY <3>1
  <2>2. ASSUME NEW i \in Nat, i \in V PROVE i + 1 \in V
    <3> SUFFICES ASSUME NEW n \in Nat, NEW m \in Nat, i + 1 <= n, i + 1 <= m
                 PROVE  G[n][i + 1] = G[m][i + 1]
      OBVIOUS
    <3>1. G[n][i] = G[m][i]
      <4>1. i <= n /\ i <= m
        OBVIOUS
      <4> QED
        BY <2>2, <4>1
    <3>2. i \in 0..(n - 1) /\ i \in 0..(m - 1)
      OBVIOUS
    <3>3. G[n][i + 1] = step[i][G[n][i]] /\ G[m][i + 1] = step[i][G[m][i]]
      BY <1>4, <3>2
    <3> QED
      BY <3>1, <3>3
  <2> HIDE DEF V
  <2>3. Nat \subseteq V
    BY <2>1, <2>2, NatInd
  <2> QED
    BY <2>3 DEF V
<1> DEFINE f == [n \in Nat |-> G[n][n]]
<1>6. f \in [Nat -> S] /\ f[0] = base
  <2>1. G[0][0] = base
    BY <1>4
  <2>2. ASSUME NEW n \in Nat PROVE G[n][n] \in S
    <3>1. G[n] \in [0..n -> S] /\ n \in 0..n
      BY <1>4
    <3> QED
      BY <3>1
  <2> QED
    BY <2>1, <2>2
<1>7. ASSUME NEW n \in Nat PROVE f[n + 1] = step[n][f[n]]
  <2>1. n \in 0..((n + 1) - 1) /\ n + 1 \in Nat /\ n <= n + 1 /\ n <= n
    OBVIOUS
  <2>2. G[n + 1][n + 1] = step[n][G[n + 1][n]]
    BY <1>4, <2>1
  <2>3. G[n + 1][n] = G[n][n]
    BY <1>5, <2>1
  <2> QED
    BY <2>1, <2>2, <2>3
<1> HIDE DEF f
<1> QED
  BY <1>6, <1>7 DEF Solves

LEMMA PowersOfTwo ==
  /\ POW2[0] = 1
  /\ \A n \in Nat : POW2[n] \in Nat \ {0} /\ POW2[n + 1] = 2 * POW2[n]
<1>1. \E g : g = [n \in Nat |-> IF n = 0 THEN 1 ELSE 2 * g[n - 1]]
  <2> DEFINE step == [n \in Nat |-> [x \in Nat |-> 2 * x]]
  <2>1. step \in [Nat -> [Nat -> Nat]] /\ 1 \in Nat
    OBVIOUS
  <2>2. PICK f : Solves(f, Nat, 1, step)
    BY <2>1, Recursion
  <2>3. f \in [Nat -> Nat] /\ f[0] = 1
    BY <2>2 DEF Solves
  <2>4. \A n \in Nat : f[n + 1] = 2 * f[n]
    BY <2>2 DEF Solves
  <2>5. \A n \in Nat : f[n] = IF n = 0 THEN 1 ELSE 2 * f[n - 1]
    <3> SUFFICES ASSUME NEW n \in Nat, n # 0 PROVE f[n] = 2 * f[n - 1]
      BY <2>3
    <3>1. n - 1 \in Nat /\ (n - 1) + 1 = n
      OBVIOUS
    <3> QED
      BY <2>4, <3>1
  <2> QED
    BY <2>3, <2>5
<1>2. POW2 = [n \in Nat |-> IF n = 0 THEN 1 ELSE 2 * POW2[n - 1]]
  BY <1>1 DEF POW2
<1>3. POW2[0] = 1 /\ \A n \in Nat : POW2[n + 1] = 2 * POW2[n]
  <2>1. \A n \in Nat : n + 1 \in Nat /\ n + 1 # 0 /\ (n + 1) - 1 = n
    OBVIOUS
  <2> QED
    BY <1>2, <2>1
<1> DEFINE T == {n \in Nat : POW2[n] \in Nat \ {0}}
<1>4. Nat \subseteq T
  <2>1. 0 \in T /\ \A n \in Nat : n \in T => n + 1 \in T
    BY <1>3
  <2> HIDE DEF T
  <2> QED
    BY <2>1, NatInd
<1> QED
  BY <1>3, <1>4

-----------------------------------------------------------------------------
Odd(s) == \E t \in Int : s = 2 * t + 1
Divides(p, d) == \E q \in Int : d = q * p

LEMMA Cancel ==
  ASSUME NEW p \in Nat \ {0}, NEW a \in Int, NEW b \in Int, a * p = b * p
  PROVE  a = b
BY SMT

(* A power of two that divides d * s, where s is odd, divides d.            *)
LEMMA OddFactor ==
  \A n \in Nat : \A d \in Int, s \in Int :
    Odd(s) /\ Divides(POW2[n], d * s) => Divides(POW2[n], d)
<1> DEFINE T == {n \in Nat : \A d \in Int, s \in Int :
                   Odd(s) /\ Divides(POW2[n], d * s) => Divides(POW2[n], d)}
<1>1. 0 \in T
  <2>1. \A d \in Int : d = d * 1
    OBVIOUS
  <2>2. \A d \in Int : Divides(POW2[0], d)
    BY <2>1, PowersOfTwo DEF Divides
  <2> QED
    BY <2>2
<1>2. ASSUME NEW n \in Nat, n \in T PROVE n + 1 \in T
  <2> SUFFICES ASSUME NEW d \in Int, NEW s \in Int, Odd(s), Divides(POW2[n + 1], d * s)
               PROVE  Divides(POW2[n + 1], d)
    OBVIOUS
  <2>1. PICK p \in Nat \ {0} : p = POW2[n] /\ POW2[n + 1] = 2 * p
    BY PowersOfTwo
  <2>2. PICK q \in Int : d * s = q * (2 * p)
    BY <2>1 DEF Divides
  <2>3. PICK t \in Int : s = 2 * t + 1
    BY DEF Odd
  <2>4. d * s = (q * 2) * p /\ q * 2 \in Int
    BY <2>2, SMT
  <2>5. Divides(POW2[n], d * s)
    BY <2>1, <2>4 DEF Divides
  <2>6. Divides(POW2[n], d)
    BY <1>2, <2>5
  <2>7. PICK e \in Int : d = e * p
    BY <2>1, <2>6 DEF Divides
  <2>8. (e * s) * p = (q * 2) * p
    BY <2>4, <2>7, SMT
  <2>9. e * s = q * 2
    <3>1. e * s \in Int
      OBVIOUS
    <3> QED
      BY <2>4, <2>8, <3>1, Cancel
  <2>10. e = 2 * (q - e * t)
    BY <2>3, <2>9, SMT
  <2>11. d = (q - e * t) * (2 * p)
    BY <2>7, <2>10, SMT
  <2> QED
    BY <2>1, <2>11, SMT DEF Divides
<1> HIDE DEF T
<1>3. Nat \subseteq T
  BY <1>1, <1>2, NatInd
<1> QED
  BY <1>3 DEF T

LEMMA Modulo ==
  ASSUME NEW a \in Nat \ {0}, NEW b \in Nat
  PROVE  /\ b % a \in 0..(a - 1)
         /\ \E q \in Int : b = (q * a) + (b % a)
<1>1. b % a \in 0..(a - 1) /\ b \div a \in Int /\ b = (a * (b \div a)) + (b % a)
  BY SMT
<1>2. PICK q \in Int : q = b \div a
  BY <1>1
<1>3. b = (a * q) + (b % a)
  BY <1>1, <1>2
<1>4. a * q = q * a
  BY SMT
<1> QED
  BY <1>1, <1>3, <1>4

(* In a table of 2^n cells, odd steps lead to all of them.                  *)
LEMMA OddSteps ==
  ASSUME NEW n \in Nat, NEW b \in Nat, NEW s \in Nat, Odd(s),
         NEW i \in 0..(POW2[n] - 1), NEW j \in 0..(POW2[n] - 1),
         (b + i * s) % POW2[n] = (b + j * s) % POW2[n]
  PROVE  i = j
<1>1. PICK p \in Nat \ {0} : p = POW2[n]
  BY PowersOfTwo
<1>2. b + i * s \in Nat /\ b + j * s \in Nat
  <2>1. i \in Nat /\ j \in Nat
    BY <1>1
  <2> QED
    BY <2>1, SMT
<1>3. PICK x \in Int, y \in Int : /\ b + i * s = (x * p) + ((b + i * s) % p)
                                  /\ b + j * s = (y * p) + ((b + j * s) % p)
  BY <1>2, Modulo
<1>4. (b + i * s) % p \in Int /\ (b + i * s) % p = (b + j * s) % p
  BY <1>1, <1>2, Modulo
<1>5. (i - j) * s = (x - y) * p
  <2>1. (i - j) * s = i * s - j * s /\ i * s \in Int /\ j * s \in Int
    BY <1>1, SMT
  <2>2. (x - y) * p = x * p - y * p /\ x * p \in Int /\ y * p \in Int
    BY <1>3, SMT
  <2>3. i * s - j * s = x * p - y * p
    <3>1. PICK c \in Int, d \in Int, e \in Int, f \in Int, r \in Int :
            /\ c = i * s /\ d = j * s /\ e = x * p /\ f = y * p
            /\ r = (b + i * s) % p /\ r = (b + j * s) % p
      BY <1>4, <2>1, <2>2
    <3>2. b + c = e + r /\ b + d = f + r
      BY <1>3, <3>1
    <3>3. c - d = e - f
      BY <3>2, SMT
    <3> QED
      BY <3>1, <3>3
  <2> QED
    BY <2>1, <2>2, <2>3
<1>6. Divides(POW2[n], (i - j) * s) /\ i - j \in Int
  BY <1>1, <1>5, SMT DEF Divides
<1>7. PICK q \in Int : i - j = q * p
  <2>1. Divides(POW2[n], i - j)
    BY <1>6, OddFactor
  <2> QED
    BY <1>1, <2>1 DEF Divides
<1>8. i - j < p /\ j - i < p
  BY <1>1, SMT
<1>9. q = 0
  <2>1. q >= 1 => q * p >= p
    BY SMT
  <2>2. q <= -1 => q * p <= -p
    BY SMT
  <2>3. ~(q >= 1) /\ ~(q <= -1)
    BY <1>1, <1>7, <1>8, <2>1, <2>2, SMT
  <2> QED
    BY <2>3
<1> QED
  BY <1>1, <1>7, <1>9, SMT

Codes == 0..(POW2[Bits] - 1)

(* The sizes a table can have. *)
Sizes == 0..Bits

LEMMA TableSize ==
  ASSUME NEW r, r.lgsz \in Sizes
  PROVE  /\ r.lgsz \in Nat /\ r.lgsz + 1 \in Nat /\ Bits - r.lgsz \in Nat
         /\ NCells(r) = POW2[r.lgsz + 1] /\ NCells(r) \in Nat \ {0}
         /\ Cells(r) = 0..(NCells(r) - 1)
         /\ POW2[r.lgsz] \in Nat \ {0} /\ POW2[r.lgsz] < NCells(r)
<1>1. r.lgsz \in Nat /\ r.lgsz + 1 \in Nat /\ Bits - r.lgsz \in Nat
  BY HashAssumption, SMT DEF Sizes
<1>2. POW2[r.lgsz] \in Nat \ {0} /\ POW2[r.lgsz + 1] = 2 * POW2[r.lgsz]
  BY <1>1, PowersOfTwo
<1> QED
  BY <1>1, <1>2, SMT DEF NCells, Cells

LEMMA Steps ==
  ASSUME NEW r, r.lgsz \in Sizes, NEW h \in Codes
  PROVE  HBits(r, h) \in Nat /\ Step(r, h) \in Nat /\ Odd(Step(r, h))
<1>1. h \in Nat
  BY PowersOfTwo, HashAssumption, SMT DEF Codes
<1>2. HBits(r, h) \in Nat
  <2>1. PICK p \in Nat \ {0} : p = POW2[Bits - r.lgsz]
    BY TableSize, PowersOfTwo
  <2>2. h \div p \in Nat
    BY <1>1, <2>1, SMT
  <2> QED
    BY <2>1, <2>2 DEF HBits
<1>3. PICK p \in Nat \ {0}, m \in Nat \ {0} : m = NCells(r) /\ m = 2 * p
  BY TableSize, SMT DEF NCells
<1>4. PICK k \in Nat : k = 2 * h + 1
  BY <1>1, SMT
<1>5. Step(r, h) = k % m
  BY <1>3, <1>4 DEF Step
<1>6. Step(r, h) \in Nat
  <2>1. k % m \in 0..(m - 1)
    BY <1>3, <1>4, Modulo
  <2> QED
    BY <1>3, <1>5, <2>1, SMT
<1>7. PICK q \in Int : k = (q * m) + Step(r, h)
  <2>1. \E q \in Int : k = (q * m) + (k % m)
    BY <1>3, <1>4, Modulo
  <2> QED
    BY <1>5, <2>1
<1>8. q * m = 2 * (q * p) /\ q * p \in Int
  BY <1>3, <1>7, SMT
<1>9. Step(r, h) = 2 * (h - q * p) + 1 /\ h - q * p \in Int
  BY <1>1, <1>4, <1>6, <1>7, <1>8, SMT
<1> QED
  BY <1>2, <1>6, <1>9 DEF Odd

(* The walk of any key goes through all cells of a table.                   *)
LEMMA WalkCovers ==
  ASSUME NEW r, r.lgsz \in Sizes, NEW h \in Codes
  PROVE  /\ \A i \in Cells(r) : Cell(r, h, i) \in Cells(r)
         /\ \A i, j \in Cells(r) : Cell(r, h, i) = Cell(r, h, j) => i = j
         /\ \A c \in Cells(r) : \E i \in Cells(r) : Cell(r, h, i) = c
<1>1. PICK n \in Nat, b \in Nat, s \in Nat, m \in Nat \ {0} :
        n = r.lgsz + 1 /\ b = HBits(r, h) /\ s = Step(r, h) /\ m = NCells(r)
  BY Steps, TableSize
<1>2. m = POW2[n] /\ Odd(s) /\ Cells(r) = 0..(m - 1)
  BY <1>1, Steps, TableSize
<1>3. \A i : Cell(r, h, i) = (b + i * s) % m
  BY <1>1 DEF Cell
<1>4. ASSUME NEW i \in Cells(r) PROVE Cell(r, h, i) \in Cells(r)
  <2>1. i \in Nat
    BY <1>1, <1>2, SMT
  <2>2. b + i * s \in Nat
    BY <1>1, <2>1, SMT
  <2> QED
    BY <1>1, <1>2, <1>3, <2>2, Modulo
<1>5. ASSUME NEW i \in Cells(r), NEW j \in Cells(r), Cell(r, h, i) = Cell(r, h, j)
      PROVE  i = j
  <2>1. i \in 0..(POW2[n] - 1) /\ j \in 0..(POW2[n] - 1)
    BY <1>2
  <2>2. (b + i * s) % POW2[n] = (b + j * s) % POW2[n]
    BY <1>2, <1>3, <1>5
  <2> QED
    BY <1>2, <2>1, <2>2, OddSteps
<1> DEFINE f == [i \in Cells(r) |-> Cell(r, h, i)]
<1>6. f \in Injection(Cells(r), Cells(r))
  BY <1>4, <1>5 DEF Injection, IsInjective
<1>7. IsFiniteSet(Cells(r))
  <2>1. 0 \in Int /\ m - 1 \in Int
    BY <1>1, SMT
  <2> QED
    BY <1>2, <2>1, FS_Interval
<1> HIDE DEF f
<1>8. f \in Surjection(Cells(r), Cells(r))
  BY <1>6, <1>7, FS_Injection
<1>9. \A c \in Cells(r) : \E i \in Cells(r) : f[i] = c
  BY <1>8 DEF Surjection
<1> QED
  BY <1>4, <1>5, <1>9 DEF f

-----------------------------------------------------------------------------
(* The empty string is taken for any number on its walk (Equal): a hash is  *)
(* a map for keys of which none is the empty string, or none is a number.   *)
NoEmptyKey == Empty \notin Names \/ Numbers = {}

Entry == [key : Keys \union {None}, val : Vals \union {None}]

IsRec(r) ==
  /\ r.null = FALSE
  /\ r.lgsz \in Sizes /\ r.size \in Nat /\ r.next \in 0..POW2[r.lgsz]
  /\ r.tab \in [Cells(r) -> {EMPTY, DELETED} \union 0..(r.next - 1)]
  /\ r.ents \in [0..(POW2[r.lgsz] - 1) -> Entry]

KeyIn(r, c) == r.ents[r.tab[c]].key
ValIn(r, c) == r.ents[r.tab[c]].val
NameOfCell(r, c) == Name[KeyIn(r, c)]

Used(r) == {c \in Cells(r) : r.tab[c] # EMPTY}

(* The walk of n comes to cell c and has met no empty cell before.          *)
Reaches(r, n, c) ==
  \E i \in Cells(r) : /\ Cell(r, code[n], i) = c
                      /\ \A j \in 0..(i - 1) : r.tab[Cell(r, code[n], j)] # EMPTY

Good(r) ==
  /\ IsRec(r)
  /\ Cardinality(Used(r)) = r.next
  /\ Cardinality(LiveCells(r)) = r.size
  /\ \A c \in LiveCells(r) : KeyIn(r, c) \in Keys /\ ValIn(r, c) \in Vals
  /\ \A c, d \in LiveCells(r) : r.tab[c] = r.tab[d] => c = d
  /\ \A c, d \in LiveCells(r) : NameOfCell(r, c) = NameOfCell(r, d) => c = d
  /\ \A c \in LiveCells(r) : Reaches(r, NameOfCell(r, c), c)

LEMMA SameName ==
  ASSUME NoEmptyKey, NEW n \in Names, NEW m \in Names
  PROVE  Equal(n, m) <=> n = m
BY HashAssumption DEF NoEmptyKey, Equal

LEMMA CodeOfName ==
  ASSUME code \in HashCodes, NEW n \in Names
  PROVE  code[n] \in Codes
BY HashAssumption DEF Codes

LEMMA Live ==
  ASSUME NEW r, IsRec(r)
  PROVE  /\ LiveCells(r) = {c \in Cells(r) : r.tab[c] >= 0}
         /\ LiveCells(r) \subseteq Used(r) /\ Used(r) \subseteq Cells(r)
         /\ \A c \in Cells(r) : \/ r.tab[c] = EMPTY /\ c \notin LiveCells(r)
                                \/ r.tab[c] = DELETED /\ c \notin LiveCells(r)
                                \/ c \in LiveCells(r)
         /\ \A c \in LiveCells(r) : r.tab[c] \in 0..(r.next - 1)
                                    /\ r.tab[c] \in 0..(POW2[r.lgsz] - 1)
         /\ IsFiniteSet(Cells(r)) /\ IsFiniteSet(LiveCells(r)) /\ IsFiniteSet(Used(r))
<1>1. r.null = FALSE
  BY DEF IsRec
<1>2. LiveCells(r) = {c \in Cells(r) : r.tab[c] >= 0}
  BY <1>1 DEF LiveCells
<1>3. r.lgsz \in Sizes /\ r.next \in 0..POW2[r.lgsz] /\ POW2[r.lgsz] \in Nat
  BY TableSize DEF IsRec
<1>4. \A c \in Cells(r) : r.tab[c] \in {EMPTY, DELETED} \union 0..(r.next - 1)
  BY DEF IsRec
<1>5. \A c \in Cells(r) : \/ r.tab[c] = EMPTY /\ c \notin LiveCells(r)
                          \/ r.tab[c] = DELETED /\ c \notin LiveCells(r)
                          \/ c \in LiveCells(r) /\ r.tab[c] \in 0..(r.next - 1)
  BY <1>2, <1>3, <1>4, SMT DEF EMPTY, DELETED
<1>6. \A c \in LiveCells(r) : r.tab[c] # EMPTY /\ r.tab[c] \in 0..(r.next - 1) /\ c \in Cells(r)
                              /\ r.tab[c] \in 0..(POW2[r.lgsz] - 1)
  BY <1>2, <1>3, <1>4, <1>5, SMT DEF EMPTY, DELETED
<1>7. LiveCells(r) \subseteq Used(r) /\ Used(r) \subseteq Cells(r)
  BY <1>6 DEF Used
<1>8. IsFiniteSet(Cells(r))
  <2>1. Cells(r) = 0..(NCells(r) - 1) /\ NCells(r) - 1 \in Int /\ 0 \in Int
    BY <1>3, TableSize, SMT
  <2> QED
    BY <2>1, FS_Interval
<1>9. IsFiniteSet(LiveCells(r)) /\ IsFiniteSet(Used(r))
  BY <1>7, <1>8, FS_Subset
<1> QED
  BY <1>2, <1>5, <1>6, <1>7, <1>8, <1>9

(* There is always an empty cell: the table is twice as long as entries.    *)
LEMMA SomeEmpty ==
  ASSUME NEW r, Good(r)
  PROVE  \E c \in Cells(r) : r.tab[c] = EMPTY
<1>1. IsRec(r) /\ Cardinality(Used(r)) = r.next
  BY DEF Good
<1>2. r.lgsz \in Sizes /\ r.next \in 0..POW2[r.lgsz]
  BY <1>1 DEF IsRec
<1>3. POW2[r.lgsz] \in Nat /\ POW2[r.lgsz] < NCells(r) /\ NCells(r) \in Nat
  BY <1>2, TableSize
<1>4. Cardinality(Cells(r)) = NCells(r)
  <2>1. /\ Cells(r) = 0..(NCells(r) - 1) /\ NCells(r) - 1 \in Int
        /\ 0 \in Int /\ ~(0 > NCells(r) - 1)
    BY <1>2, <1>3, TableSize, SMT
  <2>2. Cardinality(Cells(r)) = (NCells(r) - 1) - 0 + 1
    BY <2>1, FS_Interval
  <2> QED
    BY <1>3, <2>2, SMT
<1>5. Used(r) # Cells(r)
  BY <1>1, <1>2, <1>3, <1>4, SMT
<1> QED
  BY <1>5 DEF Used

(* The first cell on a walk at which something stops it.                    *)
LEMMA First ==
  ASSUME NEW r, Good(r), code \in HashCodes, NEW n \in Names,
         NEW St, \A c \in Cells(r) : r.tab[c] = EMPTY => c \in St
  PROVE  \E i \in Cells(r) : /\ Cell(r, code[n], i) \in St
                             /\ \A j \in 0..(i - 1) : Cell(r, code[n], j) \notin St
<1>1. r.lgsz \in Sizes /\ code[n] \in Codes
  BY CodeOfName DEF Good, IsRec
<1>2. PICK c \in Cells(r) : r.tab[c] = EMPTY
  BY SomeEmpty
<1>3. PICK k \in Cells(r) : Cell(r, code[n], k) = c
  BY <1>1, WalkCovers
<1> DEFINE T == {i \in Cells(r) : Cell(r, code[n], i) \in St}
<1>4. k \in T /\ T \subseteq Nat
  BY <1>1, <1>2, <1>3, TableSize, SMT
<1>5. PICK i \in T : \A m \in T : i <= m
  BY <1>4, NatMin
<1>6. ASSUME NEW j \in 0..(i - 1) PROVE Cell(r, code[n], j) \notin St
  <2>1. j \in Cells(r) /\ ~(i <= j)
    BY <1>1, <1>5, TableSize, SMT
  <2> QED
    BY <1>5, <2>1
<1> QED
  BY <1>5, <1>6

(* That cell is not empty if the walk reaches one that stops it and is not. *)
LEMMA Meets ==
  ASSUME NEW r, Good(r), NEW n,
         NEW St, \A c \in Cells(r) : r.tab[c] = EMPTY => c \in St,
         NEW i \in Cells(r), \A j \in 0..(i - 1) : Cell(r, code[n], j) \notin St,
         NEW d \in LiveCells(r), d \in St, Reaches(r, n, d)
  PROVE  r.tab[Cell(r, code[n], i)] # EMPTY
<1> DEFINE h == code[n]
<1>1. IsRec(r) /\ r.lgsz \in Sizes
  BY DEF Good, IsRec
<1> SUFFICES ASSUME r.tab[Cell(r, h, i)] = EMPTY PROVE FALSE
  OBVIOUS
<1>2. PICK k \in Cells(r) : /\ Cell(r, h, k) = d
                            /\ \A j \in 0..(k - 1) : r.tab[Cell(r, h, j)] # EMPTY
  BY DEF Reaches
<1>3. i \in Nat /\ k \in Nat
  BY <1>1, TableSize, SMT
<1>4. CASE k < i
  <2>1. k \in 0..(i - 1)
    BY <1>3, <1>4, SMT
  <2> QED
    BY <1>2, <2>1
<1>5. CASE i < k
  <2>1. i \in 0..(k - 1)
    BY <1>3, <1>5, SMT
  <2> QED
    BY <1>2, <2>1
<1>6. CASE i = k
  BY <1>1, <1>2, <1>6, Live DEF Used
<1> QED
  BY <1>3, <1>4, <1>5, <1>6, SMT

-----------------------------------------------------------------------------
Unnamed(r, n) == \A d \in LiveCells(r) : NameOfCell(r, d) # n

(* findcell: the cell with the name, or an empty one if there is none.      *)
LEMMA Finding ==
  ASSUME NoEmptyKey, NEW r, Good(r), code \in HashCodes, NEW n \in Names
  PROVE  /\ FindCell(r, n) \in Cells(r)
         /\ Reaches(r, n, FindCell(r, n))
         /\ \/ r.tab[FindCell(r, n)] = EMPTY /\ Unnamed(r, n)
            \/ FindCell(r, n) \in LiveCells(r) /\ NameOfCell(r, FindCell(r, n)) = n
<1> DEFINE St == {c \in Cells(r) : Stops(r, n, c)}
           h == code[n]
           Is(i) == Stops(r, n, Cell(r, h, i)) /\ \A j \in 0..i-1 : ~Stops(r, n, Cell(r, h, j))
           i == FirstStop(r, n, h)
           c == FindCell(r, n)
<1>1. IsRec(r) /\ r.lgsz \in Sizes /\ h \in Codes
  BY CodeOfName DEF Good, IsRec
<1>2. \E k \in Cells(r) : Is(k)
  <2>1. \A d \in Cells(r) : r.tab[d] = EMPTY => d \in St
    BY DEF Stops
  <2>2. PICK k \in Cells(r) : /\ Cell(r, h, k) \in St
                              /\ \A j \in 0..(k - 1) : Cell(r, h, j) \notin St
    BY <2>1, First
  <2>3. \A j \in 0..(k - 1) : j \in Cells(r)
    BY <1>1, TableSize, SMT
  <2>4. \A j \in 0..(k - 1) : Cell(r, h, j) \in Cells(r)
    BY <1>1, <2>3, WalkCovers
  <2> QED
    BY <2>2, <2>4
<1>3. i \in Cells(r) /\ Is(i)
  <2>1. i = CHOOSE k \in Cells(r) : Is(k)
    BY DEF FirstStop
  <2> HIDE DEF i, Is
  <2> QED
    BY <1>2, <2>1
<1>4. c = Cell(r, h, i)
  BY DEF FindCell
<1> HIDE DEF i, c
<1>5. c \in Cells(r)
  BY <1>1, <1>3, <1>4, WalkCovers
<1>6. \A j \in 0..(i - 1) : r.tab[Cell(r, h, j)] # EMPTY
  BY <1>3 DEF Stops
<1>7. Reaches(r, n, c)
  BY <1>3, <1>4, <1>6 DEF Reaches
<1>8. \A d \in LiveCells(r) : Stops(r, n, d) <=> NameOfCell(r, d) = n
  <2> SUFFICES ASSUME NEW d \in LiveCells(r)
               PROVE  Stops(r, n, d) <=> NameOfCell(r, d) = n
    OBVIOUS
  <2>1. KeyIn(r, d) \in Keys
    BY DEF Good
  <2>2. NameOfCell(r, d) \in Names
    BY <2>1 DEF NameOfCell, Names
  <2>3. r.tab[d] # EMPTY /\ r.tab[d] # DELETED
    BY <1>1, Live, SMT DEF EMPTY, DELETED
  <2> QED
    BY <2>2, <2>3, SameName DEF Stops, NameOfCell, KeyIn
<1>9. CASE r.tab[c] = EMPTY
  <2>1. ASSUME NEW d \in LiveCells(r), NameOfCell(r, d) = n PROVE FALSE
    <3>1. d \in St /\ Reaches(r, n, d)
      BY <1>1, <1>8, <2>1, Live DEF Good
    <3>2. \A e \in Cells(r) : r.tab[e] = EMPTY => e \in St
      BY DEF Stops
    <3>3. \A j \in 0..(i - 1) : Cell(r, code[n], j) \notin St
      BY <1>3
    <3> HIDE DEF St
    <3>4. r.tab[Cell(r, code[n], i)] # EMPTY
      BY <1>3, <3>1, <3>2, <3>3, Meets
    <3> QED
      BY <1>4, <1>9, <3>4
  <2> QED
    BY <1>5, <1>7, <1>9, <2>1 DEF Unnamed, c
<1>10. CASE r.tab[c] # EMPTY
  <2>1. Stops(r, n, c)
    BY <1>3, <1>4
  <2>2. c \in LiveCells(r)
    BY <1>1, <1>5, <1>10, <2>1, Live DEF Stops
  <2> QED
    BY <1>5, <1>7, <1>8, <2>1, <2>2 DEF c
<1> QED
  BY <1>9, <1>10

(* So a lookup by name gives the value of the live cell with that name.     *)
LEMMA Looking ==
  ASSUME NoEmptyKey, NEW r, Good(r), code \in HashCodes, NEW n \in Names
  PROVE  /\ \A d \in LiveCells(r) : NameOfCell(r, d) = n =>
              /\ FindCell(r, n) = d /\ Found(r, n)
              /\ Lookup(r, n) = r.tab[d] /\ Get(r, n) = ValIn(r, d)
         /\ Unnamed(r, n) => /\ r.tab[FindCell(r, n)] = EMPTY /\ ~Found(r, n)
                             /\ Lookup(r, n) = EMPTY /\ Get(r, n) = None
<1> DEFINE c == FindCell(r, n)
<1>1. IsRec(r) /\ r.null = FALSE
  BY DEF Good, IsRec
<1>2. Lookup(r, n) = r.tab[c]
  BY <1>1 DEF Lookup
<1> HIDE DEF c
<1>3. ASSUME NEW d \in LiveCells(r), NameOfCell(r, d) = n
      PROVE  c = d /\ Found(r, n) /\ Lookup(r, n) = r.tab[d] /\ Get(r, n) = ValIn(r, d)
  <2>1. c \in LiveCells(r) /\ NameOfCell(r, c) = n
    BY <1>3, Finding DEF c, Unnamed
  <2>2. c = d
    BY <1>3, <2>1 DEF Good
  <2>3. r.tab[d] >= 0
    BY <1>1, Live
  <2> QED
    BY <1>2, <2>2, <2>3 DEF Found, Get, ValueAt, ValIn
<1>4. ASSUME Unnamed(r, n)
      PROVE  r.tab[c] = EMPTY /\ ~Found(r, n) /\ Lookup(r, n) = EMPTY /\ Get(r, n) = None
  <2>1. r.tab[c] = EMPTY
    BY <1>4, Finding DEF c, Unnamed
  <2>2. ~(EMPTY >= 0)
    BY SMT DEF EMPTY
  <2> QED
    BY <1>2, <2>1, <2>2 DEF Found, Get, ValueAt
<1> QED
  BY <1>3, <1>4 DEF c

-----------------------------------------------------------------------------
(* hashset, in the empty cell to which the walk of the name has come.       *)
LEMMA Adding ==
  ASSUME NoEmptyKey, code \in HashCodes, NEW r, Good(r), r.next < POW2[r.lgsz],
         NEW k \in Keys, NEW v \in Vals, NEW c \in Cells(r), r.tab[c] = EMPTY,
         Reaches(r, Name[k], c), Unnamed(r, Name[k]),
         NEW a, a = AddEntry(r, c, k, v)
  PROVE  /\ Good(a) /\ a.lgsz = r.lgsz /\ a.next = r.next + 1 /\ a.size = r.size + 1
         /\ LiveCells(a) = LiveCells(r) \union {c}
         /\ c \notin LiveCells(r)
         /\ KeyIn(a, c) = k /\ ValIn(a, c) = v
         /\ \A d \in LiveCells(r) : KeyIn(a, d) = KeyIn(r, d) /\ ValIn(a, d) = ValIn(r, d)
<1> DEFINE n == r.next
<1>1. IsRec(r)
  BY DEF Good
<1>2. /\ r.lgsz \in Sizes /\ r.size \in Nat /\ n \in 0..POW2[r.lgsz]
      /\ r.tab \in [Cells(r) -> {EMPTY, DELETED} \union 0..(n - 1)]
      /\ r.ents \in [0..(POW2[r.lgsz] - 1) -> Entry]
  BY <1>1 DEF IsRec
<1>3. /\ a.null = FALSE /\ a.size = r.size + 1 /\ a.lgsz = r.lgsz /\ a.next = n + 1
      /\ a.tab = [r.tab EXCEPT ![c] = n]
      /\ a.ents = [r.ents EXCEPT ![n] = [key |-> k, val |-> v]]
  BY DEF AddEntry, HashRec
<1> HIDE DEF n
<1>4. Cells(a) = Cells(r) /\ \A h, i : Cell(a, h, i) = Cell(r, h, i)
  BY <1>3 DEF Cells, NCells, Cell, HBits, Step
<1>5. /\ POW2[r.lgsz] \in Nat /\ n \in Nat
      /\ n \in 0..(POW2[r.lgsz] - 1) /\ n + 1 \in 0..POW2[r.lgsz]
  BY <1>2, TableSize, SMT DEF n
<1>6. a.tab[c] = n /\ \A d \in Cells(r) : d # c => a.tab[d] = r.tab[d]
  BY <1>2, <1>3
<1>7. /\ a.ents[n] = [key |-> k, val |-> v]
      /\ \A e \in 0..(POW2[r.lgsz] - 1) : e # n => a.ents[e] = r.ents[e]
  BY <1>2, <1>3, <1>5
<1>8. a.tab \in [Cells(r) -> {EMPTY, DELETED} \union 0..((n + 1) - 1)]
  <2>1. \A d \in {EMPTY, DELETED} \union 0..(n - 1) :
          d \in {EMPTY, DELETED} \union 0..((n + 1) - 1)
    BY <1>5, SMT
  <2>2. n \in {EMPTY, DELETED} \union 0..((n + 1) - 1)
    BY <1>5, SMT
  <2> QED
    BY <1>2, <1>3, <2>1, <2>2
<1>9. a.ents \in [0..(POW2[r.lgsz] - 1) -> Entry]
  <2>1. [key |-> k, val |-> v] \in Entry
    BY DEF Entry
  <2> QED
    BY <1>2, <1>3, <2>1
<1>10. IsRec(a)
  BY <1>2, <1>3, <1>4, <1>5, <1>8, <1>9, SMT DEF IsRec
<1>11. LiveCells(a) = LiveCells(r) \union {c} /\ c \notin LiveCells(r)
  <2>1. /\ LiveCells(r) = {d \in Cells(r) : r.tab[d] >= 0}
        /\ LiveCells(a) = {d \in Cells(r) : a.tab[d] >= 0}
    BY <1>1, <1>4, <1>10, Live
  <2>2. n >= 0 /\ ~(EMPTY >= 0)
    BY <1>5, SMT DEF EMPTY
  <2> QED
    BY <1>6, <2>1, <2>2
<1>12. Used(a) = Used(r) \union {c} /\ c \notin Used(r)
  <2>1. n # EMPTY
    BY <1>5, SMT DEF EMPTY
  <2> QED
    BY <1>4, <1>6, <2>1 DEF Used
<1>13. IsFiniteSet(LiveCells(r)) /\ IsFiniteSet(Used(r))
  BY <1>1, Live
<1>14. Cardinality(LiveCells(a)) = a.size /\ Cardinality(Used(a)) = a.next
  <2>1. Cardinality(LiveCells(r)) = r.size /\ Cardinality(Used(r)) = n
    BY DEF Good, n
  <2>2. Cardinality(LiveCells(r) \union {c}) = Cardinality(LiveCells(r)) + 1
    BY <1>11, <1>13, FS_AddElement
  <2>3. Cardinality(Used(r) \union {c}) = Cardinality(Used(r)) + 1
    BY <1>12, <1>13, FS_AddElement
  <2> QED
    BY <1>3, <1>11, <1>12, <2>1, <2>2, <2>3
<1>15. KeyIn(a, c) = k /\ ValIn(a, c) = v
  BY <1>6, <1>7 DEF KeyIn, ValIn
<1>16. ASSUME NEW d \in LiveCells(r)
       PROVE  /\ KeyIn(a, d) = KeyIn(r, d) /\ ValIn(a, d) = ValIn(r, d)
              /\ a.tab[d] = r.tab[d] /\ a.tab[d] # n
  <2>1. d \in Cells(r) /\ d # c /\ r.tab[d] \in 0..(n - 1) /\ r.tab[d] \in 0..(POW2[r.lgsz] - 1)
    BY <1>1, <1>11, Live DEF n, Used
  <2>2. r.tab[d] # n
    BY <1>5, <2>1, SMT
  <2> QED
    BY <1>6, <1>7, <2>1, <2>2 DEF KeyIn, ValIn
<1>17. \A d \in LiveCells(a) : KeyIn(a, d) \in Keys /\ ValIn(a, d) \in Vals
  BY <1>11, <1>15, <1>16 DEF Good
<1>18. \A d, e \in LiveCells(a) : a.tab[d] = a.tab[e] => d = e
  BY <1>6, <1>11, <1>16 DEF Good
<1>19. NameOfCell(a, c) = Name[k]
       /\ \A d \in LiveCells(r) :
            NameOfCell(a, d) = NameOfCell(r, d) /\ NameOfCell(r, d) # Name[k]
  BY <1>15, <1>16 DEF NameOfCell, Unnamed
<1>20. \A d, e \in LiveCells(a) : NameOfCell(a, d) = NameOfCell(a, e) => d = e
  BY <1>11, <1>19 DEF Good
<1>21. ASSUME NEW m \in Names, NEW d, Reaches(r, m, d)
       PROVE  Reaches(a, m, d)
  <2>1. PICK i \in Cells(r) : /\ Cell(r, code[m], i) = d
                              /\ \A j \in 0..(i - 1) : r.tab[Cell(r, code[m], j)] # EMPTY
    BY <1>21 DEF Reaches
  <2>2. ASSUME NEW j \in 0..(i - 1) PROVE a.tab[Cell(r, code[m], j)] # EMPTY
    <3>1. j \in Cells(r)
      BY <1>2, TableSize, SMT
    <3>2. Cell(r, code[m], j) \in Cells(r)
      BY <1>2, <3>1, WalkCovers, CodeOfName
    <3>3. n # EMPTY
      BY <1>5, SMT DEF EMPTY
    <3> QED
      BY <1>6, <2>1, <3>2, <3>3
  <2> QED
    BY <1>4, <2>1, <2>2 DEF Reaches
<1>22. \A d \in LiveCells(a) : Reaches(a, NameOfCell(a, d), d)
  <2>1. Name[k] \in Names /\ \A d \in LiveCells(r) : NameOfCell(r, d) \in Names
    BY DEF Names, NameOfCell, Good
  <2> QED
    BY <1>11, <1>19, <1>21, <2>1 DEF Good
<1>23. Good(a)
  BY <1>10, <1>14, <1>17, <1>18, <1>20, <1>22 DEF Good
<1> QED
  BY <1>3, <1>11, <1>15, <1>16, <1>23 DEF n

(* hashset, of a key that is there.                                         *)
LEMMA Overwriting ==
  ASSUME code \in HashCodes, NEW r, Good(r), NEW c \in LiveCells(r), NEW v \in Vals,
         NEW k, NEW a, a = SetAt(r, c, k, v)
  PROVE  /\ Good(a) /\ a.lgsz = r.lgsz /\ a.next = r.next /\ a.size = r.size
         /\ LiveCells(a) = LiveCells(r) /\ ValIn(a, c) = v
         /\ \A d \in LiveCells(r) : KeyIn(a, d) = KeyIn(r, d)
                                    /\ (d # c => ValIn(a, d) = ValIn(r, d))
<1> DEFINE e == r.tab[c]
<1>1. IsRec(r) /\ r.null = FALSE
  BY DEF Good, IsRec
<1>2. /\ r.lgsz \in Sizes /\ r.size \in Nat /\ r.next \in 0..POW2[r.lgsz]
      /\ r.tab \in [Cells(r) -> {EMPTY, DELETED} \union 0..(r.next - 1)]
      /\ r.ents \in [0..(POW2[r.lgsz] - 1) -> Entry]
  BY <1>1 DEF IsRec
<1>3. e # EMPTY /\ e \in 0..(POW2[r.lgsz] - 1)
  BY <1>1, Live DEF Used
<1>4. /\ a.null = FALSE /\ a.size = r.size /\ a.lgsz = r.lgsz /\ a.next = r.next
      /\ a.tab = r.tab /\ a.ents = [r.ents EXCEPT ![e].val = v]
  BY <1>3 DEF SetAt, HashRec
<1> HIDE DEF e
<1>5. Cells(a) = Cells(r) /\ (\A h, i : Cell(a, h, i) = Cell(r, h, i)) /\ Used(a) = Used(r)
  BY <1>4 DEF Cells, NCells, Cell, HBits, Step, Used
<1>6. LiveCells(a) = LiveCells(r)
  BY <1>1, <1>4, <1>5 DEF LiveCells
<1>7. r.ents[e] \in Entry
  BY <1>2, <1>3
<1>8. PICK x \in Entry : x = r.ents[e] /\ a.ents = [r.ents EXCEPT ![e] = [x EXCEPT !.val = v]]
  BY <1>4, <1>7
<1>9. /\ [x EXCEPT !.val = v] \in Entry
      /\ [x EXCEPT !.val = v].key = x.key /\ [x EXCEPT !.val = v].val = v
  BY DEF Entry
<1>10. a.ents \in [0..(POW2[r.lgsz] - 1) -> Entry]
  BY <1>2, <1>8, <1>9
<1>11. IsRec(a)
  BY <1>2, <1>4, <1>5, <1>10 DEF IsRec
<1>12. a.ents[e] = [x EXCEPT !.val = v]
       /\ \A f \in 0..(POW2[r.lgsz] - 1) : f # e => a.ents[f] = r.ents[f]
  BY <1>2, <1>3, <1>8
<1>13. KeyIn(a, c) = KeyIn(r, c) /\ ValIn(a, c) = v
  BY <1>4, <1>8, <1>9, <1>12 DEF KeyIn, ValIn, e
<1>14. ASSUME NEW d \in LiveCells(r), d # c
       PROVE  KeyIn(a, d) = KeyIn(r, d) /\ ValIn(a, d) = ValIn(r, d)
  <2>1. r.tab[d] # e /\ r.tab[d] \in 0..(POW2[r.lgsz] - 1)
    BY <1>1, <1>14, Live DEF Good, e
  <2> QED
    BY <1>4, <1>12, <2>1 DEF KeyIn, ValIn
<1>15. \A d \in LiveCells(r) : NameOfCell(a, d) = NameOfCell(r, d)
  BY <1>13, <1>14 DEF NameOfCell
<1>16. \A d \in LiveCells(a) : KeyIn(a, d) \in Keys /\ ValIn(a, d) \in Vals
  BY <1>6, <1>13, <1>14 DEF Good
<1>17. \A m, d : Reaches(a, m, d) <=> Reaches(r, m, d)
  BY <1>4, <1>5 DEF Reaches
<1>18. /\ Cardinality(Used(a)) = a.next /\ Cardinality(LiveCells(a)) = a.size
       /\ \A d, f \in LiveCells(a) : a.tab[d] = a.tab[f] => d = f
       /\ \A d, f \in LiveCells(a) : NameOfCell(a, d) = NameOfCell(a, f) => d = f
       /\ \A d \in LiveCells(a) : Reaches(a, NameOfCell(a, d), d)
  BY <1>4, <1>5, <1>6, <1>15, <1>17 DEF Good
<1>19. Good(a)
  BY <1>11, <1>16, <1>18 DEF Good
<1> QED
  BY <1>4, <1>6, <1>13, <1>14, <1>19

(* naHash_delete, up to the rebuilding.                                     *)
LEMMA Removing ==
  ASSUME code \in HashCodes, NEW r, Good(r), NEW c \in LiveCells(r),
         NEW a, a = Without(r, c)
  PROVE  /\ Good(a) /\ a.lgsz = r.lgsz /\ a.next = r.next /\ a.size = r.size - 1
         /\ LiveCells(a) = LiveCells(r) \ {c}
         /\ \A d \in LiveCells(a) : KeyIn(a, d) = KeyIn(r, d) /\ ValIn(a, d) = ValIn(r, d)
<1>1. IsRec(r) /\ r.null = FALSE
  BY DEF Good, IsRec
<1>2. /\ r.lgsz \in Sizes /\ r.size \in Nat /\ r.next \in 0..POW2[r.lgsz]
      /\ r.tab \in [Cells(r) -> {EMPTY, DELETED} \union 0..(r.next - 1)]
      /\ r.ents \in [0..(POW2[r.lgsz] - 1) -> Entry]
  BY <1>1 DEF IsRec
<1>3. /\ a.null = FALSE /\ a.size = r.size - 1 /\ a.lgsz = r.lgsz /\ a.next = r.next
      /\ a.tab = [r.tab EXCEPT ![c] = DELETED] /\ a.ents = r.ents
  BY DEF Without, HashRec
<1>4. c \in Cells(r) /\ c \in Used(r)
  BY <1>1, Live
<1>5. Cells(a) = Cells(r) /\ (\A h, i : Cell(a, h, i) = Cell(r, h, i))
  BY <1>3 DEF Cells, NCells, Cell, HBits, Step
<1>6. a.tab[c] = DELETED /\ \A d \in Cells(r) : d # c => a.tab[d] = r.tab[d]
  BY <1>2, <1>3, <1>4
<1>7. DELETED # EMPTY /\ ~(DELETED >= 0)
  BY SMT DEF DELETED, EMPTY
<1>8. Used(a) = Used(r)
  BY <1>4, <1>5, <1>6, <1>7 DEF Used
<1>9. LiveCells(a) = LiveCells(r) \ {c}
  BY <1>1, <1>3, <1>5, <1>6, <1>7 DEF LiveCells
<1>10. Cardinality(LiveCells(a)) = a.size /\ a.size \in Nat
  <2>1. Cardinality(LiveCells(r)) = r.size /\ IsFiniteSet(LiveCells(r))
    BY <1>1, Live DEF Good
  <2>2. /\ Cardinality(LiveCells(r) \ {c}) = Cardinality(LiveCells(r)) - 1
        /\ IsFiniteSet(LiveCells(r) \ {c})
    BY <2>1, FS_RemoveElement
  <2>3. Cardinality(LiveCells(r) \ {c}) \in Nat
    BY <2>2, FS_CardinalityType
  <2> QED
    BY <1>3, <1>9, <2>1, <2>2, <2>3
<1>11. IsRec(a)
  <2>1. a.tab \in [Cells(r) -> {EMPTY, DELETED} \union 0..(r.next - 1)]
    BY <1>2, <1>3
  <2> QED
    BY <1>2, <1>3, <1>5, <1>10, <2>1 DEF IsRec
<1>12. ASSUME NEW d \in LiveCells(a)
       PROVE  /\ d \in LiveCells(r) /\ d # c /\ a.tab[d] = r.tab[d]
              /\ KeyIn(a, d) = KeyIn(r, d) /\ ValIn(a, d) = ValIn(r, d)
              /\ NameOfCell(a, d) = NameOfCell(r, d)
  <2>1. d \in LiveCells(r) /\ d # c /\ d \in Cells(r)
    BY <1>1, <1>9, Live
  <2> QED
    BY <1>3, <1>6, <2>1 DEF KeyIn, ValIn, NameOfCell
<1>13. ASSUME NEW m \in Names, NEW d, Reaches(r, m, d)
       PROVE  Reaches(a, m, d)
  <2>1. PICK i \in Cells(r) : /\ Cell(r, code[m], i) = d
                              /\ \A j \in 0..(i - 1) : r.tab[Cell(r, code[m], j)] # EMPTY
    BY <1>13 DEF Reaches
  <2>2. ASSUME NEW j \in 0..(i - 1) PROVE a.tab[Cell(r, code[m], j)] # EMPTY
    <3>1. j \in Cells(r)
      BY <1>2, TableSize, SMT
    <3>2. Cell(r, code[m], j) \in Cells(r)
      BY <1>2, <3>1, WalkCovers, CodeOfName
    <3> QED
      BY <1>6, <1>7, <2>1, <3>2
  <2> QED
    BY <1>5, <2>1, <2>2 DEF Reaches
<1>14. \A d \in LiveCells(a) : Reaches(a, NameOfCell(a, d), d)
  <2>1. \A d \in LiveCells(r) : NameOfCell(r, d) \in Names
    BY DEF Names, NameOfCell, Good
  <2> QED
    BY <1>12, <1>13, <2>1 DEF Good
<1>15. /\ Cardinality(Used(a)) = a.next
       /\ \A d \in LiveCells(a) : KeyIn(a, d) \in Keys /\ ValIn(a, d) \in Vals
       /\ \A d, f \in LiveCells(a) : a.tab[d] = a.tab[f] => d = f
       /\ \A d, f \in LiveCells(a) : NameOfCell(a, d) = NameOfCell(a, f) => d = f
  BY <1>3, <1>8, <1>12 DEF Good
<1>16. Good(a)
  BY <1>10, <1>11, <1>14, <1>15 DEF Good
<1> QED
  BY <1>3, <1>9, <1>12, <1>16

(* So one more name has a value, or one has another.                        *)
LEMMA Entering ==
  ASSUME NoEmptyKey, code \in HashCodes, NEW r, Good(r), r.next < POW2[r.lgsz],
         NEW k \in Keys, NEW v \in Vals, NEW c \in Cells(r), r.tab[c] = EMPTY,
         Reaches(r, Name[k], c), Unnamed(r, Name[k]),
         NEW a, a = AddEntry(r, c, k, v)
  PROVE  /\ Good(a) /\ a.lgsz = r.lgsz /\ a.next = r.next + 1 /\ a.size = r.size + 1
         /\ \A n \in Names : Get(a, n) = IF n = Name[k] THEN v ELSE Get(r, n)
<1> DEFINE m == Name[k]
<1>1. /\ Good(a) /\ a.lgsz = r.lgsz /\ a.next = r.next + 1 /\ a.size = r.size + 1
      /\ LiveCells(a) = LiveCells(r) \union {c}
      /\ c \notin LiveCells(r)
      /\ KeyIn(a, c) = k /\ ValIn(a, c) = v
      /\ \A d \in LiveCells(r) : KeyIn(a, d) = KeyIn(r, d) /\ ValIn(a, d) = ValIn(r, d)
  BY Adding
<1>2. \A d \in LiveCells(a) : NameOfCell(a, d) = IF d = c THEN m ELSE NameOfCell(r, d)
  BY <1>1 DEF NameOfCell
<1>3. ASSUME NEW n \in Names PROVE Get(a, n) = IF n = m THEN v ELSE Get(r, n)
  <2>1. CASE n = m
    BY <1>1, <1>2, <2>1, Looking
  <2>2. CASE n # m /\ Unnamed(r, n)
    <3>1. Unnamed(a, n)
      BY <1>1, <1>2, <2>2 DEF Unnamed
    <3> QED
      BY <1>1, <2>2, <3>1, Looking
  <2>3. CASE n # m /\ \E d \in LiveCells(r) : NameOfCell(r, d) = n
    <3>1. PICK d \in LiveCells(r) : NameOfCell(r, d) = n
      BY <2>3
    <3>2. d \in LiveCells(a) /\ NameOfCell(a, d) = n
      BY <1>1, <1>2, <3>1
    <3>3. Get(a, n) = ValIn(a, d) /\ Get(r, n) = ValIn(r, d)
      BY <1>1, <3>1, <3>2, Looking
    <3> QED
      BY <1>1, <2>3, <3>3
  <2> QED
    BY <2>1, <2>2, <2>3 DEF Unnamed
<1> QED
  BY <1>1, <1>3

LEMMA Replacing ==
  ASSUME NoEmptyKey, code \in HashCodes, NEW r, Good(r),
         NEW k \in Keys, NEW v \in Vals, Found(r, Name[k]),
         NEW a, a = SetAt(r, FindCell(r, Name[k]), k, v)
  PROVE  /\ Good(a) /\ a.lgsz = r.lgsz /\ a.next = r.next /\ a.size = r.size
         /\ \A n \in Names : Get(a, n) = IF n = Name[k] THEN v ELSE Get(r, n)
<1> DEFINE m == Name[k]
           c == FindCell(r, m)
<1>1. m \in Names
  BY DEF Names
<1>2. c \in LiveCells(r) /\ NameOfCell(r, c) = m
  <2>1. ~Unnamed(r, m)
    BY <1>1, Looking
  <2> QED
    BY <1>1, <2>1, Finding
<1> HIDE DEF c
<1>3. /\ Good(a) /\ a.lgsz = r.lgsz /\ a.next = r.next /\ a.size = r.size
      /\ LiveCells(a) = LiveCells(r) /\ ValIn(a, c) = v
      /\ \A d \in LiveCells(r) : KeyIn(a, d) = KeyIn(r, d)
                                 /\ (d # c => ValIn(a, d) = ValIn(r, d))
  BY <1>2, Overwriting DEF c
<1>4. \A d \in LiveCells(a) : NameOfCell(a, d) = NameOfCell(r, d)
  BY <1>3 DEF NameOfCell
<1>5. ASSUME NEW n \in Names PROVE Get(a, n) = IF n = m THEN v ELSE Get(r, n)
  <2>1. CASE n = m
    BY <1>2, <1>3, <1>4, <2>1, Looking
  <2>2. CASE Unnamed(r, n)
    <3>1. Unnamed(a, n) /\ n # m
      BY <1>2, <1>3, <1>4, <2>2 DEF Unnamed
    <3> QED
      BY <1>3, <2>2, <3>1, Looking
  <2>3. CASE n # m /\ \E d \in LiveCells(r) : NameOfCell(r, d) = n
    <3>1. PICK d \in LiveCells(r) : NameOfCell(r, d) = n
      BY <2>3
    <3>2. d \in LiveCells(a) /\ NameOfCell(a, d) = n /\ d # c
      BY <1>2, <1>3, <1>4, <2>3, <3>1
    <3>3. Get(a, n) = ValIn(a, d) /\ Get(r, n) = ValIn(r, d)
      BY <1>3, <3>1, <3>2, Looking
    <3> QED
      BY <1>3, <2>3, <3>2, <3>3
  <2> QED
    BY <2>1, <2>2, <2>3 DEF Unnamed
<1> QED
  BY <1>3, <1>5

(* hashset, of a name that is there or not, in a table with room.           *)
LEMMA Setting ==
  ASSUME NoEmptyKey, code \in HashCodes, NEW r, Good(r), r.next < POW2[r.lgsz],
         NEW k \in Keys, NEW v \in Vals, NEW a, a = HashSet(r, k, v)
  PROVE  /\ Good(a) /\ a.lgsz = r.lgsz
         /\ \A n \in Names : Get(a, n) = IF n = Name[k] THEN v ELSE Get(r, n)
         /\ ~Found(r, Name[k]) => /\ a.size = r.size + 1 /\ a.next = r.next + 1
<1> DEFINE m == Name[k]
           c == FindCell(r, m)
<1>1. m \in Names
  BY DEF Names
<1>2. a = SetAt(r, c, k, v)
  BY DEF HashSet
<1>3. CASE Found(r, m)
  BY <1>2, <1>3, Replacing
<1>4. CASE ~Found(r, m)
  <2>1. Unnamed(r, m)
    BY <1>1, <1>4, Looking DEF Unnamed
  <2>2. c \in Cells(r) /\ Reaches(r, m, c) /\ r.tab[c] = EMPTY
    BY <1>1, <2>1, Finding DEF Unnamed
  <2>3. a = AddEntry(r, c, k, v)
    BY <1>2, <2>2 DEF SetAt
  <2> HIDE DEF c
  <2> QED
    BY <2>1, <2>2, <2>3, Entering
<1> QED
  BY <1>3, <1>4

-----------------------------------------------------------------------------
(* naHash_delete leaves all other names what they were.                     *)
LEMMA Deleting ==
  ASSUME NoEmptyKey, code \in HashCodes, NEW r, Good(r), NEW m \in Names, Found(r, m),
         NEW a, a = Without(r, FindCell(r, m))
  PROVE  /\ Good(a)
         /\ \A n \in Names : Get(a, n) = IF n = m THEN None ELSE Get(r, n)
<1> DEFINE c == FindCell(r, m)
<1>1. c \in LiveCells(r) /\ NameOfCell(r, c) = m
  <2>1. ~Unnamed(r, m)
    BY Looking
  <2> QED
    BY <2>1, Finding
<1> HIDE DEF c
<1>2. /\ Good(a) /\ LiveCells(a) = LiveCells(r) \ {c}
      /\ \A d \in LiveCells(a) : KeyIn(a, d) = KeyIn(r, d) /\ ValIn(a, d) = ValIn(r, d)
  BY <1>1, Removing DEF c
<1>3. \A d \in LiveCells(a) : NameOfCell(a, d) = NameOfCell(r, d)
  BY <1>2 DEF NameOfCell
<1>4. ASSUME NEW n \in Names PROVE Get(a, n) = IF n = m THEN None ELSE Get(r, n)
  <2>1. CASE n = m
    <3>1. Unnamed(a, n)
      BY <1>1, <1>2, <1>3, <2>1 DEF Unnamed, Good
    <3> QED
      BY <1>2, <2>1, <3>1, Looking
  <2>2. CASE n # m /\ Unnamed(r, n)
    <3>1. Unnamed(a, n)
      BY <1>2, <1>3, <2>2 DEF Unnamed
    <3> QED
      BY <1>2, <2>2, <3>1, Looking
  <2>3. CASE n # m /\ ~Unnamed(r, n)
    <3>1. PICK d \in LiveCells(r) : NameOfCell(r, d) = n
      BY <2>3 DEF Unnamed
    <3>2. d \in LiveCells(a) /\ NameOfCell(a, d) = n
      BY <1>1, <1>2, <1>3, <2>3, <3>1
    <3>3. Get(a, n) = ValIn(a, d) /\ Get(r, n) = ValIn(r, d)
      BY <1>2, <3>1, <3>2, Looking
    <3> QED
      BY <1>2, <2>3, <3>2, <3>3
  <2> QED
    BY <2>1, <2>2, <2>3
<1> QED
  BY <1>2, <1>4

-----------------------------------------------------------------------------
(* There are fewer entries than hash codes.                                 *)
LEMMA FewEntries ==
  ASSUME NEW r, Good(r)
  PROVE  r.size \in Nat /\ r.size < POW2[Bits]
<1> DEFINE f == [c \in LiveCells(r) |-> KeyIn(r, c)]
<1>1. f \in Injection(LiveCells(r), Keys)
  <2>1. f \in [LiveCells(r) -> Keys]
    BY DEF Good
  <2>2. \A c, d \in LiveCells(r) : f[c] = f[d] => c = d
    BY DEF Good, NameOfCell
  <2> QED
    BY <2>1, <2>2 DEF Injection, IsInjective
<1>2. IsFiniteSet(Keys) /\ Cardinality(Keys) < POW2[Bits] /\ POW2[Bits] \in Nat
  BY HashAssumption, PowersOfTwo
<1> HIDE DEF f
<1>3. Cardinality(LiveCells(r)) <= Cardinality(Keys)
  BY <1>1, <1>2, FS_Injection
<1>4. Cardinality(Keys) \in Nat
  BY <1>2, FS_CardinalityType
<1>5. Cardinality(LiveCells(r)) = r.size /\ r.size \in Nat
  BY DEF Good, IsRec
<1> QED
  BY <1>2, <1>3, <1>4, <1>5, SMT

(* resize: there is a power of two above every number.                      *)
LEMMA Room ==
  ASSUME NEW n \in Nat, n < POW2[Bits]
  PROVE  LgSize(n) \in Sizes /\ n < POW2[LgSize(n)]
<1> DEFINE T == {l \in Nat : POW2[l] > l}
           U == {l \in Nat : POW2[l] > n}
           Least(l) == POW2[l] > n /\ \A m \in 0..l-1 : POW2[m] <= n
<1>1. Nat \subseteq T
  <2>1. 0 \in T
    BY PowersOfTwo
  <2>2. ASSUME NEW l \in Nat, l \in T PROVE l + 1 \in T
    BY <2>2, PowersOfTwo
  <2> HIDE DEF T
  <2> QED
    BY <2>1, <2>2, NatInd
<1>2. n \in U /\ U \subseteq Nat
  BY <1>1
<1>3. PICK l \in U : \A m \in U : l <= m
  BY <1>2, NatMin
<1>4. l \in 0..n /\ Least(l)
  <2>1. l <= n /\ l \in Nat
    BY <1>2, <1>3
  <2>2. ASSUME NEW m \in 0..l-1 PROVE POW2[m] <= n
    <3>1. m \in Nat /\ m < l /\ POW2[m] \in Nat
      BY <2>1, PowersOfTwo
    <3> QED
      BY <1>3, <3>1
  <2> QED
    BY <1>3, <2>1, <2>2
<1>5. LgSize(n) \in 0..n /\ Least(LgSize(n))
  <2>1. LgSize(n) = CHOOSE k \in 0..n : Least(k)
    BY DEF LgSize
  <2> HIDE DEF Least
  <2> QED
    BY <1>4, <2>1
<1>6. Bits \in Nat /\ POW2[Bits] \in Nat
  BY HashAssumption, PowersOfTwo
<1>7. LgSize(n) <= Bits
  <2>1. PICK k \in Nat : k = LgSize(n)
    BY <1>5
  <2>2. SUFFICES ASSUME Bits < k PROVE FALSE
    BY <1>6, <2>1
  <2>3. Bits \in 0..k-1
    BY <1>6, <2>1, <2>2
  <2>4. POW2[Bits] <= n
    BY <1>5, <2>1, <2>3
  <2> QED
    BY <1>6, <2>4
<1>8. LgSize(n) \in Sizes
  BY <1>5, <1>6, <1>7 DEF Sizes
<1> QED
  BY <1>5, <1>8

(* A new table is empty.                                                    *)
LEMMA Emptied ==
  ASSUME NoEmptyKey, code \in HashCodes, NEW l \in Sizes, NEW a, a = NewRec(l)
  PROVE  /\ Good(a) /\ a.lgsz = l /\ a.next = 0 /\ a.size = 0
         /\ a.tab \in [0..2 * POW2[l] - 1 -> {EMPTY}]
         /\ \A n \in Names : ~Found(a, n) /\ Get(a, n) = None
<1>1. /\ a.null = FALSE /\ a.size = 0 /\ a.lgsz = l /\ a.next = 0
      /\ a.tab = [c \in 0..2 * POW2[l] - 1 |-> EMPTY]
      /\ a.ents = [e \in 0..POW2[l] - 1 |-> [key |-> None, val |-> None]]
  BY DEF NewRec, HashRec
<1>2. Cells(a) = 0..2 * POW2[l] - 1
  BY <1>1 DEF Cells, NCells
<1>3. a.tab \in [Cells(a) -> {EMPTY}]
  BY <1>1, <1>2
<1>4. [key |-> None, val |-> None] \in Entry
  BY DEF Entry
<1>5. 0 \in 0..POW2[l]
  BY <1>1, TableSize
<1>6. IsRec(a)
  BY <1>1, <1>3, <1>4, <1>5 DEF IsRec
<1>7. LiveCells(a) = {} /\ Used(a) = {}
  BY <1>3, <1>6, Live DEF Used
<1>8. Cardinality({}) = 0
  BY FS_EmptySet
<1>9. Good(a)
  BY <1>1, <1>6, <1>7, <1>8 DEF Good
<1>10. \A n \in Names : Unnamed(a, n)
  BY <1>7 DEF Unnamed
<1> QED
  BY <1>1, <1>9, <1>10, Looking

(* The records of tables of a size.                                         *)
Recs(l) ==
  [null : {FALSE}, size : Nat, lgsz : {l}, next : Nat,
   tab : [0..2 * POW2[l] - 1 -> Int],
   ents : [0..(POW2[l] - 1) -> Entry]]

LEMMA InRecs ==
  ASSUME NEW a, NEW s, NEW l, NEW n, NEW t, NEW e, a = HashRec(s, l, n, t, e), Good(a)
  PROVE  a \in Recs(l)
<1>1. a.size = s /\ a.lgsz = l /\ a.next = n /\ a.tab = t /\ a.ents = e
  BY DEF HashRec
<1>2. /\ IsRec(a) /\ a.lgsz \in Sizes
  BY DEF Good, IsRec
<1>3. s \in Nat /\ n \in Nat /\ l \in Sizes /\ e \in [0..(POW2[l] - 1) -> Entry]
  BY <1>1, <1>2, TableSize DEF IsRec
<1>4. t \in [0..2 * POW2[l] - 1 -> Int]
  <2>1. t \in [Cells(a) -> {EMPTY, DELETED} \union 0..(a.next - 1)]
    BY <1>1, <1>2 DEF IsRec
  <2>2. Cells(a) = 0..2 * POW2[l] - 1
    BY <1>1 DEF Cells, NCells
  <2>3. {EMPTY, DELETED} \union 0..(a.next - 1) \subseteq Int
    BY <1>1, <1>3 DEF EMPTY, DELETED
  <2> QED
    BY <2>1, <2>2, <2>3
<1> QED
  BY <1>3, <1>4 DEF Recs, HashRec

LEMMA Refilled ==
  ASSUME NEW r, NEW k, NEW v, Good(HashSet(r, k, v))
  PROVE  HashSet(r, k, v) \in Recs(r.lgsz)
<1>1. HashSet(r, k, v) = SetAt(r, FindCell(r, Name[k]), k, v)
  BY DEF HashSet
<1>2. \E s, n, t, e : HashSet(r, k, v) = HashRec(s, r.lgsz, n, t, e)
  BY <1>1 DEF SetAt, AddEntry
<1> QED
  BY <1>2, InRecs

(* Whatever the recursion of resize begins and goes on with, within a set,  *)
(* it has a solution.                                                       *)
LEMMA Table ==
  ASSUME NEW r, ~r.null, NEW N \in Nat, NCells(r) = N, N # 0,
         NEW S, NEW B, B \in S, B = NewRec(LgSize(r.size)),
         NEW T, T \in [Nat -> S], T[0] = B,
         \A c \in 0..N - 1 : T[c + 1] = Refill(r, T[c], c)
  PROVE  Rebuilt(r) = T[N]
<1> DEFINE g == [c \in -1..N - 1 |-> T[c + 1]]
           F(h, c) == IF c = -1 THEN NewRec(LgSize(r.size)) ELSE Refill(r, h[c - 1], c)
<1>1. ASSUME NEW c \in -1..N - 1 PROVE g[c] = F(g, c)
  <2>1. CASE c = -1
    BY <2>1
  <2>2. CASE c # -1
    <3>1. c \in 0..N - 1 /\ c - 1 \in -1..N - 1 /\ (c - 1) + 1 = c
      BY <2>2
    <3>2. g[c - 1] = T[c]
      BY <3>1
    <3> QED
      BY <2>2, <3>1, <3>2
  <2> QED
    BY <2>1, <2>2
<1>2. g = [c \in -1..N - 1 |-> F(g, c)]
  BY <1>1
<1> DEFINE u == CHOOSE h : h = [c \in -1..N - 1 |-> F(h, c)]
<1>3. u = [c \in -1..N - 1 |-> F(u, c)]
  BY <1>2
<1>4. Rebuilt(r) = u[N - 1]
  BY DEF Rebuilt
<1> HIDE DEF u
<1> DEFINE V == {c \in Nat : c <= N - 1 => u[c] = T[c + 1]}
<1>5. u[-1] = T[0] /\ \A c \in 0..N - 1 : u[c] = Refill(r, u[c - 1], c)
  BY <1>3
<1>6. 0 \in V
  BY <1>5
<1>7. ASSUME NEW c \in Nat, c \in V PROVE c + 1 \in V
  BY <1>5, <1>7
<1>8. N - 1 \in V
  <2> HIDE DEF V
  <2>1. Nat \subseteq V
    BY <1>6, <1>7, NatInd
  <2> QED
    BY <2>1
<1> QED
  BY <1>4, <1>8

(* The live cells before a cell. *)
LiveBefore(r, n) == {d \in LiveCells(r) : d < n}

(* What resize has made when it comes to a cell: the entries of the cells   *)
(* before it, and no others.                                                *)
HasBefore(r, a, n) ==
  /\ Good(a) /\ a.lgsz = LgSize(r.size)
  /\ a.next = Cardinality(LiveBefore(r, n)) /\ a.size = a.next
  /\ \A m \in Names :
       Get(a, m) = IF \E d \in LiveBefore(r, n) : NameOfCell(r, d) = m THEN Get(r, m) ELSE None

LEMMA Known ==
  ASSUME NoEmptyKey, code \in HashCodes, NEW r, Good(r), NEW n \in Names
  PROVE  Found(r, n) <=> Get(r, n) # None
<1>1. CASE Unnamed(r, n)
  BY <1>1, Looking
<1>2. ASSUME NEW d \in LiveCells(r), NameOfCell(r, d) = n
      PROVE  Found(r, n) /\ Get(r, n) # None
  <2>1. ValIn(r, d) \in Vals
    BY DEF Good
  <2> QED
    BY <1>2, <2>1, Looking, HashAssumption
<1> QED
  BY <1>1, <1>2 DEF Unnamed

LEMMA Refilling ==
  ASSUME NoEmptyKey, code \in HashCodes, NEW r, Good(r),
         NEW n \in Cells(r), NEW a, HasBefore(r, a, n), a \in Recs(LgSize(r.size))
  PROVE  HasBefore(r, Refill(r, a, n), n + 1) /\ Refill(r, a, n) \in Recs(LgSize(r.size))
<1>1. IsRec(r) /\ n \in Nat
  BY TableSize DEF Good, IsRec
<1>2. LiveCells(r) \subseteq Nat
  <2>1. Cells(r) \subseteq Nat
    BY <1>1, TableSize DEF IsRec
  <2> QED
    BY <1>1, <2>1, Live
<1>3. CASE n \notin LiveCells(r)
  <2>1. ~(r.tab[n] >= 0)
    BY <1>1, <1>3, Live
  <2>2. Refill(r, a, n) = a
    BY <2>1 DEF Refill
  <2>3. LiveBefore(r, n + 1) = LiveBefore(r, n)
    BY <1>1, <1>2, <1>3 DEF LiveBefore
  <2> QED
    BY <2>2, <2>3 DEF HasBefore
<1>4. CASE n \in LiveCells(r)
  <2> DEFINE k == KeyIn(r, n)
             v == ValIn(r, n)
             b == HashSet(a, k, v)
  <2>1. r.tab[n] >= 0
    BY <1>1, <1>4, Live
  <2>2. Refill(r, a, n) = b
    BY <2>1 DEF Refill, KeyIn, ValIn
  <2>3. k \in Keys /\ v \in Vals /\ Name[k] = NameOfCell(r, n) /\ Name[k] \in Names
    BY <1>4 DEF Good, NameOfCell, Names
  <2>4. LiveBefore(r, n + 1) = LiveBefore(r, n) \union {n} /\ n \notin LiveBefore(r, n)
    BY <1>1, <1>2, <1>4 DEF LiveBefore
  <2>5. IsFiniteSet(LiveCells(r)) /\ LiveBefore(r, n) \subseteq LiveCells(r)
        /\ LiveBefore(r, n + 1) \subseteq LiveCells(r)
    BY <1>1, Live DEF LiveBefore
  <2>6. Cardinality(LiveBefore(r, n + 1)) = Cardinality(LiveBefore(r, n)) + 1
    <3>1. IsFiniteSet(LiveBefore(r, n))
      BY <2>5, FS_Subset
    <3> QED
      BY <2>4, <3>1, FS_AddElement
  <2>7. Cardinality(LiveBefore(r, n + 1)) <= r.size
    BY <2>5, FS_Subset DEF Good
  <2>8. a.next \in Nat /\ a.next < POW2[a.lgsz]
    <3>1. r.size \in Nat /\ r.size < POW2[LgSize(r.size)] /\ POW2[LgSize(r.size)] \in Nat
      BY FewEntries, Room, PowersOfTwo DEF Sizes
    <3>2. a.next \in Nat /\ a.next + 1 <= r.size /\ a.lgsz = LgSize(r.size)
      BY <2>6, <2>7 DEF HasBefore, Good, IsRec
    <3> QED
      BY <3>1, <3>2
  <2>9. ~Found(a, Name[k])
    <3>1. ~ \E d \in LiveBefore(r, n) : NameOfCell(r, d) = Name[k]
      BY <1>4, <2>3, <2>4, <2>5 DEF Good
    <3>2. Get(a, Name[k]) = None
      BY <2>3, <3>1 DEF HasBefore
    <3> QED
      BY <2>3, <3>2, Known DEF HasBefore
  <2> HIDE DEF k, v, b
  <2>10. /\ Good(b) /\ b.lgsz = a.lgsz
         /\ \A m \in Names : Get(b, m) = IF m = Name[k] THEN v ELSE Get(a, m)
         /\ b.size = a.size + 1 /\ b.next = a.next + 1
    <3>1. Good(a) /\ b = HashSet(a, k, v)
      BY DEF HasBefore, b
    <3> QED
      BY <2>3, <2>8, <2>9, <3>1, Setting
  <2>11. b \in Recs(LgSize(r.size))
    BY <2>10, Refilled DEF HasBefore, b
  <2>12. ASSUME NEW m \in Names
         PROVE  Get(b, m) = IF \E d \in LiveBefore(r, n + 1) : NameOfCell(r, d) = m
                            THEN Get(r, m) ELSE None
    <3>1. CASE m = Name[k]
      <4>1. Get(r, m) = v
        BY <1>4, <2>3, <3>1, Looking DEF v
      <4> QED
        BY <2>3, <2>4, <2>10, <3>1, <4>1
    <3>2. CASE m # Name[k]
      <4>1. (\E d \in LiveBefore(r, n + 1) : NameOfCell(r, d) = m)
            <=> (\E d \in LiveBefore(r, n) : NameOfCell(r, d) = m)
        BY <2>3, <2>4, <3>2
      <4> QED
        BY <2>10, <3>2, <4>1 DEF HasBefore
    <3> QED
      BY <3>1, <3>2
  <2> QED
    BY <2>2, <2>6, <2>10, <2>11, <2>12 DEF HasBefore
<1> QED
  BY <1>3, <1>4

(* resize keeps the contents and makes room.                                *)
LEMMA Rebuilding ==
  ASSUME NoEmptyKey, code \in HashCodes, NEW r, Good(r)
  PROVE  /\ Good(Rebuilt(r)) /\ Rebuilt(r).next < POW2[Rebuilt(r).lgsz]
         /\ \A n \in Names : Get(Rebuilt(r), n) = Get(r, n)
<1> DEFINE l == LgSize(r.size)
           S == Recs(l)
           B == NewRec(l)
           N == NCells(r)
           EnterCell(c, x) == IF Refill(r, x, c) \in S THEN Refill(r, x, c) ELSE x
           step == [c \in Nat |-> [x \in S |-> EnterCell(c, x)]]
<1>1. IsRec(r) /\ r.null = FALSE /\ r.lgsz \in Sizes
  BY DEF Good, IsRec
<1>2. N \in Nat /\ N # 0 /\ Cells(r) = 0..N - 1
  BY <1>1, TableSize
<1>3. l \in Sizes /\ r.size < POW2[l] /\ r.size \in Nat /\ POW2[l] \in Nat
  BY FewEntries, Room, PowersOfTwo DEF Sizes
<1> HIDE DEF l
<1>4. Good(B) /\ B.lgsz = l /\ B.next = 0 /\ B.size = 0 /\ \A n \in Names : Get(B, n) = None
  BY <1>3, Emptied
<1>5. B \in S
  <2>1. \E s, n, t, e : B = HashRec(s, l, n, t, e)
    BY DEF NewRec
  <2> QED
    BY <1>4, <2>1, InRecs
<1>6. step \in [Nat -> [S -> S]]
  OBVIOUS
<1> HIDE DEF step, S, B, N
<1>7. PICK T : Solves(T, S, B, step)
  BY <1>5, <1>6, Recursion
<1>8. T \in [Nat -> S] /\ T[0] = B /\ \A c \in Nat : T[c + 1] = step[c][T[c]]
  BY <1>7 DEF Solves
<1>9. ASSUME NEW c \in Nat
      PROVE  T[c + 1] = EnterCell(c, T[c])
  BY <1>8 DEF step
<1> DEFINE V == {c \in Nat : c <= N => HasBefore(r, T[c], c)}
<1>10. 0 \in V
  <2>1. LiveCells(r) \subseteq Nat
    BY <1>1, <1>2, Live
  <2>2. LiveBefore(r, 0) = {}
    BY <2>1 DEF LiveBefore
  <2>3. Cardinality({}) = 0
    BY FS_EmptySet
  <2>4. HasBefore(r, B, 0)
    BY <1>4, <2>2, <2>3 DEF HasBefore, l
  <2> QED
    BY <1>8, <2>4
<1>11. ASSUME NEW c \in Nat, c < N, HasBefore(r, T[c], c)
       PROVE  T[c + 1] = Refill(r, T[c], c) /\ HasBefore(r, T[c + 1], c + 1)
  <2>1. c \in Cells(r)
    BY <1>2, <1>11
  <2>2. T[c] \in Recs(LgSize(r.size))
    BY <1>8 DEF S, l
  <2>3. HasBefore(r, Refill(r, T[c], c), c + 1) /\ Refill(r, T[c], c) \in Recs(LgSize(r.size))
    BY <1>11, <2>1, <2>2, Refilling
  <2> QED
    BY <1>9, <2>3 DEF S, l
<1>12. \A c \in 0..N : HasBefore(r, T[c], c)
  <2>1. ASSUME NEW c \in Nat, c \in V PROVE c + 1 \in V
    BY <1>2, <1>11, <2>1
  <2>2. Nat \subseteq V
    <3> HIDE DEF V
    <3> QED
      BY <1>10, <2>1, NatInd
  <2> QED
    BY <1>2, <2>2
<1>13. Rebuilt(r) = T[N]
  <2>1. \A c \in 0..N - 1 : T[c + 1] = Refill(r, T[c], c)
    BY <1>2, <1>11, <1>12
  <2>2. ~r.null /\ NCells(r) = N /\ B = NewRec(LgSize(r.size))
    BY <1>1 DEF N, B, l
  <2>3. N \in Nat /\ N # 0 /\ B \in S /\ T \in [Nat -> S] /\ T[0] = B
    BY <1>2, <1>5, <1>8
  <2> HIDE DEF V
  <2> QED
    BY ONLY <2>1, <2>2, <2>3, Table
<1>14. HasBefore(r, T[N], N)
  BY <1>2, <1>12
<1>15. LiveBefore(r, N) = LiveCells(r)
  BY <1>1, <1>2, Live DEF LiveBefore
<1>16. T[N].next < POW2[T[N].lgsz] /\ Good(T[N])
  BY <1>3, <1>14, <1>15 DEF HasBefore, Good, l
<1>17. ASSUME NEW n \in Names PROVE Get(T[N], n) = Get(r, n)
  <2>1. Get(T[N], n) = IF \E d \in LiveCells(r) : NameOfCell(r, d) = n THEN Get(r, n) ELSE None
    BY <1>14, <1>15 DEF HasBefore
  <2> QED
    BY <2>1, Looking DEF Unnamed
<1> QED
  BY <1>13, <1>16, <1>17

-----------------------------------------------------------------------------
(* A hash has no record yet, or a good one.                                 *)
HashOK(r) == r = NoHashRec \/ Good(r)

LEMMA NoRecord ==
  /\ NoHashRec.null /\ LiveCells(NoHashRec) = {}
  /\ \A n : Lookup(NoHashRec, n) = EMPTY /\ ~Found(NoHashRec, n) /\ Get(NoHashRec, n) = None
<1>1. NoHashRec.null
  BY DEF NoHashRec
<1>2. ~(EMPTY >= 0)
  BY SMT DEF EMPTY
<1> QED
  BY <1>1, <1>2 DEF LiveCells, Lookup, Found, Get, ValueAt

(* naHash_set and naiHash_newsym make room before they look for the key.    *)
LEMMA MakingRoom ==
  ASSUME NoEmptyKey, code \in HashCodes, NEW r, HashOK(r), NEW a, a = HashWithRoom(r)
  PROVE  /\ Good(a) /\ a.next < POW2[a.lgsz]
         /\ \A n \in Names : Get(a, n) = Get(r, n)
<1>1. CASE r = NoHashRec
  <2>1. r.null
    BY <1>1, NoRecord
  <2>2. Rebuilt(r) = NewRec(0)
    BY <2>1 DEF Rebuilt
  <2>3. a = NewRec(0)
    BY <2>1, <2>2 DEF HashWithRoom
  <2>4. 0 \in Sizes
    BY HashAssumption DEF Sizes
  <2>5. Good(a) /\ a.lgsz = 0 /\ a.next = 0 /\ \A n \in Names : Get(a, n) = None
    BY <2>3, <2>4, Emptied
  <2>6. a.next < POW2[a.lgsz]
    BY <2>5, PowersOfTwo
  <2> QED
    BY <1>1, <2>5, <2>6, NoRecord
<1>2. CASE Good(r)
  <2>1. r.null = FALSE /\ r.next \in Nat /\ POW2[r.lgsz] \in Nat
    BY <1>2, TableSize DEF Good, IsRec
  <2>2. CASE Full(r)
    BY <1>2, <2>2, Rebuilding DEF HashWithRoom
  <2>3. CASE ~Full(r)
    <3>1. a = r
      BY <2>1, <2>3 DEF HashWithRoom
    <3>2. r.next < POW2[r.lgsz]
      BY <2>1, <2>3 DEF Full
    <3> QED
      BY <1>2, <3>1, <3>2
  <2> QED
    BY <2>2, <2>3
<1> QED
  BY <1>1, <1>2 DEF HashOK

(* What the operations do to the values of names.                           *)
Becomes(r, a, m, v) == \A n \in Names : Get(a, n) = IF n = m THEN v ELSE Get(r, n)

LEMMA SetIs ==
  ASSUME NoEmptyKey, code \in HashCodes, HashOK(hash), NEW k \in Keys, NEW v \in Vals, Set(k, v)
  PROVE  Good(hash') /\ Becomes(hash, hash', Name[k], v)
<1> DEFINE a == HashWithRoom(hash)
<1>1. Good(a) /\ a.next < POW2[a.lgsz] /\ \A n \in Names : Get(a, n) = Get(hash, n)
  BY MakingRoom
<1>2. hash' = HashSet(a, k, v)
  BY DEF Set
<1> HIDE DEF a
<1> QED
  BY <1>1, <1>2, Setting DEF Becomes

LEMMA FoundIn ==
  ASSUME HashOK(hash), NEW n, Found(hash, n)
  PROVE  Good(hash)
BY NoRecord DEF HashOK

LEMMA TrySetIs ==
  ASSUME NoEmptyKey, code \in HashCodes, HashOK(hash),
         NEW k \in Keys, NEW v \in Vals, TrySet(k, v)
  PROVE  Good(hash') /\ Becomes(hash, hash', Name[k], v)
<1>1. Found(hash, Name[k]) /\ hash' = SetAt(hash, FindCell(hash, Name[k]), k, v)
  BY DEF TrySet
<1>2. Good(hash) /\ Name[k] \in Names
  BY <1>1, FoundIn DEF Names
<1> QED
  BY <1>1, <1>2, Replacing DEF Becomes

LEMMA DeleteIs ==
  ASSUME NoEmptyKey, code \in HashCodes, HashOK(hash), NEW k \in Keys, Delete(k)
  PROVE  Good(hash') /\ Becomes(hash, hash', Name[k], None)
<1> DEFINE a == Without(hash, FindCell(hash, Name[k]))
<1>1. Found(hash, Name[k]) /\ DeleteAt(a)
  BY DEF Delete
<1>2. Good(hash) /\ Name[k] \in Names
  BY <1>1, FoundIn DEF Names
<1>3. Good(a) /\ \A n \in Names : Get(a, n) = IF n = Name[k] THEN None ELSE Get(hash, n)
  BY <1>1, <1>2, Deleting
<1> HIDE DEF a
<1>4. hash' = a \/ hash' = Rebuilt(a)
  BY <1>1 DEF DeleteAt, Deletions
<1> QED
  BY <1>3, <1>4, Rebuilding DEF Becomes

LEMMA NewSymIs ==
  ASSUME NoEmptyKey, code \in HashCodes, HashOK(hash),
         NEW s \in Syms, NEW v \in Vals, NewSym(s, v)
  PROVE  Good(hash') /\ Becomes(hash, hash', Name[s], v)
<1> DEFINE a == HashWithRoom(hash)
           m == Name[s]
           h == code[m]
           Is(n) == /\ a.tab[Cell(a, h, n)] = EMPTY
                    /\ \A j \in 0..n-1 : a.tab[Cell(a, h, j)] # EMPTY
           n == CHOOSE n \in Cells(a) : Is(n)
           c == NewCell(a, h)
<1>1. Good(a) /\ a.next < POW2[a.lgsz] /\ \A x \in Names : Get(a, x) = Get(hash, x)
  BY MakingRoom
<1>2. s \in Keys /\ m \in Names
  BY HashAssumption DEF Names
<1>3. ~Found(hash, m) /\ hash' = AddEntry(a, c, s, v)
  BY DEF NewSym, NewEntry
<1>4. c = Cell(a, h, n)
  BY DEF NewCell
<1> HIDE DEF a, c
<1>5. \E x \in Cells(a) : Is(x)
  <2> DEFINE St == {d \in Cells(a) : a.tab[d] = EMPTY}
  <2>1. PICK x \in Cells(a) : /\ Cell(a, h, x) \in St
                              /\ \A j \in 0..(x - 1) : Cell(a, h, j) \notin St
    BY <1>1, <1>2, First
  <2>2. ASSUME NEW j \in 0..(x - 1) PROVE Cell(a, h, j) \in Cells(a)
    <3>1. a.lgsz \in Sizes /\ h \in Codes
      BY <1>1, <1>2, CodeOfName DEF Good, IsRec
    <3>2. j \in Cells(a)
      BY <3>1, TableSize, SMT
    <3> QED
      BY <3>1, <3>2, WalkCovers
  <2> QED
    BY <2>1, <2>2
<1>6. n \in Cells(a) /\ Is(n)
  <2> HIDE DEF Is
  <2> QED
    BY <1>5
<1> HIDE DEF n
<1>7. c \in Cells(a)
  <2>1. a.lgsz \in Sizes /\ h \in Codes
    BY <1>1, <1>2, CodeOfName DEF Good, IsRec
  <2> QED
    BY <1>4, <1>6, <2>1, WalkCovers
<1>8. Reaches(a, m, c) /\ a.tab[c] = EMPTY
  BY <1>4, <1>6 DEF Reaches
<1>9. Unnamed(a, m)
  <2>1. Get(hash, m) = None
    BY <1>2, <1>3, Known, NoRecord DEF HashOK
  <2>2. ~Found(a, m)
    BY <1>1, <1>2, <2>1, Known
  <2> QED
    BY <1>1, <1>2, <2>2, Looking DEF Unnamed
<1>10. Good(hash') /\ \A x \in Names : Get(hash', x) = IF x = m THEN v ELSE Get(a, x)
  BY <1>1, <1>2, <1>3, <1>7, <1>8, <1>9, Entering
<1> QED
  BY <1>1, <1>10 DEF Becomes

-----------------------------------------------------------------------------
(* A search by identity ends at the cell of the symbol or at an empty one.  *)
LEMMA SymSearch ==
  ASSUME NoEmptyKey, code \in HashCodes, NEW r, r = hash, Good(r), NEW s \in Syms
  PROVE  SymLookup(r, s) = ByName(s, Lookup(r, Name[s]))
<1> DEFINE n == Name[s]
           h == code[n]
           Is(i) == /\ SymStops(r, s, Cell(r, h, i))
                    /\ \A j \in 0..i-1 : ~SymStops(r, s, Cell(r, h, j))
           i == CHOOSE i \in Cells(r) : Is(i)
           St == {d \in Cells(r) : SymStops(r, s, d)}
           c == Cell(r, h, i)
<1>1. IsRec(r) /\ r.null = FALSE /\ r.lgsz \in Sizes /\ n \in Names
  BY HashAssumption DEF Good, IsRec, Names
<1>2. h \in Codes
  BY <1>1, CodeOfName
<1>3. ASSUME NEW x \in Cells(r), NEW j \in 0..(x - 1) PROVE Cell(r, h, j) \in Cells(r)
  <2>1. j \in Cells(r)
    BY <1>1, TableSize, SMT
  <2> QED
    BY <1>1, <1>2, <2>1, WalkCovers
<1>4. \A d \in Cells(r) : r.tab[d] = EMPTY => d \in St
  BY DEF SymStops
<1>5. \E x \in Cells(r) : Is(x)
  <2>1. PICK x \in Cells(r) : /\ Cell(r, h, x) \in St
                              /\ \A j \in 0..(x - 1) : Cell(r, h, j) \notin St
    BY <1>1, <1>4, First
  <2> QED
    BY <1>3, <2>1
<1>6. i \in Cells(r) /\ Is(i)
  <2> HIDE DEF Is
  <2> QED
    BY <1>5
<1>7. c \in Cells(r)
  <2> HIDE DEF i
  <2> QED
    BY <1>1, <1>2, <1>6, WalkCovers
<1>8. SymLookup(r, s) = r.tab[c]
  BY <1>1 DEF SymLookup, SymCell
<1> HIDE DEF i
<1>9. \A d \in LiveCells(r) : d \in St <=> KeyIn(r, d) = s
  <2>1. \A d \in LiveCells(r) : d \in Cells(r) /\ r.tab[d] # EMPTY /\ r.tab[d] # DELETED
    BY <1>1, Live, SMT DEF EMPTY, DELETED
  <2> QED
    BY <2>1 DEF SymStops, KeyIn
<1>10. c \in St /\ \A j \in 0..(i - 1) : Cell(r, h, j) \notin St
  BY <1>6, <1>7
<1>11. r.tab[c] = EMPTY \/ (c \in LiveCells(r) /\ KeyIn(r, c) = s)
  <2>1. CASE r.tab[c] # EMPTY
    <3>1. c \in LiveCells(r)
      BY <1>1, <1>7, <1>10, <2>1, Live DEF SymStops
    <3> QED
      BY <1>9, <1>10, <3>1
  <2> QED
    BY <2>1
<1> HIDE DEF c, St
<1>12. CASE Unnamed(r, n)
  <2>1. r.tab[c] = EMPTY
    BY <1>11, <1>12 DEF Unnamed, NameOfCell
  <2>2. Lookup(r, n) = EMPTY
    BY <1>1, <1>12, Looking
  <2> QED
    BY <1>8, <2>1, <2>2, SMT DEF ByName, EMPTY
<1>13. ASSUME NEW d \in LiveCells(r), NameOfCell(r, d) = n
       PROVE  r.tab[c] = ByName(s, Lookup(r, n))
  <2>1. Lookup(r, n) = r.tab[d] /\ r.tab[d] >= 0 /\ r.ents[r.tab[d]].key = KeyIn(r, d)
    BY <1>1, <1>13, Looking, Live DEF KeyIn
  <2>2. CASE KeyIn(r, d) = s
    <3>1. d \in St
      BY <1>9, <2>2
    <3>2. Reaches(r, n, d)
      BY <1>13 DEF Good
    <3>3. r.tab[c] # EMPTY
      <4>1. \A j \in 0..(i - 1) : Cell(r, code[n], j) \notin St
        BY <1>10
      <4> QED
        BY <1>4, <1>6, <3>1, <3>2, <4>1, Meets DEF c
    <3>4. NameOfCell(r, c) = n /\ c \in LiveCells(r)
      BY <1>11, <3>3 DEF NameOfCell
    <3>5. c = d
      BY <1>13, <3>4 DEF Good
    <3> QED
      BY <2>1, <2>2, <3>5 DEF ByName
  <2>3. CASE KeyIn(r, d) # s
    <3>1. ASSUME r.tab[c] # EMPTY PROVE FALSE
      <4>1. NameOfCell(r, c) = n /\ c \in LiveCells(r) /\ KeyIn(r, c) = s
        BY <1>11, <3>1 DEF NameOfCell
      <4> QED
        BY <1>13, <2>3, <4>1 DEF Good
    <3> QED
      BY <2>1, <2>3, <3>1 DEF ByName
  <2> QED
    BY <2>2, <2>3
<1> QED
  BY <1>8, <1>12, <1>13 DEF Unnamed

LEMMA TableIsOK ==
  ASSUME NoEmptyKey, code \in HashCodes, HashOK(hash)
  PROVE  TableOK
<1>1. CASE hash = NoHashRec
  <2>1. /\ hash.null /\ hash.size = 0 /\ hash.lgsz = 0 /\ hash.next = 0
        /\ LiveCells(hash) = {}
    BY <1>1, NoRecord DEF NoHashRec
  <2>2. CountsOK
    <3>1. Cardinality({}) = 0 /\ POW2[0] = 1
      BY FS_EmptySet, PowersOfTwo
    <3> QED
      BY <2>1, <3>1 DEF CountsOK, Entries
  <2>3. WalksEnd /\ OneCellEach
    BY <2>1 DEF WalksEnd, OneCellEach
  <2>4. ASSUME NEW s \in Syms PROVE SymLookup(hash, s) = ByName(s, Lookup(hash, Name[s]))
    <3>1. SymLookup(hash, s) = EMPTY /\ Lookup(hash, Name[s]) = EMPTY
      BY <2>1 DEF SymLookup, Lookup
    <3>2. ~(EMPTY >= 0)
      BY SMT DEF EMPTY
    <3> QED
      BY <3>1, <3>2 DEF ByName
  <2> QED
    BY <2>2, <2>3, <2>4 DEF TableOK, SymAgrees
<1>2. CASE Good(hash)
  <2>1. IsRec(hash) /\ hash.lgsz \in Sizes /\ hash.next \in 0..POW2[hash.lgsz]
        /\ hash.size = Cardinality(LiveCells(hash))
    BY <1>2 DEF Good, IsRec
  <2>2. CountsOK
    <3>1. hash.next <= POW2[hash.lgsz]
      BY <2>1, TableSize
    <3>2. Entries(hash) \subseteq 0..hash.next - 1
      BY <2>1, Live DEF Entries
    <3> QED
      BY <2>1, <3>1, <3>2 DEF CountsOK
  <2>3. WalksEnd
    <3>1. ASSUME NEW n \in Names
          PROVE  {Cell(hash, code[n], i) : i \in Cells(hash)} = Cells(hash)
      <4>1. code[n] \in Codes
        BY CodeOfName
      <4> QED
        BY <2>1, <4>1, WalkCovers
    <3>2. \E c \in Cells(hash) : hash.tab[c] = EMPTY
      BY <1>2, SomeEmpty
    <3> QED
      BY <3>1, <3>2 DEF WalksEnd
  <2>4. OneCellEach
    BY <1>2 DEF OneCellEach, NameIn, Good, NameOfCell, KeyIn
  <2>5. SymAgrees
    BY <1>2, SymSearch DEF SymAgrees
  <2> QED
    BY <2>2, <2>3, <2>4, <2>5 DEF TableOK
<1> QED
  BY <1>1, <1>2 DEF HashOK

-----------------------------------------------------------------------------
HInv == HashOK(hash) /\ code \in HashCodes

LEMMA HashInit == NewHash => HInv
BY DEF NewHash, HInv, HashOK

(* Every operation sets one name, to a value or to none. *)
LEMMA HashNext ==
  ASSUME NoEmptyKey, HInv, NextHash
  PROVE  /\ HInv'
         /\ \/ \E n \in Names : Becomes(hash, hash', n, None)
            \/ \E n \in Names, v \in Vals : Becomes(hash, hash', n, v)
<1>0. HashOK(hash) /\ code \in HashCodes /\ code' = code
  BY DEF HInv, NextHash
<1>1. ASSUME Good(hash') PROVE HInv'
  <2>1. Good(hash)' <=> Good(hash')
    BY <1>0 DEF Good, Reaches, IsRec
  <2> QED
    BY <1>0, <1>1, <2>1 DEF HInv, HashOK
<1>2. ASSUME NEW k \in Keys, Delete(k) PROVE Good(hash') /\ Becomes(hash, hash', Name[k], None)
  BY <1>0, <1>2, DeleteIs
<1>3. ASSUME NEW k \in Keys, NEW v \in Vals, Set(k, v)
      PROVE  Good(hash') /\ Becomes(hash, hash', Name[k], v)
  BY <1>0, <1>3, SetIs
<1>4. ASSUME NEW k \in Keys, NEW v \in Vals, TrySet(k, v)
      PROVE  Good(hash') /\ Becomes(hash, hash', Name[k], v)
  BY <1>0, <1>4, TrySetIs
<1>5. ASSUME NEW s \in Syms, NEW v \in Vals, NewSym(s, v)
      PROVE  Good(hash') /\ Becomes(hash, hash', Name[s], v)
  BY <1>0, <1>5, NewSymIs
<1>6. \A k \in Keys : Name[k] \in Names
  BY DEF Names
<1>7. Syms \subseteq Keys
  BY HashAssumption
<1>8. \/ \E k \in Keys : Delete(k) \/ \E v \in Vals : Set(k, v) \/ TrySet(k, v)
      \/ \E s \in Syms : \E v \in Vals : NewSym(s, v)
  BY DEF NextHash
<1> QED
  BY <1>1, <1>2, <1>3, <1>4, <1>5, <1>6, <1>7, <1>8

-----------------------------------------------------------------------------
(* naHash_keys counts the live cells from the first: each count from 0 on   *)
(* belongs to one of them.                                                  *)
Rank(r, c) == Cardinality({d \in LiveCells(r) : d < c})

LEMMA Ranks ==
  ASSUME NEW r, Good(r)
  PROVE  /\ r.size \in Nat
         /\ \A c \in LiveCells(r) : Rank(r, c) \in 0..r.size - 1
         /\ \A c, d \in LiveCells(r) : Rank(r, c) = Rank(r, d) => c = d
         /\ \A i \in 0..r.size - 1 : \E c \in LiveCells(r) : Rank(r, c) = i
<1> DEFINE Below(c) == {d \in LiveCells(r) : d < c}
           f == [c \in LiveCells(r) |-> Rank(r, c)]
<1>1. IsRec(r) /\ r.size \in Nat /\ Cardinality(LiveCells(r)) = r.size /\ r.lgsz \in Sizes
  BY DEF Good, IsRec
<1>2. IsFiniteSet(LiveCells(r)) /\ LiveCells(r) \subseteq Nat
  <2>1. Cells(r) \subseteq Nat
    BY <1>1, TableSize
  <2> QED
    BY <1>1, <2>1, Live
<1>3. ASSUME NEW c \in LiveCells(r), NEW S \in SUBSET LiveCells(r),
             Below(c) \union {c} \subseteq S
      PROVE  Rank(r, c) \in Nat /\ Rank(r, c) + 1 <= Cardinality(S) /\ Cardinality(S) \in Nat
  <2>1. IsFiniteSet(Below(c)) /\ c \notin Below(c) /\ IsFiniteSet(S)
    BY <1>2, FS_Subset
  <2>2. /\ IsFiniteSet(Below(c) \union {c})
        /\ Cardinality(Below(c) \union {c}) = Cardinality(Below(c)) + 1
    BY <2>1, FS_AddElement
  <2>3. Cardinality(Below(c) \union {c}) <= Cardinality(S)
    BY <1>3, <2>1, FS_Subset
  <2>4. Cardinality(Below(c)) \in Nat /\ Cardinality(S) \in Nat
    BY <2>1, FS_CardinalityType
  <2> QED
    BY <2>2, <2>3, <2>4 DEF Rank
<1>4. ASSUME NEW c \in LiveCells(r) PROVE Rank(r, c) \in 0..r.size - 1
  <2>1. Rank(r, c) \in Nat /\ Rank(r, c) + 1 <= Cardinality(LiveCells(r))
    BY <1>3
  <2> QED
    BY <1>1, <2>1
<1>5. ASSUME NEW c \in LiveCells(r), NEW d \in LiveCells(r), c < d
      PROVE  Rank(r, c) # Rank(r, d)
  <2>1. Below(c) \union {c} \subseteq Below(d)
    BY <1>2, <1>5
  <2>2. Rank(r, c) \in Nat /\ Rank(r, c) + 1 <= Cardinality(Below(d))
    BY <1>3, <2>1
  <2> QED
    BY <2>2 DEF Rank
<1>6. ASSUME NEW c \in LiveCells(r), NEW d \in LiveCells(r), Rank(r, c) = Rank(r, d)
      PROVE  c = d
  <2>1. c \in Nat /\ d \in Nat
    BY <1>2
  <2> QED
    BY <1>5, <1>6, <2>1
<1>7. f \in Injection(LiveCells(r), 0..r.size - 1)
  BY <1>4, <1>6 DEF Injection, IsInjective
<1>8. IsFiniteSet(0..r.size - 1) /\ Cardinality(0..r.size - 1) = r.size
  <2>1. PICK k \in Nat : k = r.size
    BY <1>1
  <2>2. 0 \in Int /\ k - 1 \in Int
    BY <2>1
  <2>3. /\ IsFiniteSet(0..k - 1)
        /\ Cardinality(0..k - 1) = IF 0 > k - 1 THEN 0 ELSE (k - 1) - 0 + 1
    BY <2>2, FS_Interval
  <2> QED
    BY <2>1, <2>3
<1> HIDE DEF f
<1>9. f \in Surjection(LiveCells(r), 0..r.size - 1)
  BY <1>1, <1>7, <1>8, FS_Injection
<1>10. \A i \in 0..r.size - 1 : \E c \in LiveCells(r) : f[c] = i
  BY <1>9 DEF Surjection
<1> QED
  BY <1>1, <1>4, <1>6, <1>10 DEF f

(* So keys() lists the key of every live cell, and no name twice.           *)
LEMMA KeysListed ==
  ASSUME NEW r, Good(r)
  PROVE  /\ r.size \in Nat
         /\ KeyList(r) \in [1..r.size -> {KeyIn(r, c) : c \in LiveCells(r)}]
         /\ \A i, j \in 1..r.size : Name[KeyList(r)[i]] = Name[KeyList(r)[j]] => i = j
         /\ \A c \in LiveCells(r) : \E i \in 1..r.size : KeyList(r)[i] = KeyIn(r, c)
<1>1. r.size \in Nat /\ Cardinality(LiveCells(r)) = r.size
  BY DEF Good, IsRec
<1>2. KeyList(r) = [i \in 1..r.size |-> KeyAt(r, i - 1)]
  BY <1>1 DEF KeyList
<1>3. ASSUME NEW c \in LiveCells(r) PROVE KeyAt(r, Rank(r, c)) = KeyIn(r, c)
  <2> DEFINE d == CHOOSE d \in LiveCells(r) : Rank(r, d) = Rank(r, c)
  <2>1. d \in LiveCells(r) /\ Rank(r, d) = Rank(r, c)
    OBVIOUS
  <2>2. KeyAt(r, Rank(r, c)) = KeyIn(r, d)
    BY DEF KeyAt, Rank, KeyIn
  <2> HIDE DEF d
  <2>3. d = c
    BY <2>1, Ranks
  <2> QED
    BY <2>2, <2>3
<1>4. ASSUME NEW i \in 1..r.size
      PROVE  \E c \in LiveCells(r) : Rank(r, c) = i - 1 /\ KeyAt(r, i - 1) = KeyIn(r, c)
  <2>1. i - 1 \in 0..r.size - 1
    BY <1>1
  <2>2. PICK c \in LiveCells(r) : Rank(r, c) = i - 1
    BY <2>1, Ranks
  <2> QED
    BY <1>3, <2>2
<1>5. ASSUME NEW c \in LiveCells(r)
      PROVE  \E i \in 1..r.size : KeyAt(r, i - 1) = KeyIn(r, c)
  <2>1. Rank(r, c) \in 0..r.size - 1
    BY Ranks
  <2>2. Rank(r, c) + 1 \in 1..r.size /\ (Rank(r, c) + 1) - 1 = Rank(r, c)
    BY <1>1, <2>1
  <2> QED
    BY <1>3, <2>2
<1>6. ASSUME NEW i \in 1..r.size, NEW j \in 1..r.size,
             Name[KeyAt(r, i - 1)] = Name[KeyAt(r, j - 1)]
      PROVE  i = j
  <2>1. PICK c \in LiveCells(r) : Rank(r, c) = i - 1 /\ KeyAt(r, i - 1) = KeyIn(r, c)
    BY <1>4
  <2>2. PICK d \in LiveCells(r) : Rank(r, d) = j - 1 /\ KeyAt(r, j - 1) = KeyIn(r, d)
    BY <1>4
  <2>3. c = d
    BY <1>6, <2>1, <2>2 DEF Good, NameOfCell
  <2> QED
    BY <1>1, <2>1, <2>2, <2>3
<1> QED
  BY <1>1, <1>2, <1>4, <1>5, <1>6

(* The names that have a value are those of the live cells.                 *)
LEMMA Presence ==
  ASSUME NoEmptyKey, code \in HashCodes, NEW r, Good(r)
  PROVE  {n \in Names : Get(r, n) # None} = {NameOfCell(r, c) : c \in LiveCells(r)}
<1>1. \A c \in LiveCells(r) : NameOfCell(r, c) \in Names
  BY DEF Good, NameOfCell, Names
<1>2. \A n \in Names : Get(r, n) # None <=> \E c \in LiveCells(r) : NameOfCell(r, c) = n
  BY Looking, Known DEF Unnamed
<1> QED
  BY <1>1, <1>2

-----------------------------------------------------------------------------
H == INSTANCE Collections
       WITH map <- Map, list <- <<>>, Refs <- {}, Nil <- None, MaxSize <- 0

LEMMA MapInit == NewHash => Map = [n \in Names |-> None]
BY NoRecord DEF NewHash, Map

LEMMA MapNext ==
  ASSUME NoEmptyKey, HInv, NextHash
  PROVE  /\ HInv'
         /\ \/ \E n \in Names : Map' = [Map EXCEPT ![n] = None]
            \/ \E n \in Names : \E v \in Vals : Map' = [Map EXCEPT ![n] = v]
<1>1. ASSUME NEW n \in Names, NEW v, Becomes(hash, hash', n, v)
      PROVE  Map' = [Map EXCEPT ![n] = v]
  <2>1. code' = code
    BY DEF NextHash
  <2>2. Map' = [m \in Names |-> Get(hash', m)]
    BY <2>1 DEF Map, Get, Lookup, FindCell, FirstStop
  <2> QED
    BY <1>1, <2>2 DEF Becomes, Map
<1> QED
  BY <1>1, HashNext

(* The record of a hash stays well formed: its counters count, every search *)
(* ends at an empty cell, no name has two cells, and a symbol is found by   *)
(* its identity where it is found by its name, for any keys, hash function  *)
(* and sequence of operations.                                              *)
THEOREM TableStaysOK == NoEmptyKey /\ SpecHash => []TableOK
<1>1. HInv /\ NoEmptyKey => TableOK
  BY TableIsOK DEF HInv
<1>2. NoEmptyKey /\ HInv /\ [NextHash]_hashVars => HInv'
  <2> SUFFICES ASSUME NoEmptyKey, HInv, [NextHash]_hashVars PROVE HInv'
    OBVIOUS
  <2>1. CASE NextHash
    BY <2>1, HashNext
  <2>2. CASE UNCHANGED hashVars
    BY <2>2 DEF hashVars, HInv, HashOK, Good, Reaches, IsRec
  <2> QED
    BY <2>1, <2>2
<1>3. ASSUME NoEmptyKey PROVE SpecHash => []TableOK
  BY <1>1, <1>2, <1>3, HashInit, PTL DEF SpecHash
<1> QED
  BY <1>3

(* A hash is a map from names to values: naHash_set, naiHash_tryset,        *)
(* naHash_delete and naiHash_newsym set and delete what they say, and       *)
(* nothing else changes when the table is rebuilt.                          *)
THEOREM HashIsMap == NoEmptyKey /\ SpecHash => H!Spec
<1>1. NewHash => H!Init
  BY MapInit DEF H!Init
<1>2. NoEmptyKey /\ HInv /\ [NextHash]_hashVars => HInv' /\ [H!Next]_<<Map, <<>>>>
  <2> SUFFICES ASSUME NoEmptyKey, HInv, [NextHash]_hashVars
               PROVE  HInv' /\ [H!Next]_<<Map, <<>>>>
    OBVIOUS
  <2>1. CASE NextHash
    <3>1. HInv' /\ \/ \E n \in Names : Map' = [Map EXCEPT ![n] = None]
                   \/ \E n \in Names : \E v \in Vals : Map' = [Map EXCEPT ![n] = v]
      BY <2>1, MapNext
    <3> QED
      BY <3>1 DEF H!Next, H!Set, H!Delete
  <2>2. CASE UNCHANGED hashVars
    <3>1. HInv' /\ Map' = Map
      BY <2>2 DEF hashVars, HInv, HashOK, Good, Reaches, IsRec, Map, Get, Lookup, FindCell,
           FirstStop
    <3> QED
      BY <3>1
  <2> QED
    BY <2>1, <2>2
<1>3. ASSUME NoEmptyKey PROVE SpecHash => H!Spec
  BY <1>1, <1>2, <1>3, HashInit, PTL DEF SpecHash, H!Spec
<1> QED
  BY <1>3

-----------------------------------------------------------------------------
(***************************************************************************)
(* Vectors, and hashes and vectors together.                               *)
(***************************************************************************)
NoKeys == [n \in {} |-> Nil]

L == INSTANCE Collections
       WITH Names <- {}, Vals <- {}, None <- Nil, map <- NoKeys, list <- List

Elements == Refs \union Keys \union {Nil}

(* What every record satisfies. *)
RecOK(r) ==
  /\ r = [null |-> r.null, size |-> r.size, alloced |-> r.alloced, array |-> r.array]
  /\ r.null \in BOOLEAN /\ r.size \in Nat /\ r.alloced \in Nat
  /\ r.size <= r.alloced
  /\ r.null => r = NoVecRec
  /\ ~r.null => r.array = [i \in 0..r.alloced-1 |-> r.array[i]]
  /\ \A i \in 0..r.size-1 : r.array[i] \in Elements

-----------------------------------------------------------------------------
LEMMA EmptyOK == RecOK(NoVecRec)
BY DEF RecOK, NoVecRec

(* There is room for one more after growing, which ends append's loop.      *)
LEMMA NewSizeGrows ==
  ASSUME NEW n \in Nat
  PROVE  NewSize(n) \in Nat /\ NewSize(n) > n
BY DEF NewSize

(* Growing and shrinking keep the contents. *)
LEMMA ResizedKeeps ==
  ASSUME NEW r, r.size \in Nat, \A i \in 0..r.size-1 : r.array[i] \in Elements
  PROVE  /\ RecOK(Resized(r))
         /\ Resized(r).size = r.size /\ ~Resized(r).null
         /\ Resized(r).alloced = NewSize(r.size)
         /\ \A i \in 0..r.size-1 : Resized(r).array[i] = r.array[i]
<1>1. Resized(r) =
        [null |-> FALSE, size |-> r.size, alloced |-> NewSize(r.size),
         array |-> [i \in 0..NewSize(r.size)-1 |->
                      IF i < r.size THEN r.array[i] ELSE Junk]]
  BY DEF Resized, Record
<1>2. NewSize(r.size) \in Nat /\ NewSize(r.size) > r.size
  BY NewSizeGrows
<1>3. /\ Resized(r).size = r.size /\ ~Resized(r).null
      /\ Resized(r).alloced = NewSize(r.size)
      /\ Resized(r).array = [i \in 0..NewSize(r.size)-1 |->
                               IF i < r.size THEN r.array[i] ELSE Junk]
  BY <1>1
<1>4. \A i \in 0..r.size-1 : Resized(r).array[i] = r.array[i]
  BY <1>2, <1>3
<1>5. RecOK(Resized(r))
  BY <1>1, <1>2, <1>3, <1>4 DEF RecOK
<1> QED BY <1>3, <1>4, <1>5

LEMMA WithRoomKeeps ==
  ASSUME NEW r, RecOK(r)
  PROVE  /\ RecOK(WithRoom(r)) /\ ~WithRoom(r).null
         /\ WithRoom(r).size = r.size /\ r.size < WithRoom(r).alloced
         /\ \A i \in 0..r.size-1 : WithRoom(r).array[i] = r.array[i]
<1>1. CASE r.null \/ r.size >= r.alloced
  BY <1>1, ResizedKeeps, NewSizeGrows DEF WithRoom, RecOK
<1>2. CASE ~(r.null \/ r.size >= r.alloced)
  BY <1>2 DEF WithRoom, RecOK
<1> QED BY <1>1, <1>2

LEMMA ArrayUpdate ==
  ASSUME NEW n \in Nat, NEW a, a = [i \in 0..n-1 |-> a[i]],
         NEW j \in 0..n-1, NEW o
  PROVE  /\ [a EXCEPT ![j] = o] = [i \in 0..n-1 |-> [a EXCEPT ![j] = o][i]]
         /\ [a EXCEPT ![j] = o][j] = o
         /\ \A i \in 0..n-1 : i # j => [a EXCEPT ![j] = o][i] = a[i]
OBVIOUS

(* A record with its parts named. *)
Parts(rec, size, room, arr) ==
  /\ rec = [null |-> FALSE, size |-> size, alloced |-> room, array |-> arr]
  /\ size \in Nat /\ room \in Nat /\ size <= room
  /\ arr = [k \in 0..room-1 |-> arr[k]]
  /\ \A k \in 0..size-1 : arr[k] \in Elements

LEMMA PartsOK ==
  ASSUME NEW r, NEW s, NEW n, NEW b, Parts(r, s, n, b)
  PROVE  RecOK(r)
BY DEF Parts, RecOK

LEMMA ShortenedIs ==
  ASSUME NEW r, NEW s, NEW n, NEW b,
         r = [null |-> FALSE, size |-> s, alloced |-> n, array |-> b]
  PROVE  Shortened(r) = [null |-> FALSE, size |-> s - 1, alloced |-> n, array |-> b]
<1>1. r.size = s /\ r.null = FALSE /\ r.alloced = n /\ r.array = b
  OBVIOUS
<1>2. Shortened(r) = [r EXCEPT !.size = s - 1]
  BY <1>1 DEF Shortened
<1> QED BY <1>2

IsList(s, n, S) == n \in Nat /\ s \in [1..n -> S]
Longer(s, n, o) == [i \in 1..n + 1 |-> IF i <= n THEN s[i] ELSE o]

LEMMA AppendIs ==
  ASSUME NEW S, NEW n, NEW s, NEW o, IsList(s, n, S)
  PROVE  Append(s, o) = Longer(s, n, o)
<1>0. n \in Nat /\ s \in [1..n -> S]
  BY DEF IsList
<1>1. s \in Seq(S) /\ Len(s) = n
  BY <1>0
<1>2. s \in Seq(S \union {o}) /\ o \in S \union {o}
  BY <1>1
<1>3. /\ Append(s, o) \in Seq(S \union {o})
      /\ Len(Append(s, o)) = n + 1
      /\ \A i \in 1..n : Append(s, o)[i] = s[i]
      /\ Append(s, o)[n + 1] = o
  BY <1>0, <1>1, <1>2
<1>4. DOMAIN Append(s, o) = 1..n + 1
  BY <1>0, <1>3
<1>5. ASSUME NEW i \in 1..n + 1
      PROVE  Append(s, o)[i] = IF i <= n THEN s[i] ELSE o
  BY <1>0, <1>3
<1>6. Append(s, o) \in [1..n + 1 -> S \union {o}]
  BY <1>3, LenProperties
<1> QED BY <1>5, <1>6 DEF Longer

-----------------------------------------------------------------------------
(* The list of a record, and of a good one element by element. *)
LEMMA ListOfRec ==
  ASSUME NEW r, RecOK(r)
  PROVE  ListOf(r) = [i \in 1..r.size |-> r.array[i - 1]]
<1> SUFFICES ASSUME NEW i \in 1..r.size PROVE Element(r, i - 1) = r.array[i - 1]
  BY DEF ListOf
<1>1. ~r.null
  BY DEF RecOK, NoVecRec
<1> QED BY <1>1 DEF Element, InBounds, Index, RecOK

LEMMA InitRefines == NewVector => RecOK(vec) /\ L!Init
<1> SUFFICES ASSUME NewVector PROVE RecOK(vec) /\ L!Init
  OBVIOUS
<1>1. RecOK(vec)
  BY EmptyOK DEF NewVector
<1>2. List = <<>>
  <2>1. vec.size = 0
    BY DEF NewVector, NoVecRec
  <2> QED BY <1>1, <2>1, ListOfRec DEF List
<1> QED BY <1>1, <1>2 DEF L!Init, NoKeys

(* naVec_append puts one more at the end. *)
LEMMA Appending ==
  ASSUME NEW v, RecOK(v), NEW o \in Elements, NEW w, w = Appended(v, o)
  PROVE  /\ RecOK(w) /\ w.size = v.size + 1 /\ ~w.null
         /\ ListOf(w) = Longer(ListOf(v), v.size, o)
         /\ w = [null |-> FALSE, size |-> v.size + 1, alloced |-> WithRoom(v).alloced,
                 array |-> [WithRoom(v).array EXCEPT ![v.size] = o]]
<1> DEFINE r == WithRoom(v)
<1>1. /\ RecOK(r) /\ ~r.null /\ r.size = v.size /\ v.size < r.alloced
      /\ \A i \in 0..v.size-1 : r.array[i] = v.array[i]
  BY WithRoomKeeps
<1>2. w = [r EXCEPT !.array[v.size] = o, !.size = v.size + 1]
  BY DEF Appended
<1> HIDE DEF r
<1>3. w = [null |-> FALSE, size |-> v.size + 1, alloced |-> r.alloced,
           array |-> [r.array EXCEPT ![v.size] = o]]
  BY <1>1, <1>2 DEF RecOK
<1>4. v.size \in Nat /\ r.alloced \in Nat
      /\ r.array = [i \in 0..r.alloced-1 |-> r.array[i]]
  BY <1>1 DEF RecOK
<1>5. /\ w.array[v.size] = o
      /\ \A i \in 0..v.size-1 : w.array[i] = v.array[i]
      /\ w.array = [i \in 0..r.alloced-1 |-> w.array[i]]
  <2>1. w.array = [r.array EXCEPT ![v.size] = o]
    BY <1>3
  <2>2. v.size \in 0..r.alloced-1
    BY <1>1, <1>4
  <2>3. /\ w.array = [i \in 0..r.alloced-1 |-> w.array[i]]
        /\ w.array[v.size] = o
        /\ \A i \in 0..r.alloced-1 : i # v.size => w.array[i] = r.array[i]
    BY <1>4, <2>1, <2>2, ArrayUpdate
  <2>4. ASSUME NEW i \in 0..v.size-1 PROVE w.array[i] = v.array[i]
    <3>1. i \in 0..r.alloced-1 /\ i # v.size
      BY <1>4, <2>2
    <3> QED BY <1>1, <2>3, <3>1
  <2> QED BY <2>3, <2>4
<1>6. RecOK(w)
  <2>1. PICK q, m, a, b : q = w /\ m = v.size /\ a = r.alloced /\ b = w.array
    OBVIOUS
  <2>2. /\ q = [null |-> FALSE, size |-> m + 1, alloced |-> a, array |-> b]
        /\ m \in Nat /\ a \in Nat /\ m < a
        /\ b = [i \in 0..a-1 |-> b[i]]
    <3>1. w.array = [r.array EXCEPT ![v.size] = o]
      BY <1>3
    <3>2. q = [null |-> FALSE, size |-> m + 1, alloced |-> a, array |-> b]
      BY <1>3, <2>1, <3>1
    <3>3. b = [i \in 0..a-1 |-> b[i]]
      BY <1>5, <2>1
    <3> QED
      BY <1>1, <1>4, <2>1, <3>2, <3>3
  <2>3. \A i \in 0..m-1 : b[i] \in Elements
    BY <1>5, <2>1 DEF RecOK
  <2>4. b[m] \in Elements
    BY <1>5, <2>1
  <2>5. ASSUME NEW i \in 0..m + 1 - 1 PROVE b[i] \in Elements
    <3>1. i = m \/ i \in 0..m - 1
      BY <2>2
    <3> QED BY <2>3, <2>4, <3>1
  <2>6. m + 1 \in Nat /\ m + 1 <= a
    BY <2>2
  <2>7. Parts(q, m + 1, a, b)
    BY <2>2, <2>5, <2>6 DEF Parts
  <2> QED BY <2>1, <2>7, PartsOK
<1>7. w.size = v.size + 1 /\ ~w.null
  BY <1>3
<1>8. ListOf(w) = [i \in 1..v.size + 1 |-> w.array[i - 1]]
  BY <1>6, <1>7, ListOfRec
<1>9. ListOf(v) = [i \in 1..v.size |-> v.array[i - 1]]
  BY ListOfRec
<1>10. ASSUME NEW i \in 1..v.size + 1
       PROVE  w.array[i - 1] = IF i <= v.size THEN ListOf(v)[i] ELSE o
  <2>1. CASE i <= v.size
    <3>1. i \in 1..v.size /\ i - 1 \in 0..v.size-1
      BY <1>4, <2>1
    <3>2. ListOf(v)[i] = v.array[i - 1]
      BY <1>9, <3>1
    <3> QED BY <1>5, <2>1, <3>1, <3>2
  <2>2. CASE ~(i <= v.size)
    <3>1. i - 1 = v.size
      BY <1>4, <2>2
    <3> QED BY <1>5, <2>2, <3>1
  <2> QED BY <2>1, <2>2
<1> QED BY <1>3, <1>6, <1>7, <1>8, <1>10 DEF r, Longer

LEMMA ListType ==
  ASSUME NEW r, RecOK(r)
  PROVE  r.size \in Nat /\ ListOf(r) \in [1..r.size -> Elements]
<1>1. ListOf(r) = [i \in 1..r.size |-> r.array[i - 1]] /\ r.size \in Nat
  BY ListOfRec DEF RecOK
<1>2. \A i \in 1..r.size : r.array[i - 1] \in Elements
  BY <1>1 DEF RecOK
<1> QED BY <1>1, <1>2

LEMMA AppendRefines ==
  ASSUME RecOK(vec), NEW o \in Refs, AppendRef(o)
  PROVE  RecOK(vec)' /\ L!Append1(o)
<1>1. vec' = Appended(vec, o) /\ o \in Elements
  BY DEF AppendRef, Elements
<1>2. /\ RecOK(vec')
      /\ ListOf(vec') = Longer(List, vec.size, o)
  BY <1>1, Appending DEF List
<1>3. List' = Append(List, o)
  <2>1. IsList(List, vec.size, Elements)
    BY ListType DEF IsList, List
  <2>2. Append(List, o) = Longer(List, vec.size, o)
    BY <2>1, AppendIs
  <2>3. List' = ListOf(vec')
    BY DEF List
  <2> QED BY <1>2, <2>2, <2>3
<1> QED BY <1>2, <1>3 DEF L!Append1, NoKeys

LEMMA RemoveLastRefines ==
  ASSUME RecOK(vec), RemoveLast
  PROVE  RecOK(vec)' /\ L!RemoveLast
<1> DEFINE r == Shortened(vec)
<1>1. r = [null |-> FALSE, size |-> vec.size - 1, alloced |-> vec.alloced,
           array |-> vec.array]
  <2>1. vec = [null |-> FALSE, size |-> vec.size, alloced |-> vec.alloced,
               array |-> vec.array]
    BY DEF RecOK, RemoveLast
  <2>2. ~vec.null /\ vec.null \in BOOLEAN
    BY DEF RecOK, RemoveLast
  <2>3. vec.null = FALSE
    BY <2>2
  <2>4. vec = [null |-> FALSE, size |-> vec.size, alloced |-> vec.alloced,
               array |-> vec.array]
    BY <2>1, <2>3
  <2>5. PICK s, a, b : vec = [null |-> FALSE, size |-> s, alloced |-> a, array |-> b]
    BY <2>4
  <2>6. vec.size = s /\ vec.alloced = a /\ vec.array = b
    BY <2>5
  <2>7. r = [null |-> FALSE, size |-> s - 1, alloced |-> a, array |-> b]
    BY <2>5, ShortenedIs
  <2> HIDE DEF r
  <2> QED BY <2>6, <2>7
<1>2. vec.size \in Nat /\ vec.size > 0 /\ vec.alloced \in Nat /\ vec.size <= vec.alloced
  BY DEF RemoveLast, RecOK
<1>3. RecOK(r)
  BY <1>1, <1>2 DEF RecOK, RemoveLast
<1> HIDE DEF r
<1>4. vec' = Resized(r) \/ vec' = r
  BY DEF RemoveLast, r
<1>5. RecOK(vec)' /\ vec'.size = vec.size - 1
      /\ \A i \in 0..vec.size-2 : vec'.array[i] = vec.array[i]
  <2>1. r.size = vec.size - 1 /\ r.size \in Nat /\ r.array = vec.array
    BY <1>1, <1>2
  <2>2. \A i \in 0..r.size-1 : r.array[i] \in Elements
    BY <1>3 DEF RecOK
  <2>3. /\ RecOK(Resized(r)) /\ Resized(r).size = r.size
        /\ \A i \in 0..r.size-1 : Resized(r).array[i] = r.array[i]
    BY <2>1, <2>2, ResizedKeeps
  <2>4. CASE vec' = Resized(r)
    BY <1>2, <2>1, <2>3, <2>4
  <2>5. CASE vec' = r
    BY <1>2, <1>3, <2>1, <2>5
  <2> QED BY <1>4, <2>4, <2>5
<1>6. List' = [i \in 1..vec.size - 1 |-> vec'.array[i - 1]]
  BY <1>5, ListOfRec DEF List
<1>7. List = [i \in 1..vec.size |-> vec.array[i - 1]]
  BY ListOfRec DEF List
<1>8. Len(List) = vec.size /\ List # <<>>
  BY <1>2, <1>7
<1>9. List' = SubSeq(List, 1, Len(List) - 1)
  BY <1>2, <1>5, <1>6, <1>7, <1>8
<1> QED BY <1>5, <1>8, <1>9 DEF L!RemoveLast, NoKeys

LEMMA SetSizeRefines ==
  ASSUME RecOK(vec), NEW n \in 0..MaxSize, SetSize(n)
  PROVE  RecOK(vec)' /\ L!SetSize(n)
<1>1. n \in Nat
  BY VectorAssumption
<1>2. vec' = [null |-> FALSE, size |-> n, alloced |-> n,
              array |-> [i \in 0..n-1 |-> IF i < n THEN Kept(vec, i) ELSE Junk]]
  BY DEF SetSize, Record
<1>3. \A i \in 0..n-1 : vec'.array[i] = Kept(vec, i)
  BY <1>1, <1>2
<1>4. \A i \in 0..n-1 : Kept(vec, i) \in Elements
  BY <1>1 DEF Kept, RecOK, Elements
<1>5. RecOK(vec)'
  BY <1>1, <1>2, <1>3, <1>4 DEF RecOK
<1>6. List' = [i \in 1..n |-> vec'.array[i - 1]]
  BY <1>2, <1>5, ListOfRec DEF List
<1>7. List = [i \in 1..vec.size |-> vec.array[i - 1]] /\ vec.size \in Nat
  BY ListOfRec DEF List, RecOK
<1>8. ~vec.null \/ vec.size = 0
  BY DEF RecOK, NoVecRec
<1>9. ASSUME NEW i \in 1..n
      PROVE  vec'.array[i - 1] = IF i <= Len(List) THEN List[i] ELSE Nil
  BY <1>1, <1>3, <1>7, <1>8 DEF Kept
<1> QED BY <1>5, <1>6, <1>9 DEF L!SetSize, NoKeys

LEMMA SetElementRefines ==
  ASSUME RecOK(vec), NEW i \in (-MaxSize)..MaxSize, NEW o \in Refs, SetElement(i, o)
  PROVE  RecOK(vec)' /\ \E k \in DOMAIN List : L!SetElement(k, o)
<1> DEFINE j == Index(vec, i)
<1>1. j \in 0..vec.size-1 /\ vec.size \in Nat
  BY VectorAssumption DEF SetElement, InBounds, Index, RecOK
<1>2. vec' = [vec EXCEPT !.array[j] = o]
  BY DEF SetElement
<1> HIDE DEF j
<1>3. ~vec.null
  BY <1>1 DEF RecOK, NoVecRec
<1>4. /\ vec' = [null |-> FALSE, size |-> vec.size, alloced |-> vec.alloced,
                 array |-> [vec.array EXCEPT ![j] = o]]
      /\ vec.array = [k \in 0..vec.alloced-1 |-> vec.array[k]]
      /\ vec.alloced \in Nat /\ vec.size <= vec.alloced
  BY <1>2, <1>3 DEF RecOK
<1>5. /\ vec'.array = [k \in 0..vec.alloced-1 |-> vec'.array[k]]
      /\ \A k \in 0..vec.size-1 : vec'.array[k] = IF k = j THEN o ELSE vec.array[k]
  <2>1. vec'.array = [vec.array EXCEPT ![j] = o]
    BY <1>4
  <2>2. j \in 0..vec.alloced-1
    BY <1>1, <1>4
  <2>3. /\ vec'.array = [k \in 0..vec.alloced-1 |-> vec'.array[k]]
        /\ vec'.array[j] = o
        /\ \A k \in 0..vec.alloced-1 : k # j => vec'.array[k] = vec.array[k]
    BY <1>4, <2>1, <2>2, ArrayUpdate
  <2> QED BY <1>1, <1>4, <2>3
<1>6. RecOK(vec)'
  BY <1>1, <1>4, <1>5 DEF RecOK, Elements
<1>7. List' = [k \in 1..vec.size |-> vec'.array[k - 1]]
  <2>1. vec'.size = vec.size
    BY <1>4
  <2> QED BY <1>6, <2>1, ListOfRec DEF List
<1>8. List = [k \in 1..vec.size |-> vec.array[k - 1]]
  BY ListOfRec DEF List
<1>9. List' = [List EXCEPT ![j + 1] = o] /\ j + 1 \in DOMAIN List
  <2>1. j + 1 \in DOMAIN List /\ DOMAIN List = 1..vec.size
    BY <1>1, <1>8
  <2>2. ASSUME NEW k \in 1..vec.size
        PROVE  vec'.array[k - 1] = IF k = j + 1 THEN o ELSE List[k]
    <3>1. k - 1 \in 0..vec.size-1 /\ (k - 1 = j <=> k = j + 1)
      BY <1>1
    <3>2. List[k] = vec.array[k - 1]
      BY <1>8
    <3> QED BY <1>5, <3>1, <3>2
  <2>3. [List EXCEPT ![j + 1] = o] =
          [k \in 1..vec.size |-> IF k = j + 1 THEN o ELSE List[k]]
    BY <2>1
  <2> QED BY <1>7, <2>1, <2>2, <2>3
<1> QED BY <1>6, <1>9 DEF L!SetElement, NoKeys

LEMMA NextRefines ==
  RecOK(vec) /\ [NextVector]_vec => RecOK(vec)' /\ [L!Next]_<<NoKeys, List>>
<1> SUFFICES ASSUME RecOK(vec), [NextVector]_vec
             PROVE  RecOK(vec)' /\ [L!Next]_<<NoKeys, List>>
  OBVIOUS
<1>1. ASSUME NEW o \in Refs, AppendRef(o) PROVE RecOK(vec)' /\ L!Next
  BY <1>1, AppendRefines DEF L!Next
<1>2. CASE RemoveLast
  BY <1>2, RemoveLastRefines DEF L!Next
<1>3. ASSUME NEW n \in 0..MaxSize, SetSize(n) PROVE RecOK(vec)' /\ L!Next
  BY <1>3, SetSizeRefines DEF L!Next
<1>4. ASSUME NEW i \in (-MaxSize)..MaxSize, NEW o \in Refs, SetElement(i, o)
      PROVE  RecOK(vec)' /\ L!Next
  BY <1>4, SetElementRefines DEF L!Next
<1>5. CASE UNCHANGED vec
  BY <1>5 DEF List, ListOf, Element, InBounds, Index, RecOK, NoKeys
<1> QED BY <1>1, <1>2, <1>3, <1>4, <1>5 DEF NextVector

-----------------------------------------------------------------------------
(* A vector, however it is grown, shrunk, cut and written to, is a list:    *)
(* naVec_append, naVec_removelast, naVec_setsize and v[i] = o do what the   *)
(* same operations do to a sequence.                                        *)
THEOREM VectorIsList == SpecVector => L!Spec
BY InitRefines, NextRefines, PTL DEF SpecVector, L!Spec

-----------------------------------------------------------------------------
(* The records of vectors: keys() makes one by a recursion over the keys.   *)
VecRecs ==
  [null : BOOLEAN, size : Nat, alloced : Nat,
   array : UNION {[0..n-1 -> Elements \union {Junk}] : n \in Nat}]

LEMMA EmptyTyped == NoVecRec \in VecRecs
<1>1. <<>> \in [0..0-1 -> Elements \union {Junk}] /\ 0 \in Nat
  OBVIOUS
<1> QED BY <1>1 DEF NoVecRec, VecRecs

LEMMA AppendTyped ==
  ASSUME NEW v, RecOK(v), v \in VecRecs, NEW o \in Elements
  PROVE  Appended(v, o) \in VecRecs
<1> DEFINE r == WithRoom(v)
           w == Appended(v, o)
<1>1. /\ w.size = v.size + 1
      /\ w = [null |-> FALSE, size |-> v.size + 1, alloced |-> r.alloced,
              array |-> [r.array EXCEPT ![v.size] = o]]
  BY Appending
<1>2. v.size \in Nat /\ \A i \in 0..v.size-1 : v.array[i] \in Elements
  BY DEF RecOK
<1>3. r.alloced \in Nat /\ r.array \in UNION {[0..n-1 -> Elements \union {Junk}] : n \in Nat}
  <2>1. CASE r = v
    BY <2>1 DEF VecRecs
  <2>2. CASE r = Resized(v)
    <3>1. NewSize(v.size) \in Nat
      BY <1>2, NewSizeGrows
    <3>2. r.alloced = NewSize(v.size)
          /\ r.array = [i \in 0..NewSize(v.size)-1 |-> IF i < v.size THEN v.array[i] ELSE Junk]
      BY <2>2 DEF Resized, Record
    <3>3. r.array \in [0..NewSize(v.size)-1 -> Elements \union {Junk}]
      BY <1>2, <3>1, <3>2
    <3> QED BY <3>1, <3>2, <3>3
  <2> QED BY <2>1, <2>2 DEF WithRoom
<1> HIDE DEF r, w
<1>4. PICK n \in Nat : r.array \in [0..n-1 -> Elements \union {Junk}]
  BY <1>3
<1>5. [r.array EXCEPT ![v.size] = o] \in [0..n-1 -> Elements \union {Junk}]
  BY <1>4
<1>6. w \in VecRecs
  BY <1>1, <1>2, <1>3, <1>5 DEF VecRecs
<1> QED BY <1>6 DEF w

(* f_keys makes a vector of the keys, in their order.                       *)
LEMMA AllAppended ==
  ASSUME NEW n \in Nat, NEW keys \in [1..n -> Keys]
  PROVE  /\ RecOK(AppendAll(keys)) /\ AppendAll(keys).size = n
         /\ ListOf(AppendAll(keys)) = keys
<1> DEFINE Step1(i, x) == IF Appended(x, keys[i + 1]) \in VecRecs
                          THEN Appended(x, keys[i + 1]) ELSE x
           step == [i \in Nat |-> [x \in VecRecs |-> Step1(i, x)]]
<1>1. Len(keys) = n
  OBVIOUS
<1>2. step \in [Nat -> [VecRecs -> VecRecs]]
  OBVIOUS
<1> HIDE DEF step
<1>3. PICK T : Solves(T, VecRecs, NoVecRec, step)
  BY <1>2, EmptyTyped, Recursion
<1>4. T \in [Nat -> VecRecs] /\ T[0] = NoVecRec
      /\ \A i \in Nat : T[i + 1] = step[i][T[i]]
  BY <1>3 DEF Solves
<1>5. ASSUME NEW i \in Nat PROVE T[i + 1] = Step1(i, T[i])
  BY <1>4 DEF step
<1> DEFINE Is(i) == /\ RecOK(T[i]) /\ T[i].size = i
                    /\ \A j \in 1..i : ListOf(T[i])[j] = keys[j]
           V == {i \in Nat : i <= n => Is(i)}
<1>6. 0 \in V
  <2>1. NoVecRec.size = 0
    BY DEF NoVecRec
  <2>2. Is(0)
    BY <1>4, <2>1, EmptyOK
  <2> QED BY <2>2
<1>7. ASSUME NEW i \in Nat, i < n, Is(i)
      PROVE  T[i + 1] = Appended(T[i], keys[i + 1]) /\ Is(i + 1)
  <2> DEFINE o == keys[i + 1]
  <2>1. o \in Elements
    BY <1>7 DEF Elements
  <2>2. Appended(T[i], o) \in VecRecs
    BY <1>4, <1>7, <2>1, AppendTyped
  <2>3. T[i + 1] = Appended(T[i], o)
    BY <1>5, <2>2
  <2>4. /\ RecOK(T[i + 1]) /\ T[i + 1].size = T[i].size + 1
        /\ ListOf(T[i + 1]) = Longer(ListOf(T[i]), T[i].size, o)
    <3>1. RecOK(T[i])
      BY <1>7
    <3> HIDE DEF Is, o
    <3> QED BY <2>1, <2>3, <3>1, Appending
  <2>5. ASSUME NEW j \in 1..i + 1 PROVE ListOf(T[i + 1])[j] = keys[j]
    <3>1. CASE j <= i
      BY <1>7, <2>4, <3>1 DEF Longer
    <3>2. CASE j = i + 1
      BY <1>7, <2>4, <3>2 DEF Longer
    <3> QED BY <3>1, <3>2
  <2>6. T[i + 1].size = i + 1
    BY <1>7, <2>4
  <2> QED BY <2>3, <2>4, <2>5, <2>6
<1>8. \A i \in 0..n : Is(i)
  <2>1. ASSUME NEW i \in Nat, i \in V PROVE i + 1 \in V
    BY <1>7, <2>1
  <2>2. Nat \subseteq V
    <3> HIDE DEF V
    <3> QED BY <1>6, <2>1, NatInd
  <2> QED BY <2>2
<1> DEFINE F(h, i) == IF i = 0 THEN NoVecRec ELSE Appended(h[i - 1], keys[i])
           g == [i \in 0..n |-> T[i]]
           u == CHOOSE h : h = [i \in 0..n |-> F(h, i)]
<1>9. ASSUME NEW i \in 0..n PROVE g[i] = F(g, i)
  <2>1. CASE i = 0
    BY <1>4, <2>1
  <2>2. CASE i # 0
    <3>1. i - 1 \in Nat /\ i - 1 < n /\ (i - 1) + 1 = i /\ i - 1 \in 0..n
      BY <2>2
    <3>2. Is(i - 1)
      BY <1>8, <3>1
    <3> HIDE DEF Is
    <3>3. T[(i - 1) + 1] = Appended(T[i - 1], keys[(i - 1) + 1])
      BY <1>7, <3>1, <3>2
    <3> QED BY <2>2, <3>1, <3>3
  <2> QED BY <2>1, <2>2
<1>10. u = [i \in 0..n |-> F(u, i)]
  <2>1. g = [i \in 0..n |-> F(g, i)]
    BY <1>9
  <2> HIDE DEF g
  <2> QED BY <2>1
<1>11. AppendAll(keys) = u[n]
  BY <1>1 DEF AppendAll
<1> HIDE DEF u, Is
<1> DEFINE W == {i \in Nat : i <= n => u[i] = T[i]}
<1>12. n \in W
  <2>1. 0 \in W
    BY <1>4, <1>10
  <2>2. ASSUME NEW i \in Nat, i \in W PROVE i + 1 \in W
    <3> SUFFICES ASSUME i + 1 <= n PROVE u[i + 1] = T[i + 1]
      OBVIOUS
    <3>1. i + 1 \in 0..n /\ i + 1 # 0 /\ (i + 1) - 1 = i /\ i < n /\ i <= n /\ i \in 0..n
      OBVIOUS
    <3>2. u[i + 1] = Appended(u[i], keys[i + 1])
      BY <1>10, <3>1
    <3>3. T[i + 1] = Appended(T[i], keys[i + 1])
      BY <1>7, <1>8, <3>1
    <3>4. u[i] = T[i]
      BY <2>2, <3>1
    <3> QED BY <3>2, <3>3, <3>4
  <2> HIDE DEF W
  <2>3. Nat \subseteq W
    BY <2>1, <2>2, NatInd
  <2> QED BY <2>3
<1>13. AppendAll(keys) = T[n] /\ Is(n)
  BY <1>8, <1>11, <1>12
<1>14. RecOK(T[n]) /\ T[n].size = n /\ \A j \in 1..n : ListOf(T[n])[j] = keys[j]
  BY <1>13 DEF Is
<1>15. ListOf(T[n]) \in [1..n -> Elements]
  BY <1>14, ListType
<1>16. ListOf(T[n]) = keys
  BY <1>14, <1>15
<1> QED BY <1>13, <1>14, <1>16

-----------------------------------------------------------------------------
(* The list of names that Collections has for a vector.                     *)
NamedList(r) == [i \in 1..r.size |-> NameOf(ListOf(r)[i])]

CInv == HInv /\ RecOK(vec)

LEMMA NamesOf ==
  /\ \A r \in Refs \union {Nil} : NameOf(r) = r
  /\ \A k \in Keys : NameOf(k) = Name[k]
BY ContainersAssumption DEF NameOf

LEMMA ListLen ==
  ASSUME NEW r, RecOK(r)
  PROVE  /\ r.size \in Nat
         /\ ListOf(r) \in Seq(Elements) /\ Len(ListOf(r)) = r.size
         /\ Len(NamedList(r)) = r.size /\ DOMAIN NamedList(r) = 1..r.size
         /\ \A i \in 1..r.size : NamedList(r)[i] = NameOf(ListOf(r)[i])
<1>1. r.size \in Nat /\ ListOf(r) \in [1..r.size -> Elements]
  BY ListType
<1>2. ListOf(r) \in Seq(Elements) /\ Len(ListOf(r)) = r.size
  BY <1>1
<1> QED BY <1>1, <1>2 DEF NamedList

(* Each operation on the list is the same operation on the list of names.   *)
LEMMA NamedAppend ==
  ASSUME RecOK(vec), RecOK(vec'), NEW o \in Refs, ListOf(vec') = Append(ListOf(vec), o)
  PROVE  NamedList(vec') = Append(NamedList(vec), o)
<1>1. PICK n, s, t, a, b :
        /\ n \in Nat /\ n = vec.size /\ s = ListOf(vec) /\ t = ListOf(vec')
        /\ a = NamedList(vec) /\ b = NamedList(vec')
  BY ListLen
<1>2. s \in [1..n -> Elements]
  BY <1>1, ListType
<1>3. t = Longer(s, n, o)
  <2>1. IsList(s, n, Elements)
    BY <1>1, <1>2 DEF IsList
  <2> QED BY <1>1, <2>1, AppendIs
<1>4. Len(t) = n + 1
  BY <1>1, <1>3 DEF Longer
<1>5. vec'.size = n + 1
  BY <1>1, <1>4, ListLen
<1>6. a = [i \in 1..n |-> NameOf(s[i])] /\ b = [i \in 1..n + 1 |-> NameOf(t[i])]
  BY <1>1, <1>5 DEF NamedList
<1> DEFINE NV == {NameOf(x) : x \in Elements}
<1>7. IsList(a, n, NV)
  BY <1>1, <1>2, <1>6 DEF IsList
<1> HIDE DEF NV
<1>8. Append(a, o) = Longer(a, n, o)
  BY <1>7, AppendIs
<1>9. \A i \in 1..n + 1 : NameOf(t[i]) = IF i <= n THEN a[i] ELSE o
  BY <1>1, <1>3, <1>6, NamesOf DEF Longer
<1> QED BY <1>1, <1>6, <1>8, <1>9 DEF Longer

LEMMA NamedRemove ==
  ASSUME RecOK(vec), RecOK(vec'), ListOf(vec) # <<>>,
         ListOf(vec') = SubSeq(ListOf(vec), 1, Len(ListOf(vec)) - 1)
  PROVE  /\ NamedList(vec) # <<>>
         /\ NamedList(vec') = SubSeq(NamedList(vec), 1, Len(NamedList(vec)) - 1)
<1>1. PICK n, s, t, a, b :
        /\ n \in Nat /\ n = vec.size /\ s = ListOf(vec) /\ t = ListOf(vec')
        /\ a = NamedList(vec) /\ b = NamedList(vec')
  BY ListLen
<1>2. s \in [1..n -> Elements] /\ Len(s) = n /\ s # <<>> /\ s \in Seq(Elements)
  BY <1>1, ListType
<1>3. n - 1 \in Nat
  BY <1>1, <1>2
<1>4. t = [i \in 1..n - 1 |-> s[i]]
  BY <1>1, <1>2, <1>3
<1>5. vec'.size = n - 1
  <2>1. Len(t) = n - 1
    BY <1>3, <1>4
  <2> QED BY <1>1, <2>1, ListLen
<1>6. a = [i \in 1..n |-> NameOf(s[i])] /\ b = [i \in 1..n - 1 |-> NameOf(t[i])]
  BY <1>1, <1>5 DEF NamedList
<1>7. Len(a) = n /\ a # <<>>
  <2>1. Len(a) = n /\ n # 0
    BY <1>1, <1>3, ListLen
  <2> QED BY <2>1
<1>8. SubSeq(a, 1, n - 1) = [i \in 1..n - 1 |-> a[i]]
  BY <1>1, <1>3, <1>6, <1>7
<1>9. \A i \in 1..n - 1 : NameOf(t[i]) = a[i]
  BY <1>1, <1>3, <1>4, <1>6
<1> QED BY <1>1, <1>6, <1>7, <1>8, <1>9

LEMMA NamedSetSize ==
  ASSUME RecOK(vec), RecOK(vec'), NEW n \in Nat,
         ListOf(vec') = [i \in 1..n |-> IF i <= Len(ListOf(vec)) THEN ListOf(vec)[i] ELSE Nil]
  PROVE  NamedList(vec') =
           [i \in 1..n |-> IF i <= Len(NamedList(vec)) THEN NamedList(vec)[i] ELSE Nil]
<1>1. PICK m, s, t : m \in Nat /\ m = vec.size /\ s = ListOf(vec) /\ t = ListOf(vec')
  BY ListLen
<1>2. Len(s) = m /\ Len(NamedList(vec)) = m
      /\ \A i \in 1..m : NamedList(vec)[i] = NameOf(s[i])
  BY <1>1, ListLen
<1>3. t = [i \in 1..n |-> IF i <= m THEN s[i] ELSE Nil]
  BY <1>1, <1>2
<1>4. vec'.size = n
  <2>1. Len(t) = n
    BY <1>3
  <2> QED BY <1>1, <2>1, ListLen
<1>5. NamedList(vec') = [i \in 1..n |-> NameOf(t[i])]
  BY <1>1, <1>4 DEF NamedList
<1>6. ASSUME NEW i \in 1..n
      PROVE  NameOf(t[i]) = IF i <= m THEN NamedList(vec)[i] ELSE Nil
  BY <1>2, <1>3, NamesOf
<1> QED BY <1>2, <1>5, <1>6

LEMMA NamedSetElement ==
  ASSUME RecOK(vec), RecOK(vec'), NEW o \in Refs, NEW k \in DOMAIN ListOf(vec),
         ListOf(vec') = [ListOf(vec) EXCEPT ![k] = o]
  PROVE  k \in DOMAIN NamedList(vec) /\ NamedList(vec') = [NamedList(vec) EXCEPT ![k] = o]
<1>1. PICK n, s, t, a :
        n \in Nat /\ n = vec.size /\ s = ListOf(vec) /\ t = ListOf(vec') /\ a = NamedList(vec)
  BY ListLen
<1>2. s \in [1..n -> Elements] /\ a = [i \in 1..n |-> NameOf(s[i])] /\ k \in 1..n
  BY <1>1, ListType DEF NamedList
<1>3. t = [i \in 1..n |-> IF i = k THEN o ELSE s[i]]
  BY <1>1, <1>2
<1>4. vec'.size = n
  <2>1. Len(t) = n
    BY <1>1, <1>3
  <2> QED BY <1>1, <2>1, ListLen
<1>5. NamedList(vec') = [i \in 1..n |-> NameOf(t[i])]
  BY <1>1, <1>4 DEF NamedList
<1>6. [a EXCEPT ![k] = o] = [i \in 1..n |-> IF i = k THEN o ELSE a[i]]
  BY <1>2
<1>7. ASSUME NEW i \in 1..n PROVE NameOf(t[i]) = IF i = k THEN o ELSE a[i]
  BY <1>2, <1>3, NamesOf
<1> QED BY <1>1, <1>2, <1>5, <1>6, <1>7

(* C's list is the list of names, now and in the next state.                *)
CList == [i \in 1..vec.size |-> NameOf(List[i])]

LEMMA CListIs ==
  /\ CList = NamedList(vec) /\ CList' = NamedList(vec')
  /\ List = ListOf(vec) /\ List' = ListOf(vec')
BY DEF CList, NamedList, List, NameOf

(* keys() makes a list of the names that are in the map.                    *)
LEMMA ListingRefines ==
  ASSUME NoEmptyKey, CInv, ListKeys
  PROVE  CInv' /\ C!ListNames
<1> DEFINE keys == KeyList(hash)
           n == hash.size
           P == {m \in Names : Get(hash, m) # None}
<1>1. Good(hash) /\ code \in HashCodes
  BY DEF ListKeys, CInv, HInv, HashOK, NoHashRec
<1>2. vec' = AppendAll(keys) /\ hash' = hash /\ code' = code
  BY DEF ListKeys, hashVars
<1>3. /\ n \in Nat
      /\ keys \in [1..n -> {KeyIn(hash, c) : c \in LiveCells(hash)}]
      /\ \A i, j \in 1..n : Name[keys[i]] = Name[keys[j]] => i = j
      /\ \A c \in LiveCells(hash) : \E i \in 1..n : keys[i] = KeyIn(hash, c)
  BY <1>1, KeysListed
<1>4. P = {NameOfCell(hash, c) : c \in LiveCells(hash)}
  BY <1>1, Presence
<1> HIDE DEF keys, n, P
<1>5. \A c \in LiveCells(hash) : KeyIn(hash, c) \in Keys
  BY <1>1 DEF Good
<1>6. keys \in [1..n -> Keys]
  BY <1>3, <1>5
<1>7. RecOK(vec') /\ vec'.size = n /\ ListOf(vec') = keys
  BY <1>2, <1>3, <1>6, AllAppended
<1>8. CList' = [i \in 1..n |-> Name[keys[i]]]
  BY <1>6, <1>7, CListIs, NamesOf DEF NamedList
<1>9. C!Present = P
  <2>1. \A m \in Names : Map[m] = Get(hash, m)
    BY DEF Map
  <2> QED BY <2>1 DEF C!Present, P
<1>10. ASSUME NEW i \in 1..n PROVE Name[keys[i]] \in P
  <2>1. PICK c \in LiveCells(hash) : keys[i] = KeyIn(hash, c)
    BY <1>3
  <2> QED BY <1>4, <2>1 DEF NameOfCell
<1>11. ASSUME NEW m \in P PROVE \E i \in 1..n : Name[keys[i]] = m
  <2>1. PICK c \in LiveCells(hash) : NameOfCell(hash, c) = m
    BY <1>4
  <2>2. PICK i \in 1..n : keys[i] = KeyIn(hash, c)
    BY <1>3
  <2> QED BY <2>1, <2>2 DEF NameOfCell
<1>12. Map' = Map
  BY <1>2 DEF Map, Get, Lookup, FindCell, FirstStop
<1>13. HInv'
  BY <1>2 DEF CInv, HInv, HashOK, Good, Reaches, IsRec
<1>14. RecOK(vec)'
  BY <1>7 DEF RecOK
<1>15. C!ListNames
  <2>1. CList' \in [1..n -> P] /\ DOMAIN CList' = 1..n
    BY <1>8, <1>10
  <2>2. CList' \in Seq(P)
    BY <1>3, <2>1
  <2>3. \A i, j \in 1..n : CList'[i] = CList'[j] => i = j
    BY <1>3, <1>8
  <2>4. \A m \in P : \E i \in 1..n : CList'[i] = m
    BY <1>8, <1>11
  <2> QED BY <1>9, <1>12, <2>1, <2>2, <2>3, <2>4 DEF C!ListNames, CList
<1> QED BY <1>13, <1>14, <1>15 DEF CInv

LEMMA VectorStep ==
  ASSUME CInv, UNCHANGED hashVars
  PROVE  /\ HInv' /\ Map' = Map /\ RecOK(vec)
<1>1. hash' = hash /\ code' = code
  BY DEF hashVars
<1>2. HInv'
  BY <1>1 DEF CInv, HInv, HashOK, Good, Reaches, IsRec
<1>3. Map' = Map
  BY <1>1 DEF Map, Get, Lookup, FindCell, FirstStop
<1> QED BY <1>2, <1>3 DEF CInv

LEMMA AppendStep ==
  ASSUME CInv, UNCHANGED hashVars, NEW o \in Refs, AppendRef(o)
  PROVE  CInv' /\ C!Append1(o)
<1>1. HInv' /\ Map' = Map /\ RecOK(vec)
  BY VectorStep
<1>2. RecOK(vec)' /\ L!Append1(o)
  BY <1>1, AppendRefines
<1>3. RecOK(vec') /\ ListOf(vec') = Append(ListOf(vec), o)
  BY <1>2, CListIs DEF L!Append1, RecOK
<1>4. CList' = Append(CList, o)
  BY <1>1, <1>3, NamedAppend, CListIs
<1> QED BY <1>1, <1>2, <1>4 DEF CInv, C!Append1, CList

LEMMA RemoveStep ==
  ASSUME CInv, UNCHANGED hashVars, RemoveLast
  PROVE  CInv' /\ C!RemoveLast
<1>1. HInv' /\ Map' = Map /\ RecOK(vec)
  BY VectorStep
<1>2. RecOK(vec)' /\ L!RemoveLast
  BY <1>1, RemoveLastRefines
<1>3. /\ RecOK(vec') /\ ListOf(vec) # <<>>
      /\ ListOf(vec') = SubSeq(ListOf(vec), 1, Len(ListOf(vec)) - 1)
  BY <1>2, CListIs DEF L!RemoveLast, RecOK
<1>4. CList # <<>> /\ CList' = SubSeq(CList, 1, Len(CList) - 1)
  BY <1>1, <1>3, NamedRemove, CListIs
<1> QED BY <1>1, <1>2, <1>4 DEF CInv, C!RemoveLast, CList

LEMMA SetSizeStep ==
  ASSUME CInv, UNCHANGED hashVars, NEW n \in 0..MaxSize, SetSize(n)
  PROVE  CInv' /\ C!SetSize(n)
<1>1. HInv' /\ Map' = Map /\ RecOK(vec) /\ n \in Nat
  BY VectorStep, VectorAssumption
<1>2. RecOK(vec)' /\ L!SetSize(n)
  BY <1>1, SetSizeRefines
<1>3. /\ RecOK(vec')
      /\ ListOf(vec') = [i \in 1..n |-> IF i <= Len(ListOf(vec)) THEN ListOf(vec)[i] ELSE Nil]
  BY <1>2, CListIs DEF L!SetSize, RecOK
<1>4. CList' = [i \in 1..n |-> IF i <= Len(CList) THEN CList[i] ELSE Nil]
  BY <1>1, <1>3, NamedSetSize, CListIs
<1> QED BY <1>1, <1>2, <1>4 DEF CInv, C!SetSize, CList

LEMMA SetElementStep ==
  ASSUME CInv, UNCHANGED hashVars,
         NEW i \in (-MaxSize)..MaxSize, NEW o \in Refs, SetElement(i, o)
  PROVE  CInv' /\ \E k \in DOMAIN CList : C!SetElement(k, o)
<1>1. HInv' /\ Map' = Map /\ RecOK(vec)
  BY VectorStep
<1>2. RecOK(vec)' /\ \E k \in DOMAIN List : L!SetElement(k, o)
  BY <1>1, SetElementRefines
<1>3. PICK k \in DOMAIN ListOf(vec) : ListOf(vec') = [ListOf(vec) EXCEPT ![k] = o]
  BY <1>2, CListIs DEF L!SetElement
<1>4. RecOK(vec')
  BY <1>2 DEF RecOK
<1>5. k \in DOMAIN CList /\ CList' = [CList EXCEPT ![k] = o]
  BY <1>1, <1>3, <1>4, NamedSetElement, CListIs
<1>6. C!SetElement(k, o)
  BY <1>1, <1>5 DEF C!SetElement, CList
<1> QED BY <1>1, <1>2, <1>5, <1>6 DEF CInv

LEMMA ContainersInit == Init => CInv /\ C!Init
<1> SUFFICES ASSUME Init PROVE CInv /\ C!Init
  OBVIOUS
<1>1. HInv /\ RecOK(vec) /\ L!Init
  BY HashInit, InitRefines DEF Init
<1>2. Map = [n \in Names |-> None]
  BY MapInit DEF Init
<1>3. CList = <<>>
  <2>1. vec.size = 0
    BY DEF Init, NewVector, NoVecRec
  <2> QED BY <2>1 DEF CList
<1> QED BY <1>1, <1>2, <1>3 DEF CInv, C!Init, CList

LEMMA ContainersNext ==
  ASSUME NoEmptyKey, CInv, [Next]_<<hashVars, vec>>
  PROVE  CInv' /\ [C!Next]_<<Map, CList>>
<1>1. CASE UseHash
  <2>1. NextHash /\ vec' = vec
    BY <1>1 DEF UseHash
  <2>2. /\ HInv'
        /\ \/ \E n \in Names : Map' = [Map EXCEPT ![n] = None]
           \/ \E n \in Names : \E v \in Vals : Map' = [Map EXCEPT ![n] = v]
    BY <2>1, MapNext DEF CInv
  <2>3. CList' = CList /\ RecOK(vec)'
    <3>1. CList' = CList
      BY <2>1, CListIs
    <3> QED BY <2>1, <3>1 DEF CInv, RecOK
  <2> QED BY <2>2, <2>3 DEF CInv, C!Next, C!Set, C!Delete, CList
<1>2. CASE UseVector
  <2>1. NextVector /\ UNCHANGED hashVars
    BY <1>2 DEF UseVector
  <2>2. ASSUME NEW o \in Refs, AppendRef(o) PROVE CInv' /\ C!Next
    BY <2>1, <2>2, AppendStep DEF C!Next
  <2>3. CASE RemoveLast
    BY <2>1, <2>3, RemoveStep DEF C!Next
  <2>4. ASSUME NEW n \in 0..MaxSize, SetSize(n) PROVE CInv' /\ C!Next
    BY <2>1, <2>4, SetSizeStep DEF C!Next
  <2>5. ASSUME NEW i \in (-MaxSize)..MaxSize, NEW o \in Refs, SetElement(i, o)
        PROVE  CInv' /\ C!Next
    BY <2>1, <2>5, SetElementStep DEF C!Next, CList
  <2> QED BY <2>1, <2>2, <2>3, <2>4, <2>5 DEF NextVector
<1>3. CASE ListKeys
  BY <1>3, ListingRefines DEF C!Next
<1>4. CASE UseKeys
  BY <1>4, RemoveStep DEF C!Next, UseKeys
<1>5. CASE UNCHANGED <<hashVars, vec>>
  <2>1. UNCHANGED hashVars /\ vec' = vec
    BY <1>5
  <2>2. HInv' /\ Map' = Map /\ RecOK(vec)
    BY <2>1, VectorStep
  <2>3. CList' = CList
    BY <2>1, CListIs
  <2> QED BY <2>1, <2>2, <2>3 DEF CInv, RecOK
<1> QED BY <1>1, <1>2, <1>3, <1>4, <1>5 DEF Next

(* Nothing that has not been written is used, and an index from the end is  *)
(* the same as one from the start.                                          *)
LEMMA RecordOK ==
  ASSUME RecOK(vec)
  PROVE  VectorOK
<1>1. vec.size \in Nat /\ vec.alloced \in Nat /\ vec.size <= vec.alloced
  BY DEF RecOK
<1>2. vec.null => vec.size = 0 /\ vec.alloced = 0
  BY DEF RecOK, NoVecRec
<1>3. ASSUME NEW i \in 0..vec.size-1
      PROVE  vec.array[i] # Junk /\ Element(vec, i - vec.size) = Element(vec, i)
  <2>1. vec.array[i] \in Elements
    BY DEF RecOK
  <2>2. Junk \notin Elements
    BY VectorAssumption, ContainersAssumption DEF Elements
  <2>3. Element(vec, i - vec.size) = Element(vec, i)
    BY <1>1 DEF Element, InBounds, Index
  <2> QED BY <2>1, <2>2, <2>3
<1> QED BY <1>1, <1>2, <1>3 DEF VectorOK

(* The records of hashes and vectors stay well formed, for any keys, hash   *)
(* function and values, and any sequence of operations.                     *)
THEOREM RecordsStayOK == NoEmptyKey /\ SpecContainers => []RecordsOK
<1>1. NoEmptyKey /\ CInv => RecordsOK
  BY TableIsOK, RecordOK DEF CInv, HInv, RecordsOK
<1>2. NoEmptyKey /\ CInv /\ [Next]_<<hashVars, vec>> => CInv'
  BY ContainersNext
<1>3. ASSUME NoEmptyKey PROVE SpecContainers => []RecordsOK
  BY <1>1, <1>2, <1>3, ContainersInit, PTL DEF SpecContainers
<1> QED BY <1>3

(* A hash is a map and a vector a list, and keys() lists each name in the   *)
(* map once: every operation on the records implements that of Collections. *)
THEOREM ContainersImplement == NoEmptyKey /\ SpecContainers => ImplementsCollections
<1>1. NoEmptyKey /\ CInv /\ [Next]_<<hashVars, vec>> => CInv' /\ [C!Next]_<<Map, CList>>
  BY ContainersNext
<1>2. ASSUME NoEmptyKey PROVE SpecContainers => ImplementsCollections
  BY <1>1, <1>2, ContainersInit, PTL DEF SpecContainers, ImplementsCollections, C!Spec, CList
<1> QED BY <1>2

-----------------------------------------------------------------------------
(***************************************************************************)
(* Exported files.  Numbers are written in groups of seven bits and read   *)
(* back (Read7); a track grows by one event at a time and keeps what it has*)
(* (TrackKeeps), so that a reader at the end of one message finds the next *)
(* (ReadsMessage), by induction over the messages.  A sound is written in  *)
(* chunks, each of the frames that were read for it (ChunksWritten).       *)
(***************************************************************************)
(* The weights of the groups of seven bits.                                 *)
LEMMA WeightAt ==
  ASSUME NEW i \in 1..5
  PROVE  Weight[i] = IF i = 1 THEN 1 ELSE IF i = 2 THEN 128 ELSE IF i = 3 THEN 128 * 128
                     ELSE IF i = 4 THEN 128 * 128 * 128 ELSE 128 * 128 * 128 * 128
<1>1. /\ Weight[1] = 1 /\ Weight[2] = 128 /\ Weight[3] = 128 * 128
      /\ Weight[4] = 128 * 128 * 128 /\ Weight[5] = 128 * 128 * 128 * 128
  BY DEF Weight
<1>2. i = 1 \/ i = 2 \/ i = 3 \/ i = 4 \/ i = 5
  OBVIOUS
<1> QED
  BY <1>1, <1>2

(* Each weight is 128 times the one before.                                 *)
LEMMA Weights ==
  ASSUME NEW i \in 1..4
  PROVE  Weight[i] \in Nat \ {0} /\ Weight[i + 1] = 128 * Weight[i] /\ Weight[i + 1] \in Nat \ {0}
<1>1. i \in 1..5 /\ i + 1 \in 1..5
  OBVIOUS
<1>2. PICK j \in 1..5 : j = i + 1
  BY <1>1
<1>3. i = 1 \/ i = 2 \/ i = 3 \/ i = 4
  OBVIOUS
<1> QED
  BY <1>1, <1>2, <1>3, WeightAt, SMT

(* A value below 2^28 has its number of groups, and no fewer would do.      *)
LEMMA GroupsOf ==
  ASSUME NEW val \in Nat, val < Weight[5]
  PROVE  /\ Groups(val) \in 1..4
         /\ val < Weight[Groups(val) + 1] /\ (Groups(val) > 1 => val >= Weight[Groups(val)])
<1>1. \E n \in 1..4 : val < Weight[n + 1] /\ (n > 1 => val >= Weight[n])
  <2> DEFINE P(n) == val < Weight[n + 1] /\ (n > 1 => val >= Weight[n])
  <2>1. PICK a, b, c, d \in 1..4 : a = 1 /\ b = 2 /\ c = 3 /\ d = 4
    OBVIOUS
  <2>2. a + 1 = b /\ b + 1 = c /\ c + 1 = d /\ d + 1 = 5
    BY <2>1
  <2>3. Weight[b] \in Nat /\ Weight[c] \in Nat /\ Weight[d] \in Nat /\ Weight[5] \in Nat
    BY <2>2, Weights
  <2>4. CASE val < Weight[b]
    <3>1. P(a)
      BY <2>1, <2>2, <2>4
    <3> QED
      BY <2>1, <3>1
  <2>5. CASE Weight[b] <= val /\ val < Weight[c]
    <3>1. P(b)
      BY <2>1, <2>2, <2>5
    <3> QED
      BY <2>1, <3>1
  <2>6. CASE Weight[c] <= val /\ val < Weight[d]
    <3>1. P(c)
      BY <2>1, <2>2, <2>6
    <3> QED
      BY <2>1, <3>1
  <2>7. CASE Weight[d] <= val
    <3>1. P(d)
      BY <2>1, <2>2, <2>7
    <3> QED
      BY <2>1, <3>1
  <2> HIDE DEF P
  <2> QED
    BY <2>3, <2>4, <2>5, <2>6, <2>7
<1> QED
  BY <1>1 DEF Groups

(* What is left of a value above its lower groups.                          *)
LEMMA Upper ==
  ASSUME NEW val \in Nat, NEW i \in 1..4
  PROVE  /\ val \div Weight[i] \in Nat /\ val \div Weight[i + 1] \in Nat
         /\ val \div Weight[i] = ((val \div Weight[i + 1]) * 128) + ((val \div Weight[i]) % 128)
         /\ (val \div Weight[i]) % 128 \in 0..127
<1>1. PICK v, w : v = Weight[i] /\ w = Weight[i + 1]
  OBVIOUS
<1>2. v \in {1, 128, 128 * 128, 128 * 128 * 128} /\ w = 128 * v
  <2>1. i \in 1..5 /\ (i = 1 \/ i = 2 \/ i = 3 \/ i = 4)
    OBVIOUS
  <2> QED
    BY <1>1, <2>1, Weights, WeightAt
<1>3. /\ val \div v \in Nat /\ val \div w \in Nat
      /\ val \div v = ((val \div w) * 128) + ((val \div v) % 128)
      /\ (val \div v) % 128 \in 0..127
  <2>1. CASE v = 1
    BY <1>2, <2>1, SMT
  <2>2. CASE v = 128
    BY <1>2, <2>2, SMT
  <2>3. CASE v = 128 * 128
    BY <1>2, <2>3, SMT
  <2>4. CASE v = 128 * 128 * 128
    BY <1>2, <2>4, SMT
  <2> QED
    BY <1>2, <2>1, <2>2, <2>3, <2>4
<1> QED
  BY <1>1, <1>3

(* v is val in n groups of seven bits.                                      *)
Sevens(v, n, val) ==
  /\ v \in Seq(Octets) /\ Len(v) = n /\ n \in 1..4
  /\ \A i \in 1..n : /\ v[i] % 128 = (val \div Weight[n - i + 1]) % 128
                     /\ (v[i] < 128) <=> (i = n)

(* put_var_value writes the value in groups.                                *)
LEMMA Written7 ==
  ASSUME NEW val \in Nat, val < Weight[5], NEW v, v = VarValue(val), NEW n, n = Groups(val)
  PROVE  Sevens(v, n, val)
<1>1. n \in 1..4
  BY GroupsOf
<1>2. v = [i \in 1..n |-> (IF i < n THEN 128 ELSE 0) + ((val \div Weight[n - i + 1]) % 128)]
  BY DEF VarValue
<1>3. ASSUME NEW i \in 1..n
      PROVE  v[i] \in 0..255 /\ v[i] % 128 = (val \div Weight[n - i + 1]) % 128 /\ ((v[i] < 128) <=> (i = n))
  <2>1. PICK j \in 1..4 : j = n - i + 1
    BY <1>1
  <2>2. PICK d \in 0..127 : d = (val \div Weight[j]) % 128
    BY Upper
  <2>3. v[i] = (IF i < n THEN 128 ELSE 0) + d
    BY <1>1, <1>2, <2>1, <2>2
  <2> QED
    BY <1>1, <2>1, <2>2, <2>3
<1>4. v \in Seq(Octets) /\ Len(v) = n
  <2>1. \A i \in 1..n : v[i] \in Octets
    BY <1>3 DEF Octets
  <2>2. v = [i \in 1..n |-> v[i]] /\ n \in Nat
    BY <1>1, <1>2
  <2> QED
    BY <2>1, <2>2
<1> QED
  BY <1>1, <1>3, <1>4 DEF Sevens

(* A reader that takes bytes up to the first below 128 has the value again. *)
LEMMA Read7 ==
  ASSUME NEW bytes \in Seq(Octets), NEW p \in Nat, NEW val \in Nat, val < Weight[5],
         NEW v, v = VarValue(val), NEW n, n = Groups(val), p + n <= Len(bytes),
         \A k \in 1..n : bytes[p + k] = v[k]
  PROVE  Continued(bytes, p + 1) = p + n /\ ValueAt7(bytes, p + 1, p + n) = val
<1>0. Sevens(v, n, val)
  BY Written7
<1>1. n \in 1..4 /\ \A i \in 1..n : /\ v[i] % 128 = (val \div Weight[n - i + 1]) % 128
                                    /\ (v[i] < 128) <=> (i = n)
  BY <1>0 DEF Sevens
<1>2. \A j \in (p + 1)..(p + n) : /\ (bytes[j] < 128) <=> (j = p + n)
                                  /\ bytes[j] % 128 = (val \div Weight[n - (j - p) + 1]) % 128
  <2> SUFFICES ASSUME NEW j \in (p + 1)..(p + n)
               PROVE  /\ (bytes[j] < 128) <=> (j = p + n)
                      /\ bytes[j] % 128 = (val \div Weight[n - (j - p) + 1]) % 128
    OBVIOUS
  <2>1. PICK k \in 1..n : k = j - p /\ j = p + k
    BY <1>1
  <2>2. bytes[j] = v[k]
    BY <2>1
  <2> QED
    BY <1>1, <2>1, <2>2
<1>3. Continued(bytes, p + 1) = p + n
  <2> DEFINE P(j) == bytes[j] < 128 /\ \A k \in (p + 1)..j - 1 : bytes[k] >= 128
  <2>0. \A j \in (p + 1)..Len(bytes) : bytes[j] \in 0..255 /\ j \in Int
    <3> SUFFICES ASSUME NEW j \in (p + 1)..Len(bytes) PROVE bytes[j] \in 0..255 /\ j \in Int
      OBVIOUS
    <3>1. j \in 1..Len(bytes) /\ j \in Int
      OBVIOUS
    <3>2. bytes[j] \in Octets
      BY <3>1
    <3> QED
      BY <3>1, <3>2 DEF Octets
  <2>1. p + n \in (p + 1)..Len(bytes) /\ P(p + n)
    <3>1. \A k \in (p + 1)..((p + n) - 1) : k \in (p + 1)..(p + n) /\ k # p + n /\ k \in (p + 1)..Len(bytes)
      BY <1>1
    <3>2. \A k \in (p + 1)..((p + n) - 1) : bytes[k] >= 128
      <4> SUFFICES ASSUME NEW k \in (p + 1)..((p + n) - 1) PROVE bytes[k] >= 128
        OBVIOUS
      <4>1. bytes[k] \in 0..255 /\ ~(bytes[k] < 128)
        BY <1>2, <2>0, <3>1
      <4>2. PICK x \in 0..255 : x = bytes[k]
        BY <4>1
      <4>3. x >= 128
        BY <4>1, <4>2
      <4> QED
        BY <4>2, <4>3
    <3>3. p + n \in (p + 1)..Len(bytes) /\ p + n \in (p + 1)..(p + n)
      BY <1>1
    <3> QED
      BY <1>2, <3>2, <3>3
  <2>2. ASSUME NEW j \in (p + 1)..Len(bytes), P(j) PROVE j = p + n
    <3>1. CASE j < p + n
      <4>1. j \in (p + 1)..(p + n)
        BY <1>1, <3>1
      <4> QED
        BY <1>2, <2>2, <4>1
    <3>2. CASE j > p + n
      <4>1. p + n \in (p + 1)..j - 1
        BY <1>1, <3>2
      <4>2. bytes[p + n] >= 128
        BY <2>2, <4>1
      <4>3. bytes[p + n] < 128 /\ bytes[p + n] \in 0..255
        BY <2>0, <2>1
      <4>4. PICK x \in 0..255 : x = bytes[p + n]
        BY <4>3
      <4>5. x < 128 /\ x >= 128
        BY <4>2, <4>3, <4>4
      <4> QED
        BY <4>5
    <3> QED
      BY <1>1, <3>1, <3>2
  <2>3. Continued(bytes, p + 1) = CHOOSE j \in (p + 1)..Len(bytes) : P(j)
    BY DEF Continued
  <2> HIDE DEF P
  <2> QED
    BY <2>1, <2>2, <2>3
<1>4. ValueAt7(bytes, p + 1, p + n) = val
  <2> DEFINE body(f, k) == IF k < p + 1 THEN 0 ELSE (f[k - 1] * 128) + (bytes[k] % 128)
             upTo == CHOOSE f : f = [k \in p..(p + n) |-> body(f, k)]
             g == [k \in p..(p + n) |-> val \div Weight[n - (k - p) + 1]]
  <2>1. ASSUME NEW k \in p..(p + n) PROVE g[k] = body(g, k)
    <3>1. CASE k = p
      <4>1. g[k] = val \div Weight[n + 1] /\ val < Weight[n + 1]
        BY <1>1, <3>1, GroupsOf
      <4>2. PICK w \in Nat \ {0} : w = Weight[n + 1]
        BY <1>1, Weights
      <4>4. val \div w = 0
        <5>1. val < w
          BY <4>1, <4>2
        <5> QED
          BY <5>1, SMT
      <4> HIDE DEF g
      <4> QED
        BY <3>1, <4>1, <4>2, <4>4
    <3>2. CASE k # p
      <4>1. PICK i \in 1..4 : i = n - (k - p) + 1
        BY <1>1, <3>2
      <4>2. k - 1 \in p..(p + n) /\ n - ((k - 1) - p) + 1 = i + 1
        BY <3>2, <4>1, <1>1
      <4>3. g[k] = val \div Weight[i] /\ g[k - 1] = val \div Weight[i + 1]
        BY <4>1, <4>2
      <4>4. bytes[k] % 128 = (val \div Weight[i]) % 128
        BY <1>1, <1>2, <3>2, <4>1
      <4>5. ~(k < p + 1)
        BY <1>1, <3>2
      <4>6. val \div Weight[i] = ((val \div Weight[i + 1]) * 128) + ((val \div Weight[i]) % 128)
        BY Upper
      <4> HIDE DEF g
      <4> QED
        BY <4>3, <4>4, <4>5, <4>6
    <3> QED
      BY <3>1, <3>2
  <2>2. g = [k \in p..(p + n) |-> body(g, k)]
    BY <2>1
  <2>3. upTo = [k \in p..(p + n) |-> body(upTo, k)]
    <3> HIDE DEF g, body
    <3> QED
      BY <2>2
  <2>4. ValueAt7(bytes, p + 1, p + n) = upTo[p + n]
    <3>1. (p + 1) - 1 = p
      OBVIOUS
    <3> QED
      BY <3>1 DEF ValueAt7
  <2> DEFINE T == {m \in Nat : m <= n => upTo[p + m] = g[p + m]}
  <2> HIDE DEF upTo
  <2>5. 0 \in T
    <3>1. p + 0 = p /\ p \in p..(p + n) /\ p < p + 1
      BY <1>1
    <3>2. upTo[p] = 0 /\ g[p] = 0
      BY <2>1, <2>3, <3>1
    <3> QED
      BY <3>1, <3>2
  <2>6. ASSUME NEW m \in Nat, m \in T PROVE m + 1 \in T
    <3> SUFFICES ASSUME m + 1 <= n PROVE upTo[p + (m + 1)] = g[p + (m + 1)]
      OBVIOUS
    <3>1. PICK k \in p..(p + n) : k = p + (m + 1) /\ k - 1 = p + m /\ ~(k < p + 1)
      BY <1>1
    <3>2. upTo[k - 1] = g[k - 1]
      <4>1. m <= n
        BY <1>1
      <4> HIDE DEF g
      <4> QED
        BY <2>6, <3>1, <4>1
    <3>3. upTo[k] = body(upTo, k) /\ g[k] = body(g, k)
      <4> HIDE DEF g, body
      <4> QED
        BY <2>1, <2>3
    <3> HIDE DEF g
    <3> QED
      BY <3>1, <3>2, <3>3
  <2>7. n \in T
    <3> HIDE DEF T
    <3> QED
      BY <1>1, <2>5, <2>6, NatInd
  <2>8. g[p + n] = val
    <3>1. n - ((p + n) - p) + 1 = 1 /\ p + n \in p..(p + n)
      BY <1>1
    <3>2. g[p + n] = val \div Weight[1]
      BY <3>1
    <3>3. Weight[1] = 1
      BY DEF Weight
    <3> HIDE DEF g
    <3> QED
      BY <3>2, <3>3
  <2> HIDE DEF g
  <2> QED
    BY <1>1, <2>4, <2>7, <2>8
<1> QED
  BY <1>3, <1>4

-----------------------------------------------------------------------------
(* MIDI files.                                                              *)

(* A bend comes out as meant, but for the upper end (put_pitch).            *)
LEMMA Bend ==
  ASSUME NEW x \in PitchSteps
  PROVE  PitchMeant(x, PutPitch(x, 1))
<1>1. PICK w \in 0..16384 : w = x + 8192
  BY SMT DEF PitchSteps
<1>2. (w % 128) + (128 * ((w \div 128) % 128)) = IF w = 16384 THEN 0 ELSE w
  BY SMT
<1>3. PutPitch(x, 1)[2] = w % 128 /\ PutPitch(x, 1)[3] = (w \div 128) % 128
  BY <1>1, SMT DEF PutPitch, Lsb14, Msb14, ScalePitch
<1> QED
  BY <1>1, <1>2, <1>3, SMT DEF PitchMeant, PitchSteps

(* Where the elements of two sequences are when they are joined.            *)
LEMMA Joined ==
  ASSUME NEW S, NEW s \in Seq(S), NEW t \in Seq(S), NEW r, r = s \o t
  PROVE  /\ r \in Seq(S) /\ Len(r) = Len(s) + Len(t)
         /\ Len(s) \in Nat /\ Len(t) \in Nat /\ Len(r) \in Nat
         /\ \A k \in 1..Len(s) : r[k] = s[k]
         /\ \A k \in 1..Len(t) : r[Len(s) + k] = t[k]
OBVIOUS

(* A message is as long as it says.                                         *)
WholeMessage(m) ==
  /\ m \in Seq(Octets) /\ Len(m) \in Nat \ {0} /\ Len(m) = MessageSize(m, 1)
  /\ m[1] = 255 => Len(m) >= 3

(* The bytes from the place p on are those of u.                            *)
HoldsAt(bytes, p, u) ==
  p + Len(u) <= Len(bytes) /\ \A k \in 1..Len(u) : bytes[p + k] = u[k]

(* There the message m is next, val ticks after what is before it.          *)
IsNext(bytes, before, p, val, m, u) ==
  /\ bytes \in Seq(Octets) /\ p \in Nat /\ before.next = p + 1
  /\ val \in Nat /\ val < Weight[5] /\ WholeMessage(m)
  /\ u = VarValue(val) \o m /\ HoldsAt(bytes, p, u)

(* The reader takes the next message, at its tick.                          *)
LEMMA ReadsMessage ==
  ASSUME NEW bytes, NEW before, NEW p, NEW val, NEW m, NEW u,
         IsNext(bytes, before, p, val, m, u)
  PROVE  ReadMessage(bytes, before)
           = [tick |-> before.tick + val, message |-> m, next |-> p + Len(u) + 1]
<1>0. /\ bytes \in Seq(Octets) /\ p \in Nat /\ before.next = p + 1
      /\ val \in Nat /\ val < Weight[5] /\ WholeMessage(m)
      /\ u = VarValue(val) \o m /\ HoldsAt(bytes, p, u)
  BY DEF IsNext
<1> USE <1>0
<1>1. PICK v, n : v = VarValue(val) /\ n = Groups(val)
  OBVIOUS
<1>2. v \in Seq(Octets) /\ Len(v) = n /\ n \in 1..4
  BY <1>1, Written7 DEF Sevens
<1>3. m \in Seq(Octets) /\ Len(m) \in Nat \ {0}
  BY DEF WholeMessage
<1>4. /\ Len(u) = n + Len(m)
      /\ \A k \in 1..n : u[k] = v[k]
      /\ \A k \in 1..Len(m) : u[n + k] = m[k]
  <2>1. u = v \o m /\ v \in Seq(Octets) /\ m \in Seq(Octets)
    BY <1>1, <1>2, <1>3
  <2>2. Len(u) = Len(v) + Len(m) /\ Len(v) = n
    BY <1>2, <2>1, Joined
  <2>3. \A k \in 1..Len(v) : u[k] = v[k]
    BY <2>1, Joined
  <2>4. \A k \in 1..Len(m) : u[Len(v) + k] = m[k]
    BY <2>1, Joined
  <2> QED
    BY <2>2, <2>3, <2>4
<1>5. PICK j \in Nat : j = p + n
  BY <1>2
<1>6. Continued(bytes, p + 1) = j /\ ValueAt7(bytes, p + 1, j) = val
  <2>1. p + n <= Len(bytes) /\ \A k \in 1..n : k \in 1..Len(u)
    BY <1>2, <1>3, <1>4 DEF HoldsAt
  <2>2. \A k \in 1..n : bytes[p + k] = v[k]
    BY <1>4, <2>1 DEF HoldsAt
  <2>3. bytes \in Seq(Octets) /\ p \in Nat /\ val \in Nat /\ val < Weight[5]
    OBVIOUS
  <2> HIDE <1>0
  <2>4. Continued(bytes, p + 1) = p + n /\ ValueAt7(bytes, p + 1, p + n) = val
    BY <1>1, <2>1, <2>2, <2>3, Read7
  <2> QED
    BY <1>5, <2>4
<1>7. j + Len(m) <= Len(bytes) /\ \A k \in 1..Len(m) : bytes[j + k] = m[k]
  <2>1. j + Len(m) = p + Len(u)
    BY <1>2, <1>3, <1>4, <1>5
  <2>2. ASSUME NEW k \in 1..Len(m) PROVE bytes[j + k] = m[k]
    <3>1. PICK i : i = n + k
      OBVIOUS
    <3>2. i \in 1..Len(u) /\ p + i = j + k
      BY <1>2, <1>3, <1>4, <1>5, <3>1
    <3>3. bytes[p + i] = u[i]
      BY <3>2 DEF HoldsAt
    <3> QED
      BY <1>4, <3>1, <3>2, <3>3
  <2> QED
    BY <2>1, <2>2 DEF HoldsAt
<1>8. MessageSize(bytes, j + 1) = Len(m)
  <2>1. bytes[j + 1] = m[1]
    <3>1. 1 \in 1..Len(m)
      BY <1>3
    <3> QED
      BY <1>7, <3>1
  <2>2. m[1] = 255 => bytes[(j + 1) + 2] = m[3]
    <3> SUFFICES ASSUME m[1] = 255 PROVE bytes[(j + 1) + 2] = m[3]
      OBVIOUS
    <3>1. 3 \in 1..Len(m) /\ (j + 1) + 2 = j + 3
      BY <1>3 DEF WholeMessage
    <3> QED
      BY <1>7, <3>1
  <2>3. m[1 + 2] = m[3]
    OBVIOUS
  <2> QED
    BY <2>1, <2>2, <2>3 DEF WholeMessage, MessageSize
<1>9. SubSeq(bytes, j + 1, ((j + 1) + Len(m)) - 1) = m
  <2>1. PICK l \in Nat : l = Len(m)
    BY <1>3
  <2>2. ((j + 1) + Len(m)) - 1 = j + l /\ j + l <= Len(bytes) /\ 1 <= j + 1
    BY <1>7, <2>1
  <2>3. PICK q : q = SubSeq(bytes, j + 1, j + l)
    OBVIOUS
  <2>4. q \in Seq(Octets) /\ Len(q) = l /\ \A k \in 1..l : q[k] = bytes[(j + 1) + k - 1]
    <3>1. j + 1 \in 1..Len(bytes) + 1 /\ j + l \in j..Len(bytes) /\ Len(bytes) \in Nat
      BY <2>2, <1>7
    <3> QED
      BY <2>2, <2>3, <3>1
  <2>5. \A k \in 1..l : q[k] = m[k]
    <3> SUFFICES ASSUME NEW k \in 1..l PROVE q[k] = m[k]
      OBVIOUS
    <3>1. (j + 1) + k - 1 = j + k
      OBVIOUS
    <3> QED
      BY <1>7, <2>1, <2>4, <3>1
  <2>6. q = m
    <3>1. Len(q) = Len(m) /\ \A k \in 1..Len(q) : q[k] = m[k]
      BY <2>1, <2>4, <2>5
    <3> QED
      BY <1>3, <2>4, <3>1, SeqEqual
  <2> QED
    BY <2>2, <2>3, <2>6
<1>10. (j + 1) + Len(m) = p + Len(u) + 1
  BY <1>2, <1>3, <1>4, <1>5
<1> QED
  BY <1>6, <1>8, <1>9, <1>10 DEF ReadMessage

(* No ticks take one byte.                                                  *)
LEMMA NoTicks == VarValue(0) = <<0>> /\ 0 < Weight[5]
<1>1. 0 < Weight[5] /\ Weight[1] = 1
  <2>1. Weight[5] = 128 * 128 * 128 * 128 /\ Weight[1] = 1
    BY DEF Weight
  <2> QED
    BY <2>1
<1>2. PICK n \in 1..4 : n = Groups(0) /\ (n > 1 => 0 >= Weight[n])
  <2>1. 0 \in Nat
    OBVIOUS
  <2> QED
    BY <1>1, <2>1, GroupsOf
<1>3. n = 1
  BY <1>2, Weights
<1>4. PICK v : v = VarValue(0)
  OBVIOUS
<1>5. v = [i \in 1..1 |-> (IF i < 1 THEN 128 ELSE 0) + ((0 \div Weight[1 - i + 1]) % 128)]
  BY <1>2, <1>3, <1>4 DEF VarValue
<1>6. (0 \div 1) % 128 = 0
  OBVIOUS
<1>7. v = [i \in 1..1 |-> 0]
  <2>1. \A i \in 1..1 : ~(i < 1) /\ 1 - i + 1 = 1
    OBVIOUS
  <2> QED
    BY <1>1, <1>5, <1>6, <2>1
<1>8. <<0>> = [i \in 1..1 |-> 0]
  OBVIOUS
<1> QED
  BY <1>1, <1>4, <1>7, <1>8

(* The messages around the events.                                          *)
TempoMessage(u) == <<255, 81, 3, (u \div 65536) % 256, (u \div 256) % 256, u % 256>>
EndMessage == <<255, 47, 0>>

(* The tempo and the end are whole messages without ticks before them.      *)
LEMMA Meta ==
  ASSUME NEW u \in Nat
  PROVE  /\ WholeMessage(TempoMessage(u)) /\ Tempo(u) = VarValue(0) \o TempoMessage(u)
         /\ Tempo(u) \in Seq(Octets) /\ Len(Tempo(u)) = 7
         /\ WholeMessage(EndMessage) /\ EndOfTrack = VarValue(0) \o EndMessage
         /\ EndOfTrack \in Seq(Octets) /\ Len(EndOfTrack) = 4
<1>1. PICK a, b, c \in Octets :
        a = (u \div 65536) % 256 /\ b = (u \div 256) % 256 /\ c = u % 256
  <2>1. PICK x, y \in Nat : x = u \div 65536 /\ y = u \div 256
    BY SMT
  <2>2. x % 256 \in Octets /\ y % 256 \in Octets /\ u % 256 \in Octets
    BY SMT DEF Octets
  <2> QED
    BY <2>1, <2>2
<1>2. TempoMessage(u) = <<255, 81, 3, a, b, c>> /\ Tempo(u) = <<0, 255, 81, 3, a, b, c>>
  BY <1>1, SMT DEF TempoMessage, Tempo
<1>3. \A n \in {0, 3, 47, 81, 255} : n \in Octets
  BY SMT DEF Octets
<1>4. WholeMessage(<<255, 81, 3, a, b, c>>)
  BY <1>3 DEF WholeMessage, MessageSize
<1>5. <<0, 255, 81, 3, a, b, c>> = <<0>> \o <<255, 81, 3, a, b, c>>
  OBVIOUS
<1>6. WholeMessage(EndMessage) /\ EndOfTrack = <<0>> \o EndMessage
  BY <1>3 DEF WholeMessage, MessageSize, EndMessage, EndOfTrack
<1>7. EndOfTrack \in Seq(Octets) /\ Len(EndOfTrack) = 4
  BY <1>3 DEF EndOfTrack
<1>8. <<0, 255, 81, 3, a, b, c>> \in Seq(Octets)
  BY <1>3
<1> QED
  BY <1>2, <1>4, <1>5, <1>6, <1>7, <1>8, NoTicks

(* The track as it grows: W[i] has the first i events.                      *)
Grows(W, events, u) ==
  /\ W[0] = [length |-> 7, bytes |-> Tempo(u)]
  /\ \A i \in 1..Len(events) :
       W[i] = [length |-> W[i - 1].length + Len(VarValue(Delta(events, i)))
                          + Len(events[i].data),
               bytes |-> W[i - 1].bytes \o EventBytes(events, i)]

(* The parts of an event.                                                   *)
LEMMA EventAt ==
  ASSUME NEW events, MidiEvents(events), NEW i \in 1..Len(events)
  PROVE  /\ events[i].time \in Nat /\ events[i].data \in Seq(Octets)
         /\ Len(events) \in Nat /\ i \in DOMAIN events
<1>1. PICK R : R = [time : Nat, data : Seq(Octets)]
  OBVIOUS
<1>2. events \in Seq(R)
  BY <1>1 DEF MidiEvents
<1>3. events[i] \in R /\ Len(events) \in Nat /\ i \in DOMAIN events
  BY <1>2
<1> QED
  BY <1>1, <1>3

(* Each event at its tick.                                                  *)
LEMMA Ticks ==
  ASSUME NEW events, MidiEvents(events), NEW i \in 1..Len(events)
  PROVE  /\ Delta(events, i) \in Nat /\ Delta(events, i) < Weight[5]
         /\ TickOf(TimeBefore(events, i)) \in Nat /\ TickOf(events[i].time) \in Nat
         /\ TickOf(events[i].time) = TickOf(TimeBefore(events, i)) + Delta(events, i)
         /\ WholeMessage(events[i].data)
<1>1. i \in DOMAIN events /\ i \in Nat /\ Len(events) \in Nat
  BY EventAt
<1>2. events[i].time \in Nat /\ events[i].data \in Seq(Octets)
  BY EventAt
<1>3. PICK a, b \in Nat : a = TimeBefore(events, i) /\ b = events[i].time
  <2>1. CASE i = 1
    BY <1>2, <2>1 DEF TimeBefore
  <2>2. CASE i # 1
    <3>1. i - 1 \in 1..Len(events)
      BY <1>1, <2>2
    <3>2. PICK j : j = i - 1
      OBVIOUS
    <3>3. events[j].time \in Nat
      BY <3>1, <3>2, EventAt
    <3> QED
      BY <1>2, <2>2, <3>2, <3>3 DEF TimeBefore
  <2> QED
    BY <2>1, <2>2
<1>4. a <= b /\ TickOf(b) < Weight[5]
  BY <1>1, <1>3 DEF MidiEvents
<1>5. PICK f \in Nat \ {0} : f = FramesPerTick
  BY ExportAssumption
<1>6. a \div f \in Nat /\ b \div f \in Nat /\ a \div f <= b \div f
  <2>1. PICK q \in Nat, r \in 0..(f - 1) : a = f * q + r /\ q = a \div f
    <3>1. a % f \in 0..(f - 1) /\ a \div f \in Nat /\ a = f * (a \div f) + (a % f)
      BY SMT
    <3> QED
      BY <3>1
  <2>2. PICK p \in Nat, s \in 0..(f - 1) : b = f * p + s /\ p = b \div f
    <3>1. b % f \in 0..(f - 1) /\ b \div f \in Nat /\ b = f * (b \div f) + (b % f)
      BY SMT
    <3> QED
      BY <3>1
  <2>3. ASSUME p < q PROVE FALSE
    <3>1. p + 1 <= q
      BY <2>3
    <3>2. f * (p + 1) <= f * q
      BY <3>1, SMT
    <3>3. f * (p + 1) = f * p + f
      BY SMT
    <3>4. PICK x, y \in Nat : x = f * p /\ y = f * q
      BY SMT
    <3> QED
      BY <1>4, <2>1, <2>2, <3>2, <3>3, <3>4
  <2> QED
    BY <2>1, <2>2, <2>3
<1>7. PICK x, y \in Nat : x = TickOf(a) /\ y = TickOf(b) /\ x <= y
  BY <1>5, <1>6 DEF TickOf
<1>8. Delta(events, i) = y - x /\ y - x \in Nat
  BY <1>3, <1>7 DEF Delta
<1>9. y - x < Weight[5]
  <2>1. PICK w \in Nat : w = Weight[5]
    <3>1. Weight[5] = 128 * 128 * 128 * 128
      BY DEF Weight
    <3> QED
      BY <3>1
  <2> QED
    BY <1>4, <1>7, <2>1
<1>10. WholeMessage(events[i].data)
  <2>1. PICK m : m = events[i].data
    OBVIOUS
  <2>2. m \in Seq(Octets) /\ Len(m) = (IF m[1] \in 192..223 THEN 2 ELSE 3) /\ m[1] # 255
    BY <1>1, <1>2, <2>1 DEF MidiEvents
  <2> QED
    BY <2>1, <2>2 DEF WholeMessage, MessageSize
<1> QED
  BY <1>3, <1>7, <1>8, <1>9, <1>10

(* An event takes the bytes of its ticks and of its message.                *)
LEMMA EventWritten ==
  ASSUME NEW events, MidiEvents(events), NEW i \in 1..Len(events)
  PROVE  /\ EventBytes(events, i) \in Seq(Octets)
         /\ Len(VarValue(Delta(events, i))) \in Nat /\ Len(events[i].data) \in Nat
         /\ Len(EventBytes(events, i))
              = Len(VarValue(Delta(events, i))) + Len(events[i].data)
<1>1. PICK v, m : v = VarValue(Delta(events, i)) /\ m = events[i].data
  OBVIOUS
<1>2. v \in Seq(Octets)
  BY <1>1, Ticks, Written7 DEF Sevens
<1>3. m \in Seq(Octets)
  BY <1>1, Ticks DEF WholeMessage
<1> QED
  BY <1>1, <1>2, <1>3 DEF EventBytes

(* The track is written event by event.                                     *)
LEMMA TrackGrows ==
  ASSUME NEW events, MidiEvents(events), NEW u \in Nat
  PROVE  \E W : /\ Grows(W, events, u)
                /\ Track(events, u) = [length |-> W[Len(events)].length + 4,
                                       bytes |-> W[Len(events)].bytes \o EndOfTrack]
<1> DEFINE N == Len(events)
           body(f, i) == IF i = 0 THEN [length |-> 7, bytes |-> Tempo(u)]
                         ELSE [length |-> f[i - 1].length + Len(VarValue(Delta(events, i)))
                                          + Len(events[i].data),
                               bytes |-> f[i - 1].bytes \o EventBytes(events, i)]
           upTo == CHOOSE f : f = [i \in 0..N |-> body(f, i)]
           S == [length : Nat, bytes : Seq(Octets)]
           base == [length |-> 7, bytes |-> Tempo(u)]
           next(i, s) == [length |-> s.length + Len(VarValue(Delta(events, i)))
                                     + Len(events[i].data),
                          bytes |-> s.bytes \o EventBytes(events, i)]
           step == [n \in Nat |-> [s \in S |-> IF n + 1 <= N THEN next(n + 1, s) ELSE s]]
<1>1. N \in Nat
  BY DEF MidiEvents
<1>2. base \in S
  BY Meta
<1>3. step \in [Nat -> [S -> S]]
  <2>1. ASSUME NEW n \in Nat, NEW s \in S, n + 1 <= N PROVE next(n + 1, s) \in S
    <3>1. PICK i \in 1..N : i = n + 1
      BY <1>1, <2>1
    <3>2. PICK a, b \in Nat, t \in Seq(Octets) :
            a = Len(VarValue(Delta(events, i))) /\ b = Len(events[i].data)
            /\ t = EventBytes(events, i)
      BY EventWritten
    <3>3. s.length \in Nat /\ s.bytes \in Seq(Octets)
      OBVIOUS
    <3>4. s.length + a + b \in Nat /\ s.bytes \o t \in Seq(Octets)
      BY <3>2, <3>3
    <3> QED
      BY <3>1, <3>2, <3>4
  <2> HIDE DEF next, S
  <2> QED
    BY <2>1
<1>4. PICK f : Solves(f, S, base, step)
  <2> HIDE DEF base, step, S
  <2> QED
    BY <1>2, <1>3, Recursion
<1>5. f \in [Nat -> S] /\ f[0] = base /\ \A n \in Nat : f[n + 1] = step[n][f[n]]
  BY <1>4 DEF Solves
<1> DEFINE g == [i \in 0..N |-> f[i]]
<1>6. ASSUME NEW i \in 0..N PROVE g[i] = body(g, i)
  <2>1. CASE i = 0
    BY <1>5, <2>1
  <2>2. CASE i # 0
    <3>1. PICK n \in Nat : n = i - 1 /\ n + 1 = i /\ n \in 0..N /\ n + 1 <= N
      BY <1>1, <2>2
    <3>2. f[n] \in S /\ f[n + 1] = step[n][f[n]]
      BY <1>5
    <3>3. step[n][f[n]] = next(n + 1, f[n])
      <4> HIDE DEF next, S
      <4> QED
        BY <3>1, <3>2
    <3>4. g[i] = f[i] /\ g[i - 1] = f[n]
      BY <3>1
    <3> HIDE DEF g, step, S
    <3> QED
      BY <2>2, <3>1, <3>2, <3>3, <3>4
  <2> QED
    BY <2>1, <2>2
<1>7. g = [i \in 0..N |-> body(g, i)]
  <2> HIDE DEF body
  <2> QED
    BY <1>6
<1>8. upTo = [i \in 0..N |-> body(upTo, i)]
  <2> HIDE DEF g, body
  <2> QED
    BY <1>7
<1>9. Track(events, u) = [length |-> upTo[N].length + 4, bytes |-> upTo[N].bytes \o EndOfTrack]
  BY DEF Track
<1> HIDE DEF upTo
<1>10. Grows(upTo, events, u)
  <2>1. \A i \in 0..N : upTo[i] = body(upTo, i)
    <3> HIDE DEF body
    <3> QED
      BY <1>8
  <2>2. 0 \in 0..N /\ \A i \in 1..N : i \in 0..N /\ i # 0
    BY <1>1
  <2> QED
    BY <2>1, <2>2 DEF Grows
<1> QED
  BY <1>9, <1>10

(* s is the beginning of t.                                                 *)
Begins(s, t) == Len(s) <= Len(t) /\ \A k \in 1..Len(s) : t[k] = s[k]

(* What has been written is counted and stays.                              *)
LEMMA TrackKeeps ==
  ASSUME NEW events, MidiEvents(events), NEW u \in Nat, NEW W, Grows(W, events, u),
         NEW j \in 0..Len(events)
  PROVE  /\ W[j].bytes \in Seq(Octets) /\ W[j].length = Len(W[j].bytes)
         /\ \A i \in 0..j : W[i].bytes \in Seq(Octets) /\ Begins(W[i].bytes, W[j].bytes)
<1> DEFINE Counts(n) == /\ W[n].bytes \in Seq(Octets) /\ W[n].length = Len(W[n].bytes)
                      /\ \A i \in 0..n : W[i].bytes \in Seq(Octets) /\ Begins(W[i].bytes, W[n].bytes)
           T == {n \in Nat : n <= Len(events) => Counts(n)}
<1>1. 0 \in T
  <2>1. PICK w : w = W[0].bytes
    OBVIOUS
  <2>2. w \in Seq(Octets) /\ W[0].length = Len(w)
    BY <2>1, Meta DEF Grows
  <2>3. Begins(w, w)
    BY <2>2 DEF Begins
  <2> QED
    BY <2>1, <2>2, <2>3
<1>2. ASSUME NEW m \in Nat, m \in T PROVE m + 1 \in T
  <2> SUFFICES ASSUME m + 1 <= Len(events) PROVE Counts(m + 1)
    OBVIOUS
  <2>1. PICK n \in 1..Len(events) : n = m + 1 /\ n - 1 = m
    BY DEF MidiEvents
  <2>2. Counts(m)
    BY <1>2, <2>1
  <2>3. PICK s, t, e : s = W[m].bytes /\ t = W[n].bytes /\ e = EventBytes(events, n)
    OBVIOUS
  <2>4. PICK a, b : a = Len(VarValue(Delta(events, n))) /\ b = Len(events[n].data)
    OBVIOUS
  <2>5. W[n] = [length |-> W[m].length + a + b, bytes |-> s \o e]
    <3>1. W[n] = [length |-> W[n - 1].length + Len(VarValue(Delta(events, n))) + Len(events[n].data),
                  bytes |-> W[n - 1].bytes \o EventBytes(events, n)]
      BY DEF Grows
    <3> QED
      BY <2>1, <2>3, <2>4, <3>1
  <2>6. s \in Seq(Octets) /\ W[m].length = Len(s) /\ e \in Seq(Octets)
        /\ Len(e) = a + b /\ a \in Nat /\ b \in Nat
    BY <2>2, <2>3, <2>4, EventWritten
  <2>7. t \in Seq(Octets) /\ Len(t) = Len(s) + Len(e) /\ Begins(s, t) /\ W[n].length = Len(t)
    <3>1. s \in Seq(Octets) /\ e \in Seq(Octets) /\ t = s \o e
      BY <2>3, <2>5, <2>6
    <3>2. t \in Seq(Octets) /\ Len(t) = Len(s) + Len(e) /\ \A k \in 1..Len(s) : t[k] = s[k]
      BY <3>1
    <3>3. W[n].length = Len(s) + a + b /\ Len(s) \in Nat
      BY <2>5, <2>6
    <3> QED
      BY <2>6, <3>2, <3>3 DEF Begins
  <2>8. ASSUME NEW i \in 0..n PROVE W[i].bytes \in Seq(Octets) /\ Begins(W[i].bytes, t)
    <3>1. CASE i = n
      BY <2>3, <2>7, <3>1 DEF Begins
    <3>2. CASE i # n
      <4>1. i \in 0..m
        BY <2>1, <3>2
      <4>2. PICK r : r = W[i].bytes
        OBVIOUS
      <4>3. r \in Seq(Octets) /\ Begins(r, s)
        BY <2>2, <2>3, <4>1, <4>2
      <4>4. Len(r) \in Nat /\ Len(s) \in Nat /\ Len(t) \in Nat
        BY <2>6, <2>7, <4>3
      <4> QED
        BY <2>7, <4>2, <4>3, <4>4 DEF Begins
    <3> QED
      BY <3>1, <3>2
  <2> QED
    BY <2>1, <2>3, <2>7, <2>8
<1> HIDE DEF Counts
<1>3. j \in T
  <2>1. j \in Nat
    BY DEF MidiEvents
  <2> HIDE DEF T
  <2> QED
    BY <1>1, <1>2, <2>1, NatInd
<1>4. Counts(j)
  BY <1>3
<1> QED
  BY <1>4 DEF Counts

(* The k-th message of a track and the place behind it.                     *)
Message(events, u, k) ==
  IF k = 1 THEN TempoMessage(u)
  ELSE IF k = Len(events) + 2 THEN EndMessage ELSE events[k - 1].data

(* A track that is read gives back its messages, each at its tick.          *)
LEMMA TrackRead ==
  ASSUME NEW events, MidiEvents(events), NEW u \in Nat
  PROVE  TrackMeant(events, Track(events, u))
<1>1. PICK N \in Nat : N = Len(events)
  BY DEF MidiEvents
<1>2. PICK W : /\ Grows(W, events, u)
               /\ Track(events, u) = [length |-> W[N].length + 4, bytes |-> W[N].bytes \o EndOfTrack]
  BY <1>1, TrackGrows
<1>3. PICK B, w : w = W[N].bytes /\ B = w \o EndOfTrack
  OBVIOUS
<1>4. w \in Seq(Octets) /\ W[N].length = Len(w)
      /\ \A i \in 0..N : W[i].bytes \in Seq(Octets) /\ Begins(W[i].bytes, w)
  <2>1. N \in 0..Len(events)
    BY <1>1
  <2> QED
    BY <1>2, <1>3, <2>1, TrackKeeps
<1>5. /\ B \in Seq(Octets) /\ Len(B) = Len(w) + 4
      /\ \A k \in 1..Len(w) : B[k] = w[k]
      /\ \A k \in 1..4 : B[Len(w) + k] = EndOfTrack[k]
  <2>1. PICK e : e = EndOfTrack
    OBVIOUS
  <2>2. e \in Seq(Octets) /\ Len(e) = 4
    BY <2>1, Meta
  <2>3. w \in Seq(Octets) /\ B = w \o e
    BY <1>3, <1>4, <2>1
  <2>4. /\ B \in Seq(Octets) /\ Len(B) = Len(w) + Len(e)
        /\ \A k \in 1..Len(w) : B[k] = w[k]
        /\ \A k \in 1..Len(e) : B[Len(w) + k] = e[k]
    <3>1. e \in Seq(Octets)
      BY <2>2
    <3>2. B \in Seq(Octets) /\ Len(B) = Len(w) + Len(e)
      BY <2>3, <3>1, Joined
    <3>3. \A k \in 1..Len(w) : B[k] = w[k]
      BY <2>3, <3>1, Joined
    <3>4. \A k \in 1..Len(e) : B[Len(w) + k] = e[k]
      BY <2>3, <3>1, Joined
    <3> QED
      BY <3>2, <3>3, <3>4
  <2> QED
    BY <2>1, <2>2, <2>4
<1>B. B \in Seq(Octets)
  BY <1>5
<1>6. ASSUME NEW i \in 0..N
      PROVE  /\ W[i].bytes \in Seq(Octets) /\ Len(W[i].bytes) \in Nat
             /\ Len(W[i].bytes) <= Len(B)
             /\ \A k \in 1..Len(W[i].bytes) : B[k] = W[i].bytes[k]
  <2>1. PICK s : s = W[i].bytes
    OBVIOUS
  <2>2. s \in Seq(Octets) /\ Begins(s, w)
    BY <1>4, <2>1
  <2>3. Len(s) \in Nat /\ Len(w) \in Nat
    BY <1>4, <2>2
  <2>4. Len(s) <= Len(B) /\ \A k \in 1..Len(s) : k \in 1..Len(w)
    BY <1>5, <2>2, <2>3 DEF Begins
  <2> QED
    BY <1>5, <2>1, <2>2, <2>3, <2>4 DEF Begins
<1> DEFINE Tick(k) == IF k = N + 2 THEN TickOf(TimeBefore(events, N + 1)) ELSE TickOf(TimeBefore(events, k))
           End(k) == IF k = N + 2 THEN Len(B) ELSE Len(W[k - 1].bytes)
           start == [tick |-> 0, message |-> <<>>, next |-> 1]
           g == [k \in 0..(N + 2) |->
                   IF k = 0 THEN start
                   ELSE [tick |-> Tick(k), message |-> Message(events, u, k), next |-> End(k) + 1]]
           body(f, k) == IF k = 0 THEN start ELSE ReadMessage(B, f[k - 1])
           upTo == CHOOSE f : f = [k \in 0..(N + 2) |-> body(f, k)]
(* A message read at its place.                                             *)
<1>7. TickOf(TimeBefore(events, 1)) = 0
  <2>1. PICK f \in Nat \ {0} : f = FramesPerTick
    BY ExportAssumption
  <2>2. 0 \div f = 0
    BY SMT
  <2> QED
    BY <2>1, <2>2 DEF TickOf, TimeBefore
<1>8. ASSUME NEW i \in 0..N PROVE TickOf(TimeBefore(events, i + 1)) \in Nat
  <2>1. CASE i = 0
    BY <1>7, <2>1
  <2>2. CASE i # 0
    <3>1. i \in 1..Len(events) /\ i + 1 # 1 /\ (i + 1) - 1 = i
      BY <1>1, <2>2
    <3> QED
      BY <3>1, Ticks DEF TimeBefore
  <2> QED
    BY <2>1, <2>2
<1>9. g[1] = ReadMessage(B, g[0])
  <2>1. g[0] = start /\ start.next = 0 + 1 /\ start.tick = 0
    BY <1>1
  <2>2. PICK t, m : t = Tempo(u) /\ m = TempoMessage(u)
    OBVIOUS
  <2>3. WholeMessage(m) /\ t = VarValue(0) \o m /\ Len(t) = 7
    BY <2>2, Meta
  <2>4. W[0].bytes = t
    BY <1>2, <2>2 DEF Grows
  <2>5. HoldsAt(B, 0, t)
    <3>1. 0 \in 0..N
      BY <1>1
    <3>2. Len(t) <= Len(B) /\ \A k \in 1..Len(t) : B[k] = t[k]
      BY <1>6, <2>4, <3>1
    <3>3. \A k \in 1..Len(t) : 0 + k = k
      BY <2>3
    <3> QED
      BY <2>3, <3>2, <3>3 DEF HoldsAt
  <2>6. ReadMessage(B, start) = [tick |-> start.tick + 0, message |-> m, next |-> 0 + Len(t) + 1]
    <3>1. PICK p, d \in Nat : p = 0 /\ d = 0
      OBVIOUS
    <3>2. start.next = p + 1 /\ d < Weight[5] /\ t = VarValue(d) \o m /\ HoldsAt(B, p, t)
      BY <2>1, <2>3, <2>5, <3>1, NoTicks
    <3> HIDE DEF start
    <3>3. ReadMessage(B, start) = [tick |-> start.tick + d, message |-> m, next |-> p + Len(t) + 1]
      <4>1. IsNext(B, start, p, d, m, t)
        BY <1>B, <2>3, <3>2 DEF IsNext
      <4> QED
        BY <4>1, ReadsMessage
    <3> QED
      BY <3>1, <3>3
  <2>7. 1 \in 0..(N + 2) /\ 1 # N + 2 /\ 1 - 1 = 0
    BY <1>1
  <2>8. g[1] = [tick |-> 0, message |-> m, next |-> Len(t) + 1]
    BY <1>7, <2>2, <2>4, <2>7 DEF Message
  <2> HIDE DEF g, start
  <2> QED
    BY <2>1, <2>3, <2>6, <2>8
<1>10. ASSUME NEW i \in 1..N PROVE g[i + 1] = ReadMessage(B, g[i])
  <2>1. PICK s, t, e, m : /\ s = W[i - 1].bytes /\ t = W[i].bytes /\ e = EventBytes(events, i)
                          /\ m = events[i].data
    OBVIOUS
  <2>2. PICK d, x, y \in Nat : /\ d = Delta(events, i) /\ x = TickOf(TimeBefore(events, i))
                               /\ y = TickOf(events[i].time) /\ y = x + d
    BY <1>1, Ticks
  <2>3. d < Weight[5] /\ WholeMessage(m)
    BY <1>1, <2>1, <2>2, Ticks
  <2>4. e = VarValue(d) \o m /\ e \in Seq(Octets)
    BY <1>1, <2>1, <2>2, EventWritten DEF EventBytes
  <2>5. t = s \o e
    <3>1. W[i] = [length |-> W[i - 1].length + Len(VarValue(Delta(events, i))) + Len(events[i].data),
                  bytes |-> W[i - 1].bytes \o EventBytes(events, i)]
      BY <1>1, <1>2 DEF Grows
    <3> QED
      BY <2>1, <3>1
  <2>6. s \in Seq(Octets) /\ Len(s) \in Nat /\ Len(t) <= Len(B) /\ \A k \in 1..Len(t) : B[k] = t[k]
    <3>1. i - 1 \in 0..N /\ i \in 0..N
      OBVIOUS
    <3> QED
      BY <1>6, <2>1, <3>1
  <2>7. Len(t) = Len(s) + Len(e) /\ Len(e) \in Nat /\ \A k \in 1..Len(e) : t[Len(s) + k] = e[k]
    BY <2>4, <2>5, <2>6, Joined
  <2>8. HoldsAt(B, Len(s), e)
    <3>1. \A k \in 1..Len(e) : Len(s) + k \in 1..Len(t)
      BY <2>6, <2>7
    <3> QED
      BY <2>6, <2>7, <3>1 DEF HoldsAt
  <2>9. PICK b : b = [tick |-> x, message |-> Message(events, u, i), next |-> Len(s) + 1]
    OBVIOUS
  <2>10. g[i] = b
    <3>1. i \in 0..(N + 2) /\ i # 0 /\ i # N + 2
      OBVIOUS
    <3> QED
      BY <2>1, <2>2, <2>9, <3>1
  <2>11. ReadMessage(B, b) = [tick |-> b.tick + d, message |-> m, next |-> Len(s) + Len(e) + 1]
    <3>1. b.next = Len(s) + 1
      BY <2>9
    <3>2. PICK p \in Nat : p = Len(s)
      BY <2>6
    <3>3. b.next = p + 1 /\ e = VarValue(d) \o m /\ HoldsAt(B, p, e)
      BY <2>4, <2>8, <3>1, <3>2
    <3>4. ReadMessage(B, b) = [tick |-> b.tick + d, message |-> m, next |-> p + Len(e) + 1]
      <4>1. IsNext(B, b, p, d, m, e)
        BY <1>B, <2>3, <3>3 DEF IsNext
      <4> QED
        BY <4>1, ReadsMessage
    <3> QED
      BY <3>2, <3>4
  <2>12. g[i + 1] = [tick |-> y, message |-> m, next |-> Len(t) + 1]
    <3>1. i + 1 \in 0..(N + 2) /\ i + 1 # 0 /\ i + 1 # N + 2 /\ i + 1 # 1 /\ (i + 1) - 1 = i
      OBVIOUS
    <3>2. TickOf(TimeBefore(events, i + 1)) = y
      BY <2>2, <3>1 DEF TimeBefore
    <3>3. Message(events, u, i + 1) = m
      BY <1>1, <2>1, <3>1 DEF Message
    <3> QED
      BY <2>1, <3>1, <3>2, <3>3
  <2> HIDE DEF g
  <2> QED
    BY <2>2, <2>7, <2>9, <2>10, <2>11, <2>12
<1>11. g[N + 2] = ReadMessage(B, g[N + 1])
  <2>1. PICK e, m : e = EndOfTrack /\ m = EndMessage
    OBVIOUS
  <2>2. WholeMessage(m) /\ e = VarValue(0) \o m /\ Len(e) = 4
    BY <2>1, Meta
  <2>3. HoldsAt(B, Len(w), e) /\ Len(w) \in Nat
    <3>1. Len(w) \in Nat /\ Len(B) = Len(w) + Len(e)
      BY <1>4, <1>5, <2>2
    <3>2. \A k \in 1..Len(e) : B[Len(w) + k] = e[k]
      BY <1>5, <2>1, <2>2
    <3> QED
      BY <3>1, <3>2 DEF HoldsAt
  <2>4. PICK x \in Nat : x = TickOf(TimeBefore(events, N + 1))
    BY <1>8
  <2>5. PICK b : b = [tick |-> x, message |-> Message(events, u, N + 1), next |-> Len(w) + 1]
    OBVIOUS
  <2>6. g[N + 1] = b
    <3>1. N + 1 \in 0..(N + 2) /\ N + 1 # 0 /\ N + 1 # N + 2 /\ (N + 1) - 1 = N
      OBVIOUS
    <3> QED
      BY <1>3, <2>4, <2>5, <3>1
  <2>7. ReadMessage(B, b) = [tick |-> b.tick + 0, message |-> m, next |-> Len(w) + 4 + 1]
    <3>1. PICK p, d \in Nat : p = Len(w) /\ d = 0
      BY <2>3
    <3>2. b.next = p + 1 /\ d < Weight[5] /\ e = VarValue(d) \o m /\ HoldsAt(B, p, e)
      BY <2>2, <2>3, <2>5, <3>1, NoTicks
    <3>3. ReadMessage(B, b) = [tick |-> b.tick + d, message |-> m, next |-> p + Len(e) + 1]
      <4>1. IsNext(B, b, p, d, m, e)
        BY <1>B, <2>2, <3>2 DEF IsNext
      <4> QED
        BY <4>1, ReadsMessage
    <3> QED
      BY <2>2, <3>1, <3>3
  <2>8. g[N + 2] = [tick |-> x, message |-> m, next |-> Len(B) + 1]
    <3>1. N + 2 \in 0..(N + 2) /\ N + 2 # 0 /\ N + 2 # 1
      OBVIOUS
    <3> QED
      BY <1>1, <2>1, <2>4, <3>1 DEF Message
  <2>9. b.tick + 0 = x
    BY <2>5
  <2> HIDE DEF g
  <2> QED
    BY <1>5, <2>3, <2>6, <2>7, <2>8, <2>9
<1>12. ASSUME NEW k \in 0..(N + 2) PROVE g[k] = body(g, k)
  <2>1. CASE k = 0
    BY <2>1
  <2>2. CASE k # 0
    <3>1. PICK j : j = k - 1
      OBVIOUS
    <3>2. j = 0 \/ j \in 1..N \/ j = N + 1
      BY <2>2, <3>1
    <3>3. k = j + 1 /\ (N + 1) + 1 = N + 2 /\ 0 + 1 = 1
      BY <2>2, <3>1
    <3> HIDE DEF g
    <3>4. g[k] = ReadMessage(B, g[j])
      BY <1>9, <1>10, <1>11, <3>2, <3>3
    <3> QED
      BY <2>2, <3>1, <3>4
  <2> QED
    BY <2>1, <2>2
<1>13. g = [k \in 0..(N + 2) |-> body(g, k)]
  <2> HIDE DEF body
  <2> QED
    BY <1>12
<1>14. upTo = [k \in 0..(N + 2) |-> body(upTo, k)]
  <2> HIDE DEF g, body
  <2> QED
    BY <1>13
<1>15. ReadTrack(B, N + 2) = upTo
  BY DEF ReadTrack
<1> HIDE DEF upTo
<1> DEFINE T == {k \in Nat : k <= N + 2 => upTo[k] = g[k]}
<1>16. \A k \in 0..(N + 2) : k \in T
  <2>1. 0 \in T
    <3>1. 0 \in 0..(N + 2)
      BY <1>1
    <3>2. upTo[0] = body(upTo, 0) /\ g[0] = body(g, 0)
      <4> HIDE DEF g, body
      <4> QED
        BY <1>12, <1>14, <3>1
    <3> HIDE DEF g
    <3> QED
      BY <3>2
  <2>2. ASSUME NEW m \in Nat, m \in T PROVE m + 1 \in T
    <3> SUFFICES ASSUME m + 1 <= N + 2 PROVE upTo[m + 1] = g[m + 1]
      OBVIOUS
    <3>1. PICK k \in 0..(N + 2) : k = m + 1 /\ k - 1 = m /\ k # 0
      BY <1>1
    <3>2. upTo[k] = body(upTo, k) /\ g[k] = body(g, k)
      <4> HIDE DEF g, body
      <4> QED
        BY <1>12, <1>14
    <3> HIDE DEF g
    <3>3. upTo[m] = g[m]
      BY <2>2, <1>1
    <3> QED
      BY <3>1, <3>2, <3>3
  <2> HIDE DEF T
  <2>3. Nat \subseteq T
    BY <2>1, <2>2, NatInd
  <2> QED
    BY <1>1, <2>3
<1>17. \A k \in 0..(N + 2) : upTo[k] = g[k]
  <2> HIDE DEF g
  <2> QED
    BY <1>1, <1>16
<1>18. upTo[N + 2].next = Len(B) + 1 /\ upTo[N + 2].message = <<255, 47, 0>>
  <2>1. N + 2 \in 0..(N + 2) /\ N + 2 # 0 /\ N + 2 # 1
    BY <1>1
  <2>2. g[N + 2].next = Len(B) + 1 /\ g[N + 2].message = EndMessage
    BY <1>1, <2>1 DEF Message
  <2> HIDE DEF g
  <2> QED
    BY <1>17, <2>1, <2>2 DEF EndMessage
<1>19. ASSUME NEW i \in 1..N
       PROVE  upTo[i + 1].tick = TickOf(events[i].time) /\ upTo[i + 1].message = events[i].data
  <2>1. i + 1 \in 0..(N + 2) /\ i + 1 # 0 /\ i + 1 # N + 2 /\ i + 1 # 1 /\ (i + 1) - 1 = i
    OBVIOUS
  <2>2. Message(events, u, i + 1) = events[i].data /\ TimeBefore(events, i + 1) = events[i].time
    BY <1>1, <2>1 DEF Message, TimeBefore
  <2>3. g[i + 1].tick = TickOf(events[i].time) /\ g[i + 1].message = events[i].data
    BY <2>1, <2>2
  <2> HIDE DEF g
  <2> QED
    BY <1>17, <2>1, <2>3
<1>20. Track(events, u).bytes = B /\ Track(events, u).length = Len(B)
  BY <1>2, <1>3, <1>4, <1>5
<1>21. DOMAIN events = 1..N
  BY <1>1 DEF MidiEvents
<1> QED
  BY <1>1, <1>15, <1>18, <1>19, <1>20, <1>21 DEF TrackMeant

-----------------------------------------------------------------------------
(* Sound files.                                                             *)

(* Multiples grow with what they are multiples of.                          *)
LEMMA Multiples ==
  ASSUME NEW c \in Nat \ {0}, NEW a \in Nat, NEW b \in Nat
  PROVE  /\ a * c \in Nat /\ (a + 1) * c = a * c + c
         /\ a <= b => a * c <= b * c
<1>1. a * c \in Nat /\ (a + 1) * c = a * c + c
  BY SMT
<1>2. a <= b => a * c <= b * c
  BY SMT
<1> QED
  BY <1>1, <1>2

(* Each place is in one chunk.                                              *)
LEMMA InChunk ==
  ASSUME NEW c \in Nat \ {0}, NEW j \in Nat \ {0}
  PROVE  \E a \in Nat, i \in 1..c : j = a * c + i
<1>1. PICK n \in Nat : n = j - 1
  OBVIOUS
<1>2. n % c \in 0..(c - 1) /\ n \div c \in Nat /\ n = c * (n \div c) + (n % c)
  BY SMT
<1>3. PICK a \in Nat, b \in 0..(c - 1) : n = c * a + b
  BY <1>2
<1>4. PICK i \in 1..c : i = b + 1
  BY <1>3
<1>5. PICK d \in Nat : d = a * c /\ d = c * a
  BY SMT
<1>6. j = d + i
  BY <1>1, <1>3, <1>4, <1>5
<1> QED
  BY <1>5, <1>6

(* A frame that is written.                                                 *)
Frame == [of : Int, scaled : Nat]

(* The buffer after each chunk, and the chunks that are written.            *)
ChunkBuffers(B, total, norm) ==
  /\ B[0] = [j \in 1..CHUNK |-> [of |-> 0, scaled |-> 0]]
  /\ \A k \in 1..Chunks(total) :
       B[k] = Normalized(ReadInto(B[k - 1], total, k), norm)
Writes(U, B, total) ==
  U[0] = <<>> /\ \A k \in 1..Chunks(total) : U[k] = U[k - 1] \o B[k]

(* A chunk that has been read and scaled is full of frames.                 *)
LEMMA ChunkRead ==
  ASSUME NEW total \in Nat, NEW norm \in BOOLEAN, NEW b \in [1..CHUNK -> Frame], NEW k \in Nat
  PROVE  Normalized(ReadInto(b, total, k), norm) \in [1..CHUNK -> Frame]
<1>1. PICK c \in Nat \ {0} : c = CHUNK
  BY ExportAssumption
<1>2. PICK d \in Int : d = (k - 1) * c
  BY SMT
<1>3. PICK r : r = ReadInto(b, total, k)
  OBVIOUS
<1>4. r \in [1..c -> Frame]
  <2>1. \A j \in 1..c : [of |-> d + j, scaled |-> 0] \in Frame
    BY <1>2 DEF Frame
  <2>2. b \in [1..c -> Frame]
    BY <1>1
  <2>3. r = [j \in 1..c |-> IF j <= FramesRead(total, k) THEN [of |-> d + j, scaled |-> 0] ELSE b[j]]
    BY <1>1, <1>2, <1>3 DEF ReadInto
  <2> QED
    BY <2>1, <2>2, <2>3
<1>5. ASSUME NEW j \in 1..c
      PROVE  (IF norm THEN [r[j] EXCEPT !.scaled = @ + 1] ELSE r[j]) \in Frame
  BY <1>4 DEF Frame
<1>6. Normalized(r, norm) = [j \in 1..c |-> IF norm THEN [r[j] EXCEPT !.scaled = @ + 1] ELSE r[j]]
  BY <1>1 DEF Normalized
<1> QED
  BY <1>1, <1>3, <1>5, <1>6

(* The sound is written chunk by chunk.                                     *)
LEMMA AudioGrows ==
  ASSUME NEW total \in Nat, NEW norm \in BOOLEAN
  PROVE  \E B, U : /\ ChunkBuffers(B, total, norm) /\ Writes(U, B, total)
                   /\ \A k \in 0..Chunks(total) : B[k] \in [1..CHUNK -> Frame]
                   /\ ExportAudio(total, norm) = U[Chunks(total)]
<1>1. PICK K \in Nat : K = Chunks(total)
  <2>1. PICK c \in Nat \ {0} : c = CHUNK
    BY ExportAssumption
  <2>2. total \div c \in Nat
    BY SMT
  <2> QED
    BY <2>1, <2>2 DEF Chunks
<1> DEFINE S == [1..CHUNK -> Frame]
           zero == [j \in 1..CHUNK |-> [of |-> 0, scaled |-> 0]]
           next(k, b) == Normalized(ReadInto(b, total, k), norm)
           body(f, k) == IF k = 0 THEN zero ELSE next(k, f[k - 1])
           B == CHOOSE f : f = [k \in 0..K |-> body(f, k)]
           step == [n \in Nat |-> [b \in S |-> next(n + 1, b)]]
<1>2. zero \in S
  BY DEF Frame
<1>3. step \in [Nat -> [S -> S]]
  <2>1. ASSUME NEW n \in Nat, NEW b \in S PROVE next(n + 1, b) \in S
    <3>1. n + 1 \in Nat
      OBVIOUS
    <3> QED
      BY <3>1, ChunkRead
  <2> HIDE DEF next, S
  <2> QED
    BY <2>1
<1>4. PICK f : Solves(f, S, zero, step)
  <2> HIDE DEF zero, step, S
  <2> QED
    BY <1>2, <1>3, Recursion
<1>5. f \in [Nat -> S] /\ f[0] = zero /\ \A n \in Nat : f[n + 1] = step[n][f[n]]
  BY <1>4 DEF Solves
<1> DEFINE g == [k \in 0..K |-> f[k]]
<1>6. ASSUME NEW k \in 0..K PROVE g[k] = body(g, k)
  <2>1. CASE k = 0
    BY <1>5, <2>1
  <2>2. CASE k # 0
    <3>1. PICK n \in Nat : n = k - 1 /\ n + 1 = k /\ n \in 0..K
      BY <1>1, <2>2
    <3>2. f[n] \in S /\ f[n + 1] = step[n][f[n]]
      BY <1>5
    <3>3. step[n][f[n]] = next(n + 1, f[n])
      <4> HIDE DEF next, S
      <4> QED
        BY <3>2
    <3>4. g[k] = f[k] /\ g[k - 1] = f[n]
      BY <3>1
    <3> HIDE DEF g, step, S, next
    <3> QED
      BY <2>2, <3>1, <3>2, <3>3, <3>4
  <2> QED
    BY <2>1, <2>2
<1>7. g = [k \in 0..K |-> body(g, k)]
  <2> HIDE DEF body
  <2> QED
    BY <1>6
<1>8. B = [k \in 0..K |-> body(B, k)]
  <2> HIDE DEF g, body
  <2> QED
    BY <1>7
<1> DEFINE body2(h, k) == IF k = 0 THEN <<>> ELSE h[k - 1] \o B[k]
           U == CHOOSE h : h = [k \in 0..K |-> body2(h, k)]
<1>9. ExportAudio(total, norm) = U[K]
  BY <1>1 DEF ExportAudio
<1> HIDE DEF B
<1>10. ChunkBuffers(B, total, norm)
  <2>1. \A k \in 0..K : B[k] = body(B, k)
    <3> HIDE DEF body
    <3> QED
      BY <1>8
  <2>2. 0 \in 0..K /\ \A k \in 1..K : k \in 0..K /\ k # 0
    BY <1>1
  <2> QED
    BY <1>1, <2>1, <2>2 DEF ChunkBuffers
<1> DEFINE T == {k \in Nat : k <= K => B[k] \in S}
<1>11. \A k \in 0..K : B[k] \in S
  <2>1. 0 \in T
    BY <1>2, <1>10 DEF ChunkBuffers
  <2>2. ASSUME NEW n \in Nat, n \in T PROVE n + 1 \in T
    <3> SUFFICES ASSUME n + 1 <= K PROVE B[n + 1] \in S
      OBVIOUS
    <3>1. PICK k \in 1..K : k = n + 1 /\ k - 1 = n /\ k \in Nat
      BY <1>1
    <3>2. B[n] \in S
      BY <1>1, <2>2
    <3>3. B[k] = next(k, B[n])
      BY <1>1, <1>10, <3>1 DEF ChunkBuffers
    <3> QED
      BY <3>1, <3>2, <3>3, ChunkRead
  <2> HIDE DEF T
  <2>3. Nat \subseteq T
    BY <2>1, <2>2, NatInd
  <2>4. \A k \in 0..K : k \in T /\ k <= K
    BY <1>1, <2>3
  <2> QED
    BY <2>4 DEF T
<1> DEFINE Q == Seq(Frame)
           step2 == [n \in Nat |-> [s \in Q |-> IF n + 1 <= K THEN s \o B[n + 1] ELSE s]]
<1>12. step2 \in [Nat -> [Q -> Q]] /\ <<>> \in Q
  <2>1. ASSUME NEW n \in Nat, NEW s \in Q, n + 1 <= K PROVE s \o B[n + 1] \in Q
    <3>1. PICK b : b = B[n + 1]
      OBVIOUS
    <3>2. n + 1 \in 0..K
      BY <1>1, <2>1
    <3>3. b \in [1..CHUNK -> Frame] /\ CHUNK \in Nat
      BY <1>11, <3>1, <3>2, ExportAssumption
    <3>4. b \in Seq(Frame)
      BY <3>3
    <3> QED
      BY <3>1, <3>4
  <2>2. <<>> \in Q
    OBVIOUS
  <2> HIDE DEF Q
  <2> QED
    BY <2>1, <2>2
<1>13. PICK e : Solves(e, Q, <<>>, step2)
  <2>1. PICK z : z = <<>>
    OBVIOUS
  <2> HIDE DEF step2, Q
  <2>2. \E e : Solves(e, Q, z, step2)
    BY <1>12, <2>1, Recursion
  <2> QED
    BY <2>1, <2>2
<1>14. e \in [Nat -> Q] /\ e[0] = <<>> /\ \A n \in Nat : e[n + 1] = step2[n][e[n]]
  BY <1>13 DEF Solves
<1> DEFINE g2 == [k \in 0..K |-> e[k]]
<1>15. ASSUME NEW k \in 0..K PROVE g2[k] = body2(g2, k)
  <2>1. CASE k = 0
    BY <1>14, <2>1
  <2>2. CASE k # 0
    <3>1. PICK n \in Nat : n = k - 1 /\ n + 1 = k /\ n \in 0..K /\ n + 1 <= K
      BY <1>1, <2>2
    <3>2. e[n] \in Q /\ e[n + 1] = step2[n][e[n]]
      BY <1>14
    <3>3. step2[n][e[n]] = e[n] \o B[n + 1]
      <4> HIDE DEF Q
      <4> QED
        BY <3>1, <3>2
    <3>4. g2[k] = e[k] /\ g2[k - 1] = e[n]
      BY <3>1
    <3> HIDE DEF g2, step2, Q
    <3> QED
      BY <2>2, <3>1, <3>2, <3>3, <3>4
  <2> QED
    BY <2>1, <2>2
<1>16. g2 = [k \in 0..K |-> body2(g2, k)]
  <2> HIDE DEF body2
  <2> QED
    BY <1>15
<1>17. U = [k \in 0..K |-> body2(U, k)]
  <2> HIDE DEF g2, body2
  <2> QED
    BY <1>16
<1> HIDE DEF U
<1>18. Writes(U, B, total)
  <2>1. \A k \in 0..K : U[k] = body2(U, k)
    <3> HIDE DEF body2
    <3> QED
      BY <1>17
  <2>2. 0 \in 0..K /\ \A k \in 1..K : k \in 0..K /\ k # 0
    BY <1>1
  <2> QED
    BY <1>1, <2>1, <2>2 DEF Writes
<1> QED
  BY <1>1, <1>9, <1>10, <1>11, <1>18

(* What has been written after k chunks.                                    *)
LEMMA ChunksWritten ==
  ASSUME NEW total \in Nat, NEW B, NEW U, Writes(U, B, total),
         \A k \in 0..Chunks(total) : B[k] \in [1..CHUNK -> Frame],
         Chunks(total) \in Nat, NEW k \in 0..Chunks(total)
  PROVE  /\ U[k] \in Seq(Frame) /\ Len(U[k]) = k * CHUNK
         /\ \A a \in 0..(k - 1) : \A i \in 1..CHUNK : U[k][(a * CHUNK) + i] = B[a + 1][i]
<1>1. PICK c \in Nat \ {0} : c = CHUNK
  BY ExportAssumption
<1> DEFINE Has(n) == /\ U[n] \in Seq(Frame) /\ Len(U[n]) = n * c
                      /\ \A a \in 0..(n - 1) : \A i \in 1..c : U[n][(a * c) + i] = B[a + 1][i]
           T == {n \in Nat : n <= Chunks(total) => Has(n)}
<1>2. 0 \in T
  <2>1. U[0] = <<>> /\ 0 * c = 0
    BY DEF Writes
  <2>2. PICK z : z = <<>> /\ z \in Seq(Frame) /\ Len(z) = 0
    <3>1. <<>> \in Seq(Frame) /\ Len(<<>>) = 0
      OBVIOUS
    <3> QED
      BY <3>1
  <2>3. \A a \in 0..(0 - 1) : FALSE
    OBVIOUS
  <2> QED
    BY <2>1, <2>2, <2>3
<1>3. ASSUME NEW m \in Nat, m \in T PROVE m + 1 \in T
  <2> SUFFICES ASSUME m + 1 <= Chunks(total) PROVE Has(m + 1)
    <3> HIDE DEF Has
    <3> QED
      OBVIOUS
  <2>1. PICK n \in 1..Chunks(total) : n = m + 1 /\ n - 1 = m /\ n \in 0..Chunks(total)
    OBVIOUS
  <2>2. Has(m)
    <3> HIDE DEF Has
    <3> QED
      BY <1>3, <2>1
  <2>3. PICK s, t, b : s = U[m] /\ t = U[n] /\ b = B[n]
    OBVIOUS
  <2>4. t = s \o b
    BY <2>1, <2>3 DEF Writes
  <2>5. b \in [1..c -> Frame]
    BY <1>1, <2>1, <2>3
  <2>6. b \in Seq(Frame) /\ Len(b) = c
    BY <2>5
  <2>7. PICK d \in Nat : d = m * c /\ (m + 1) * c = d + c
    BY Multiples
  <2>8. s \in Seq(Frame) /\ Len(s) = d
    BY <2>2, <2>3, <2>7
  <2>14. s \in Seq(Frame) /\ b \in Seq(Frame)
    BY <2>6, <2>8
  <2>9. t \in Seq(Frame) /\ Len(t) = d + c
    <3>1. t \in Seq(Frame) /\ Len(t) = Len(s) + Len(b)
      BY <2>4, <2>14, Joined
    <3> QED
      BY <2>6, <2>8, <3>1
  <2>10. \A i \in 1..d : t[i] = s[i]
    <3>1. \A i \in 1..Len(s) : t[i] = s[i]
      BY <2>4, <2>14, Joined
    <3> QED
      BY <2>8, <3>1
  <2>11. \A i \in 1..c : t[d + i] = b[i]
    <3>1. \A i \in 1..Len(b) : t[Len(s) + i] = b[i]
      BY <2>4, <2>14, Joined
    <3> QED
      BY <2>6, <2>8, <3>1
  <2>12. ASSUME NEW a \in 0..m, NEW i \in 1..c PROVE t[(a * c) + i] = B[a + 1][i]
    <3>1. CASE a = m
      BY <2>1, <2>3, <2>7, <2>11, <3>1
    <3>2. CASE a # m
      <4>1. a \in 0..(m - 1) /\ a \in Nat /\ a + 1 \in Nat /\ a + 1 <= m
        BY <3>2
      <4>2. PICK x, y \in Nat : x = a * c /\ y = (a + 1) * c /\ y = x + c /\ y <= d
        BY <2>7, <4>1, Multiples
      <4>3. x + i \in 1..d
        BY <4>2
      <4>4. s[x + i] = B[a + 1][i]
        BY <2>2, <2>3, <4>1, <4>2
      <4> QED
        BY <2>10, <4>2, <4>3, <4>4
    <3> QED
      BY <3>1, <3>2
  <2>13. (m + 1) - 1 = m
    OBVIOUS
  <2> QED
    BY <2>1, <2>3, <2>7, <2>9, <2>12, <2>13
<1>4. k \in T /\ k <= Chunks(total)
  <2>1. k \in Nat /\ k <= Chunks(total)
    OBVIOUS
  <2> HIDE DEF T
  <2> QED
    BY <1>2, <1>3, <2>1, NatInd
<1>5. Has(k)
  BY <1>4
<1> HIDE DEF Has, T
<1>6. k * c = k * CHUNK
  BY <1>1
<1> QED
  BY <1>1, <1>5 DEF Has

(* Each frame is written once, in its place, scaled once if it is at all.   *)
LEMMA AudioCopied ==
  ASSUME NEW total \in Nat, NEW norm \in BOOLEAN
  PROVE  AudioMeant(total, norm, ExportAudio(total, norm))
<1>1. PICK c \in Nat \ {0} : c = CHUNK
  BY ExportAssumption
<1>2. PICK q \in Nat, d \in Nat, r \in 0..(c - 1) : q = total \div c /\ d = q * c /\ total = d + r
  <2>1. total % c \in 0..(c - 1) /\ total \div c \in Nat /\ total = c * (total \div c) + (total % c)
    BY SMT
  <2>2. PICK q \in Nat, r \in 0..(c - 1) : q = total \div c /\ total = c * q + r
    BY <2>1
  <2>3. PICK d \in Nat : d = q * c /\ d = c * q
    BY SMT
  <2> QED
    BY <2>2, <2>3
<1>3. Chunks(total) = q + 1
  BY <1>1, <1>2 DEF Chunks
<1>4. PICK B, U : /\ ChunkBuffers(B, total, norm) /\ Writes(U, B, total)
                  /\ \A k \in 0..Chunks(total) : B[k] \in [1..CHUNK -> Frame]
                  /\ ExportAudio(total, norm) = U[Chunks(total)]
  BY AudioGrows
<1>5. PICK out : out = ExportAudio(total, norm)
  OBVIOUS
<1>6. /\ Len(out) = (q + 1) * c
      /\ \A a \in 0..q : \A i \in 1..c : out[(a * c) + i] = B[a + 1][i]
  <2>1. q + 1 \in 0..Chunks(total) /\ Chunks(total) \in Nat /\ (q + 1) - 1 = q
    BY <1>3
  <2>2. PICK k : k = q + 1
    OBVIOUS
  <2>3. /\ Len(U[k]) = k * CHUNK
        /\ \A a \in 0..(k - 1) : \A i \in 1..CHUNK : U[k][(a * CHUNK) + i] = B[a + 1][i]
    BY <1>4, <2>1, <2>2, ChunksWritten
  <2>4. out = U[k]
    BY <1>3, <1>4, <1>5, <2>2
  <2>5. /\ Len(out) = k * c
        /\ \A a \in 0..(k - 1) : \A i \in 1..c : out[(a * c) + i] = B[a + 1][i]
    BY <1>1, <2>3, <2>4, Zenon
  <2> QED
    BY <2>1, <2>2, <2>5, Zenon
<1>7. PICK one \in Nat : one = IF norm THEN 1 ELSE 0
  OBVIOUS
<1>8. ASSUME NEW a \in 0..q, NEW i \in 1..c
      PROVE  B[a + 1][i].of = IF a < q \/ i <= r THEN (a * c) + i ELSE B[a][i].of
  <2>1. PICK k \in 1..Chunks(total) : k = a + 1 /\ k - 1 = a
    BY <1>3
  <2>2. B[k] = Normalized(ReadInto(B[a], total, k), norm)
    BY <1>4, <2>1 DEF ChunkBuffers
  <2>3. PICK x \in Nat : x = a * c
    BY Multiples
  <2>4. FramesRead(total, k) = IF a < q THEN c ELSE r
    <3>1. CASE a < q
      <4>1. (a + 1) * c <= q * c /\ (a + 1) * c = x + c
        BY <2>3, <3>1, Multiples
      <4>2. x + c <= total
        BY <1>2, <4>1
      <4> QED
        BY <1>1, <2>1, <2>3, <3>1, <4>2 DEF FramesRead
    <3>2. CASE a = q
      <4>1. x = d /\ ~(x + c <= total) /\ total - x = r
        BY <1>2, <2>3, <3>2
      <4> QED
        BY <1>1, <2>1, <2>3, <3>2, <4>1 DEF FramesRead
    <3> QED
      BY <3>1, <3>2
  <2>5. PICK t : t = ReadInto(B[a], total, k)
    OBVIOUS
  <2>6. t[i] = IF i <= FramesRead(total, k) THEN [of |-> x + i, scaled |-> 0] ELSE B[a][i]
    BY <1>1, <2>1, <2>3, <2>5 DEF ReadInto
  <2>7. B[k][i] = IF norm THEN [t[i] EXCEPT !.scaled = @ + 1] ELSE t[i]
    BY <1>1, <2>2, <2>5 DEF Normalized
  <2>8. B[a][i] \in Frame
    <3>1. a \in 0..Chunks(total) /\ i \in 1..CHUNK
      BY <1>1, <1>3
    <3> QED
      BY <1>4, <3>1
  <2>9. t[i] \in Frame /\ t[i].of = IF a < q \/ i <= r THEN x + i ELSE B[a][i].of
    BY <2>3, <2>4, <2>6, <2>8 DEF Frame
  <2>10. B[k][i].of = t[i].of
    BY <2>7, <2>9 DEF Frame
  <2> QED
    BY <2>1, <2>3, <2>9, <2>10
<1>9. ASSUME NEW a \in 0..q, NEW i \in 1..c, a < q \/ i <= r
      PROVE  B[a + 1][i] = [of |-> (a * c) + i, scaled |-> one]
  <2>1. PICK k \in 1..Chunks(total) : k = a + 1 /\ k - 1 = a
    BY <1>3
  <2>2. B[k] = Normalized(ReadInto(B[a], total, k), norm)
    BY <1>4, <2>1 DEF ChunkBuffers
  <2>3. PICK x \in Nat : x = a * c
    BY Multiples
  <2>4. i <= FramesRead(total, k)
    <3>1. CASE a < q
      <4>1. (a + 1) * c <= q * c /\ (a + 1) * c = x + c
        BY <2>3, <3>1, Multiples
      <4>2. x + c <= total
        BY <1>2, <4>1
      <4> QED
        BY <1>1, <2>1, <2>3, <3>1, <4>2 DEF FramesRead
    <3>2. CASE a = q
      <4>1. x = d /\ ~(x + c <= total) /\ total - x = r
        BY <1>2, <2>3, <3>2
      <4> QED
        BY <1>1, <1>9, <2>1, <2>3, <3>2, <4>1 DEF FramesRead
    <3> QED
      BY <3>1, <3>2
  <2>5. PICK t : t = ReadInto(B[a], total, k)
    OBVIOUS
  <2>6. t[i] = [of |-> x + i, scaled |-> 0]
    BY <1>1, <2>1, <2>3, <2>4, <2>5 DEF ReadInto
  <2>7. B[k][i] = IF norm THEN [t[i] EXCEPT !.scaled = @ + 1] ELSE t[i]
    BY <1>1, <2>2, <2>5 DEF Normalized
  <2> QED
    BY <1>7, <2>1, <2>3, <2>6, <2>7
<1>10. ASSUME NEW j \in Nat \ {0}, j <= (q + 1) * c
       PROVE  \E a \in 0..q, i \in 1..c : j = a * c + i /\ ((a < q \/ i <= r) <=> (j <= total))
  <2>1. PICK a \in Nat, i \in 1..c : j = a * c + i
    BY InChunk
  <2>2. PICK x \in Nat : x = a * c /\ (a + 1) * c = x + c
    BY Multiples
  <2>3. PICK y \in Nat : y = (q + 1) * c /\ y = d + c
    BY <1>2, Multiples
  <2>4. a <= q => x <= d
    BY <1>2, <2>2, Multiples
  <2>5. a < q => x + c <= d
    <3>1. a < q => a + 1 <= q
      OBVIOUS
    <3> QED
      BY <1>2, <2>2, <3>1, Multiples
  <2>6. a > q => d + c <= x
    <3>1. a > q => q + 1 <= a
      OBVIOUS
    <3> QED
      BY <2>2, <2>3, <3>1, Multiples
  <2>7. a = q => x = d
    BY <1>2, <2>2
  <2>8. j = x + i
    BY <2>1, <2>2
  <2>9. a \in 0..q
    BY <1>10, <2>3, <2>6, <2>8
  <2>10. (a < q \/ i <= r) <=> (j <= total)
    BY <1>2, <2>5, <2>7, <2>8, <2>9
  <2> QED
    BY <2>1, <2>9, <2>10
<1>11. Len(out) = Chunks(total) * CHUNK
  BY <1>1, <1>3, <1>6
<1>12. ASSUME NEW j \in 1..total PROVE out[j] = [of |-> j, scaled |-> one]
  <2>1. j \in Nat \ {0} /\ j <= (q + 1) * c /\ j <= total
    <3>1. PICK y \in Nat : y = (q + 1) * c /\ y = d + c
      BY <1>2, Multiples
    <3> QED
      BY <1>2, <3>1
  <2>2. PICK a \in 0..q, i \in 1..c : j = a * c + i /\ (a < q \/ i <= r)
    BY <1>10, <2>1
  <2>3. out[(a * c) + i] = B[a + 1][i]
    BY <1>6
  <2> QED
    BY <1>9, <2>2, <2>3
<1>13. ASSUME NEW j \in (total + 1)..Len(out)
       PROVE  out[j].of = IF j > CHUNK THEN j - CHUNK ELSE 0
  <2>1. PICK y \in Nat : y = (q + 1) * c
    BY Multiples
  <2>2. j \in Nat \ {0} /\ j > total /\ j <= (q + 1) * c
    BY <1>6, <2>1
  <2>3. PICK a \in 0..q, i \in 1..c : j = a * c + i /\ ~(a < q) /\ ~(i <= r)
    BY <1>10, <2>2
  <2>4. a = q /\ i > r /\ j = d + i
    BY <1>2, <2>3
  <2>5. out[j] = B[q + 1][i]
    <3>1. q \in 0..q /\ j = (q * c) + i
      BY <2>3, <2>4
    <3> QED
      BY <1>6, <3>1
  <2>6. B[q + 1][i].of = B[q][i].of
    <3>1. q \in 0..q /\ ~(q < q) /\ ~(i <= r)
      BY <2>4
    <3> QED
      BY <1>8, <3>1
  <2>7. CASE q = 0
    <3>1. B[0][i].of = 0
      BY <1>1, <1>4 DEF ChunkBuffers
    <3>2. d = 0 /\ ~(j > c)
      BY <1>2, <2>4, <2>7
    <3> QED
      BY <1>1, <2>5, <2>6, <2>7, <3>1, <3>2
  <2>8. CASE q # 0
    <3>1. PICK a2 \in 0..q : a2 + 1 = q /\ a2 < q /\ a2 \in Nat
      BY <2>8
    <3>2. PICK x \in Nat : x = a2 * c /\ d = x + c
      BY <1>2, <3>1, Multiples
    <3>3. B[q][i].of = x + i
      BY <1>8, <3>1, <3>2
    <3>4. j > c /\ j - c = x + i
      BY <2>4, <3>2
    <3> QED
      BY <1>1, <2>5, <2>6, <3>3, <3>4
  <2> QED
    BY <2>7, <2>8
<1> QED
  BY <1>5, <1>7, <1>11, <1>12, <1>13 DEF AudioMeant

-----------------------------------------------------------------------------
(* Exported files, for any events, sounds and sizes: a MIDI file that is    *)
(* read gives back each event at its tick, a sound file each frame once     *)
(* (export_midi, put_var_value, put_pitch, export_audio).                   *)
THEOREM ExportsAreMeant == SpecLibrary => []ExportsOK
<1>1. InitLibrary => ExportsOK
  BY DEF InitLibrary, NoCall, ExportsOK
<1>2. ExportsOK /\ [NextLibrary]_libVars => ExportsOK'
  <2> SUFFICES ASSUME ExportsOK, [NextLibrary]_libVars PROVE ExportsOK'
    OBVIOUS
  <2>1. CASE UNCHANGED call
    BY <2>1 DEF ExportsOK
  <2>2. CASE CallNumbers
    BY <2>2 DEF CallNumbers, Calls, ExportsOK
  <2>3. CASE CallText
    BY <2>3 DEF CallText, Calls, ExportsOK
  <2>4. CASE CallBytes
    BY <2>4 DEF CallBytes, Calls, ExportsOK
  <2>5. CASE CallExport
    <3>1. ASSUME NEW events \in EventLists, Calls("export_midi", events, Track(events, Uspqn))
          PROVE  ExportsOK'
      <4>1. TrackMeant(events, Track(events, Uspqn))
        <5>1. MidiEvents(events) /\ Uspqn \in Nat
          BY LibraryAssumption
        <5> QED
          BY <5>1, TrackRead
      <4> QED
        BY <3>1, <4>1 DEF Calls, ExportsOK
    <3>2. ASSUME NEW x \in Bends, Calls("put_pitch", x, PutPitch(x, 1))
          PROVE  ExportsOK'
      <4>1. PitchMeant(x, PutPitch(x, 1))
        <5>1. x \in PitchSteps
          BY LibraryAssumption
        <5> QED
          BY <5>1, Bend
      <4> QED
        BY <3>2, <4>1 DEF Calls, ExportsOK
    <3>3. ASSUME NEW total \in SoundLengths, NEW norm \in BOOLEAN,
                 Calls("export_audio", <<total, norm>>, ExportAudio(total, norm))
          PROVE  ExportsOK'
      <4>1. total \in Nat
        BY LibraryAssumption
      <4>2. AudioMeant(total, norm, ExportAudio(total, norm))
        BY <4>1, AudioCopied
      <4> QED
        BY <3>3, <4>2 DEF Calls, ExportsOK
    <3> QED
      BY <2>5, <3>1, <3>2, <3>3 DEF CallExport
  <2> QED
    BY <2>1, <2>2, <2>3, <2>4, <2>5 DEF NextLibrary, libVars
<1> QED
  BY <1>1, <1>2, PTL DEF SpecLibrary
=============================================================================
