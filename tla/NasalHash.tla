------------------------------- MODULE NasalHash -------------------------------
(***************************************************************************)
(* The hash tables of Nasal: entries in the order they were made, and an   *)
(* index table twice as long that is searched from a cell given by the     *)
(* high bits of the key's hash code, in odd steps given by the low ones.   *)
(* Deleted cells stay until the table is rebuilt.                          *)
(*                                                                         *)
(* Keys are numbers, and strings with a name, their contents; the interned *)
(* symbol of a name is one of them.  Local variables are looked up by the  *)
(* identity of the symbol, everything else by name.                        *)
(***************************************************************************)
EXTENDS Integers, FiniteSets

CONSTANTS
  Keys,      \* key objects,
  Name,      \* their contents,
  Syms,      \* those that are interned,
  Numbers,   \* the names that are of numbers,
  Empty,     \* and that of the empty string
  Vals,
  None,      \* the contents of an entry that has not been written
  Bits,      \* the width of hash codes (32)
  HashCodes  \* the hash functions, from names to codes, that are tried

Names == {Name[k] : k \in Keys}

POW2[n \in Nat] == IF n = 0 THEN 1 ELSE 2 * POW2[n - 1]

ASSUME HashAssumption ==
  /\ Syms \subseteq Keys
  /\ \A s, t \in Syms : Name[s] = Name[t] => s = t
  /\ Numbers \subseteq Names \ ({Name[s] : s \in Syms} \union {Empty})
  /\ None \notin Vals
  /\ Bits \in Nat /\ IsFiniteSet(Keys) /\ Cardinality(Keys) < POW2[Bits]
  /\ HashCodes \subseteq [Names -> 0..POW2[Bits] - 1]

VARIABLES
  hash,   \* the record, struct HashRec
  code    \* the hash function

EMPTY == -1
DELETED == -2

(* A new hash has no record.                                                *)
NoHashRec ==
  [null |-> TRUE, size |-> 0, lgsz |-> 0, next |-> 0, tab |-> <<>>, ents |-> <<>>]

HashRec(size, lgsz, next, tab, ents) ==
  [null |-> FALSE, size |-> size, lgsz |-> lgsz, next |-> next, tab |-> tab, ents |-> ents]

NewHash == hash = NoHashRec /\ code \in HashCodes

hashVars == <<hash, code>>

NCells(r) == 2 * POW2[r.lgsz]
Cells(r) == 0..NCells(r) - 1

-----------------------------------------------------------------------------
(* equal: the length of a number is 0, so the empty string is taken for any *)
(* number that lies on its walk.                                            *)
Equal(n, m) == n = m \/ (n = Empty /\ m \in Numbers)

(* findcell: the first cell of the key's walk that is empty or has the key  *)
(* (mutants: the step is not odd; the walk ends at a deleted cell).         *)
HBits(r, h) == IF r.lgsz = 0 THEN 0 ELSE h \div POW2[Bits - r.lgsz]

Step_Even(r, h) == (2 * h + 2) % NCells(r)
Step(r, h) == (2 * h + 1) % NCells(r)

Cell(r, h, n) == (HBits(r, h) + n * Step(r, h)) % NCells(r)

Stops_AtDeleted(r, n, c) ==
  r.tab[c] < 0 \/ Equal(n, Name[r.ents[r.tab[c]].key])
Stops(r, n, c) ==
  r.tab[c] = EMPTY
  \/ (r.tab[c] # DELETED /\ Equal(n, Name[r.ents[r.tab[c]].key]))

FirstStop(r, n, h) ==
  CHOOSE i \in Cells(r) :
    Stops(r, n, Cell(r, h, i)) /\ \A j \in 0..i-1 : ~Stops(r, n, Cell(r, h, j))

FindCell(r, n) == Cell(r, code[n], FirstStop(r, n, code[n]))

(* hashset: in a record that has room.                                      *)
AddEntry(r, c, k, v) ==
  HashRec(r.size + 1, r.lgsz, r.next + 1, [r.tab EXCEPT ![c] = r.next],
          [r.ents EXCEPT ![r.next] = [key |-> k, val |-> v]])

SetAt(r, c, k, v) ==
  IF r.tab[c] = EMPTY THEN AddEntry(r, c, k, v)
  ELSE HashRec(r.size, r.lgsz, r.next, r.tab, [r.ents EXCEPT ![r.tab[c]].val = v])

HashSet(r, k, v) == SetAt(r, FindCell(r, Name[k]), k, v)

(* resize: the least power of two above the number of entries; they are     *)
(* entered again in the order of their cells.                               *)
LgSize(n) == CHOOSE l \in 0..n : POW2[l] > n /\ \A m \in 0..l-1 : POW2[m] <= n

NewRec(l) ==
  HashRec(0, l, 0, [c \in 0..2 * POW2[l] - 1 |-> EMPTY],
          [e \in 0..POW2[l] - 1 |-> [key |-> None, val |-> None]])

Refill(r, done, c) ==
  IF r.tab[c] >= 0
  THEN HashSet(done, r.ents[r.tab[c]].key, r.ents[r.tab[c]].val)
  ELSE done

Rebuilt(r) ==
  LET upTo[c \in -1..NCells(r) - 1] ==
        IF c = -1 THEN NewRec(LgSize(r.size)) ELSE Refill(r, upTo[c - 1], c)
  IN  IF r.null THEN NewRec(0) ELSE upTo[NCells(r) - 1]

(* Room is made before the key is looked for.                               *)
Full(r) == r.next >= POW2[r.lgsz]
HashWithRoom(r) == IF r.null \/ Full(r) THEN Rebuilt(r) ELSE r

-----------------------------------------------------------------------------
(* naHash_get: the value, or none. *)
Lookup(r, n) == IF r.null THEN EMPTY ELSE r.tab[FindCell(r, n)]
Found(r, n) == Lookup(r, n) >= 0
ValueAt(r, e) == IF e >= 0 THEN r.ents[e].val ELSE None
Get(r, n) == ValueAt(r, Lookup(r, n))

(* naHash_set *)
Set(k, v) == hash' = HashSet(HashWithRoom(hash), k, v)

(* naiHash_tryset: only if it is there. *)
TrySet(k, v) ==
  /\ Found(hash, Name[k])
  /\ hash' = SetAt(hash, FindCell(hash, Name[k]), k, v)

(* naHash_delete: half empty, the table shrinks.  For one of a single entry *)
(* the half is 1 << -1, which is undefined: any way.                        *)
Without(r, c) == HashRec(r.size - 1, r.lgsz, r.next, [r.tab EXCEPT ![c] = DELETED], r.ents)
HalfEmpty(r) == IF r.lgsz = 0 THEN BOOLEAN ELSE {r.size < POW2[r.lgsz - 1]}

Deletions(r, half) == {IF shrinks THEN Rebuilt(r) ELSE r : shrinks \in half}

DeleteAt(r) == hash' \in Deletions(r, HalfEmpty(r))

Delete(k) ==
  /\ Found(hash, Name[k])
  /\ DeleteAt(Without(hash, FindCell(hash, Name[k])))

(* naiHash_sym: by identity. *)
SymStops(r, s, c) ==
  r.tab[c] = EMPTY \/ (r.tab[c] # DELETED /\ r.ents[r.tab[c]].key = s)

SymCell(r, s, h) ==
  Cell(r, h, CHOOSE i \in Cells(r) :
               /\ SymStops(r, s, Cell(r, h, i))
               /\ \A j \in 0..i-1 : ~SymStops(r, s, Cell(r, h, j)))

SymLookup(r, s) == IF r.null THEN EMPTY ELSE r.tab[SymCell(r, s, code[Name[s]])]

(* naiHash_newsym: an argument in a fresh set of local variables, which is  *)
(* not there yet: it takes the first empty cell.                            *)
NewCell(r, h) ==
  Cell(r, h, CHOOSE n \in Cells(r) :
               /\ r.tab[Cell(r, h, n)] = EMPTY
               /\ \A m \in 0..n-1 : r.tab[Cell(r, h, m)] # EMPTY)

NewEntry(r, s, v) == AddEntry(r, NewCell(r, code[Name[s]]), s, v)

NewSym(s, v) ==
  /\ ~Found(hash, Name[s])
  /\ hash' = NewEntry(HashWithRoom(hash), s, v)

NextHash ==
  /\ \/ \E k \in Keys : Delete(k) \/ \E v \in Vals : Set(k, v) \/ TrySet(k, v)
     \/ \E s \in Syms : \E v \in Vals : NewSym(s, v)
  /\ UNCHANGED code

SpecHash == NewHash /\ [][NextHash]_hashVars

(* naHash_keys: in the order of the cells, which it counts from the start.  *)
LiveCells(r) == IF r.null THEN {} ELSE {c \in Cells(r) : r.tab[c] >= 0}
KeyAt(r, i) ==
  r.ents[r.tab[CHOOSE c \in LiveCells(r) :
                 Cardinality({d \in LiveCells(r) : d < c}) = i]].key
KeyList(r) == [i \in 1..Cardinality(LiveCells(r)) |-> KeyAt(r, i - 1)]

(* The map a hash stands for. *)
Map == [n \in Names |-> Get(hash, n)]

-----------------------------------------------------------------------------
(* The counters count, every walk ends at an empty cell, each entry has one *)
(* cell, and no two have the same name: a key put back after its deletion   *)
(* does not come out twice.                                                 *)
Entries(r) == {r.tab[c] : c \in LiveCells(r)}

CountsOK ==
  /\ hash.size = Cardinality(LiveCells(hash))
  /\ hash.next <= POW2[hash.lgsz]
  /\ Entries(hash) \subseteq 0..hash.next - 1

WalksEnd ==
  ~hash.null =>
    \A n \in Names : {Cell(hash, code[n], i) : i \in Cells(hash)} = Cells(hash)
                     /\ \E c \in Cells(hash) : hash.tab[c] = EMPTY

NameIn(c) == Name[hash.ents[hash.tab[c]].key]

OneCellEach ==
  \A c, d \in LiveCells(hash) :
    NameIn(c) = NameIn(d) => c = d

(* Looking up a symbol by its identity finds what a search by name finds,   *)
(* unless the entry was made with another object of that name.              *)
ByName(s, e) == IF e >= 0 /\ hash.ents[e].key = s THEN e ELSE EMPTY
SymAgrees ==
  \A s \in Syms : SymLookup(hash, s) = ByName(s, Lookup(hash, Name[s]))

TableOK == CountsOK /\ WalksEnd /\ OneCellEach /\ SymAgrees
===============================================================================
