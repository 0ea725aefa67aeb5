------------------------------ MODULE NasalVector ------------------------------
(***************************************************************************)
(* The vectors of Nasal: a record with a used and an allocated size, which *)
(* every change of the allocated size replaces as a whole.  Indices count  *)
(* from 0.                                                                 *)
(***************************************************************************)
EXTENDS Integers, Sequences

CONSTANTS
  Refs,     \* what a vector may hold
  Nil,
  Junk,     \* what an array holds that has not been written
  MaxSize   \* vectors are not filled beyond this

ASSUME VectorAssumption ==
  /\ MaxSize \in Nat
  /\ Nil \notin Refs /\ Junk \notin Refs \union {Nil}

VARIABLE vec

(* A new vector has no record; append makes the first.                      *)
NoVecRec == [null |-> TRUE, size |-> 0, alloced |-> 0, array |-> <<>>]
NewVector == vec = NoVecRec

Record(n, size, At(_)) ==
  [null |-> FALSE, size |-> size, alloced |-> n,
   array |-> [i \in 0..n-1 |-> IF i < size THEN At(i) ELSE Junk]]

(* newvecrec: half as much again and one.                                   *)
NewSize(n) == 1 + (n * 3) \div 2

Resized(r) == Record(NewSize(r.size), r.size, LAMBDA i : r.array[i])

(* naVec_append: the loop that makes room runs once, NewSize(n) > n.        *)
WithRoom(r) == IF r.null \/ r.size >= r.alloced THEN Resized(r) ELSE r

Appended(r, o) == [WithRoom(r) EXCEPT !.array[r.size] = o, !.size = r.size + 1]

AppendRef(o) ==
  /\ vec.size < MaxSize
  /\ vec' = Appended(vec, o)

(* naVec_removelast gives memory back when the vector has become short.     *)
Shortened(r) == [r EXCEPT !.size = r.size - 1]

RemoveLast ==
  /\ ~vec.null /\ vec.size > 0
  /\ vec' = LET r == Shortened(vec)
            IN  IF r.size < r.alloced \div 2 THEN Resized(r) ELSE r

(* naVec_setsize: no spare room, and nil for what is new (mutant: as long   *)
(* as the old record has room, what lies there).                            *)
Kept_Alloced(r, i) == IF ~r.null /\ i < r.alloced THEN r.array[i] ELSE Nil
Kept(r, i) == IF ~r.null /\ i < r.size THEN r.array[i] ELSE Nil

SetSize(n) == vec' = Record(n, n, LAMBDA i : Kept(vec, i))

(* v[i] = o: checkVec takes a negative index from the end, and it is an     *)
(* error to be outside of the vector; naVec_set.                            *)
Index(r, i) == IF i < 0 THEN i + r.size ELSE i
InBounds(r, i) == Index(r, i) >= 0 /\ Index(r, i) < r.size

SetElement(i, o) ==
  /\ InBounds(vec, i)
  /\ vec' = [vec EXCEPT !.array[Index(vec, i)] = o]

Element(r, i) == IF ~r.null /\ InBounds(r, i) THEN r.array[Index(r, i)] ELSE Nil

NextVector ==
  \/ \E o \in Refs : AppendRef(o)
  \/ RemoveLast
  \/ \E n \in 0..MaxSize : SetSize(n)
  \/ \E i \in (-MaxSize)..MaxSize : \E o \in Refs : SetElement(i, o)

SpecVector == NewVector /\ [][NextVector]_vec

(* The list a vector stands for. *)
ListOf(r) == [i \in 1..r.size |-> Element(r, i - 1)]
List == ListOf(vec)

VectorOK ==
  /\ vec.size \in 0..vec.alloced
  /\ vec.null => vec.size = 0 /\ vec.alloced = 0
  /\ \A i \in 0..vec.size-1 : /\ vec.array[i] # Junk
                              /\ Element(vec, i - vec.size) = Element(vec, i)
===============================================================================
