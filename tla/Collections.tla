------------------------------ MODULE Collections ------------------------------
(***************************************************************************)
(* What Nasal code sees of a hash and of a vector: a map from names to     *)
(* values, and a list.  keys() makes the list one of the names in the map, *)
(* in an order that is not promised.                                       *)
(***************************************************************************)
EXTENDS Integers, Sequences

CONSTANTS Names, Vals, None, Refs, Nil, MaxSize

VARIABLES map, list

Init == map = [n \in Names |-> None] /\ list = <<>>

-----------------------------------------------------------------------------
Set(n, v) == map' = [map EXCEPT ![n] = v] /\ UNCHANGED list

Delete(n) == Set(n, None)

Present == {n \in Names : map[n] # None}

ListNames ==
  /\ list' \in Seq(Present)
  /\ \A i, j \in DOMAIN list' : list'[i] = list'[j] => i = j
  /\ \A n \in Present : \E i \in DOMAIN list' : list'[i] = n
  /\ UNCHANGED map

Append1(r) == list' = Append(list, r) /\ UNCHANGED map

RemoveLast ==
  /\ list # <<>> /\ list' = SubSeq(list, 1, Len(list) - 1)
  /\ UNCHANGED map

SetElement(i, r) == list' = [list EXCEPT ![i] = r] /\ UNCHANGED map

SetSize(n) ==
  /\ list' = [i \in 1..n |-> IF i <= Len(list) THEN list[i] ELSE Nil]
  /\ UNCHANGED map

Next ==
  \/ \E n \in Names : Delete(n) \/ \E v \in Vals : Set(n, v)
  \/ ListNames
  \/ \E r \in Refs : Append1(r) \/ \E i \in DOMAIN list : SetElement(i, r)
  \/ RemoveLast
  \/ \E n \in 0..MaxSize : SetSize(n)

Spec == Init /\ [][Next]_<<map, list>>
===============================================================================
