------------------------------- MODULE Containers -------------------------------
(***************************************************************************)
(* A hash and a vector of Nasal code, with keys(), which makes a vector    *)
(* from a hash.  While there is a hash the vector is only what keys() made *)
(* of it, and is taken apart again: each is of interest alone.             *)
(***************************************************************************)
EXTENDS NasalHash, NasalVector

(* What keys() puts in a vector is told apart from what else may be there.  *)
ASSUME ContainersAssumption == Keys \intersect (Refs \union {Nil, Junk}) = {}

Init == NewHash /\ NewVector

(* f_keys: naHash_keys appends one key after the other to a new vector. *)
AppendAll(keys) ==
  LET upTo[i \in 0..Len(keys)] ==
        IF i = 0 THEN NoVecRec ELSE Appended(upTo[i - 1], keys[i])
  IN  upTo[Len(keys)]

ListKeys ==
  /\ ~hash.null /\ vec = NoVecRec
  /\ vec' = AppendAll(KeyList(hash))
  /\ UNCHANGED hashVars

UseHash == vec = NoVecRec /\ NextHash /\ UNCHANGED vec
UseVector == hash = NoHashRec /\ NextVector /\ UNCHANGED hashVars
UseKeys == RemoveLast /\ UNCHANGED hashVars

Next == UseHash \/ UseVector \/ ListKeys \/ UseKeys

SpecContainers == Init /\ [][Next]_<<hashVars, vec>>

-----------------------------------------------------------------------------
(* A hash is a map by name and a vector a list, whatever has been resized,  *)
(* deleted and put back: every operation implements the one of Collections, *)
(* and keys() lists each name once.                                         *)
NameOf(r) == IF r \in Keys THEN Name[r] ELSE r

C == INSTANCE Collections
       WITH map <- Map, list <- [i \in 1..vec.size |-> NameOf(List[i])]

ImplementsCollections == C!Spec

(* The record of a hash and that of a vector stay well formed: the counters *)
(* count, every search ends, no name has two cells, a search by identity    *)
(* finds the symbol a search by name finds, and nothing unwritten is used.  *)
RecordsOK == TableOK /\ VectorOK
===============================================================================
