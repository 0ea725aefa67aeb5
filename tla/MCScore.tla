------------------------------ MODULE MCScore ------------------------------
(***************************************************************************)
(* Score for TLC: three objects; the second inlet is used of the one with  *)
(* the highest number only, which loading may give another number.         *)
(***************************************************************************)
EXTENDS Score

MCInlets == [o \in Ids |-> IF o = MaxId THEN {"in", "amp"} ELSE {"in"}]

=============================================================================
