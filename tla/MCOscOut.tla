------------------------------- MODULE MCOscOut -------------------------------
(* Model-checking instance of OscOut: two busses and a list that is added   *)
(* out of order; a bus may also have half of it, half an event, or none.    *)
EXTENDS OscOut

MCLists == {<<2, 1>>}
===============================================================================
