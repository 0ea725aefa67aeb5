-------------------------- MODULE MCBackgroundRender --------------------------
(* Model-checking instance of BackgroundRender: rendering threads are       *)
(* interchangeable, so states that differ only by their names are the same. *)
EXTENDS BackgroundRender, TLC

ThreadSymmetry == Permutations(Workers)
=============================================================================
