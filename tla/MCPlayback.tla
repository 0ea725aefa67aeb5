------------------------------ MODULE MCPlayback ------------------------------
(* Model-checking instance of Playback: short lists with events at the same *)
(* time, out of order as they are added, before and after the end mark.     *)
EXTENDS Playback

MCLists == {<<3, 0, 3>>, <<4>>}
MaxEvents == 3

(* NextIsSent, for the indices that occur. *)
NextIsSentBounded ==
  \A k \in 0..MaxEvents :
    (playstate /\ ui = "idle" /\ pos = k /\ k < Len(events)) ~>
      (~playstate \/ ui # "idle" \/ pos # k)
=============================================================================
