----------------------------- MODULE RenderService -----------------------------
(***************************************************************************)
(* What background rendering promises to the rest of AlgoScore: the data   *)
(* of the source objects never changes while a rendering reads it, there   *)
(* is at most one rendering per bus, and a file is up to date exactly when *)
(* a rendering that was not disturbed has run to its end since the data or *)
(* the bus last changed.                                                   *)
(***************************************************************************)
CONSTANT Buses

VARIABLES
  rendering,  \* the busses that are being rendered
  result      \* the busses whose file is a whole rendering of the current data

svars == <<rendering, result>>

ServiceInit == rendering = {} /\ result = {}

(* A rendering starts by truncating the file. *)
Begin(b) ==
  /\ b \notin rendering
  /\ rendering' = rendering \cup {b}
  /\ result' = result \ {b}

(* It ends at the end mark, or is stopped by a cancel or an error.         *)
Complete(b) ==
  /\ b \in rendering
  /\ rendering' = rendering \ {b}
  /\ result' = result \cup {b}

Stop(b) ==
  /\ b \in rendering
  /\ rendering' = rendering \ {b}
  /\ UNCHANGED result

(* The sources change only while nothing is rendered.                      *)
ChangeSources ==
  /\ rendering = {}
  /\ result' = {}
  /\ UNCHANGED rendering

(* A bus is changed, or its file spoilt, before it is rendered again.      *)
Invalidate(b) ==
  /\ result' = result \ {b}
  /\ UNCHANGED rendering

ServiceNext ==
  \/ ChangeSources
  \/ \E b \in Buses : Begin(b) \/ Complete(b) \/ Stop(b) \/ Invalidate(b)

ServiceSpec == ServiceInit /\ [][ServiceNext]_svars
=============================================================================
