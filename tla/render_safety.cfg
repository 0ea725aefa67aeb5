SPECIFICATION Spec
CONSTANTS
  Buses = {sig, cs}
  SigBuses = {sig}
  Delayed = {cs}
  NoBus = NoBus
  Workers = {w1, w2}
  Chunks = 2
  DelayModes = {TRUE, FALSE}
  Faults = {"source", "open", "compile", "spawn", "render"}
  MaxFaults = 1
INVARIANTS OneThreadPerBus NoStaleToken ReadsStableData
PROPERTIES ImplementsService
SYMMETRY ThreadSymmetry
CHECK_DEADLOCK FALSE
