SPECIFICATION FairSpec
CONSTANTS
  Buses = {sig}
  SigBuses = {sig}
  Delayed = {}
  NoBus = NoBus
  Workers = {w1}
  Chunks = 3
  DelayModes = {FALSE}
  Faults = {"render"}
  MaxFaults = 2
INVARIANTS PendingShown
PROPERTIES CancelAnswered RenderingEnds
CHECK_DEADLOCK FALSE
