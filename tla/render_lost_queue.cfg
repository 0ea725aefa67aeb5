SPECIFICATION Spec
CONSTANTS
  Buses = {sig}
  SigBuses = {sig}
  Delayed = {}
  NoBus = NoBus
  Workers = {w1}
  Chunks = 1
  DelayModes = {TRUE, FALSE}
  Faults = {}
  MaxFaults = 0
INVARIANTS PendingShown
CHECK_DEADLOCK FALSE
