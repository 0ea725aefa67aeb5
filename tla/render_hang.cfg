SPECIFICATION FairSpec
CONSTANTS
  Buses = {sig}
  SigBuses = {sig}
  Delayed = {}
  NoBus = NoBus
  Workers = {w1}
  Chunks = 1
  DelayModes = {FALSE}
  Faults = {}
  MaxFaults = 0
PROPERTIES CancelReturns
CHECK_DEADLOCK FALSE
