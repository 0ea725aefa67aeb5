SPECIFICATION FairSpec
CONSTANTS
  Channels = 2
  Capacity = 4
  Leftovers = {1, 2}
  CycleLen = 1
  Positions = {0, 1}
  EndMarks = {0, 2}
  MaxPos = 1
  MaxFrames = 2
INVARIANTS NoSampleDropped
PROPERTIES PlaysTheFile SoundComes
CHECK_DEADLOCK FALSE
