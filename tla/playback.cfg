SPECIFICATION FairSpec
CONSTANTS
  Lists <- MCLists
  Positions = {0, 2}
  Frames = 2
  Room = 1
  EndPos = 4
  MaxPos = 6
INVARIANTS TypeOK PlayedInOrder OnTime LocateTakesEffect
PROPERTIES OffsetsInOrder NextIsSentBounded
CHECK_DEADLOCK FALSE
