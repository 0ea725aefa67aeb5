SPECIFICATION FairSpec
CONSTANTS
  Busses = {b1, b2}
  Lists <- MCLists
  MaxEvents = 2
  Positions = {0, 1}
  MaxTime = 2
  MaxWakes = 1
  b1 = b1
  b2 = b2
INVARIANTS NotEarly NeverOversleeps SentOnce
PROPERTY AllSentInTheEnd
CHECK_DEADLOCK FALSE
