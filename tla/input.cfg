SPECIFICATION FairSpec
CONSTANTS
  Machines <- Usual
  RingSize = 3
  EventSize = 2
  MaxKeys = 2
  MaxMoves = 2
  MaxEvents = 3
INVARIANTS WholeUnlessMisread CharsAsTyped NoLostMouseWakeup KeyboardArmed
PROPERTY EveryKeyRead
CHECK_DEADLOCK FALSE
