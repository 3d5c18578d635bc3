CONSTANTS
  p1 = p1
  p2 = p2
  Partitions <- MCPartitions
  Messages <- MCMessages
  Starts <- MCStarts
  MaxBuffer = 1
  MaxCrashes = 1
  MaxEnds = 1
  MaxHigh = 1
SPECIFICATION Spec
INVARIANTS
  AtLeastOnce
  RepeatsAccountedFor
  PausedIsWatched
PROPERTIES
  EveryMessageDelivered
  NothingBlocks
CHECK_DEADLOCK FALSE
