CONSTANTS
  Callers = {k1, k2}
  Threshold = 0
  Frames = 3
  Modes = {TRUE, FALSE}
SPECIFICATION FairSpec
INVARIANTS BufferBounded OneLoop FirstErrorWins
PROPERTIES NoLostWakeup LoopEnds
CHECK_DEADLOCK FALSE
