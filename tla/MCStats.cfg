CONSTANTS
  Capacity = 2
  Window = 2
  MaxTime = 5
  MaxBytes = 2
SPECIFICATION Spec
INVARIANTS RingIsRecent RateIsSane ActiveWhileRunning
CHECK_DEADLOCK FALSE
