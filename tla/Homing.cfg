\* Two moves without losses or one with, of two controllers.
SPECIFICATION MCSpec
CONSTANTS
  N = 2
  Expire = 1
  MinExtend = 1
  Retries = 1
  Lossy = TRUE
  MaxTime = 2
  MaxRounds = 2
  Cap = 1
INVARIANTS Faithful StopTogether AllStopped
CHECK_DEADLOCK FALSE
