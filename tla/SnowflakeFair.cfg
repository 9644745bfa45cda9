\* Two ids per millisecond; the clock is set back twice; time passes.
CONSTANTS
  Callers = {t1, t2, t3}
  EPOCH = 1
  MAX_SEQUENCE = 1
  WORKER_IDS = 2
  WORKER_ID = 1
  TIMESTAMPS = 4
  WaitForLater = TRUE
  MaxClock = 4
  MaxSetBacks = 2
SPECIFICATION GeneratorSpec
INVARIANT IdsIncrease
PROPERTY WaitEnds
