\* Main and two workers, three in the race for stdin; two chunks.
CONSTANTS
  NumWorkers = 2
  MaxChunks = 2
SPECIFICATION Spec
INVARIANT AllTypedSent
PROPERTY ClientEnds
PROPERTY StopsTogether
CHECK_DEADLOCK FALSE
