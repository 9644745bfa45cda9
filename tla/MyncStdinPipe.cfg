\* The writer of a pipe closes it.
CONSTANTS
  NumWorkers = 1
  MaxChunks = 1
SPECIFICATION Spec
INVARIANT StdinReadBeforeClose
CHECK_DEADLOCK FALSE
