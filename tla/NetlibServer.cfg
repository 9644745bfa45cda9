\* Three calls of start() that make a thread, so that two threads may be lost,
\* three connections, and numbers for the listening socket and all of them: with
\* two threads in accept4 there may be too few.
CONSTANTS
  Conns = {c1, c2, c3}
  MaxFd = 4
  MaxStarts = 3
  Free = Free
  Listen = Listen
SPECIFICATION Spec
INVARIANT DescriptorsOwned
INVARIANT StopReleases
PROPERTY BacklogAccepted
PROPERTY StopReturns
CHECK_DEADLOCK FALSE
