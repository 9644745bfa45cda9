\* Two connections and two client numbers, so that a number is given twice.
CONSTANTS
  Conns = {c1, c2}
  MaxFd = 4
  MaxData = 1
  MaxLines = 1
  None = None
SPECIFICATION Spec
INVARIANT OneReadPerClient
INVARIANT AlwaysArmed
INVARIANT DescriptorsOwned
PROPERTY ImplementsLife
PROPERTY EndReached
CHECK_DEADLOCK FALSE
