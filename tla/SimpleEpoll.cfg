\* Two threads; the second client may get the number of the first.
CONSTANTS
  Threads = {t1, t2}
  MaxConns = 2
  MaxData = 1
SPECIFICATION Spec
INVARIANT NothingStranded
INVARIANT BacklogAttended
PROPERTY LifeButForHits
PROPERTY HangupReaped
PROPERTY StopReturns
