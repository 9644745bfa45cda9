\* Two workers, three connections, two
\* events per epoll_wait, the timer, the stop, and failing
\* accept4 and epoll_ctl.
CONSTANTS
  Conns = {c1, c2, c3}
  NumWorkers = 2
  MaxEvents = 2
  MaxData = 0
  AcceptMayFail = TRUE
  TimerWorks = TRUE
  AddFdMayFail = TRUE
SPECIFICATION SafetySpec
SYMMETRY ConnSymmetry
INVARIANT OwnedOnce
INVARIANT EventsAreLive
INVARIANT NoOrphan
INVARIANT SizeClientsExact
INVARIANT NoLostWakeup
INVARIANT BalancedLoad
