\* Three workers, three coroutines, each awaiting the pool twice; fair threads.
CONSTANTS
  Workers = {w1, w2, w3}
  Tasks = {t1, t2, t3}
  MaxHops = 1
SPECIFICATION Spec
INVARIANT TaskInOnePlace
INVARIANT NoIdleWorker
PROPERTY TaskResumed
