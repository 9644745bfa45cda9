\* One worker, no coroutine needed.
CONSTANTS
  Workers = {w1}
  Tasks = {t1}
  MaxHops = 0
SPECIFICATION Spec
PROPERTY WorkersWokenAtEnd
