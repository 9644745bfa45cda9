\* Fair threads; room for every event in one batch.
CONSTANTS
  Conns = {c1, c2}
  NumWorkers = 2
  MaxEvents = 4
  MaxData = 1
  AcceptMayFail = FALSE
  TimerWorks = FALSE
  AddFdMayFail = FALSE
SPECIFICATION Spec
PROPERTY ConnectionServed
PROPERTY HangupReaped
PROPERTY DataRead
PROPERTY StopTerminates
PROPERTY ImplementsHandoff
