SPECIFICATION Spec
CONSTANTS
  Coroutines = {c1, c2, c3}
  Services = {a}
  MaxSession = 3
  MaxRequest = 1
  MaxWakeup = 1
  MaxRef = 2
  None = None
INVARIANTS SchedulerSound OneInside HandedOver
PROPERTY AnsweredOnce
CHECK_DEADLOCK FALSE
