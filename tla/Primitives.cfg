SPECIFICATION AllSpec
CONSTANTS
  Threads = {t1, t2, t3, t4}
  Messages = {1, 2}
  None = None
  QueueSize = 2
  MqOverload = 1
  MaxCap = 8
  NearShift = 1
  LevelShift = 1
  Timers = {n1, n2}
  Delays <- AllDelays
  MaxDiff = 2
INVARIANTS Exclusion OverloadDoubles OnTime SameTickOrder
PROPERTIES WriterGetsIn SomeoneGetsIn ImplementsFifo EveryTimerFires
