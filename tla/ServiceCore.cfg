SPECIFICATION FairSpec
CONSTANTS
  Services = {s1, s2}
  Threads = {w1, main}
  Workers = {w1}
  Greedy = {w1}
  NoService = NoService
  MaxSend = 2
INVARIANTS CountsExact NoUseAfterFree QueueOwned SerialDispatch
PROPERTIES EveryMessageHandled KilledIsReclaimed
CHECK_DEADLOCK FALSE
