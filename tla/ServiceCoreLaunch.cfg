SPECIFICATION Spec
CONSTANTS
  Services = {s1}
  Threads = {w1, main}
  Workers = {w1}
  Greedy = {w1}
  NoService = NoService
  MaxSend = 1
INVARIANT LaunchUsesLiveContext
CHECK_DEADLOCK FALSE
