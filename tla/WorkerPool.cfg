SPECIFICATION FairSpec
CONSTANTS
  Workers = {w1, w2, w3}
  Services = 1
  MaxPush = 1
  Nobody = Nobody
INVARIANTS SleepCount NoneAsleepAfterQuit
PROPERTIES WorkIsTaken AllThreadsEnd
