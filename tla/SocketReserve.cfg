SPECIFICATION Spec
CONSTANTS
  Workers = {w1, w2}
  MaxSend = 0
  Slots = 1
  MaxId = 2
  MaxCtrl = 2
  PacketSize = 1
  WarningSize = 3
  None = None
INVARIANT Asserts
CHECK_DEADLOCK FALSE
