SPECIFICATION FairSpec
CONSTANTS
  Workers = {w1, w2}
  MaxSend = 1
  Slots = 1
  MaxId = 1
  MaxCtrl = 1
  PacketSize = 2
  WarningSize = 3
  None = None
PROPERTY CloseReported
CHECK_DEADLOCK FALSE
