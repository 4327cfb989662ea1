SPECIFICATION FairSpec
CONSTANTS
  Workers = {w1, w2}
  MaxSend = 2
  Slots = 1
  MaxId = 2
  MaxCtrl = 1
  PacketSize = 2
  WarningSize = 3
  None = None
INVARIANTS PacketsAccounted RightSocket StreamIntact EventsSound
PROPERTY EverySendSettles
CHECK_DEADLOCK FALSE
