SPECIFICATION Spec
CONSTANTS
  Clients = {c1, c2, c3}
  Names = {n}
  Managers = {master, slave}
  Master = master
  MaxHandle = 2
  Asking = {c1, c2}
  Direct = {c3}
  MaxAsk = 1
  MaxMail = 1
  None = None
INVARIANTS NothingLost Unique
PROPERTY RequestsEnd
CHECK_DEADLOCK FALSE
