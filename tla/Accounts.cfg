SPECIFICATION Spec
CONSTANTS
  a1 = a1
  a2 = a2
  n1 = n1
  n2 = n2
  p1 = p1
  p2 = p2
  None = None
  Callers = {a1, a2}
  Conns = {k1, k2}
  MaxFault = 1
  Names = {n1, n2}
  Passwords = {p1, p2}
  Messages <- MCMessages
INVARIANTS
  Matched
  ConnectAlone
  AccountsSound
  LostName
PROPERTY
  HandlersEnd
CHECK_DEADLOCK FALSE
