SPECIFICATION Spec
CONSTANTS
  Contexts = {c1, c2, c3}
  Launchers = {l1, l2, l3}
  Names = {1}
  HandleMask = 3
  SlotSize = 1
  NULL = NULL
INVARIANT RehashAssert
CHECK_DEADLOCK FALSE
