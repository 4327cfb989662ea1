SPECIFICATION Spec
CONSTANTS
  Contexts = {c1, c2, c3, c4}
  Launchers = {l1, l2, l3}
  Names = {1, 2}
  HandleMask = 3
  SlotSize = 1
  NULL = NULL
SYMMETRY Symmetry
INVARIANTS Findable AbortComplete NamesSound RehashCauses
PROPERTY NamesDropped
CHECK_DEADLOCK FALSE
