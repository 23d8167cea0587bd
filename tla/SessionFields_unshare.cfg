SPECIFICATION Spec
CONSTANTS
  Chats = {c1, c2}
  Paths = {p1}
  Faults = FALSE
  MaxEvents = 1
  MaxFlips = 2
  None = None
SYMMETRY Symmetry
CHECK_DEADLOCK FALSE
INVARIANT SharedAsAsked
