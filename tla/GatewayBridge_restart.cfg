SPECIFICATION Spec
CONSTANTS
  Streams = {s1}
  Fetches = {}
  MaxStarts = 2
  MaxConns = 1
  MaxPieces = 0
  None = None
INVARIANT ReadyIsServed
CHECK_DEADLOCK FALSE
