SPECIFICATION FairSpec
CONSTANTS
  Streams = {s1}
  Fetches = {}
  MaxStarts = 1
  MaxConns = 1
  MaxPieces = 0
  None = None
PROPERTY EveryStreamEnds
CHECK_DEADLOCK FALSE
