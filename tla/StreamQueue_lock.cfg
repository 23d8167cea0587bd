SPECIFICATION FairSpec
CONSTANTS
  Poppers = {p1, p2}
  Late = FALSE
  Cancels = TRUE
  MaxPuts = 3
  MaxTries = 2
  Free = Free
INVARIANT TypeOK
PROPERTY QueueSpec
PROPERTY LockIsFreed
