SPECIFICATION Spec
CONSTANTS
    Messages = {m1}
    Clients = {c1}
    None = None
    MaxPieces = 2
    StoreFails = FALSE
INVARIANTS
    CaughtUp
CHECK_DEADLOCK FALSE
