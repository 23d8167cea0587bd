SPECIFICATION Spec
CONSTANTS
    None = None
    Default = None
    Minutes = {1}
    RpcFails = FALSE
    MaxTime = 2
INVARIANTS
    CancelHolds
CHECK_DEADLOCK FALSE
