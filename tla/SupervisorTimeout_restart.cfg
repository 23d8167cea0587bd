SPECIFICATION FairSpec
CONSTANTS
    None = None
    Default = None
    Minutes = {1}
    RpcFails = FALSE
    MaxTime = 2
PROPERTIES
    RestartsServices
CHECK_DEADLOCK FALSE
