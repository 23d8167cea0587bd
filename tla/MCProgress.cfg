SPECIFICATION AllSpec
CONSTANTS
    None = None
    Default = 2
    Minutes = {0, 1, 3}
    RpcFails = FALSE
    MaxTime = 5
    Creates = {c1}
    Gets = {g1}
    Deletes = {}
    Chats = {h1}
    Execs = {e1, e2}
    Kills = {k1}
    Tasks = {t1, t2, t3}
INVARIANTS
    UserDecides
PROPERTIES
    CreatingSettles
    RequestsEnd
    ShutdownsEnd
CHECK_DEADLOCK FALSE
