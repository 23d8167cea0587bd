SPECIFICATION AllSpec
CONSTANTS
    None = None
    Gets = {g1}
    Chats = {}
    MayCrash = TRUE
    Creates = {c1, c2}
    Keys = {}
    Deletes = {d1}
    Messages = {m1, m2}
    Clients = {v1, v2}
    MaxPieces = 2
    StoreFails = TRUE
    Roles = {"user"}
    Contents = {"a"}
    Files = {"f"}
    Times = {0, 5, 10}
    Units = {"ms"}
    MaxLen = 3
    Fetches = {}
    MaxStarts = 1
    MaxConns = 2
    MaxOutput = 1
SYMMETRY Symmetry
INVARIANTS
    AllTypeOK
    NoStrayContainer
    OnlyReadyRuns
    DoneIsStored
    NoGaps
    MergeIsExact
    StreamsKept
CHECK_DEADLOCK FALSE
