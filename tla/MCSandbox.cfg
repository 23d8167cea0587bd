SPECIFICATION AllSpec
CONSTANTS
    None = None
    Execs = {e1, e2}
    Writes = {w1}
    Waits = {a1}
    Kills = {}
    Serial = TRUE
    Garbled = TRUE
    MaxOutput = 2
    Default = 2
    Minutes = {0, 1, 3}
    RpcFails = TRUE
    MaxTime = 6
    Jobs = {r1, r2}
    Paths = {p}
    Ops = {"write", "append", "replace", "upload", "read", "search", "download", "find"}
    SudoUse = {TRUE, FALSE}
    Units = {"x", "crlf"}
    Texts <- TwoPieces
    Ranges <- OneRange
    MaxLength = 3
SYMMETRY Symmetry
INVARIANTS
    AllTypeOK
    OneAlive
    ViewMatchesConsole
    NoOutputLost
PROPERTIES
    ReadsWhatIsThere
    AnsweredAsAsked
CHECK_DEADLOCK FALSE
