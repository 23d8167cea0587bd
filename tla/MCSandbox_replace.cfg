SPECIFICATION AllSpec
CONSTANTS
    None = None
    Execs = {e1}
    Writes = {}
    Waits = {}
    Kills = {}
    Serial = TRUE
    Garbled = FALSE
    MaxOutput = 0
    Default = 1
    Minutes = {}
    RpcFails = FALSE
    MaxTime = 1
    Jobs = {r1, r2}
    Paths = {p}
    Ops = {"replace", "read"}
    SudoUse = {TRUE, FALSE}
    Units = {"x", "a"}
    Texts <- TwoUnits
    Ranges = {}
    MaxLength = 1
SYMMETRY Symmetry
PROPERTIES
    ReplaceKeepsTheRest
CHECK_DEADLOCK FALSE
