SPECIFICATION Spec
CONSTANTS
    Creates = {c1}
    Gets = {g1}
    Keys = {}
    Deletes = {}
    Chats = {h1}
    MayCrash = FALSE
PROPERTIES
    HistoryKept
CHECK_DEADLOCK FALSE
