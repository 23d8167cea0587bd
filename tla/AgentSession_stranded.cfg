SPECIFICATION Spec
CONSTANTS
    Chats = {c1, c2}
    Watchers = {}
    Stops = {}
    Deletes = {}
    Flaky = {}
    Mixes = {{c1, c2}}
    Tasks = {t1, t2}
    NoTask = NoTask
    MaxEvents = 0
    MaxRestarts = 0
SYMMETRY Symmetry
INVARIANTS
    NoMessageStranded
CHECK_DEADLOCK FALSE
