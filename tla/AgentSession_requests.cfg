SPECIFICATION Spec
CONSTANTS
    Chats = {c1, c2}
    Watchers = {}
    Stops = {s1}
    Deletes = {d1}
    Flaky = {}
    Mixes = {{c1, c2, s1}, {c1, c2, d1}}
    Tasks = {t1, t2}
    NoTask = NoTask
    MaxEvents = 0
    MaxRestarts = 0
SYMMETRY Symmetry
INVARIANTS
    TypeOK
    SettledStatus
    RegistryFresh
    PersistedWasPublished
CHECK_DEADLOCK FALSE
