SPECIFICATION Spec
CONSTANTS
    Chats = {c1, c2}
    Watchers = {w1}
    Stops = {s1}
    Deletes = {d1}
    Flaky = {c1}
    Mixes = {{c1, c2}, {c1, w1, s1, d1}}
    Tasks = {t1, t2}
    NoTask = NoTask
    MaxEvents = 1
    MaxRestarts = 1
SYMMETRY TaskSymmetry
INVARIANTS
    StreamEndsClosing
    NoDoubleProcessing
CHECK_DEADLOCK FALSE
