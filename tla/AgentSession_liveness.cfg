SPECIFICATION FairSpec
CONSTANTS
    Chats = {c1}
    Watchers = {w1}
    Stops = {s1}
    Deletes = {}
    Flaky = {}
    Mixes = {{c1, w1, s1}}
    Tasks = {t1}
    NoTask = NoTask
    MaxEvents = 1
    MaxRestarts = 0
PROPERTIES
    WindsUp
    ReaderReleased
CHECK_DEADLOCK FALSE
