SPECIFICATION Spec
CONSTANTS
    Chats = {c1}
    Watchers = {}
    Stops = {}
    Deletes = {d1}
    Flaky = {}
    Mixes = {{c1, d1}}
    Tasks = {t1}
    NoTask = NoTask
    MaxEvents = 0
    MaxRestarts = 0
PROPERTIES
    DeletedForGood
CHECK_DEADLOCK FALSE
