SPECIFICATION FairSpec
CONSTANTS
    Chats = {c1}
    Watchers = {}
    Stops = {s1}
    Deletes = {}
    Flaky = {}
    Mixes = {{c1, s1}}
    Tasks = {t1}
    NoTask = NoTask
    MaxEvents = 0
    MaxRestarts = 0
PROPERTIES
    ResponseEnds
CHECK_DEADLOCK FALSE
