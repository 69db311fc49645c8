SPECIFICATION Spec
CONSTANTS
    k1 = k1
    k2 = k2
    w1 = w1
    w2 = w2
    w3 = w3
    Server = w1
    Client = {w1, w2}
    Key = {k1}
    InitKey = InitKey
    KeyLists <- Twice
    Text = Text
    NoValue = NoValue
    Unwatched = Unwatched
    Values <- OneValue
    NumWorkers = 2
    Ops = {"compareSet", "add", "check", "getNumKeys", "deleteKey", "append", "multiGet", "watchKey"}
    Timeouts = TRUE
    Leaving = {w2}
    MaxOps = 2
INVARIANT WaitersConnected
INVARIANT StreamsInSync
INVARIANT WatchersFollow
CHECK_DEADLOCK FALSE
