SPECIFICATION FairSpec
CONSTANTS
    k1 = k1
    k2 = k2
    w1 = w1
    w2 = w2
    w3 = w3
    Server = w1
    Client = {w1, w2, w3}
    Key = {k1, k2}
    InitKey = InitKey
    KeyLists <- TwoLists
    Text = Text
    NoValue = NoValue
    Unwatched = Unwatched
    Values <- OneValue
    NumWorkers = 3
    Ops = {"set", "append", "multiSet", "wait", "get"}
    Timeouts = FALSE
    Leaving = {}
    MaxOps = 1
INVARIANT WaitSound
INVARIANT AwaitedCount
PROPERTY WaitEnds
CHECK_DEADLOCK FALSE
