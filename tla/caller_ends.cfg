CONSTANTS
    j1 = j1
    j2 = j2
    j3 = j3
    Call = {j1, j2}
    None = none
    Kinds = {"socket"}
    Cancellable = {j1}
    BadReplies = TRUE
    MaxStops = 2
    MayStop = TRUE
SPECIFICATION FairSpec
PROPERTIES EveryCallEnds CarriedOutOnce
CHECK_DEADLOCK FALSE
