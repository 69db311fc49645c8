CONSTANTS
    j1 = j1
    j2 = j2
    j3 = j3
    Call = {j1, j2, j3}
    None = none
    Kinds = {"socket", "dummy"}
    Cancellable = {j1}
    BadReplies = TRUE
    MaxStops = 1
    MayStop = TRUE
SPECIFICATION Spec
INVARIANTS TypeOK OneConnection  ErrorsAreTrue
CHECK_DEADLOCK FALSE
