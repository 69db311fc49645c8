SPECIFICATION FairSpec
CONSTANTS
    Initial = {a1}
    Extra = {b}
    NoAddress = NoAddress
    Waiter = {w1}
    Op = {o1}
    Edits = {"append", "remove", "stop"}
    AutoRecover = "actor"
    MaxProc = 3
    MaxFailures = 1
    Hosted = {a1}
    MayStop = TRUE
    MayExit = TRUE
INVARIANT TypeOK
INVARIANT ToldMeansReplaced
 
 
 
