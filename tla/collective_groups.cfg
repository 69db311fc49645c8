SPECIFICATION FairSpec
CONSTANTS
    World = 4
    Programs <- MCPrograms
    Backends = {"gloo", "nccl"}
    MayLackEnv = {3}
INVARIANTS ResultsRight
 
CHECK_DEADLOCK FALSE
