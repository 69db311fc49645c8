SPECIFICATION FairSpec
CONSTANTS
    c1 = c1
    c2 = c2
    c3 = c3
    Calls <- MCCalls
    Menu <- MCMenu
    Locks = {"lock", "fake"}
    MaxActors = 2
    MaxYields = 1
    Cancels = {c1, c2}
INVARIANTS OneAtATime ToldIsOver
  
CHECK_DEADLOCK FALSE
