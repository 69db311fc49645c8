CONSTANTS
    main = main
    sub1 = sub1
    sub2 = sub2
    a1 = a1
    a2 = a2
    a3 = a3
    j1 = j1
    j2 = j2
    j3 = j3
    Addresses <- MCOneSub
    Label <- MCLabel
    Actor = {a1, a2}
    Placeholder = none
    Job = {j1, j2}
    Monitor = monitor
    NoJob = nojob
    NoRequest = norequest
    Requests <- RequestsBeside
    AutoRecover = "actor"
    MaxCrashes = 2
    HooksFail = TRUE
    Cancels = TRUE
    Polite = FALSE
    Quiet = FALSE
SPECIFICATION FairSpec
INVARIANTS NoActorForgotten
  
