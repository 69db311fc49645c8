SPECIFICATION Spec
CONSTANTS
    Thresholds = {0, 2}
    Senders = {s1, s2, s3}
    InfoSize = 1
    HeadSize = 2
    Main = Main
    Other = Other
    Sub = Sub
    Asks = {r1, r2}
    MaxIndex = 3
    MaxCaches = 4
SYMMETRY Symmetry
INVARIANTS RoundTrip Delivered  CacheFollowsRoutes
CHECK_DEADLOCK FALSE
