SPECIFICATION Spec
CONSTANTS
    MaxObjects = 3
    MaxLength = 4
    BlockSizes = {1, 2, 3}
    LruCalls = {l1, l2, l3}
    LruKeys = {"x", "y"}
    MaxSize = 1
    Closers = {1}
    MaxResets = 1
    MaxDelays = 3
    Clients = {g1, g2}
    GenLengths = {0, 2}
    MaxCopies = 4
    Callees = {a1, a2}
    MaxChain = 4
    Depth = 2
    Names = {"ray"}
    MaxChanges = 3
SYMMETRY Symmetry
INVARIANTS CopyExact RunOnce  Dispatched
PROPERTIES CacheSound CyclesReported
CHECK_DEADLOCK FALSE
