SPECIFICATION ProductsSpec
CONSTANTS
    b = b
    b2 = b2
    s = s
    m = m
    k = k
    d = d
    e = e
    Callers = {b, b2, s}
    Servers = {s}
    None = None
    MaxOperations = 2
    MaxCrashes = 2
    MaxFailures = 1
    MaxChanges = 2
    Nothing = Nothing
    Families = {m, k}
    Meaning = {m}
    Descriptors = {d, e}
    Calls = {1, 2}
    CallCap = 2
    MaxCrashed = 1
    MaxFailed = 1
    MaxTouched = 1
CHECK_DEADLOCK FALSE
INVARIANTS
    CrashNeverBlocks
    HandoffIsAuthorized
PROPERTIES
    FinishedCopyIsKept
    ExecutionEnds
    DecisionsStand
    RestoredIsOriginal
