SPECIFICATION StagesSpec
CONSTANTS
    c1 = c1
    c2 = c2
    Callers = {c1, c2}
    Answers = {a1}
    None = None
    MaxTurns = 2
    MaxEvidence = 1
    MaxSubmissions = 1
    MaxToolCalls = 2
    CallCap = 3
    CostCap = 2
    PerCall = 1
    Keys = {k1}
    Texts = {t1}
    MaxRevisions = 1
    Authorities = {"planned"}
    MaxCrashes = 1
    MaxFailures = 1
    MaxChanges = 2
CHECK_DEADLOCK FALSE
INVARIANTS
    AskedOnce
    SpendCovered
PROPERTIES
    PlanningEndsOnce
    JobSettles
