SPECIFICATION Spec
CONSTANTS
    c1 = c1
    c2 = c2
    k1 = k1
    k2 = k2
    Callers = {c1, c2}
    Keys = {k1, k2}
    Texts = {t1}
    MaxRevisions = 2
    None = None
    Authorities = {"planned", "receiver"}
    MaxCrashes = 1
    MaxFailures = 0
    MaxChanges = 0
SYMMETRY Symmetry
CHECK_DEADLOCK FALSE
PROPERTY RestartRecoversExecution
