SPECIFICATION Spec
CONSTANTS
    Calls = {a, b, c}
    Ids = {i, j}
    Headers = {h}
    i = i
    j = j
    h = h
    g = g
    MaxSteps = 5
    MaxConnections = 1
    MaxControls = 0
    MaxExpiries = 1
    None = None
SYMMETRY Symmetry
CHECK_DEADLOCK FALSE
INVARIANT LateAnswersAreHarmless
