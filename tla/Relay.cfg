SPECIFICATION SmallSpec
CONSTANTS
    Calls = {1, 2, 3}
    Ids = {i, j}
    Headers = {h, g}
    i = i
    j = j
    h = h
    g = g
    MaxConnections = 2
    MaxControls = 1
    MaxExpiries = 1
    MaxSteps = 5
    None = None
CHECK_DEADLOCK FALSE
INVARIANTS
    OwnAnswer
    SharedRelay
    MessagesInOrder
PROPERTY CallsReturn
