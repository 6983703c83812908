SPECIFICATION Spec
CONSTANTS
  Devices = {d1}
  Browsers = {b1, b2}
  Calls = {c1}
  MaxSessions = 2
  MaxPosts = 4
  MaxAttempts = 2
  MaxFailures = 1
  Window = 3
  CodeLife = 2
  SessionLife = 1
  MaxDelay = 1
  MaxTime = 4
  None = None
SYMMETRY Symmetry
CONSTRAINT Slices
CHECK_DEADLOCK FALSE
INVARIANTS
  GrantPerApproval
  AttemptsBounded
PROPERTIES
  RelayedWhilePaired
