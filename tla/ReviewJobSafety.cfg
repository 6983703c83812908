SPECIFICATION SubjectsSpec
CONSTANTS
    c1 = c1
    c2 = c2
    k1 = k1
    k2 = k2
    Callers = {c1, c2}
    Keys = {k1, k2}
    Texts = {t1}
    MaxRevisions = 2
    None = None
    Authorities = {"planned", "receiver"}
    MaxCrashes = 2
    MaxFailures = 1
    MaxChanges = 2
    Absent = Absent
    Stranger = Stranger
    Order <- MCOrder
    Relinked = {"m"}
    Empties = {"e"}
    Kinds <- MCKinds
    MaxEdits = 2
    MaxSilent = 1
    MaxAltered = 1
SYMMETRY Symmetry
CHECK_DEADLOCK FALSE
INVARIANTS
    TypeOK
    ExecutionIsExclusive
    ResultIsAuthorized
    OutputNeedsAcceptance
    VerifiedHasItsResult
    RevisionTurns
    ResultIsAccepted
    AlterationsAreFound
PROPERTIES
    TerminalIsFinal
    KeepsPromise
    RestoredIsSource
