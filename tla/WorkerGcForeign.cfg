SPECIFICATION Spec
CONSTANTS
    w1 = w1
    b1 = b1
    Session <- MCOneSession
    Bead <- MCOneBead
    Kind <- MCHerdr
    StaleAfter = 1
    MaxTime = 1
    MaxAttempts = 0
    Reliable = TRUE
    LateReports = FALSE
    ForeignGc = TRUE
INVARIANT ActiveWorkerHasItsTree
CHECK_DEADLOCK FALSE
