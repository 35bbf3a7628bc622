SPECIFICATION Spec
CONSTANTS
    w1 = w1
    b1 = b1
    Session <- MCOneSession
    Bead <- MCOneBead
    Kind <- MCEveryKind
    StaleAfter = 1
    MaxTime = 2
    MaxAttempts = 1
    Reliable = FALSE
    LateReports = TRUE
    ForeignGc = TRUE
INVARIANT ForgottenLeavesNoTree
PROPERTIES NoDirtyTreeRemoved OnlySilentWorkersStall
CHECK_DEADLOCK FALSE
