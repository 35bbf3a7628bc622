SPECIFICATION FairSpec
CONSTANTS
    w1 = w1
    b1 = b1
    Session <- MCOneSession
    Bead <- MCOneBead
    Kind <- MCEveryKind
    StaleAfter = 2
    MaxTime = 2
    MaxAttempts = 1
    Reliable = FALSE
    LateReports = FALSE
    ForeignGc = FALSE
INVARIANTS ActiveWorkerHasItsTree ForgottenIsDown
PROPERTIES TerminalIsFinal CompletedIsForgotten
CHECK_DEADLOCK FALSE
