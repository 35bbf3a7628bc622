SPECIFICATION HeartbeatSpec
CONSTANTS
    w1 = w1
    w2 = w2
    w3 = w3
    b1 = b1
    b2 = b2
    t1 = t1
    t2 = t2
    NoBead = NoBead
    NoSession = NoSession
    Session <- MCTwoSessions
    Bead <- MCTwoBeads
    Beat <- MCTwoTicks
    Kind <- MCProcess
    Primary <- MCPrimary
    StaleAfter = 1
    Grace = 1
    MaxConcurrent = 2
    MaxTime = 1
    MaxAttempts = 1
    BrainActions <- MCBoldBrain
    BrainTools <- MCBoldTools
    Reliable = FALSE
    LateReports = FALSE
    ForeignGc = FALSE
    Failures = TRUE
INVARIANTS ExclusiveClaim 
PROPERTY ImplementsAssignment
SYMMETRY MCSymmetry
CHECK_DEADLOCK FALSE
