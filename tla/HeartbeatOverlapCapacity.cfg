SPECIFICATION HeartbeatSpec
CONSTANTS
    w1 = w1
    w2 = w2
    w3 = w3
    b1 = b1
    b2 = b2
    t1 = t1
    t2 = t2
    NoBead = NoBead
    NoSession = NoSession
    Session <- MCTwoSessions
    Bead <- MCTwoBeads
    Beat <- MCTwoTicks
    Kind <- MCProcess
    Primary <- MCPrimary
    StaleAfter = 1
    Grace = 1
    MaxConcurrent = 1
    MaxTime = 1
    MaxAttempts = 0
    BrainActions <- MCNoBrain
    BrainTools <- MCNoTools
    Reliable = TRUE
    LateReports = FALSE
    ForeignGc = FALSE
    Failures = FALSE
INVARIANT WithinCapacity
CHECK_DEADLOCK FALSE
