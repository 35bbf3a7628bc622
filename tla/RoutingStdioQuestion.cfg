SPECIFICATION RoutingSpec
CONSTANTS
    w1 = w1
    w2 = w2
    b1 = b1
    p1 = p1
    p2 = p2
    q1 = q1
    q2 = q2
    q3 = q3
    Session <- MCSession
    Bead <- MCBead
    Kind <- MCKind
    StaleAfter = 1
    MaxTime = 0
    MaxAttempts = 0
    Reliable = TRUE
    LateReports = FALSE
    ForeignGc = FALSE
    McpProcess <- MCProcesses
    Leader = p1
    Server <- MCOwnServer
    Question <- MCQuestion
    Asker <- MCAsker
    Route <- MCRoute
    ReportStates <- MCSilent
INVARIANT QuestionsReachOperator
CHECK_DEADLOCK FALSE
