SPECIFICATION ProjectSpec
CONSTANTS
    s1 = s1
    s2 = s2
    s3 = s3
    c1 = c1
    NoProcess = NoProcess
    Server <- MCServer
    Command <- MCCommand
    Serial = TRUE
    p1 = p1
    p2 = p2
    e1 = e1
    e2 = e2
    e3 = e3
    NoId = NoId
    Process <- MCProcess
    Compactor <- MCProcess
    Id <- MCId
    Group <- MCGroup
    Remembered <- MCRemembered
    MinCompound = 1
    CompactAfter = 1
    ArchiveAfter = 1
    MaxDay = 1
    MaxFaults = 2
SYMMETRY MCSymmetry
INVARIANTS AtMostOneLeader LeaderHoldsFiles DetailsSurvive
PROPERTIES FollowerHasLeader NeverTakenBack
CHECK_DEADLOCK FALSE
