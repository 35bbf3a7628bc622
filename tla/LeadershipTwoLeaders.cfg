SPECIFICATION ElectionSpec
CONSTANTS
    s1 = s1
    s2 = s2
    s3 = s3
    c1 = c1
    NoProcess = NoProcess
    Server <- MCTwoServers
    Command <- MCNoCommand
    Serial = FALSE
INVARIANT AtMostOneLeader
CHECK_DEADLOCK FALSE
