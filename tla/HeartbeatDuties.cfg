SPECIFICATION DutiesSpec
CONSTANTS
    \* questions and the workers that wait for answers
    w1 = w1
    w2 = w2
    b1 = b1
    p1 = p1
    p2 = p2
    q1 = q1
    q2 = q2
    q3 = q3
    Session <- MCSession
    Bead <- MCBead
    Kind <- MCKind
    StaleAfter = 1
    MaxTime = 1
    MaxAttempts = 0
    Reliable = TRUE
    LateReports = FALSE
    ForeignGc = FALSE
    McpProcess <- MCProcesses
    Leader = p1
    Server <- MCOneServer
    Question <- MCQuestion
    Asker <- MCAsker
    Route <- MCRoute
    ReportStates <- MCHeartbeats
    \* remote sessions
    r1 = r1
    rb1 = rb1
    c1 = c1
    c2 = c2
    NoRemote = NoRemote
    NoBead = NoBead
    Remote <- MCOneRemote
    RemoteBead <- MCOneBead
    Sweep <- MCTwoSweeps
    RemoteStaleAfter = 1
    RemoteLostAfter = 2
    MaxSweepTime = 3
    \* cron jobs
    nightly = nightly
    review = review
    leader = leader
    command = command
    Scheduler = {leader, command}
    Timed = {leader}
    k1 = k1
    k2 = k2
    k3 = k3
    Thread = {k1, k2, k3}
    Of <- MCOf
    JobOrder <- MCJobOrder
    Every <- MCEvery
    Minutes <- MCMinutes
    Consults = {review}
    MinuteLength = 2
    NoTime = NoTime
    MaxClock = 2
    MaxFaults = 1
INVARIANTS WaitingHasQuestion OwnershipKept
PROPERTIES WaitingIsResumed SilentIsLost RecordedRunNotRepeated CronJobsRun
CHECK_DEADLOCK FALSE
