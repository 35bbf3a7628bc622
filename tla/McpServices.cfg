SPECIFICATION ServicesSpec
CONSTANTS
    \* logins, tokens and grants
    None = None
    aliceBlank = aliceBlank
    blanks = blanks
    Trimmed <- MCTrimmed
    Launcher = {alice, bob, aliceBlank, blanks}
    NoOne = NoOne
    alice = alice
    bob = bob
    d1 = d1
    t1 = t1
    t2 = t2
    t3 = t3
    fieldBead = fieldBead
    bead1 = bead1
    bead2 = bead2
    Owner = bob
    TextField = {fieldBead}
    Device = {d1}
    Client = {alice, bob}
    Token = {t1, t2, t3}
    CodeTtl = 2
    PollInterval = 1
    SlowDown = 1
    MaxTime = 3
    AccessTtl = 1
    RefreshTtl = 2
    MaxGrants = 2
    GrantPool <- MCGrantPool
    Request <- MCRequest
    \* Beads tools and tracker sync
    k1 = k1
    k2 = k2
    jira = jira
    linear = linear
    NoRequest = NoRequest
    Handler = {k1, k2}
    ToolRequest <- MCToolRequest
    Target = {jira, linear}
    RequiredTarget = {linear}
    StatusTarget = {jira}
    MaxRequests = 3
    MaxFaults = 1
    Configured <- MCConfigured
    ApprovalFor = {}
    AllowedCommands = {}
    \* the event stream
    Writer = {w1, w2}
    Home <- MCHome
    Poller = {r1}
    Follower = {r2}
    Limit = 2
    MaxEvents = 5
    MaxRestarts = 3
    \* remote runners and secrets
    Bindings <- MCBindings
    Obstacles <- MCObstacles
    Launch <- MCLaunch
    MaxLaunchFaults = 2
    MaxKeys = 2
    \* files of the project and of the user
    p1 = p1
    Package <- MCPackages
    Manifests <- MCManifests
    \* claims shared between machines
    m1 = m1
    m2 = m2
    c1 = c1
    c2 = c2
    NoMachine = NoMachine
    Machine <- MCMachines
    Task <- MCTasks
    Configuration <- MCConfigurations
    \* the planner and its context
    Items <- MCItems
    PackSizes <- MCPackSizes
    MaxTokens = 100
    Reserved = 20
    UsedTokens <- MCUsedTokens
    Thresholds <- MCThresholds
    Placeholder = 3
    Goals <- MCGoals
    PlannerApprovals <- MCNone
    PlannerCommands <- MCNone
INVARIANTS GrantViewsAgree
    AppliedOnce ReviewedOnce TargetsReachedOnce EventsInOrder
    TunnelMatches SessionIsWhole StartNeverFails RerunRepairs
    SharedClaimExclusive HeavyPlansFit PackIsBounded
PROPERTY ImplementsLogin
CHECK_DEADLOCK FALSE
