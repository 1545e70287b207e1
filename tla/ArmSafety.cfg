SPECIFICATION PartSpec
CONSTANTS
    Runtimes = {r1, r2}
    VmIds = {100}
    Visits = {p1, p2}
    Deleters = {d1}
    MaxAttempts = 1
    Flaky = TRUE
    StartsRaise = TRUE
    MaxOutages = 1
    MaxCrashes = 1
    Sandboxes = {r1, r2}
    PoolSize = 3
    StaticHosts = {2}
    Protected = {1}
    Restarts = TRUE
    OrdinaryClients = TRUE
    SlowGuests = TRUE
    MaxFaults = 1
    MaxNetCrashes = 1
    Nil = Nil
    Workers = {r1, r2, r3, r4, r5}
    Inference = {r1, r2, r3}
    Pinned = {r4}
    Nodes = {1, 2, 3, 4}
    PreferredNode = 1
    InferenceNodes = {3}
    ExcludedNodes = {2}
    TemplateNode = 3
    MaxWorkers = 1
    MaxJobs = 2
    NULL = NULL
    NoNode = NoNode
    STATIC = STATIC
    ORDINARY = ORDINARY
    DYN = DYN
CHECK_DEADLOCK FALSE
SYMMETRY Symmetry
INVARIANTS
    TypeOK
    SoloStartsBounded
    StoppedIsHonest
    DestroyedIsReleased
    ReadyIsIsolated
    CapOvershoot
PROPERTIES
    ForeignKept
