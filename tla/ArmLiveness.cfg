SPECIFICATION PartSpec
CONSTANTS
    Runtimes = {r1, r2}
    Requests = {q1, q2}
    Deleters = {d1}
    Superseders = {}
    VmIds = {100, 101, 102}
    ForeignVms = {100}
    Protected = {102}
    Nodes = {n1, n2}
    TemplateNode = n1
    Ips = {i1, i2}
    MaxCrashes = 1
    SerializedDeletes = TRUE
    Rows = {r1, r2, r3}
    Sandbox = r1
    Old = r2
    NULL = NULL
CHECK_DEADLOCK FALSE
INVARIANTS
    RunningIpsDistinct
PROPERTIES
    JobsEnd
    NoRowStarves
    ExpiredIsSwept
