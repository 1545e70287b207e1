SPECIFICATION PartSpec
CONSTANTS
    Agents = {a1, a2}
    VmIds = {100}
    MaxFaults = 1
    NULL = NULL
    Hosts = {1}
    Operators = {o1}
    VmStartMax = 2
    ServiceRestartMax = 2
    AuditFails = FALSE
    MaxEngineFaults = 1
    MaxOrders = 2
    NoHost = NoHost
    Backends = {1, 2}
    Models = {"m1", "m2"}
    Target = "m1"
    Alias = "fast"
    Engine = "engine"
    Workers = {"w1"}
    MaxChanges = 1
    MaxAborts = 1
CHECK_DEADLOCK FALSE
INVARIANTS
    TypeOK
    VmNamedByJob
    EngineTypeOK
    RecoveryIsBounded
    OneLateStart
    AliasRowsBounded
PROPERTIES
    AgentsSettle
    DeletesEnd
    Drained
    AliasFollows
    CapStops
