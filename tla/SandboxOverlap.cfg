CONSTANTS
    Sandboxes = {s1, s2}
    PoolSize = 2
    StaticHosts = {}
    Protected = {}
    Restarts = FALSE
    OrdinaryClients = FALSE
    SlowGuests = FALSE
    MaxFaults = 0
    MaxNetCrashes = 0
    Nil = Nil
    STATIC = STATIC
    ORDINARY = ORDINARY
    DYN = DYN
SPECIFICATION NetSpec
INVARIANTS AlwaysReserved
CHECK_DEADLOCK FALSE
