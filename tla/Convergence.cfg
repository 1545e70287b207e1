SPECIFICATION PartSpec
CONSTANTS
    Runtimes = {r1}
    VmIds = {100}
    Visits = {p1, p2}
    Deleters = {}
    MaxAttempts = 1
    Flaky = FALSE
    StartsRaise = FALSE
    MaxOutages = 1
    MaxCrashes = 1
    NULL = NULL
CHECK_DEADLOCK FALSE

PROPERTIES
    RowsConverge
    HostsRecover
