SPECIFICATION Spec
CONSTANTS
    Runtimes = {r1, r2}
    VmIds = {100}
    Visits = {p1}
    Deleters = {d1}
    MaxAttempts = 2
    Flaky = FALSE
    StartsRaise = FALSE
    MaxOutages = 1
    MaxCrashes = 0
    NULL = NULL
CHECK_DEADLOCK FALSE

PROPERTIES
    VisitTouchesOwnVmOnly
