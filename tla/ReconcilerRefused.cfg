SPECIFICATION Spec
CONSTANTS
    Runtimes = {r1}
    VmIds = {100}
    Visits = {p1}
    Deleters = {d1}
    MaxAttempts = 2
    Flaky = FALSE
    StartsRaise = TRUE
    MaxOutages = 1
    MaxCrashes = 0
    NULL = NULL
CHECK_DEADLOCK FALSE
INVARIANTS
    RecoveryBounded
