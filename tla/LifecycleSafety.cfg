SPECIFICATION Spec
CONSTANTS
    Runtimes = {r1, r2}
    Requests = {q1, q2}
    Deleters = {d1}
    Superseders = {s1}
    VmIds = {100, 101}
    ForeignVms = {}
    Protected = {101}
    Nodes = {n1, n2}
    TemplateNode = n1
    Ips = {i1, i2}
    MaxCrashes = 1
    SerializedDeletes = TRUE
    NULL = NULL
CHECK_DEADLOCK FALSE
SYMMETRY Symmetry
INVARIANTS
    TypeOK
    VmAccounted
    RowVmIsMarked
    IdempotentSubmit
PROPERTIES
    DeleteTouchesOwnVmOnly
    ForeignAndProtectedUntouched
    SettledSupersedeStays
    ImplementsService
