SPECIFICATION Spec
CONSTANTS
    Runtimes = {r1, r2}
    Requests = {q1, q2}
    Deleters = {d1, d2}
    Superseders = {}
    VmIds = {100, 101, 102}
    ForeignVms = {100}
    Protected = {102}
    Nodes = {n1, n2}
    TemplateNode = n1
    Ips = {i1, i2}
    MaxCrashes = 0
    SerializedDeletes = FALSE
    NULL = NULL
CHECK_DEADLOCK FALSE
SYMMETRY Symmetry
PROPERTIES
    DeleteTouchesOwnVmOnly
