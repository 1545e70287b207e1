SPECIFICATION PartSpec
CONSTANTS
    Ips = {a, b}
    None = None
    Workers = {w1}
    Threads = {t1, t2}
    Ttl = 2
    MaxTime = 3
    MaxWrites = 1
    MaxRelease = 2
    MaxScripts = 3
    MaxKeys = 3
    WebWorkers = {v1, v2}
    Amounts = {0, 1}
    Consoles = {"w1"}
    MaxRequests = 2
    MaxSpend = 3
    MaxSaves = 1
    MaxDays = 1
    MaxDbOutages = 0
    MaxTicks = 11
    Window = 3
    Chunk = 3
    Batch = 2
    RawKept = 6
    HourlyKept = 8
    MaxGap = 2
    MaxFill = 1
    Legacy = 5
    Careless = FALSE
    Sessions = {s1, s2}
    Contents = {c1, c2}
    NoOne = NoOne
    MaxPresets = 2
    MaxOps = 5
    Nodes = {"n1", "n2"}
    Plans = {{"n1", "n2"}, {"n1", "n3"}}
CHECK_DEADLOCK FALSE
SYMMETRY Symmetry
INVARIANTS
    KeyGrants
    RowKeyLive
    Overshoot
    PrunedIsKept
    ListOrder
    PagesComeUp
    LedgerIsTrue
PROPERTIES
    ReadsAreRecent
