SPECIFICATION Spec
CONSTANTS
    Names = {n1, n2}
    Tabs = {k1, k2}
    Sessions = {s1, s2, s3}
    Machines = {s1, s2}
    Pages = {p1, p2}
    me = me
    other = other
    Nothing = Nothing
    PageSize = 2
    WindowMs = 2
    MaxRequests = 2
    MaxStoreSize = 2
    FiveMinutes = 1
    MaxAccounts = 3
    MaxVersion = 1
    MaxCalls = 1
    MaxClosing = 2
    MaxLogs = 5
    MaxFetches = 2
    MaxDepth = 2
    MaxNow = 5
    MaxTicks = 4
    MaxPieces = 4
    MaxSockets = 5
    MaxUploads = 2
    MaxPolls = 2
    MaxKeys = 3
    MaxPuts = 3
SYMMETRY Symmetry
CHECK_DEADLOCK FALSE
INVARIANTS
    TypeOK
    AdminSinceSetup
    PanesApart
    ShownRowsAreConsecutive
    RateIsLimited
    LatencyIsFresh
    ProgressIsTrue
    OneSocket
    OverlayIsTrue
    EnterRunsHighlighted
    ShownIsFresh
    ChoicesAreKept
    OneContentShown
PROPERTIES
    OnlyAdminsChangeUsers
    KeysAreKept
