SPECIFICATION Spec
CONSTANTS
    Conns = {c1}
    Tokens = {t1}
    Names = {n1}
    AgentIds = {a1}
    Fingerprints = {f1}
    Sessions = {s1, s2, s3}
    Browsers = {b1, b2, b3}
    Users = {u1, u2}
    u1 = u1
    TokenUser <- OneOwner
    NoAgent = NoAgent
    NoFingerprint = NoFingerprint
    MaxBrowsers = 3
    MaxSessions = 2
    MaxSessionsPerAgent = 3
    MaxSessionsPerBrowser = 1
SYMMETRY PoolSymmetry
INVARIANT WithinLimits
PROPERTY ImplementsLedger
