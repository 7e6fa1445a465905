SPECIFICATION FairSpec
CONSTANTS
    Conns = {c1, c2}
    Tokens = {t1}
    Names = {n1}
    AgentIds = {a1}
    Fingerprints = {f1}
    Sessions = {s1}
    Browsers = {b1}
    Users = {u1, u2}
    u1 = u1
    TokenUser <- OneOwner
    NoAgent = NoAgent
    NoFingerprint = NoFingerprint
    MaxBrowsers = 1
    MaxSessions = 1
    MaxSessionsPerAgent = 1
    MaxSessionsPerBrowser = 1
PROPERTY NothingLingers
