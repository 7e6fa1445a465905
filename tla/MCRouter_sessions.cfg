SPECIFICATION Spec
CONSTANTS
    Conns = {c1, c2}
    Tokens = {t1}
    Names = {n1}
    AgentIds = {a1, a2}
    Fingerprints = {f1}
    Sessions = {s1, s2}
    Browsers = {b1, b2}
    Users = {u1, u2}
    u1 = u1
    TokenUser <- OneOwner
    NoAgent = NoAgent
    NoFingerprint = NoFingerprint
    MaxBrowsers = 2
    MaxSessions = 2
    MaxSessionsPerAgent = 1
    MaxSessionsPerBrowser = 2
SYMMETRY PoolSymmetry
INVARIANTS
    TypeOK
    RecordsAgree
    SessionsHaveBothEnds
    SessionsStayWithinUser
PROPERTIES
    MessagesStayWithinSession
    ReachableAgentToldOfEnd
