SPECIFICATION FairSpec
CONSTANTS
    Conns = {c1}
    Tokens = {t1}
    Names = {n1}
    AgentIds = {a1}
    Fingerprints = {f1}
    Sessions = {}
    Browsers = {}
    Users = {u1}
    u1 = u1
    TokenUser <- OneOwner
    NoAgent = NoAgent
    NoFingerprint = NoFingerprint
    MaxBrowsers = 1
    MaxSessions = 1
    MaxSessionsPerAgent = 1
    MaxSessionsPerBrowser = 1
PROPERTY RevokedTokenDisconnects
