SPECIFICATION Spec
CONSTANTS
    Conns = {c1, c2, c3}
    Tokens = {t1, t2}
    Names = {n1}
    AgentIds = {a1, a2, a3}
    Fingerprints = {f1, f2}
    Sessions = {}
    Browsers = {}
    Users = {u1, u2}
    u1 = u1
    TokenUser <- OneOwner
    NoAgent = NoAgent
    NoFingerprint = NoFingerprint
    MaxBrowsers = 1
    MaxSessions = 1
    MaxSessionsPerAgent = 1
    MaxSessionsPerBrowser = 1
SYMMETRY HubSymmetry
INVARIANTS
    HubAgrees
    ServedByPinnedMachine
