SPECIFICATION FairSpec
CONSTANTS
    Reqs = {1, 2}
    Fetches = {f1, f2}
    Idle = Idle
    Asked = Asked
    Nothing = Nothing
    MaxFaults = 1
INVARIANTS
    TypeOK
    KeysMatch
    OneTabEach
PROPERTIES
    StoreCatchesUp
CHECK_DEADLOCK FALSE
