SPECIFICATION Spec
CONSTANTS
    Reqs = {1, 2}
    Fetches = {f1, f2}
    Idle = Idle
    Asked = Asked
    Nothing = Nothing
    MaxFaults = 1
INVARIANTS
    CreatedBeforeMounted
CHECK_DEADLOCK FALSE
