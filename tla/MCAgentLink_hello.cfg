SPECIFICATION Spec
CONSTANTS
    Shells = {p1}
    Capacity = 1
    MaxBackoff = 3
    MaxRetries = 0
    RetryBound = 4
INVARIANTS
    HelloFirst
