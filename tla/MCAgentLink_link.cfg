SPECIFICATION FairSpec
CONSTANTS
    Shells = {p1, p2, p3}
    Capacity = 2
    MaxBackoff = 3
    MaxRetries = 3
    RetryBound = 4
CHECK_DEADLOCK FALSE
INVARIANTS
    TypeOK
    NoStragglers
    PauseDoubles
    LostMessagesStayLost
PROPERTIES
    Reconnects
