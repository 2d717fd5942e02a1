SPECIFICATION LiteSpec
CONSTANTS
    Group = 2
    Digests = {ok, odd}
    UncertainDigests = {odd}
    Chats = {c1}
    Nil = Nil
    Window = 2
    MaxRequests = 3
    MaxUnits = 3
    MaxRows = 4
    MaxRetry = 1
    RetryDelay = 1
    QueueDepth = 1
    Interval = 1
    Freshness = 2
    MaxClock = 2
    MaxItems = 2
INVARIANTS
    ReleasedWasUnused
    RequestsWithinHour
    ChatOnce
PROPERTIES
    NoCallAfterUncertain
CHECK_DEADLOCK FALSE
