SPECIFICATION FairSpec
CONSTANTS
    Users = {u1, u2}
    Updates = {t1}
    Watcher = watcher
    Nobody = nobody
    HandlerTimeout = 2
    TimeoutBuffer = 1
    MaxSends = 1
    MaxExpiries = 2
    SendAttempts = 2
    MaxRetryAfter = 2
    Waits = {2, 3}
    Never = never
INVARIANTS
    HoldBounded
    FailuresCounted
PROPERTIES
    UsesLock
    EveryUpdateHandled
    EveryExpiryDispatched
