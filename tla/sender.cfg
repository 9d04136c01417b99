CONSTANTS
    Calls = {c1, c2}
    Deadlines = {Never, 3}
    SendAttempts = 3
    MaxRetryAfter = 2
    Waits = {0, 1, 2, 3}
    Never = Never
SPECIFICATION FairSpec
INVARIANTS
    CountersExact
    WaitBounded
PROPERTIES
    EveryCallReturns
    ImplementsDelivery
