CONSTANTS
    Threads = {t1, t2, t3}
    Keys = {k1, k2}
    Entries = {e1, e2, e3}
    Nobody = Nobody
    NoKey = NoKey
    NoEntry = NoEntry
SPECIFICATION FairSpec
INVARIANTS
    MutualExclusion
    EntryCounted
PROPERTIES
    EveryoneServed
    ImplementsLock
