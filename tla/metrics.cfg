SPECIFICATION Spec
CONSTANTS
    Workers = {w1, w2}
    Routes = {answer, menu}
    Durations = {1, 2}
    LastCounter = 2
    NoOne = noOne
    Reader = reader
    MaxCount = 1
    MaxCalls = 2
INVARIANTS
    TimingsExact
    SnapshotWithin
    TimingsOfOneInstant
