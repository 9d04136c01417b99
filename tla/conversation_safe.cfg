CONSTANTS
    Words = {w1, w2}
    Stresses = {first, second}
    first = first
    second = second
    Catalog <- HomographCatalog
    Sizes = {2}
    NoWord = NoWord
    Polls = {1, 2, 3}
    NoPoll = NoPoll
    NoQuiz = NoQuiz
    Faults = {}
    Users = {u1}
    TimeoutBuffer = 3
    LegacyRows = FALSE
    Messages <- AllMessages
    MaxInFlight = 1
    MaxFaults = 0
SPECIFICATION FairSpec
INVARIANTS
    RunHasLiveQuestion
    RunKeyboard
    RunWithinBounds
PROPERTIES
    RunEnds
