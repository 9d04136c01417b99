CONSTANTS
    Words = {w1}
    Stresses = {first, second}
    first = first
    second = second
    Catalog <- HomographCatalog
    Sizes = {2}
    NoWord = NoWord
    Polls = {1, 2, 3}
    NoPoll = NoPoll
    NoQuiz = NoQuiz
    Faults = {"send"}
    Users = {u1}
    TimeoutBuffer = 2
    LegacyRows = FALSE
    Messages <- RunMessages
    MaxInFlight = 1
    MaxFaults = 1
SPECIFICATION Spec
PROPERTIES
    GradedOnOwnQuestion
