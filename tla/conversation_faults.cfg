CONSTANTS
    Words = {w1, w2}
    Stresses = {first, second}
    first = first
    second = second
    Catalog <- PlainCatalog
    Sizes = {2}
    NoWord = NoWord
    Polls = {1, 2, 3}
    NoPoll = NoPoll
    NoQuiz = NoQuiz
    Faults = {"db", "send", "restart"}
    Users = {u1}
    TimeoutBuffer = 2
    LegacyRows = TRUE
    Messages <- RunMessages
    MaxInFlight = 1
    MaxFaults = 2
SYMMETRY WordSymmetry
SPECIFICATION Spec
INVARIANTS
    TypeOK
    QuizOnlyInRun
    TallyAddsUp
    MissesBelongToRun
PROPERTIES
    GradedOnOwnQuestion
    ExpiryOnOwnQuestion
