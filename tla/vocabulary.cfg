SPECIFICATION Spec
CONSTANTS
    MaxLetters = 4
    LeastStresses = 1
    MostStresses = 3
    NoQuestion = noQuestion
    LastLetter = 2
    WordsPerLetter = 2
    LongestMessage = 3
    Seeded = TRUE
    NoReply = noReply
INVARIANTS
    AnswerOffered
    GradedAsShown
    NoTell
    AlphabetLeadsToWords
    ListedUnderEach
