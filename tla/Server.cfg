SPECIFICATION Spec
CONSTANTS
    LongStrings = {"long"}
    KnownErrors <- MCKnownErrors
    UnknownError = 99
    TopicNames = {"t"}
    MaxPartition = 1
    Strings = {"s", "long"}
    Productions <- MCProductions
    Compressions = {0, 1, 2}
    Refusals = {12, 13}
    MaxLog = 3
CHECK_DEADLOCK FALSE
INVARIANTS
    RequestIntact
    AnswerIntact
    FetchedInOrder
    NeverPanics
