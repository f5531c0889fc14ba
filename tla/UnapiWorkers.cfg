SPECIFICATION Spec
CONSTANTS
    Names = {n1, n2}
    None = None
    QueueSize = 2
    MaxEchoes = 3
    MaxResets = 2
INVARIANTS
    AnswerIsForQuestion
    NoEchoAcrossReset
PROPERTIES
    QueryAnswered
    ShutdownEnds
CHECK_DEADLOCK FALSE
