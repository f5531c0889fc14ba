SPECIFICATION Spec
CONSTANTS
    Ports = {p1, p2}
    None = None
    MaxConn = 2
    MaxFrames = 3
    CloseBeforePoll = FALSE
    BindAcross = FALSE
INVARIANTS
    RepliesAnswerOffers
    CancelSeparates
    RunsAreClosed
    PortIsCurrent
PROPERTIES
    Retries
    HangUpSeen
CHECK_DEADLOCK FALSE
