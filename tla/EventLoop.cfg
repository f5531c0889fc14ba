SPECIFICATION Spec
CONSTANTS
    Boards = {b1, b2}
    First = b1
    Threads = {t1, t2}
    Main = Main
    Global = Global
    None = None
    MaxEvent = 2
    ActivateEmpty = FALSE
INVARIANTS
    DeliveredInOrder
    FlagsLiveBoard
    WakeupNotLost
PROPERTIES
    EventDelivered
    OldBoardStops
CHECK_DEADLOCK FALSE
