SPECIFICATION Spec
CONSTANTS
    d1 = d1
    d2 = d2
    Devices = {d1, d2}
    MaxTime = 4
    MaxStep = 2
    MaxTicket = 3
SYMMETRY MCSymmetry
INVARIANTS
    LimitIsFresh
    NothingDueAtInstruction
PROPERTY TimeNeverGoesBack
