SPECIFICATION Spec
CONSTANTS
    NumHandles = 1
    Fds = {1, 2}
    None = None
    RecvCap = 1
    SendCap = 2
    MaxSockets = 2
    MaxBytes = 2
    Underneath = TRUE
PROPERTIES
    NotUnderneath
