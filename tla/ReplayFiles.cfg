SPECIFICATION Spec
CONSTANTS
    Period = 1
    PreDelta = 1
    KeepN = 1
    MaxStep = 1
    MaxTime = 2
    MaxInput = 2
    MaxTake = 1
    WithFiles = TRUE
    GoToBeforeTake = FALSE
    GoToWithHeldInput = FALSE
    HeldInputTies = FALSE
    SaveAtInputTime = FALSE
INVARIANTS
    SnapshotsFollowLog
PROPERTY GoToReturns
