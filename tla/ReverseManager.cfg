SPECIFICATION Spec
CONSTANTS
    Period = 2
    PreDelta = 1
    KeepN = 1
    MaxStep = 2
    MaxTime = 4
    MaxInput = 2
    MaxTake = 2
    WithFiles = FALSE
    GoToBeforeTake = FALSE
    GoToWithHeldInput = FALSE
    HeldInputTies = FALSE
    SaveAtInputTime = FALSE
INVARIANTS
    MachineFollowsLog
    SnapshotsFollowLog
    OneSnapshotPlanned
    NextEventScheduled
PROPERTIES
    TransferFindsEvent
    GoToLands
