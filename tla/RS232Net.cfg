SPECIFICATION Spec
CONSTANTS
  Data = {1, 255}
  MaxIn = 2
  MaxEvents = 2
  MaxPlugs = 2
  LateReads = FALSE
  OldQueue = FALSE
INVARIANTS
  StreamsAreUnderstood
  NoByteStuck
  AssertionsHold
