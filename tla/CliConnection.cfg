SPECIFICATION Spec
CONSTANTS
  NumClients = 2
  MaxCommands = 2
  MaxLogs = 1
  Races = {}
INVARIANTS
  RepliesInOrder
  OneElement
PROPERTIES
  Answered
