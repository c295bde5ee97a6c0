SPECIFICATION Spec
CONSTANTS
  Calls = {1}
  HeartbeatOn = TRUE
  MaxEvents = 4
  MaxMarks = 2
  MaxBeats = 1
INVARIANTS TypeOK TerminalLast BlockedTurnSaysWhy StageOrder
PROPERTIES GeneratorCloses ContractHolds
CHECK_DEADLOCK FALSE
