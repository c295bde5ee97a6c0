SPECIFICATION TurnSpec
CONSTANTS
  Calls = {1, 2}
  ClientVisible = {1}
  HeartbeatOn = TRUE
  MaxEvents = 3
  MaxMarks = 1
  MaxBeats = 1
INVARIANTS WireClosed PrivilegedWithheld
PROPERTIES TurnEnds
CHECK_DEADLOCK FALSE
