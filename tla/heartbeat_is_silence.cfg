SPECIFICATION Spec
CONSTANTS
  Calls = {1}
  HeartbeatOn = TRUE
  MaxEvents = 2
  MaxMarks = 0
  MaxBeats = 1
PROPERTY HeartbeatIsSilence
CHECK_DEADLOCK FALSE
