SPECIFICATION Spec
CONSTANT Turns = {1, 2}
INVARIANTS ClientTypeOK SpinnerHasRun CutTurnIsTold
PROPERTIES SpinnerClears ToolSuccessIsEarned
CHECK_DEADLOCK FALSE
