SPECIFICATION Spec
CONSTANT Turns = {1, 2}
INVARIANT NeverSilent
CHECK_DEADLOCK FALSE
