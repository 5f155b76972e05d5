SPECIFICATION Spec
CONSTANTS
    Parses = {p1}
    Slots = 1
    MaxAttempts = 2
INVARIANTS
    RefusedOnlyIfEnded
CHECK_DEADLOCK FALSE
