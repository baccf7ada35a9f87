SPECIFICATION Spec
CONSTANTS
    Room = {r1, r2, r3}
INVARIANTS
    ClosedLast
CHECK_DEADLOCK FALSE
