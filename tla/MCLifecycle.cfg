SPECIFICATION Spec
CONSTANTS
    Room = {r1, r2, r3}
INVARIANTS
    LifecycleInv
PROPERTIES
    Stops
    PairsAreTold
CHECK_DEADLOCK FALSE
