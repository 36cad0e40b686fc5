SPECIFICATION Spec
CONSTANTS
    Minute = 4
    Calls = 3
    MaxPulls = 3
INVARIANTS
    TypeOK
    OrphansAreTheKubelets
CHECK_DEADLOCK FALSE
