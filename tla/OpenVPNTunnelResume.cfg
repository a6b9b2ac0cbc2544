SPECIFICATION Spec
CONSTANTS
    Starts = 1
    Generations <- MCOneGeneration
    Faults <- MCNoFaults
INVARIANTS
    ResumedOnce
CHECK_DEADLOCK FALSE
