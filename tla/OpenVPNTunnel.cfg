SPECIFICATION FairSpec
CONSTANTS
    Starts = 2
    Generations <- MCGenerations
    Faults <- MCNoFaults
INVARIANTS
    NothingLeftInstalled
    ReassertingIsOver
PROPERTIES
    SuccessHasTunnel
    StartAnswered
    StopEnds
CHECK_DEADLOCK FALSE
