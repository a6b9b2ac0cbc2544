SPECIFICATION Spec
CONSTANTS
    Kept = 6
    Lines = 3
    MaxEntries = 8
    MaxJobs = 2
    Overlaps = FALSE
    Listener = {l1, l2, l3}
    NoListener = NoListener
    Test = {t1, t2, t3}
    NoTest = NoTest
    WindowSize = 4
    Expire = 2
    IdRange = 6
    Forms = {"short", "long"}
    MaxTime = 3
INVARIANTS
    
    ShownServerListens
    RunningIsMeasured
    NeverTwice
    UnseenPasses
PROPERTIES
    TestEnds
    FreshIds
CHECK_DEADLOCK FALSE
