SPECIFICATION FairSpec
CONSTANTS
    p1 = p1
    p2 = p2
    m1 = m1
    m2 = m2
    t1 = t1
    t2 = t2
    Profile <- MCProfile
    NoProfile = NoProfile
    Manager <- MCOneManager
    NoManager = NoManager
    Task <- MCOneTask
    NoIP = NoIP
    MaxNotices = 1
    Faults <- MCSlow
PROPERTIES
    TaskEnds
    StatusIsShown
CHECK_DEADLOCK FALSE

    
    
