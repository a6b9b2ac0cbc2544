SPECIFICATION Spec
CONSTANTS
    p1 = p1
    p2 = p2
    m1 = m1
    m2 = m2
    t1 = t1
    t2 = t2
    Profile <- MCOneProfile
    NoProfile = NoProfile
    Manager <- MCManager
    NoManager = NoManager
    Task <- MCTask
    NoIP = NoIP
    MaxNotices = 2
    Faults <- MCAllFaults
VIEW Essential
SYMMETRY Symmetry
INVARIANTS
    ShowsStatus
    
    ManagerIsSaved
