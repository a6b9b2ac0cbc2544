SPECIFICATION Spec
CONSTANTS
    c1 = c1
    c2 = c2
    d1 = d1
    d2 = d2
    m1 = m1
    m2 = m2
    b1 = b1
    wifi = wifi
    offline = offline
    MaxInt32 = 1
    Device <- MCDevice
    NoDevice = NoDevice
    Path <- MCPath
    NoPath = NoPath
    Offline = offline
    Config <- MCConfig
    NoConfig = NoConfig
    Bumper <- MCBumper
    BumpTries = 1
    Monitor <- MCMonitor
    NoMonitor = NoMonitor
    MaxQueue = 2
SYMMETRY Symmetry
INVARIANTS
    
    MonitorMatchesState
    
    
    UpdateFindsTunnel
