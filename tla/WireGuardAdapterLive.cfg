SPECIFICATION FairSpec
CONSTANTS
    c1 = c1
    c2 = c2
    d1 = d1
    d2 = d2
    m1 = m1
    m2 = m2
    b1 = b1
    wifi = wifi
    offline = offline
    MaxInt32 = 1
    Device = {d1}
    NoDevice = NoDevice
    Path <- MCPath
    NoPath = NoPath
    Offline = offline
    Config = {c1}
    NoConfig = NoConfig
    Bumper <- MCBumper
    BumpTries = 2
    Monitor = {m1}
    NoMonitor = NoMonitor
    MaxQueue = 2
PROPERTIES
    StopTakesEffect
