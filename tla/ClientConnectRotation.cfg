SPECIFICATION Spec
CONSTANTS
    h1 = h1
    h2 = h2
    a1 = a1
    a2 = a2
    b1 = b1
    Address <- MCAddress
    Host <- MCHost
    Remotes <- MCTwoHosts
    Answers <- MCShuffled
    Caches <- MCCaches
    Commands <- MCCommands
    MaxPosts = 1
    ConnTimeout = TRUE
INVARIANT
    EntriesRotate
CHECK_DEADLOCK FALSE
