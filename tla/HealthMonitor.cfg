SPECIFICATION FairSpec
CONSTANTS
    h1 = h1
    a = a
    Ids <- MCIds
    Handlers <- MCHandlers
    Bodies <- MCBodies
    Files <- MCFiles
    EnableScript = TRUE
    Worlds <- MCWorlds
    TTL = 2
    MaxCalls = 3
    MaxFailures = 1
INVARIANTS
    ActiveIsRunning
    
PROPERTIES
    FailingLapses
