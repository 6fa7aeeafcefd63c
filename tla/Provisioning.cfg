SPECIFICATION Spec
CONSTANTS
    h1 = h1
    h2 = h2
    t1 = t1
    t2 = t2
    TicksPerSecond = 2
    Hosts <- MCHosts
    Configs <- MCConfigs
    TokenTTLs <- MCTokenTTLs
    Bound <- MCBound
    NoFile = NoFile
    Handshakes <- MCHandshakes
    Keys <- MCKeys
    NoId = NoId
    EmptyId = EmptyId
SYMMETRY Alike
CHECK_DEADLOCK FALSE
INVARIANTS
    AdmittedPerSecond
    RefusalJustified
    RotationTaken
    JoinedConfigStarts
    
