SPECIFICATION FairSpec
CONSTANTS
    Configs <- MCConfigs
    Slow <- MCAll
    MaxFailures = 1
INVARIANTS
    NothingLeft
    DrainStaysOff
PROPERTIES
    ShutdownEnds
