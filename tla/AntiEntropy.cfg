SPECIFICATION FairSpec
CONSTANTS
    s1 = s1
    s2 = s2
    s3 = s3
    a = a
    Seeds <- MCTwoSeeds
    Ids <- MCIds
    Versions <- MCVersions
    Gen <- MCGen
    Life = 1
    Skew <- MCSkew
    MaxSkew = 1
    Cap = 3
    MaxCalls = 2
    MaxFailures = 1
INVARIANTS
    GossipKeepsLease
    JoinComplete
PROPERTIES
    GossipForgets
    
    LiveWriteSpreads
