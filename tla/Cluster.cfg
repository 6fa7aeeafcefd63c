SPECIFICATION Spec
CONSTANTS
    a = a
    b = b
    s1 = s1
    s2 = s2
    Seeds <- MCSeeds
    Ids <- MCTwo
    Checked <- MCNone
    Versions <- MCVersions
    Quorum = 1
    TTL = 4
    Heartbeat = 1
    OpTime = 1
    MaxWrites = 2
    MaxFailures = 2
INVARIANTS
    LeaseKept
SYMMETRY MCSymmetry
