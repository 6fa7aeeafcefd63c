--------------------------- MODULE MCAntiEntropy ---------------------------
(* Small instances of AntiEntropy for TLC.                                 *)
EXTENDS AntiEntropy

CONSTANTS s1, s2, s3, a

MCTwoSeeds == {s1, s2}
MCSeeds == {s1, s2, s3}
MCIds == {a}
MCVersions == {1, 2}
MCGen == [v \in MCVersions |-> v]       \* native clients number their writes
MCConsulGen == [v \in MCVersions |-> 1] \* Consul's API registers with 1
MCSkew == [s \in Seeds |-> IF s = s2 THEN 1 ELSE 0]
MCNoSkew == [s \in Seeds |-> 0]
=============================================================================
