----------------------------- MODULE MCCluster -----------------------------
(* Small instances of Cluster for TLC.                                     *)
EXTENDS Cluster, TLC

CONSTANTS a, b, s1, s2

MCSeeds == {s1, s2}
MCOne == {a}
MCTwo == {a, b}
MCNone == {}
MCVersions == {1, 2}
MCOneVersion == {1}

(* Seeds and services are interchangeable; for safety runs.                *)
MCSymmetry == Permutations(MCSeeds) \cup Permutations(MCTwo)
=============================================================================
