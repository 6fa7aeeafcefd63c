---------------------------- MODULE MCLifecycle ----------------------------
(* Small instances of Lifecycle for TLC.                                   *)
EXTENDS Lifecycle

(* An agent that serves apps, one that serves files, a seed with peers,    *)
(* and one with every surface of a seed.                                   *)
MCFiles == [role |-> "agent", metrics |-> FALSE, federation |-> TRUE, consul |-> FALSE,
            dns |-> FALSE, loader |-> TRUE, membership |-> FALSE, drain |-> FALSE]
MCApps == [MCFiles EXCEPT !.federation = FALSE, !.consul = TRUE, !.loader = FALSE, !.drain = TRUE]
MCPeer == [MCFiles EXCEPT !.role = "seed", !.loader = FALSE, !.membership = TRUE]
MCSeed == [MCPeer EXCEPT !.membership = FALSE, !.metrics = TRUE, !.dns = TRUE]
MCConfigs == {MCFiles, MCApps, MCPeer, MCSeed}
MCOneAgent == {[MCFiles EXCEPT !.loader = FALSE]}
MCAll == Waits
MCNone == {}
=============================================================================
