-------------------------- MODULE MCHealthMonitor --------------------------
(* Small instances of HealthMonitor for TLC.                               *)
EXTENDS HealthMonitor

CONSTANTS h1, a

MCHandlers == {h1}
MCIds == {a}
(* From apps: no active check, or two at once.  From files: one check that *)
(* a silent endpoint passes, then a second one.                            *)
MCBodies == {<<{"ttl"}>>, <<{"args"}, {"http", "tcp"}>>}
MCFiles == <<[op |-> "register", id |-> a, body |-> <<{"udp", "args"}>>],
             [op |-> "register", id |-> a, body |-> <<{"udp"}, {"tcp"}>>]>>
(* Everything works, or the web server alone hangs.                        *)
MCUp == [p \in Probes |-> "up"]
MCWorlds == {MCUp, [MCUp EXCEPT !["http"] = "down", !["tcp"] = "silent", !["udp"] = "silent"]}
=============================================================================
