--------------------------- MODULE MCProvisioning ---------------------------
(* Small instances of Provisioning for TLC.                                *)
EXTENDS Provisioning, TLC

CONSTANTS h1, h2, t1, t2

MCHosts == {h1, h2}
MCHandshakes == {t1, t2}
MCKeys == {1, 2}
MCTokenTTLs == {0, 3}
Named == [nodeName |-> "n", dataDir |-> ""]
Stored == [nodeName |-> "", dataDir |-> "d"]

(* A seed that serves bootstrap; seeds that differ from it in two fields.  *)
Base == [Blank EXCEPT !.role = "seed", !.cluster = "c", !.seeds = {"s"},
                      !.bootstrap = [@ EXCEPT !.enabled = TRUE, !.key = "k", !.rateLimit = 1]]
Field1 ==
    {[Base EXCEPT !.ttl = 5, !.heartbeat = 2], [Base EXCEPT !.ttl = 60, !.heartbeat = 40],
     [Base EXCEPT !.heartbeat = 30], [Base EXCEPT !.shutdown = -1],
     [Base EXCEPT !.datacenter = "west"], [Base EXCEPT !.maxServices = 9],
     [Base EXCEPT !.seeds = {}], [Base EXCEPT !.cluster = ""], [Base EXCEPT !.role = ""],
     [Base EXCEPT !.listeners["dns"] = [enabled |-> TRUE, address |-> "", port |-> 53]],
     [Base EXCEPT !.domain = [zone |-> "corp", dot |-> FALSE]],
     [Base EXCEPT !.altDomain = [zone |-> "old", dot |-> FALSE]],
     [Base EXCEPT !.agent.drainWindow = 7], [Base EXCEPT !.agent.writeQuorum = 2],
     [Base EXCEPT !.agent.cacheMaxAge = -1]}
Field2(c) ==
    {c, [c EXCEPT !.bootstrap.allowSeedJoin = TRUE], [c EXCEPT !.bootstrap.advertise = {"a"}],
     [c EXCEPT !.bootstrap.key = "short"], [c EXCEPT !.bootstrap.rateLimit = -1],
     [c EXCEPT !.bootstrap.tokenTTL = -1],
     [c EXCEPT !.acl.mode = "allow"], [c EXCEPT !.acl.mode = "enforce"],
     [c EXCEPT !.acl = [mode |-> "enforce", policy |-> "deny", tokens |-> "t"]],
     [c EXCEPT !.discovery = [name |-> "p", interval |-> 0]],
     [c EXCEPT !.tls = [enabled |-> TRUE, mutual |-> FALSE, cert |-> "c", key |-> "k", ca |-> ""]],
     [c EXCEPT !.tls = [enabled |-> TRUE, mutual |-> TRUE, cert |-> "c", key |-> "k", ca |-> ""]],
     [c EXCEPT !.tls = [enabled |-> TRUE, mutual |-> TRUE, cert |-> "c", key |-> "k", ca |-> "a"],
               !.acl.mode = "enforce"]}
Tight == [Base EXCEPT !.datacenter = "south"]
Twice == [Base EXCEPT !.bootstrap.rateLimit = 2]
Secure == [Base EXCEPT !.tls = [enabled |-> TRUE, mutual |-> FALSE, cert |-> "c",
                                key |-> "k", ca |-> ""]]
Again == [Secure EXCEPT !.datacenter = "north"]
MCConfigs == {Base, Tight, Twice, Secure, Again} \cup UNION {Field2(c) : c \in Field1}

(* Tokens over time for the first; requests over time for the next two;    *)
(* rotations under one process for Secure; restarts and a second fetch for *)
(* Again; one request and one start for each of the others.                *)
Limits(asks, toks, time, runs, writes, locals) ==
    [asks |-> asks, tokens |-> toks, time |-> time, starts |-> runs,
     writes |-> writes, locals |-> locals]
BaseCfg == Parse(Base)
TightCfg == Parse(Tight)
TwiceCfg == Parse(Twice)
SecureCfg == Parse(Secure)
AgainCfg == Parse(Again)
MCBound(c) ==
    CASE c = BaseCfg -> Limits(1, 2, 7, 0, 0, {Named})
      [] c = TightCfg -> Limits(4, 1, 6, 0, 0, {Named})
      [] c = TwiceCfg -> Limits(5, 1, 4, 0, 0, {Named})
      [] c = SecureCfg -> Limits(1, 1, 1, 1, 5, {Named})
      [] c = AgainCfg -> Limits(2, 1, 1, 3, 0, {Named, Stored})
      [] OTHER -> Limits(1, 1, 1, 1, 0, {Stored})

Alike == Permutations(MCHosts) \cup Permutations(MCHandshakes)
=============================================================================
