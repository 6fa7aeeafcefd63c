------------------------------- MODULE Config -------------------------------
(***************************************************************************)
(* A node's configuration (internal/config/config.go) and the one a seed   *)
(* renders for a joining node (internal/bootstrap/render.go).  Durations   *)
(* are in seconds; "" stands for any blank text; a zone is its name and    *)
(* whether it ends in a dot.                                               *)
(***************************************************************************)
EXTENDS Integers

Roles == {"agent", "seed"}
Listeners == {"grpc", "consul_http", "dns", "metrics"}
NoZone == [zone |-> "", dot |-> FALSE]
NoDiscovery == [name |-> "", interval |-> -1]
NoListener == [enabled |-> FALSE, address |-> "", port |-> 0]

(* What an empty document decodes to.                                      *)
Blank ==
    [role |-> "", nodeName |-> "", dataDir |-> "", datacenter |-> "",
     cluster |-> "", seeds |-> {}, discovery |-> NoDiscovery,
     ttl |-> 0, heartbeat |-> 0, shutdown |-> 0, maxServices |-> 0,
     listeners |-> [s \in Listeners |-> NoListener],
     domain |-> NoZone, altDomain |-> NoZone,
     agent |-> [seedTimeout |-> 0, writeQuorum |-> 0, readyMinSeeds |-> 0,
                drainWindow |-> 0, cacheMaxAge |-> 0],
     tls |-> [enabled |-> FALSE, mutual |-> FALSE, cert |-> "", key |-> "", ca |-> ""],
     acl |-> [mode |-> "", policy |-> "", tokens |-> ""],
     bootstrap |-> [enabled |-> FALSE, key |-> "", tokenTTL |-> 0, rateLimit |-> 0,
                    allowSeedJoin |-> FALSE, advertise |-> {}],
     maxHops |-> 0, syncInterval |-> 0]

(* Texts, among them the ones the code names, and the types of the fields. *)
Text ==
    STRING \cup {"", "agent", "seed", "dc1", "consul", "disabled", "allow", "enforce",
                "127.0.0.1", "c", "k", "a", "t"}

Document ==
    [role: Text, nodeName: Text, dataDir: Text, datacenter: Text,
     cluster: Text, seeds: SUBSET Text, discovery: [name: Text, interval: Int],
     ttl: Int, heartbeat: Int, shutdown: Int, maxServices: Int,
     listeners: [Listeners -> [enabled: BOOLEAN, address: Text, port: Int]],
     domain: [zone: Text, dot: BOOLEAN], altDomain: [zone: Text, dot: BOOLEAN],
     agent: [seedTimeout: Int, writeQuorum: Int, readyMinSeeds: Int,
             drainWindow: Int, cacheMaxAge: Int],
     tls: [enabled: BOOLEAN, mutual: BOOLEAN, cert: Text, key: Text, ca: Text],
     acl: [mode: Text, policy: Text, tokens: Text],
     bootstrap: [enabled: BOOLEAN, key: Text, tokenTTL: Int, rateLimit: Int,
                 allowSeedJoin: BOOLEAN, advertise: SUBSET Text],
     maxHops: Int, syncInterval: Int]
-----------------------------------------------------------------------------
orElse(v, default) == IF v = 0 THEN default ELSE v
orText(v, default) == IF v = "" THEN default ELSE v

defaultPort == [grpc |-> 9900, consul_http |-> 8500, dns |-> 8600, metrics |-> 9901]

defaultListener(s, l) ==
    [enabled |-> l.enabled \/ s = "grpc", address |-> orText(l.address, "127.0.0.1"),
     port |-> orElse(l.port, defaultPort[s])]

defaultBootstrap(b) ==
    [b EXCEPT !.rateLimit = orElse(@, 10), !.tokenTTL = orElse(@, 30)]

defaultAgent(a) ==
    [seedTimeout |-> orElse(a.seedTimeout, 3), writeQuorum |-> orElse(a.writeQuorum, 1),
     readyMinSeeds |-> orElse(a.readyMinSeeds, 1), drainWindow |-> orElse(a.drainWindow, 5),
     cacheMaxAge |-> orElse(a.cacheMaxAge, 5)]

defaultDiscovery(d) ==
    IF d = NoDiscovery THEN d ELSE [d EXCEPT !.interval = orElse(@, 30)]

applyDefaults(c) ==
    [c EXCEPT
       !.role = orText(@, "agent"), !.datacenter = orText(@, "dc1"),
       !.ttl = orElse(@, 30), !.heartbeat = orElse(@, 10), !.shutdown = orElse(@, 15),
       !.maxHops = orElse(@, 1), !.syncInterval = orElse(@, 30),
       !.listeners = [s \in Listeners |-> defaultListener(s, @[s])],
       !.bootstrap = defaultBootstrap(@),
       !.discovery = defaultDiscovery(@),
       !.acl.mode = orText(@, "disabled"),
       !.agent = defaultAgent(@),
       !.domain = [zone |-> orText(@.zone, "consul"), dot |-> TRUE],
       !.altDomain = [@ EXCEPT !.dot = c.altDomain.zone # ""]]

validateListener(l) == l.address # "" /\ l.port # 0

validateBootstrap(c) ==
    c.bootstrap.enabled =>
      /\ c.role = "seed" /\ c.bootstrap.key # ""
      /\ c.bootstrap.advertise # {} \/ c.seeds # {}
      /\ c.bootstrap.rateLimit >= 0

validateAgent(a) ==
    /\ a.seedTimeout > 0 /\ a.writeQuorum >= 1 /\ a.readyMinSeeds >= 1
    /\ a.drainWindow >= 0 /\ a.cacheMaxAge > 0

validateTLS(t) ==
    /\ t.enabled => t.cert # "" /\ t.key # "" /\ (t.mutual => t.ca # "")
    /\ t.mutual => t.enabled

validateACL(c) ==
    /\ c.acl.mode \in {"", "disabled", "allow", "enforce"}
    /\ c.acl.policy \in {"", "allow", "deny"}
    /\ c.acl.mode = "enforce" => c.tls.mutual \/ c.acl.tokens # ""

Validate(c) ==
    /\ c.role \in Roles /\ c.cluster # ""
    /\ c.ttl > 0 /\ c.heartbeat > 0 /\ c.heartbeat < c.ttl /\ c.shutdown > 0
    /\ \A s \in Listeners : s = "grpc" \/ c.listeners[s].enabled
                             => validateListener(c.listeners[s])
    /\ validateBootstrap(c)
    /\ c.discovery # NoDiscovery => c.discovery.name # "" /\ c.discovery.interval >= 0
    /\ c.role = "agent" => c.seeds # {} \/ c.discovery # NoDiscovery
    /\ validateTLS(c.tls) /\ validateACL(c) /\ validateAgent(c.agent)

(* Load and Parse: the configuration a file stands for, if it is accepted. *)
Parse(c) == applyDefaults(c)
Accepted(c) == Validate(Parse(c))
-----------------------------------------------------------------------------
(* The seed list a seed advertises to joining nodes.                       *)
advertised(c) == IF c.bootstrap.advertise # {} THEN c.bootstrap.advertise ELSE c.seeds

(* The query surfaces are served, whatever the seed serves itself.         *)
rListener(s, port) ==
    [enabled |-> s \in {"consul_http", "dns"}, address |-> "127.0.0.1", port |-> port]

(* Flags only: no paths, and no tokens file.                               *)
rTLS(t) ==
    [enabled |-> t.enabled, mutual |-> t.enabled /\ t.mutual,
     cert |-> "", key |-> "", ca |-> ""]

rACL(a) ==
    [mode |-> IF a.mode = "disabled" THEN "" ELSE a.mode, policy |-> "", tokens |-> ""]

(* Mutant of Render: the lease settings are left to the defaults.          *)
RenderNoLease(c, role, seeds) ==
    [Blank EXCEPT
       !.role = role, !.datacenter = c.datacenter, !.cluster = c.cluster,
       !.seeds = seeds, !.heartbeat = c.heartbeat, !.shutdown = c.shutdown,
       !.listeners = [s \in Listeners |-> rListener(s, c.listeners[s].port)],
       !.domain = c.domain, !.altDomain = c.altDomain,
       !.agent = IF role = "agent" THEN c.agent ELSE @,
       !.tls = rTLS(c.tls), !.acl = rACL(c.acl)]

(* The sanitized document: what is not named here is left out of it, and a *)
(* zero is left out too (omitempty).                                       *)
Render(c, role, seeds) ==
    [Blank EXCEPT
       !.role = role, !.datacenter = c.datacenter, !.cluster = c.cluster,
       !.seeds = seeds, !.ttl = c.ttl, !.heartbeat = c.heartbeat,
       !.shutdown = c.shutdown,
       !.listeners = [s \in Listeners |-> rListener(s, c.listeners[s].port)],
       !.maxServices = IF role = "seed" THEN c.maxServices ELSE 0,
       !.domain = c.domain, !.altDomain = c.altDomain,
       !.agent = IF role = "agent" THEN c.agent ELSE @,
       !.tls = rTLS(c.tls), !.acl = rACL(c.acl)]

(* "Provision node credentials locally (set tls.cert_file/key_file/ca_file, *)
(* acl.tokens_file)", the header of the served file says.                  *)
provisioned(f, own) ==
    [f EXCEPT !.tls = [@ EXCEPT !.cert = "c", !.key = "k", !.ca = "a"],
              !.acl.tokens = "t", !.nodeName = own.nodeName,
              !.dataDir = own.dataDir]
=============================================================================
