------------------------- MODULE ProvisioningProofs -------------------------
(***************************************************************************)
(* Proofs about Provisioning, for every set of configurations, hosts, keys *)
(* and handshakes and for every bound: the served pair and its rotation,   *)
(* the node's identity, the rate limit, tokens and served configurations.  *)
(***************************************************************************)
EXTENDS Provisioning, FiniteSetTheorems, TLAPS

(* Time for the provers.                                                   *)
USE SMTT(30), ZenonT(30)

(* The configuration: what Parse fills in.                                 *)
LEMMA Filled ==
    /\ \A v \in Int : /\ orElse(v, 30) \in Int /\ orElse(v, 10) \in Int /\ orElse(v, 15) \in Int
                      /\ \A d \in Int : d # 0 => orElse(v, d) \in Int /\ orElse(v, d) # 0
    /\ \A v \in Text : /\ orText(v, "dc1") \in Text /\ orText(v, "dc1") # ""
                         /\ orText(v, "consul") \in Text /\ orText(v, "consul") # ""
<1>1. \A v \in Int : /\ orElse(v, 30) \in Int /\ orElse(v, 10) \in Int /\ orElse(v, 15) \in Int
                     /\ \A d \in Int : d # 0 => orElse(v, d) \in Int /\ orElse(v, d) # 0
  BY DEF orElse
<1>2. \A v \in Text : /\ orText(v, "dc1") \in Text /\ orText(v, "dc1") # ""
                        /\ orText(v, "consul") \in Text /\ orText(v, "consul") # ""
  <2>1. "dc1" \in Text /\ "dc1" # "" /\ "consul" \in Text /\ "consul" # ""
    BY ZenonT(30) DEF Text
  <2>. QED BY <2>1, ZenonT(30) DEF orText
<1>. QED BY <1>1, <1>2, ZenonT(30)

LEMMA Zone ==
    ASSUME NEW z \in Text, NEW d \in BOOLEAN
    PROVE  /\ [zone |-> z, dot |-> d] \in [zone: Text, dot: BOOLEAN]
           /\ [zone |-> z, dot |-> d].zone = z /\ [zone |-> z, dot |-> d].dot = d
BY ZenonT(30)

LEMMA FilledListener ==
    ASSUME NEW s, NEW l
    PROVE  /\ defaultListener(s, l).port = orElse(l.port, defaultPort[s])
           /\ defaultListener(s, l).address = orText(l.address, "127.0.0.1")
BY ZenonT(30) DEF defaultListener

(* Parse fills in what is missing, and keeps the rest.                     *)
LEMMA ParsedFields ==
    ASSUME NEW f \in Document
    PROVE  /\ Parse(f).role = orText(f.role, "agent")
           /\ Parse(f).nodeName = f.nodeName /\ Parse(f).dataDir = f.dataDir
           /\ Parse(f).datacenter = orText(f.datacenter, "dc1")
           /\ Parse(f).cluster = f.cluster /\ Parse(f).seeds = f.seeds
           /\ Parse(f).discovery = defaultDiscovery(f.discovery)
           /\ Parse(f).ttl = orElse(f.ttl, 30) /\ Parse(f).heartbeat = orElse(f.heartbeat, 10)
           /\ Parse(f).shutdown = orElse(f.shutdown, 15)
           /\ Parse(f).maxServices = f.maxServices
           /\ \A s \in Listeners : Parse(f).listeners[s] = defaultListener(s, f.listeners[s])
           /\ Parse(f).domain = [zone |-> orText(f.domain.zone, "consul"), dot |-> TRUE]
           /\ Parse(f).altDomain = [zone |-> f.altDomain.zone, dot |-> f.altDomain.zone # ""]
           /\ Parse(f).agent = defaultAgent(f.agent)
           /\ Parse(f).tls = f.tls
           /\ Parse(f).acl.mode = orText(f.acl.mode, "disabled")
           /\ Parse(f).acl.policy = f.acl.policy /\ Parse(f).acl.tokens = f.acl.tokens
           /\ Parse(f).bootstrap = defaultBootstrap(f.bootstrap)
<1>1. /\ Parse(f).role = orText(f.role, "agent")
      /\ Parse(f).nodeName = f.nodeName /\ Parse(f).dataDir = f.dataDir
      /\ Parse(f).datacenter = orText(f.datacenter, "dc1")
      /\ Parse(f).cluster = f.cluster /\ Parse(f).seeds = f.seeds
  BY DEF Parse, applyDefaults, Document
<1>2. /\ Parse(f).ttl = orElse(f.ttl, 30) /\ Parse(f).heartbeat = orElse(f.heartbeat, 10)
      /\ Parse(f).shutdown = orElse(f.shutdown, 15)
      /\ Parse(f).maxServices = f.maxServices
  BY ZenonT(30) DEF Parse, applyDefaults, Document
<1>3. Parse(f).discovery = defaultDiscovery(f.discovery)
  BY ZenonT(30) DEF Parse, applyDefaults, Document
<1>4. \A s \in Listeners : Parse(f).listeners[s] = defaultListener(s, f.listeners[s])
  BY ZenonT(30) DEF Parse, applyDefaults, Document
<1>5. /\ Parse(f).domain = [zone |-> orText(f.domain.zone, "consul"), dot |-> TRUE]
      /\ Parse(f).altDomain = [zone |-> f.altDomain.zone, dot |-> f.altDomain.zone # ""]
  BY ZenonT(30) DEF Parse, applyDefaults, Document
<1>6. Parse(f).agent = defaultAgent(f.agent) /\ Parse(f).tls = f.tls
  BY ZenonT(30) DEF Parse, applyDefaults, Document
<1>7. /\ Parse(f).acl.mode = orText(f.acl.mode, "disabled")
      /\ Parse(f).acl.policy = f.acl.policy /\ Parse(f).acl.tokens = f.acl.tokens
  BY DEF Parse, applyDefaults, Document
<1>8. Parse(f).bootstrap = defaultBootstrap(f.bootstrap)
  BY ZenonT(30) DEF Parse, applyDefaults, Document
<1>. QED BY <1>1, <1>2, <1>3, <1>4, <1>5, <1>6, <1>7, <1>8, ZenonT(30)

(* The fields of what is rendered from c.                                  *)
RenderedFrom(r, c, role, seeds) ==
    /\ r.role = role /\ r.datacenter = c.datacenter /\ r.cluster = c.cluster
    /\ r.nodeName = "" /\ r.dataDir = "" /\ r.seeds = seeds
    /\ r.discovery = NoDiscovery
    /\ r.ttl = c.ttl /\ r.heartbeat = c.heartbeat /\ r.shutdown = c.shutdown
    /\ r.maxServices = IF role = "seed" THEN c.maxServices ELSE 0
    /\ r.listeners = [s \in Listeners |->
                        rListener(s, c.listeners[s].port)]
    /\ r.domain = c.domain /\ r.altDomain = c.altDomain
    /\ r.agent = IF role = "agent" THEN c.agent ELSE Blank.agent
    /\ r.tls = rTLS(c.tls) /\ r.acl = rACL(c.acl)
    /\ r.bootstrap = Blank.bootstrap /\ r.maxHops = 0 /\ r.syncInterval = 0

LEMMA RenderedFields ==
    ASSUME NEW c, NEW role, NEW seeds
    PROVE  RenderedFrom(Render(c, role, seeds), c, role, seeds)
<1>. DEFINE r == Render(c, role, seeds)
<1>1. /\ r.role = role /\ r.datacenter = c.datacenter /\ r.cluster = c.cluster
      /\ r.nodeName = "" /\ r.dataDir = "" /\ r.seeds = seeds
  BY DEF Render, Blank
<1>2. /\ r.discovery = NoDiscovery
      /\ r.ttl = c.ttl /\ r.heartbeat = c.heartbeat /\ r.shutdown = c.shutdown
      /\ r.maxServices = IF role = "seed" THEN c.maxServices ELSE 0
  BY DEF Render, Blank
<1>3. r.listeners = [s \in Listeners |->
                        rListener(s, c.listeners[s].port)]
  BY ZenonT(30) DEF Render, Blank
<1>4. /\ r.domain = c.domain /\ r.altDomain = c.altDomain
      /\ r.agent = IF role = "agent" THEN c.agent ELSE Blank.agent
  BY DEF Render, Blank
<1>5. r.tls = rTLS(c.tls) /\ r.acl = rACL(c.acl)
  BY ZenonT(30) DEF Render, Blank
<1>6. r.bootstrap = Blank.bootstrap /\ r.maxHops = 0 /\ r.syncInterval = 0
  BY ZenonT(30) DEF Render, Blank
<1>. QED BY <1>1, <1>2, <1>3, <1>4, <1>5, <1>6, ZenonT(30) DEF RenderedFrom

Names == {"role", "nodeName", "dataDir", "datacenter", "cluster", "seeds", "discovery",
          "ttl", "heartbeat", "shutdown", "maxServices", "listeners", "domain",
          "altDomain", "agent", "tls", "acl", "bootstrap", "maxHops", "syncInterval"}

(* A document is made of its fields.                                       *)
LEMMA MadeOfFields ==
    ASSUME NEW d, DOMAIN d = Names, d = [x \in Names |-> d[x]],
           d.role \in Text, d.nodeName \in Text, d.dataDir \in Text,
           d.datacenter \in Text, d.cluster \in Text, d.seeds \in SUBSET Text,
           d.discovery \in [name: Text, interval: Int],
           d.ttl \in Int, d.heartbeat \in Int, d.shutdown \in Int, d.maxServices \in Int,
           d.listeners \in [Listeners -> [enabled: BOOLEAN, address: Text, port: Int]],
           d.domain \in [zone: Text, dot: BOOLEAN],
           d.altDomain \in [zone: Text, dot: BOOLEAN],
           d.agent \in [seedTimeout: Int, writeQuorum: Int, readyMinSeeds: Int,
                        drainWindow: Int, cacheMaxAge: Int],
           d.tls \in [enabled: BOOLEAN, mutual: BOOLEAN, cert: Text, key: Text, ca: Text],
           d.acl \in [mode: Text, policy: Text, tokens: Text],
           d.bootstrap \in [enabled: BOOLEAN, key: Text, tokenTTL: Int, rateLimit: Int,
                            allowSeedJoin: BOOLEAN, advertise: SUBSET Text],
           d.maxHops \in Int, d.syncInterval \in Int
    PROVE  d \in Document
BY ZenonT(30) DEF Document, Names

LEMMA Updated ==
    ASSUME NEW f, NEW x, NEW v
    PROVE  [f EXCEPT ![x] = v] = [y \in DOMAIN [f EXCEPT ![x] = v] |-> [f EXCEPT ![x] = v][y]]
BY ZenonT(30)

LEMMA RenderedShape ==
    ASSUME NEW c, NEW role, NEW seeds
    PROVE  /\ DOMAIN Render(c, role, seeds) = Names
           /\ Render(c, role, seeds) = [x \in Names |-> Render(c, role, seeds)[x]]
<1>1. DOMAIN Render(c, role, seeds) = Names
  BY ZenonT(30) DEF Render, Blank, Names
<1>2. \E f, x, v : Render(c, role, seeds) = [f EXCEPT ![x] = v]
  BY ZenonT(30) DEF Render
<1>3. PICK f, x, v : Render(c, role, seeds) = [f EXCEPT ![x] = v]
  BY <1>2, ZenonT(30)
<1>. QED BY <1>1, <1>3, Updated, ZenonT(30)

AgentFields ==
    [seedTimeout: Int, writeQuorum: Int, readyMinSeeds: Int, drainWindow: Int,
     cacheMaxAge: Int]

(* What a configuration that was accepted is like.                         *)
WellFormed(c) ==
    /\ c.datacenter \in Text /\ c.datacenter # ""
    /\ c.cluster \in Text /\ c.cluster # "" /\ c.seeds \in SUBSET Text
    /\ c.ttl \in Int /\ c.heartbeat \in Int /\ c.shutdown \in Int /\ c.maxServices \in Int
    /\ c.ttl > 0 /\ c.heartbeat > 0 /\ c.heartbeat < c.ttl /\ c.shutdown > 0
    /\ \A s \in Listeners : c.listeners[s].port \in Int /\ c.listeners[s].port # 0
    /\ c.domain \in [zone: Text, dot: BOOLEAN] /\ c.domain.zone # "" /\ c.domain.dot
    /\ c.altDomain \in [zone: Text, dot: BOOLEAN]
    /\ c.altDomain.dot = (c.altDomain.zone # "")
    /\ c.agent \in AgentFields /\ defaultAgent(c.agent) = c.agent /\ validateAgent(c.agent)
    /\ c.tls.enabled \in BOOLEAN /\ c.tls.mutual \in BOOLEAN
    /\ c.tls.mutual => c.tls.enabled
    /\ c.acl.mode \in {"disabled", "allow", "enforce"}
    /\ c.bootstrap.advertise \in SUBSET Text
    /\ c.bootstrap.enabled => c.bootstrap.advertise # {} \/ c.seeds # {}

LEMMA ParsedTypes ==
    ASSUME NEW f \in Document, Accepted(f)
    PROVE  WellFormed(Parse(f))
<1>. DEFINE c == Parse(f)
<1>1. /\ f.datacenter \in Text /\ f.cluster \in Text /\ f.seeds \in SUBSET Text
      /\ f.ttl \in Int /\ f.heartbeat \in Int /\ f.shutdown \in Int /\ f.maxServices \in Int
      /\ \A s \in Listeners : f.listeners[s].port \in Int
      /\ f.domain.zone \in Text /\ f.altDomain.zone \in Text
      /\ f.tls.enabled \in BOOLEAN /\ f.tls.mutual \in BOOLEAN /\ f.acl.mode \in Text
      /\ f.bootstrap.advertise \in SUBSET Text
  BY ZenonT(30) DEF Document
<1>2. /\ c.cluster # "" /\ c.ttl > 0 /\ c.heartbeat > 0 /\ c.heartbeat < c.ttl /\ c.shutdown > 0
      /\ validateAgent(c.agent) /\ (c.tls.mutual => c.tls.enabled)
      /\ c.acl.mode \in {"", "disabled", "allow", "enforce"}
      /\ c.bootstrap.enabled => c.bootstrap.advertise # {} \/ c.seeds # {}
  BY ZenonT(30) DEF Accepted, Validate, validateTLS, validateACL, validateBootstrap
<1>3. /\ c.datacenter \in Text /\ c.datacenter # "" /\ c.cluster \in Text
      /\ c.seeds \in SUBSET Text
      /\ c.ttl \in Int /\ c.heartbeat \in Int /\ c.shutdown \in Int /\ c.maxServices \in Int
  <2>1. /\ c.datacenter = orText(f.datacenter, "dc1") /\ c.cluster = f.cluster
        /\ c.seeds = f.seeds /\ c.ttl = orElse(f.ttl, 30) /\ c.maxServices = f.maxServices
        /\ c.heartbeat = orElse(f.heartbeat, 10) /\ c.shutdown = orElse(f.shutdown, 15)
    BY ParsedFields, ZenonT(30)
  <2>2. orText(f.datacenter, "dc1") \in Text /\ orText(f.datacenter, "dc1") # ""
    BY <1>1, Filled, ZenonT(30)
  <2>3. /\ orElse(f.ttl, 30) \in Int /\ orElse(f.heartbeat, 10) \in Int
        /\ orElse(f.shutdown, 15) \in Int
    BY <1>1, Filled, ZenonT(30)
  <2>. HIDE DEF c
  <2>. QED BY <1>1, <2>1, <2>2, <2>3, ZenonT(30)
<1>4. \A s \in Listeners : c.listeners[s].port \in Int /\ c.listeners[s].port # 0
  <2>1. \A s \in Listeners : defaultPort[s] \in Int /\ defaultPort[s] # 0
    BY DEF defaultPort, Listeners
  <2>2. \A s \in Listeners : c.listeners[s].port = orElse(f.listeners[s].port, defaultPort[s])
    <3>1. \A s \in Listeners : c.listeners[s] = defaultListener(s, f.listeners[s])
      BY ParsedFields, ZenonT(30)
    <3>. HIDE DEF c
    <3>. QED BY <3>1, FilledListener, ZenonT(30)
  <2>. HIDE DEF c
  <2>3. ASSUME NEW s \in Listeners
        PROVE  /\ orElse(f.listeners[s].port, defaultPort[s]) \in Int
               /\ orElse(f.listeners[s].port, defaultPort[s]) # 0
    BY <1>1, <2>1, Filled, ZenonT(30)
  <2>. QED BY <2>2, <2>3, ZenonT(30)
<1>5. /\ c.domain \in [zone: Text, dot: BOOLEAN] /\ c.domain.zone # "" /\ c.domain.dot
      /\ c.altDomain \in [zone: Text, dot: BOOLEAN]
      /\ c.altDomain.dot = (c.altDomain.zone # "")
  <2>1. /\ c.domain = [zone |-> orText(f.domain.zone, "consul"), dot |-> TRUE]
        /\ c.altDomain = [zone |-> f.altDomain.zone, dot |-> f.altDomain.zone # ""]
    BY ParsedFields, ZenonT(30)
  <2>. DEFINE z == orText(f.domain.zone, "consul")
              y == f.altDomain.zone
              d == f.altDomain.zone # ""
  <2>2. z \in Text /\ z # "" /\ y \in Text /\ d \in BOOLEAN /\ d = (y # "")
    BY <1>1, Filled, ZenonT(30)
  <2>. HIDE DEF c, d, y, z
  <2>3. c.domain = [zone |-> z, dot |-> TRUE] /\ c.altDomain = [zone |-> y, dot |-> d]
    BY <2>1, ZenonT(30) DEF d, y, z
  <2>4. c.domain \in [zone: Text, dot: BOOLEAN] /\ c.domain.zone = z /\ c.domain.dot
    <3>1. /\ [zone |-> z, dot |-> TRUE] \in [zone: Text, dot: BOOLEAN]
          /\ [zone |-> z, dot |-> TRUE].zone = z /\ [zone |-> z, dot |-> TRUE].dot
      BY <2>2, ZenonT(30)
    <3>. QED BY <2>3, <3>1, ZenonT(30)
  <2>5. c.altDomain \in [zone: Text, dot: BOOLEAN] /\ c.altDomain.zone = y /\ c.altDomain.dot = d
    <3>1. /\ [zone |-> y, dot |-> d] \in [zone: Text, dot: BOOLEAN]
          /\ [zone |-> y, dot |-> d].zone = y /\ [zone |-> y, dot |-> d].dot = d
      BY <2>2, Zone, ZenonT(30)
    <3>. QED BY <2>3, <3>1, ZenonT(30)
  <2>. QED BY <2>2, <2>4, <2>5, ZenonT(30)
<1>6. c.agent \in AgentFields /\ defaultAgent(c.agent) = c.agent
  <2>. DEFINE a == f.agent
  <2>1. c.agent = defaultAgent(a)
    BY ParsedFields, ZenonT(30)
  <2>2. a \in AgentFields
    BY ZenonT(30) DEF Document, AgentFields
  <2>. HIDE DEF a
  <2>3. defaultAgent(a) \in AgentFields
    BY <2>2 DEF defaultAgent, orElse, AgentFields
  <2>4. defaultAgent(defaultAgent(a)) = defaultAgent(a)
    BY <2>2, ZenonT(30) DEF defaultAgent, orElse, AgentFields
  <2>. QED BY <2>1, <2>3, <2>4, ZenonT(30)
<1>7. /\ c.tls.enabled \in BOOLEAN /\ c.tls.mutual \in BOOLEAN
      /\ c.acl.mode # "" /\ c.bootstrap.advertise \in SUBSET Text
  <2>1. c.acl.mode # ""
    BY <1>1, ParsedFields, ZenonT(30) DEF orText
  <2>2. c.bootstrap.advertise = f.bootstrap.advertise
    BY ParsedFields, ZenonT(30) DEF defaultBootstrap, Document
  <2>. QED BY <1>1, <2>1, <2>2, ParsedFields, ZenonT(30)
<1>. HIDE DEF c
<1>8. WellFormed(c)
  <2>1. c.acl.mode \in {"disabled", "allow", "enforce"}
    BY <1>2, <1>7, ZenonT(30)
  <2>. QED BY <1>2, <1>3, <1>4, <1>5, <1>6, <1>7, <2>1, ZenonT(30) DEF WellFormed
<1>. QED BY <1>8, ZenonT(30) DEF c

(* The texts and records a rendered document is made of.                   *)
LEMMA Literals ==
    /\ "" \in Text /\ "127.0.0.1" \in Text /\ Roles \subseteq Text /\ 0 \in Int
    /\ {"c", "k", "a", "t"} \subseteq Text
    /\ NoDiscovery \in [name: Text, interval: Int]
    /\ Blank.agent \in AgentFields
    /\ Blank.bootstrap \in [enabled: BOOLEAN, key: Text, tokenTTL: Int, rateLimit: Int,
                            allowSeedJoin: BOOLEAN, advertise: SUBSET Text]
<1>1. "" \in Text /\ "127.0.0.1" \in Text /\ Roles \subseteq Text /\ 0 \in Int
  BY DEF Text, Roles
<1>5. {"c", "k", "a", "t"} \subseteq Text
  BY ZenonT(30) DEF Text
<1>2. NoDiscovery \in [name: Text, interval: Int]
  BY DEF NoDiscovery, Text
<1>3. Blank.agent \in AgentFields
  BY DEF Blank, AgentFields
<1>4. Blank.bootstrap \in [enabled: BOOLEAN, key: Text, tokenTTL: Int, rateLimit: Int,
                           allowSeedJoin: BOOLEAN, advertise: SUBSET Text]
  BY DEF Blank, Text
<1>. QED BY <1>1, <1>2, <1>3, <1>4, <1>5, ZenonT(30)

LEMMA RenderedListener ==
    ASSUME NEW s, NEW n \in Int
    PROVE  /\ rListener(s, n)
                \in [enabled: BOOLEAN, address: Text, port: Int]
           /\ rListener(s, n).address = "127.0.0.1"
           /\ rListener(s, n).port = n
<1>1. /\ rListener(s, n).address = "127.0.0.1"
      /\ rListener(s, n).port = n
  BY ZenonT(30) DEF rListener
<1>2. rListener(s, n) \in [enabled: BOOLEAN, address: Text, port: Int]
  <2>. DEFINE e == s \in {"consul_http", "dns"}
  <2>1. "127.0.0.1" \in Text
    BY Literals, ZenonT(30)
  <2>3. e \in BOOLEAN
    OBVIOUS
  <2>2. rListener(s, n) = [enabled |-> e, address |-> "127.0.0.1", port |-> n]
    BY ZenonT(30) DEF rListener
  <2>. HIDE DEF e
  <2>. QED BY <2>1, <2>2, <2>3
<1>. QED BY <1>1, <1>2, ZenonT(30)

LEMMA RenderedTLS ==
    ASSUME NEW c, WellFormed(c)
    PROVE  rTLS(c.tls) \in [enabled: BOOLEAN, mutual: BOOLEAN, cert: Text, key: Text, ca: Text]
<1>1. c.tls.enabled \in BOOLEAN /\ c.tls.mutual \in BOOLEAN
  BY ZenonT(30) DEF WellFormed
<1>2. (c.tls.enabled /\ c.tls.mutual) \in BOOLEAN
  BY <1>1, ZenonT(30)
<1>. QED BY <1>1, <1>2, Literals, ZenonT(30) DEF rTLS

LEMMA RenderedACL ==
    ASSUME NEW c, WellFormed(c)
    PROVE  rACL(c.acl) \in [mode: Text, policy: Text, tokens: Text]
<1>1. c.acl.mode \in {"disabled", "allow", "enforce"}
  BY ZenonT(30) DEF WellFormed
<1>2. (IF c.acl.mode = "disabled" THEN "" ELSE c.acl.mode) \in Text
  BY <1>1, ZenonT(30) DEF Text
<1>. QED BY <1>2, Literals, ZenonT(30) DEF rACL

(* What a seed renders is a document.                                      *)
LEMMA RenderedTyped ==
    ASSUME NEW c, WellFormed(c), NEW role \in Roles, NEW seeds \in SUBSET Text
    PROVE  Render(c, role, seeds) \in Document
<1>. DEFINE r == Render(c, role, seeds)
<1>1. RenderedFrom(r, c, role, seeds)
  BY RenderedFields, ZenonT(30)
<1>2. DOMAIN r = Names /\ r = [x \in Names |-> r[x]]
  BY RenderedShape, ZenonT(30)
<1>. HIDE DEF r
<1>3. /\ r.role \in Text /\ r.nodeName \in Text /\ r.dataDir \in Text
      /\ r.datacenter \in Text /\ r.cluster \in Text /\ r.seeds \in SUBSET Text
      /\ r.discovery \in [name: Text, interval: Int]
  BY <1>1, Literals, ZenonT(30) DEF RenderedFrom, WellFormed
<1>4. /\ r.ttl \in Int /\ r.heartbeat \in Int /\ r.shutdown \in Int
      /\ r.maxServices \in Int /\ r.maxHops \in Int /\ r.syncInterval \in Int
  BY <1>1, Literals, ZenonT(30) DEF RenderedFrom, WellFormed
<1>5. r.listeners \in [Listeners -> [enabled: BOOLEAN, address: Text, port: Int]]
  <2>1. ASSUME NEW s \in Listeners
        PROVE  rListener(s, c.listeners[s].port)
                 \in [enabled: BOOLEAN, address: Text, port: Int]
    <3>1. c.listeners[s].port \in Int
      BY ZenonT(30) DEF WellFormed
    <3>. QED BY <3>1, RenderedListener, ZenonT(30)
  <2>2. r.listeners = [s \in Listeners |->
                         rListener(s, c.listeners[s].port)]
    BY <1>1, ZenonT(30) DEF RenderedFrom
  <2>. QED BY <2>1, <2>2, ZenonT(30)
<1>6. /\ r.domain \in [zone: Text, dot: BOOLEAN] /\ r.altDomain \in [zone: Text, dot: BOOLEAN]
      /\ r.agent \in AgentFields
  BY <1>1, Literals, ZenonT(30) DEF RenderedFrom, WellFormed
<1>7. /\ r.tls \in [enabled: BOOLEAN, mutual: BOOLEAN, cert: Text, key: Text, ca: Text]
      /\ r.acl \in [mode: Text, policy: Text, tokens: Text]
      /\ r.bootstrap \in [enabled: BOOLEAN, key: Text, tokenTTL: Int, rateLimit: Int,
                          allowSeedJoin: BOOLEAN, advertise: SUBSET Text]
  <2>1. r.tls = rTLS(c.tls) /\ r.acl = rACL(c.acl) /\ r.bootstrap = Blank.bootstrap
    BY <1>1, ZenonT(30) DEF RenderedFrom
  <2>2. rTLS(c.tls) \in [enabled: BOOLEAN, mutual: BOOLEAN, cert: Text, key: Text, ca: Text]
    BY RenderedTLS, ZenonT(30)
  <2>3. rACL(c.acl) \in [mode: Text, policy: Text, tokens: Text]
    BY RenderedACL, ZenonT(30)
  <2>. QED BY <2>1, <2>2, <2>3, Literals, ZenonT(30)
<1>8. r \in Document
  BY <1>2, <1>3, <1>4, <1>5, <1>6, <1>7, MadeOfFields, ZenonT(30) DEF AgentFields
<1>. QED BY <1>8, ZenonT(30) DEF r

(* What the operator's additions change in a document, and keep.           *)
CompletedFrom(p, d, own) ==
    /\ p.role = d.role /\ p.datacenter = d.datacenter /\ p.cluster = d.cluster
    /\ p.seeds = d.seeds /\ p.discovery = d.discovery
    /\ p.ttl = d.ttl /\ p.heartbeat = d.heartbeat /\ p.shutdown = d.shutdown
    /\ p.maxServices = d.maxServices /\ p.listeners = d.listeners
    /\ p.domain = d.domain /\ p.altDomain = d.altDomain /\ p.agent = d.agent
    /\ p.bootstrap = d.bootstrap /\ p.maxHops = d.maxHops /\ p.syncInterval = d.syncInterval
    /\ p.nodeName = own.nodeName /\ p.dataDir = own.dataDir
    /\ p.tls = [enabled |-> d.tls.enabled, mutual |-> d.tls.mutual,
                cert |-> "c", key |-> "k", ca |-> "a"]
    /\ p.acl = [mode |-> d.acl.mode, policy |-> d.acl.policy, tokens |-> "t"]

LEMMA CompletedFields ==
    ASSUME NEW own, NEW d \in Document
    PROVE  CompletedFrom(provisioned(d, own), d, own)
<1>. DEFINE p == provisioned(d, own)
<1>1. /\ p.role = d.role /\ p.datacenter = d.datacenter /\ p.cluster = d.cluster
      /\ p.seeds = d.seeds /\ p.discovery = d.discovery
      /\ p.ttl = d.ttl /\ p.heartbeat = d.heartbeat /\ p.shutdown = d.shutdown
      /\ p.maxServices = d.maxServices /\ p.listeners = d.listeners
  BY ZenonT(30) DEF provisioned, Document
<1>2. /\ p.domain = d.domain /\ p.altDomain = d.altDomain /\ p.agent = d.agent
      /\ p.bootstrap = d.bootstrap /\ p.maxHops = d.maxHops /\ p.syncInterval = d.syncInterval
      /\ p.nodeName = own.nodeName /\ p.dataDir = own.dataDir
  BY ZenonT(30) DEF provisioned, Document
<1>3. p.tls = [enabled |-> d.tls.enabled, mutual |-> d.tls.mutual,
               cert |-> "c", key |-> "k", ca |-> "a"]
  BY ZenonT(30) DEF provisioned, Document
<1>4. p.acl = [mode |-> d.acl.mode, policy |-> d.acl.policy, tokens |-> "t"]
  BY ZenonT(30) DEF provisioned, Document
<1>. QED BY <1>1, <1>2, <1>3, <1>4, ZenonT(30) DEF CompletedFrom

Added(c, l) ==
    \/ c.nodeName = "" /\ c.dataDir = ""
    \/ c.nodeName = l.nodeName /\ c.dataDir = l.dataDir

LEMMA CompletedShape ==
    ASSUME NEW own, NEW d \in Document
    PROVE  /\ DOMAIN provisioned(d, own) = Names
           /\ provisioned(d, own) = [x \in Names |-> provisioned(d, own)[x]]
<1>1. DOMAIN provisioned(d, own) = DOMAIN d
  BY ZenonT(30) DEF provisioned
<1>2. DOMAIN d = Names
  BY ZenonT(30) DEF Document, Names
<1>3. \E f, x, v : provisioned(d, own) = [f EXCEPT ![x] = v]
  BY ZenonT(30) DEF provisioned
<1>4. PICK f, x, v : provisioned(d, own) = [f EXCEPT ![x] = v]
  BY <1>3, ZenonT(30)
<1>. QED BY <1>1, <1>2, <1>4, Updated, ZenonT(30)

LEMMA CompletedTyped ==
    ASSUME NEW own, NEW d \in Document, own.nodeName \in Text, own.dataDir \in Text
    PROVE  provisioned(d, own) \in Document
<1>. DEFINE p == provisioned(d, own)
<1>1. CompletedFrom(p, d, own)
  BY CompletedFields, ZenonT(30)
<1>2. DOMAIN p = Names /\ p = [x \in Names |-> p[x]]
  BY CompletedShape, ZenonT(30)
<1>. HIDE DEF p
<1>3. /\ p.role \in Text /\ p.nodeName \in Text /\ p.dataDir \in Text
      /\ p.datacenter \in Text /\ p.cluster \in Text /\ p.seeds \in SUBSET Text
      /\ p.discovery \in [name: Text, interval: Int]
      /\ p.ttl \in Int /\ p.heartbeat \in Int /\ p.shutdown \in Int
      /\ p.maxServices \in Int /\ p.maxHops \in Int /\ p.syncInterval \in Int
  <2>1. /\ d.role \in Text /\ d.datacenter \in Text /\ d.cluster \in Text
        /\ d.seeds \in SUBSET Text /\ d.discovery \in [name: Text, interval: Int]
        /\ d.ttl \in Int /\ d.heartbeat \in Int /\ d.shutdown \in Int
        /\ d.maxServices \in Int /\ d.maxHops \in Int /\ d.syncInterval \in Int
    BY ZenonT(30) DEF Document
  <2>. QED BY <1>1, <2>1, ZenonT(30) DEF CompletedFrom
<1>4. /\ p.listeners \in [Listeners -> [enabled: BOOLEAN, address: Text, port: Int]]
      /\ p.domain \in [zone: Text, dot: BOOLEAN] /\ p.altDomain \in [zone: Text, dot: BOOLEAN]
      /\ p.agent \in AgentFields
      /\ p.bootstrap \in [enabled: BOOLEAN, key: Text, tokenTTL: Int, rateLimit: Int,
                          allowSeedJoin: BOOLEAN, advertise: SUBSET Text]
  <2>1. /\ d.listeners \in [Listeners -> [enabled: BOOLEAN, address: Text, port: Int]]
        /\ d.domain \in [zone: Text, dot: BOOLEAN] /\ d.altDomain \in [zone: Text, dot: BOOLEAN]
        /\ d.agent \in AgentFields
        /\ d.bootstrap \in [enabled: BOOLEAN, key: Text, tokenTTL: Int, rateLimit: Int,
                            allowSeedJoin: BOOLEAN, advertise: SUBSET Text]
    BY ZenonT(30) DEF Document, AgentFields
  <2>. QED BY <1>1, <2>1, ZenonT(30) DEF CompletedFrom
<1>5. /\ p.tls \in [enabled: BOOLEAN, mutual: BOOLEAN, cert: Text, key: Text, ca: Text]
      /\ p.acl \in [mode: Text, policy: Text, tokens: Text]
  <2>1. /\ d.tls.enabled \in BOOLEAN /\ d.tls.mutual \in BOOLEAN
        /\ d.acl.mode \in Text /\ d.acl.policy \in Text
    BY ZenonT(30) DEF Document
  <2>2. [enabled |-> d.tls.enabled, mutual |-> d.tls.mutual, cert |-> "c", key |-> "k", ca |-> "a"]
          \in [enabled: BOOLEAN, mutual: BOOLEAN, cert: Text, key: Text, ca: Text]
    BY <2>1, Literals, ZenonT(30)
  <2>3. [mode |-> d.acl.mode, policy |-> d.acl.policy, tokens |-> "t"]
          \in [mode: Text, policy: Text, tokens: Text]
    BY <2>1, Literals, ZenonT(30)
  <2>. QED BY <1>1, <2>2, <2>3, ZenonT(30) DEF CompletedFrom
<1>6. p \in Document
  BY <1>2, <1>3, <1>4, <1>5, MadeOfFields, ZenonT(30) DEF AgentFields
<1>. QED BY <1>6, ZenonT(30) DEF p

(* A file that was rendered from c, completed or not.                      *)
Joined(d, c, l) ==
    /\ d \in Document /\ Added(d, l) /\ d.role \in Roles
    /\ d.datacenter = c.datacenter /\ d.cluster = c.cluster
    /\ d.seeds # {} /\ d.discovery = NoDiscovery
    /\ d.ttl = c.ttl /\ d.heartbeat = c.heartbeat /\ d.shutdown = c.shutdown
    /\ d.role = "seed" => d.maxServices = c.maxServices
    /\ \A s \in Listeners : /\ d.listeners[s].address = "127.0.0.1"
                            /\ d.listeners[s].port = c.listeners[s].port
    /\ d.domain = c.domain /\ d.altDomain = c.altDomain
    /\ d.agent = IF d.role = "agent" THEN c.agent ELSE Blank.agent
    /\ d.tls.enabled = c.tls.enabled /\ d.tls.mutual = c.tls.mutual
    /\ d.acl.mode = IF c.acl.mode = "disabled" THEN "" ELSE c.acl.mode
    /\ d.acl.policy = "" /\ d.bootstrap = Blank.bootstrap

LEMMA RenderedJoins ==
    ASSUME NEW own, NEW c, WellFormed(c), NEW role \in Roles, NEW seeds \in SUBSET Text, seeds # {}
    PROVE  Joined(Render(c, role, seeds), c, own)
<1>. DEFINE r == Render(c, role, seeds)
<1>1. RenderedFrom(r, c, role, seeds) /\ r \in Document
  BY RenderedFields, RenderedTyped, ZenonT(30)
<1>. HIDE DEF r
<1>2. \A s \in Listeners : /\ r.listeners[s].address = "127.0.0.1"
                           /\ r.listeners[s].port = c.listeners[s].port
  <2>1. ASSUME NEW s \in Listeners
        PROVE  /\ r.listeners[s].address = "127.0.0.1"
               /\ r.listeners[s].port = c.listeners[s].port
    <3>1. r.listeners[s] = rListener(s, c.listeners[s].port)
      BY <1>1, ZenonT(30) DEF RenderedFrom
    <3>2. c.listeners[s].port \in Int
      BY ZenonT(30) DEF WellFormed
    <3>. QED BY <3>1, <3>2, RenderedListener
  <2>. QED BY <2>1, ZenonT(30)
<1>3. r.tls.enabled = c.tls.enabled /\ r.tls.mutual = c.tls.mutual
  <2>. DEFINE e == c.tls.enabled /\ c.tls.mutual
  <2>1. rTLS(c.tls).enabled = c.tls.enabled /\ rTLS(c.tls).mutual = e
    BY ZenonT(30) DEF rTLS
  <2>2. e = c.tls.mutual
    <3>1. /\ c.tls.enabled \in BOOLEAN /\ c.tls.mutual \in BOOLEAN
          /\ c.tls.mutual => c.tls.enabled
      BY ZenonT(30) DEF WellFormed
    <3>. QED BY <3>1, ZenonT(30)
  <2>3. r.tls = rTLS(c.tls)
    BY <1>1, ZenonT(30) DEF RenderedFrom
  <2>. HIDE DEF e
  <2>. QED BY <2>1, <2>2, <2>3, ZenonT(30)
<1>4. /\ r.acl.mode = IF c.acl.mode = "disabled" THEN "" ELSE c.acl.mode
      /\ r.acl.policy = ""
  <2>1. rACL(c.acl).mode = (IF c.acl.mode = "disabled" THEN "" ELSE c.acl.mode)
        /\ rACL(c.acl).policy = ""
    BY ZenonT(30) DEF rACL
  <2>. QED BY <1>1, <2>1, ZenonT(30) DEF RenderedFrom
<1>5. Joined(r, c, own)
  BY <1>1, <1>2, <1>3, <1>4, ZenonT(30) DEF Joined, RenderedFrom, Added
<1>. QED BY <1>5, ZenonT(30) DEF r

LEMMA CompletedJoins ==
    ASSUME NEW own, NEW c, NEW d, Joined(d, c, own), own.nodeName \in Text, own.dataDir \in Text
    PROVE  Joined(provisioned(d, own), c, own)
<1>. DEFINE p == provisioned(d, own)
<1>1. CompletedFrom(p, d, own) /\ p \in Document
  BY CompletedFields, CompletedTyped, ZenonT(30) DEF Joined
<1>. HIDE DEF p
<1>2. /\ p.tls.enabled = d.tls.enabled /\ p.tls.mutual = d.tls.mutual
      /\ p.acl.mode = d.acl.mode /\ p.acl.policy = d.acl.policy
  BY <1>1 DEF CompletedFrom
<1>3. Joined(p, c, own)
  BY <1>1, <1>2, ZenonT(30) DEF Joined, CompletedFrom, Added
<1>. QED BY <1>3, ZenonT(30) DEF p

(* Defaults leave alone what is set.                                       *)
LEMMA SetStays ==
    /\ \A v, d : v # 0 => orElse(v, d) = v
    /\ \A v, d : v # "" => orText(v, d) = v
BY ZenonT(30) DEF orElse, orText

(* A node that runs with m has the settings of c.                          *)
RunsLike(m, c) ==
    /\ m.cluster = c.cluster /\ m.datacenter = c.datacenter
    /\ m.ttl = c.ttl /\ m.heartbeat = c.heartbeat /\ m.shutdown = c.shutdown
    /\ m.domain = c.domain /\ m.altDomain = c.altDomain
    /\ m.tls.enabled = c.tls.enabled /\ m.tls.mutual = c.tls.mutual
    /\ m.acl.mode = c.acl.mode
    /\ \A s \in Listeners : m.listeners[s].port = c.listeners[s].port
    /\ m.role = "agent" => m.agent = c.agent
    /\ m.role = "seed" => m.maxServices = c.maxServices

LEMMA JoinedRuns ==
    ASSUME NEW own, NEW c, NEW d, WellFormed(c), Joined(d, c, own)
    PROVE  RunsLike(Parse(d), c)
<1>. DEFINE m == Parse(d)
<1>1. d \in Document
  BY ZenonT(30) DEF Joined
<1>2. /\ m.role = orText(d.role, "agent") /\ m.datacenter = orText(d.datacenter, "dc1")
      /\ m.cluster = d.cluster /\ m.maxServices = d.maxServices
      /\ m.ttl = orElse(d.ttl, 30) /\ m.heartbeat = orElse(d.heartbeat, 10)
      /\ m.shutdown = orElse(d.shutdown, 15)
  BY <1>1, ParsedFields, ZenonT(30)
<1>3. /\ \A s \in Listeners : m.listeners[s] = defaultListener(s, d.listeners[s])
      /\ m.domain = [zone |-> orText(d.domain.zone, "consul"), dot |-> TRUE]
      /\ m.altDomain = [zone |-> d.altDomain.zone, dot |-> d.altDomain.zone # ""]
      /\ m.agent = defaultAgent(d.agent) /\ m.tls = d.tls
      /\ m.acl.mode = orText(d.acl.mode, "disabled")
  BY <1>1, ParsedFields, ZenonT(30)
<1>. HIDE DEF m
<1>4. m.role = d.role
  BY <1>2, SetStays, ZenonT(30) DEF Joined, Roles
<1>5. m.cluster = c.cluster /\ m.datacenter = c.datacenter
  <2>1. d.datacenter = c.datacenter /\ d.cluster = c.cluster /\ c.datacenter # ""
    BY ZenonT(30) DEF Joined, WellFormed
  <2>. QED BY <1>2, <2>1, SetStays, ZenonT(30)
<1>6. m.ttl = c.ttl /\ m.heartbeat = c.heartbeat /\ m.shutdown = c.shutdown
  <2>1. c.ttl # 0 /\ c.heartbeat # 0 /\ c.shutdown # 0
    <3>1. /\ c.ttl \in Int /\ c.heartbeat \in Int /\ c.shutdown \in Int
          /\ c.ttl > 0 /\ c.heartbeat > 0 /\ c.shutdown > 0
      BY ZenonT(30) DEF WellFormed
    <3>. QED BY <3>1
  <2>2. d.ttl = c.ttl /\ d.heartbeat = c.heartbeat /\ d.shutdown = c.shutdown
    BY ZenonT(30) DEF Joined
  <2>. QED BY <1>2, <2>1, <2>2, SetStays, ZenonT(30)
<1>7. m.domain = c.domain /\ m.altDomain = c.altDomain
  <2>1. /\ c.domain \in [zone: Text, dot: BOOLEAN] /\ c.domain.zone # "" /\ c.domain.dot
        /\ c.altDomain \in [zone: Text, dot: BOOLEAN]
        /\ c.altDomain.dot = (c.altDomain.zone # "")
    BY ZenonT(30) DEF WellFormed
  <2>2. d.domain = c.domain /\ d.altDomain = c.altDomain
    BY ZenonT(30) DEF Joined
  <2>3. orText(c.domain.zone, "consul") = c.domain.zone
    BY <2>1, SetStays, ZenonT(30)
  <2>4. m.domain = [zone |-> c.domain.zone, dot |-> TRUE]
    BY <1>3, <2>2, <2>3, ZenonT(30)
  <2>5. m.altDomain = [zone |-> c.altDomain.zone, dot |-> c.altDomain.zone # ""]
    BY <1>3, <2>2, ZenonT(30)
  <2>6. m.domain = c.domain
    BY <2>1, <2>4, ZenonT(30)
  <2>7. m.altDomain = c.altDomain
    BY <2>1, <2>5, ZenonT(30)
  <2>. QED BY <2>6, <2>7, ZenonT(30)
<1>8. m.tls.enabled = c.tls.enabled /\ m.tls.mutual = c.tls.mutual
  BY <1>3, ZenonT(30) DEF Joined
<1>9. m.acl.mode = c.acl.mode
  <2>1. c.acl.mode \in {"disabled", "allow", "enforce"}
    BY ZenonT(30) DEF WellFormed
  <2>2. d.acl.mode = IF c.acl.mode = "disabled" THEN "" ELSE c.acl.mode
    BY ZenonT(30) DEF Joined
  <2>. QED BY <1>3, <2>1, <2>2, ZenonT(30) DEF orText
<1>10. \A s \in Listeners : m.listeners[s].port = c.listeners[s].port
  <2>1. \A s \in Listeners : c.listeners[s].port # 0 /\ d.listeners[s].port = c.listeners[s].port
    BY ZenonT(30) DEF WellFormed, Joined
  <2>2. \A s \in Listeners : m.listeners[s].port = orElse(d.listeners[s].port, defaultPort[s])
    BY <1>3, FilledListener, ZenonT(30)
  <2>. QED BY <2>1, <2>2, SetStays, ZenonT(30)
<1>11. m.role = "agent" => m.agent = c.agent
  <2>1. d.role = "agent" => d.agent = c.agent
    BY ZenonT(30) DEF Joined
  <2>2. defaultAgent(c.agent) = c.agent
    BY ZenonT(30) DEF WellFormed
  <2>. QED BY <1>3, <1>4, <2>1, <2>2, ZenonT(30)
<1>12. m.role = "seed" => m.maxServices = c.maxServices
  BY <1>2, <1>4, ZenonT(30) DEF Joined
<1>13. RunsLike(m, c)
  BY <1>5, <1>6, <1>7, <1>8, <1>9, <1>10, <1>11, <1>12, ZenonT(30) DEF RunsLike
<1>. QED BY <1>13, ZenonT(30) DEF m

LEMMA JoinedAccepted ==
    ASSUME NEW own, NEW c, NEW d, WellFormed(c), Joined(d, c, own),
           own.nodeName \in Text, own.dataDir \in Text
    PROVE  Accepted(provisioned(d, own))
<1>. DEFINE p == provisioned(d, own)
            m == Parse(p)
<1>1. Joined(p, c, own) /\ CompletedFrom(p, d, own) /\ p \in Document
  <2>1. d \in Document
    BY ZenonT(30) DEF Joined
  <2>2. Joined(p, c, own)
    BY CompletedJoins, ZenonT(30)
  <2>. QED BY <2>1, <2>2, CompletedFields, CompletedTyped, ZenonT(30)
<1>2. RunsLike(m, c)
  BY <1>1, JoinedRuns, ZenonT(30)
<1>3. /\ m.role = orText(p.role, "agent") /\ m.seeds = p.seeds
      /\ m.discovery = defaultDiscovery(p.discovery)
      /\ \A s \in Listeners : m.listeners[s] = defaultListener(s, p.listeners[s])
      /\ m.agent = defaultAgent(p.agent) /\ m.tls = p.tls
      /\ m.acl.policy = p.acl.policy /\ m.acl.tokens = p.acl.tokens
      /\ m.bootstrap = defaultBootstrap(p.bootstrap)
  BY <1>1, ParsedFields, ZenonT(30)
<1>. HIDE DEF p, m
<1>4. m.role \in Roles /\ m.seeds # {} /\ m.discovery = NoDiscovery
  <2>1. p.role \in Roles /\ p.seeds # {} /\ p.discovery = NoDiscovery
    BY <1>1, ZenonT(30) DEF Joined
  <2>2. p.role # ""
    BY <2>1, ZenonT(30) DEF Roles
  <2>3. m.role = p.role
    BY <1>3, <2>2, SetStays, ZenonT(30)
  <2>. QED BY <1>3, <2>1, <2>3, ZenonT(30) DEF defaultDiscovery
<1>5. /\ m.cluster # "" /\ m.ttl > 0 /\ m.heartbeat > 0 /\ m.heartbeat < m.ttl /\ m.shutdown > 0
  BY <1>2, ZenonT(30) DEF RunsLike, WellFormed
<1>6. \A s \in Listeners : validateListener(m.listeners[s])
  <2>1. ASSUME NEW s \in Listeners PROVE m.listeners[s].address # "" /\ m.listeners[s].port # 0
    <3>1. p.listeners[s].address = "127.0.0.1"
      BY <1>1, ZenonT(30) DEF Joined
    <3>2. m.listeners[s].address = orText(p.listeners[s].address, "127.0.0.1")
      <4>1. m.listeners[s] = defaultListener(s, p.listeners[s])
        BY <1>3, ZenonT(30)
      <4>. QED BY <4>1, FilledListener
    <3>3. m.listeners[s].address # ""
      <4>1. "127.0.0.1" # ""
        BY ZenonT(30)
      <4>. QED BY <3>1, <3>2, <4>1, SetStays, ZenonT(30)
    <3>4. m.listeners[s].port # 0
      BY <1>2, ZenonT(30) DEF RunsLike, WellFormed
    <3>. QED BY <3>3, <3>4, ZenonT(30)
  <2>. QED BY <2>1, ZenonT(30) DEF validateListener
<1>7. ~m.bootstrap.enabled
  <2>1. ~Blank.bootstrap.enabled
    BY ZenonT(30) DEF Blank
  <2>2. defaultBootstrap(Blank.bootstrap).enabled = Blank.bootstrap.enabled
    BY ZenonT(30) DEF defaultBootstrap, Blank
  <2>3. m.bootstrap = defaultBootstrap(Blank.bootstrap)
    BY <1>1, <1>3, ZenonT(30) DEF Joined
  <2>. QED BY <2>1, <2>2, <2>3, ZenonT(30)
<1>8. validateTLS(m.tls)
  <2>1. m.tls.cert = "c" /\ m.tls.key = "k" /\ m.tls.ca = "a"
    BY <1>1, <1>3 DEF CompletedFrom
  <2>2. m.tls.mutual => m.tls.enabled
    BY <1>2, ZenonT(30) DEF RunsLike, WellFormed
  <2>3. m.tls.cert # "" /\ m.tls.key # "" /\ m.tls.ca # ""
    BY <2>1, ZenonT(30)
  <2>. QED BY <2>2, <2>3, ZenonT(30) DEF validateTLS
<1>9. validateACL(m)
  <2>1. m.acl.policy = "" /\ m.acl.tokens = "t"
    <3>1. p.acl.policy = ""
      BY <1>1, ZenonT(30) DEF Joined
    <3>2. p.acl.tokens = "t"
      BY <1>1 DEF CompletedFrom
    <3>. QED BY <1>3, <3>1, <3>2, ZenonT(30)
  <2>2. m.acl.mode \in {"disabled", "allow", "enforce"}
    BY <1>2, ZenonT(30) DEF RunsLike, WellFormed
  <2>. QED BY <2>1, <2>2, ZenonT(30) DEF validateACL
<1>10. validateAgent(m.agent)
  <2>1. c.agent \in AgentFields /\ defaultAgent(c.agent) = c.agent /\ validateAgent(c.agent)
    BY ZenonT(30) DEF WellFormed
  <2>2. validateAgent(defaultAgent(Blank.agent))
    <3>1. Blank.agent = [seedTimeout |-> 0, writeQuorum |-> 0, readyMinSeeds |-> 0,
                         drainWindow |-> 0, cacheMaxAge |-> 0]
      BY ZenonT(30) DEF Blank
    <3>. QED BY <3>1 DEF defaultAgent, orElse, validateAgent
  <2>3. p.agent = IF p.role = "agent" THEN c.agent ELSE Blank.agent
    BY <1>1, ZenonT(30) DEF Joined
  <2>. QED BY <1>3, <2>1, <2>2, <2>3, ZenonT(30)
<1>11. Validate(m)
  BY <1>4, <1>5, <1>6, <1>7, <1>8, <1>9, <1>10, ZenonT(30) DEF Validate, validateBootstrap
<1>. QED BY <1>11, ZenonT(30) DEF m, p, Accepted
-----------------------------------------------------------------------------
(* The seed's configuration, and the time a step may take.                 *)
SeedOK == \E f \in Configs : Accepted(f) /\ seedCfg = Parse(f)

LEMMA SeedKept == [Next]_vars => UNCHANGED seedCfg /\ now' \in {now, now + 1}
<1>. SUFFICES ASSUME [Next]_vars PROVE UNCHANGED seedCfg /\ now' \in {now, now + 1}
  BY ZenonT(30)
<1>1. CASE UNCHANGED vars
  BY <1>1, ZenonT(30) DEF vars, bootVars
<1>2. CASE BootNext
  BY <1>2, ZenonT(30) DEF BootNext, CreateToken, GetConfig, Pass
<1>3. CASE Provision
  BY <1>3, ZenonT(30) DEF Provision
<1>4. ASSUME NEW role \in Roles \cup {""}, Load(role)
      PROVE  UNCHANGED <<seedCfg, now>>
  BY <1>4, ZenonT(30) DEF Load, bootVars
<1>5. CASE Node \/ Operator
  BY <1>5, ZenonT(30) DEF Node, Operator, bootVars
<1>. QED BY <1>1, <1>2, <1>3, <1>4, <1>5, ZenonT(30) DEF Next

(* A step changes the limiter, the requests or the tokens by one of these. *)
LEMMA BootCases ==
    ASSUME [Next]_vars
    PROVE  \/ UNCHANGED <<now, counts, resetAt, tokens, log>>
           \/ \E flag \in TokenTTLs : CreateToken(flag)
           \/ \E h \in Hosts, token \in tokens \cup {NoToken},
                 role \in Roles \cup {"", "other"} : GetConfig(h, token, role)
           \/ Pass
<1>1. CASE UNCHANGED vars
  BY <1>1, ZenonT(30) DEF vars, bootVars
<1>2. CASE BootNext
  BY <1>2, ZenonT(30) DEF BootNext
<1>3. CASE Provision
  BY <1>3, ZenonT(30) DEF Provision
<1>4. ASSUME NEW role \in Roles \cup {""}, Load(role)
      PROVE  UNCHANGED <<now, counts, resetAt, tokens, log>>
  BY <1>4, ZenonT(30) DEF Load, bootVars
<1>5. CASE Node \/ Operator
  BY <1>5, ZenonT(30) DEF Node, Operator, bootVars
<1>. QED BY <1>1, <1>2, <1>3, <1>4, <1>5, ZenonT(30) DEF Next

LEMMA ParsedBootstrap ==
    ASSUME NEW f \in Document
    PROVE  /\ Parse(f).bootstrap.enabled = f.bootstrap.enabled
           /\ Parse(f).bootstrap.rateLimit = orElse(f.bootstrap.rateLimit, 10)
           /\ Parse(f).bootstrap.tokenTTL = orElse(f.bootstrap.tokenTTL, 30)
           /\ Parse(f).bootstrap.advertise = f.bootstrap.advertise
<1>1. Parse(f).bootstrap = defaultBootstrap(f.bootstrap)
  BY DEF Parse, applyDefaults, Document
<1>. QED BY <1>1, ZenonT(30) DEF defaultBootstrap, Document

(* A limit of zero is taken for the default one, and a negative one is     *)
(* refused, so a seed that serves bootstrap has a limit.                   *)
LEMMA SeedLimit ==
    ASSUME SeedOK
    PROVE  /\ seedCfg.bootstrap.enabled \in BOOLEAN /\ limit \in Int
           /\ seedCfg.bootstrap.tokenTTL \in Int
           /\ seedCfg.bootstrap.enabled => limit > 0
<1>1. PICK f \in Configs : Accepted(f) /\ seedCfg = Parse(f)
  BY ZenonT(30) DEF SeedOK
<1>2. f \in Document
  BY BootstrapAssumption, ZenonT(30)
<1>3. /\ f.bootstrap.rateLimit \in Int /\ f.bootstrap.tokenTTL \in Int
      /\ f.bootstrap.enabled \in BOOLEAN
  BY <1>2, ZenonT(30) DEF Document
<1>4. /\ orElse(f.bootstrap.rateLimit, 10) \in Int /\ orElse(f.bootstrap.rateLimit, 10) # 0
      /\ orElse(f.bootstrap.tokenTTL, 30) \in Int
  BY <1>3 DEF orElse
<1>5. seedCfg.bootstrap.enabled => seedCfg.bootstrap.rateLimit >= 0
  BY <1>1, ZenonT(30) DEF Accepted, Validate, validateBootstrap
<1>. QED BY <1>1, <1>2, <1>3, <1>4, <1>5, ParsedBootstrap DEF limit
-----------------------------------------------------------------------------
(* Tokens.                                                                 *)
TokenInv ==
    /\ now \in Nat
    /\ \A token \in tokens :
        /\ token.minted \in Nat /\ token.ttl \in Nat
        /\ token.exp = second(token.minted + token.ttl)

LEMMA Seconds ==
    ASSUME NEW a \in Nat, NEW b \in Nat
    PROVE  /\ second(a) \in Nat
           /\ a <= b => second(a) <= second(b)
           /\ a + TicksPerSecond <= b => second(a) < second(b)
<1>1. \A d \in Nat \ {0} : \A n \in Nat :
        n \div d \in Nat /\ d * (n \div d) <= n /\ n < d * (n \div d) + d
  OBVIOUS
<1>2. ASSUME NEW d \in Nat \ {0}, a <= b PROVE a \div d <= b \div d
  BY <1>1, <1>2
<1>3. ASSUME NEW d \in Nat \ {0}, a + d <= b PROVE a \div d < b \div d
  BY <1>1, <1>3
<1>. QED BY <1>1, <1>2, <1>3, BootstrapAssumption, ZenonT(30) DEF second

LEMMA TTLTyped ==
    ASSUME SeedOK, NEW flag \in TokenTTLs
    PROVE  tokenTTL(flag) \in Nat
<1>. DEFINE x == IF seedCfg.bootstrap.tokenTTL > 0 THEN seedCfg.bootstrap.tokenTTL ELSE 30
<1>1. flag \in Nat /\ TicksPerSecond \in Nat
  BY BootstrapAssumption, ZenonT(30)
<1>2. x \in Nat
  BY SeedLimit
<1>3. tokenTTL(flag) = IF flag > 0 THEN flag ELSE TicksPerSecond * x
  BY ZenonT(30) DEF tokenTTL
<1>. HIDE DEF x
<1>4. TicksPerSecond * x \in Nat
  BY <1>1, <1>2
<1>. QED BY <1>1, <1>3, <1>4, ZenonT(30)

LEMMA TokenNext == SeedOK /\ TokenInv /\ [Next]_vars => TokenInv'
<1>. SUFFICES ASSUME SeedOK, TokenInv, [Next]_vars PROVE TokenInv'
  BY ZenonT(30)
<1>1. now' \in Nat
  BY SeedKept DEF TokenInv
<1>2. ASSUME NEW flag \in TokenTTLs, CreateToken(flag) PROVE TokenInv'
  <2>. DEFINE new == MintToken(tokenTTL(flag))
  <2>1. tokens' = tokens \cup {new}
    BY <1>2, ZenonT(30) DEF CreateToken
  <2>2. new.minted \in Nat /\ new.ttl \in Nat /\ new.exp = second(new.minted + new.ttl)
    BY TTLTyped, ZenonT(30) DEF TokenInv, MintToken
  <2>. HIDE DEF new
  <2>. QED BY <1>1, <2>1, <2>2, ZenonT(30) DEF TokenInv
<1>3. CASE UNCHANGED tokens
  BY <1>1, <1>3, ZenonT(30) DEF TokenInv
<1>. QED BY <1>2, <1>3, BootCases, ZenonT(30) DEF GetConfig, Pass

LEMMA SeedInit == Init => SeedOK /\ TokenInv
BY DEF Init, BootInit, SeedOK, TokenInv

LEMMA SeedNext == SeedOK /\ [Next]_vars => SeedOK'
<1>. SUFFICES ASSUME SeedOK, [Next]_vars PROVE SeedOK'
  BY ZenonT(30)
<1>1. seedCfg' = seedCfg
  BY SeedKept, ZenonT(30)
<1>. QED BY <1>1, ZenonT(30) DEF SeedOK

LEMMA SeedInvariant == Spec => []SeedOK
BY SeedInit, SeedNext, PTL DEF Spec

(* MintToken and ValidateToken (token.go): a token is valid until its time *)
(* is over, and invalid a second later, for every ttl and every division   *)
(* of a second, although only whole seconds are stored in it.              *)
THEOREM TokensExpire == Spec => []TokenLifetime
<1>1. TokenInv => TokenLifetime
  <2>. SUFFICES ASSUME TokenInv, NEW token \in tokens
                PROVE  /\ now <= token.minted + token.ttl => ValidateToken(token)
                       /\ now >= token.minted + token.ttl + TicksPerSecond
                            => ~ValidateToken(token)
    BY ZenonT(30) DEF TokenLifetime
  <2>. DEFINE end == token.minted + token.ttl
  <2>1. end \in Nat /\ token.exp = second(end) /\ now \in Nat
    BY DEF TokenInv
  <2>2. token # NoToken
    <3>1. second(end) \in Nat
      BY <2>1, Seconds, ZenonT(30)
    <3>. QED BY <2>1, <3>1 DEF NoToken
  <2>. HIDE DEF end
  <2>3. now <= end => second(now) <= token.exp
    BY <2>1, Seconds, ZenonT(30)
  <2>4. now >= end + TicksPerSecond => ~(second(now) <= token.exp)
    <3>1. end + TicksPerSecond <= now => second(end) < second(now)
      BY <2>1, Seconds, ZenonT(30)
    <3>2. second(end) \in Nat /\ second(now) \in Nat
      BY <2>1, Seconds, ZenonT(30)
    <3>. QED BY <2>1, <3>1, <3>2, BootstrapAssumption
  <2>. QED BY <2>2, <2>3, <2>4, ZenonT(30) DEF end, ValidateToken
<1>. QED BY <1>1, SeedInit, SeedInvariant, TokenNext, PTL DEF Spec
-----------------------------------------------------------------------------
(* The limiter.  Its current window began at windowStart; requests of a    *)
(* host that were let through are counted in it and in the second before.  *)
windowStart == resetAt - TicksPerSecond
admitted(h) == {i \in DOMAIN log : log[i].host = h /\ log[i].allowed}
inWindow(h) == {i \in admitted(h) : log[i].at >= windowStart}
beforeWindow(h) ==
    {i \in admitted(h) : log[i].at < windowStart /\ log[i].at >= windowStart - TicksPerSecond}

Request == [host: Hosts, at: Nat, allowed: BOOLEAN]

LimiterTypes ==
    /\ now \in Nat /\ resetAt \in Nat /\ counts \in [Hosts -> Nat] /\ log \in Seq(Request)
    /\ ~seedCfg.bootstrap.enabled => log = <<>>

LogInv ==
    /\ windowStart <= now
    /\ \A i \in DOMAIN log : log[i].at <= now /\ log[i].at <= resetAt

(* counts goes on counting what is refused; what was let through stops at  *)
(* the limit.                                                              *)
WindowInv ==
    seedCfg.bootstrap.enabled =>
      \A h \in Hosts :
        /\ Cardinality(inWindow(h)) = IF counts[h] <= limit THEN counts[h] ELSE limit
        /\ Cardinality(beforeWindow(h)) <= limit

LimiterInv == LimiterTypes /\ LogInv /\ WindowInv

(* Any set of requests is finite.                                          *)
LEMMA Requests ==
    ASSUME LimiterTypes
    PROVE  /\ Len(log) \in Nat /\ DOMAIN log = 1 .. Len(log)
           /\ \A i \in 1 .. Len(log) : log[i] \in Request
           /\ \A S \in SUBSET DOMAIN log : IsFiniteSet(S) /\ Cardinality(S) \in Nat
<1>1. Len(log) \in Nat /\ DOMAIN log = 1 .. Len(log)
      /\ \A i \in 1 .. Len(log) : log[i] \in Request
  BY DEF LimiterTypes
<1>2. IsFiniteSet(1 .. Len(log))
  BY <1>1, FS_Interval
<1>3. ASSUME NEW S \in SUBSET DOMAIN log PROVE IsFiniteSet(S) /\ Cardinality(S) \in Nat
  <2>1. IsFiniteSet(S)
    BY <1>1, <1>2, FS_Subset, ZenonT(30)
  <2>. QED BY <2>1, FS_CardinalityType, ZenonT(30)
<1>. QED BY <1>1, <1>3, ZenonT(30)

LEMMA Upto ==
    ASSUME NEW n \in Nat
    PROVE  /\ n + 1 \in 1 .. n + 1 /\ n + 1 \notin 1 .. n
           /\ \A i : i \in 1 .. n + 1 <=> i \in 1 .. n \/ i = n + 1
           /\ \A i \in 1 .. n : i \in 1 .. n + 1 /\ i # n + 1 /\ i < n + 1 /\ ~(n + 1 < i)
           /\ IsFiniteSet(1 .. n + 1)
<1>1. 1 \in Int /\ n + 1 \in Int
  OBVIOUS
<1>2. IsFiniteSet(1 .. n + 1)
  BY <1>1, FS_Interval, ZenonT(30)
<1>. QED BY <1>2

LEMMA Earlier ==
    ASSUME NEW a \in Nat, NEW w \in Int, NEW t \in Nat, NEW p \in Nat, w <= t, a < w - p
    PROVE  t # a /\ t \notin a .. a + p
OBVIOUS

LEMMA Later ==
    ASSUME NEW a \in Nat, NEW w \in Int, NEW t \in Nat, NEW p \in Nat, t >= a, a >= w - p
    PROVE  t >= w - p
OBVIOUS

(* What GetConfig leaves of the limiter, and the request it records.       *)
LEMMA Asked ==
    ASSUME LimiterInv, SeedOK, NEW h \in Hosts, NEW token, NEW role, GetConfig(h, token, role)
    PROVE  /\ seedCfg.bootstrap.enabled /\ limit \in Nat /\ limit > 0
           /\ UNCHANGED <<seedCfg, now>>
           /\ now > resetAt => /\ resetAt' = now + TicksPerSecond
                               /\ \A x \in Hosts : counts'[x] = IF x = h THEN 1 ELSE 0
           /\ now <= resetAt =>
                /\ resetAt' = resetAt
                /\ \A x \in Hosts : counts'[x] = IF x = h THEN counts[x] + 1 ELSE counts[x]
           /\ LimiterTypes'
           /\ Len(log') = Len(log) + 1 /\ DOMAIN log' = 1 .. Len(log) + 1
           /\ \A i \in 1 .. Len(log) : log'[i] = log[i]
           /\ log'[Len(log) + 1].host = h /\ log'[Len(log) + 1].at = now
           /\ log'[Len(log) + 1].allowed <=> counts'[h] <= limit
<1>. DEFINE l == Allow([counts |-> counts, resetAt |-> resetAt], h, now)
            e == [host |-> h, at |-> now, allowed |-> allowed(l, h)]
<1>1. /\ seedCfg.bootstrap.enabled /\ UNCHANGED <<seedCfg, now>>
      /\ counts' = l.counts /\ resetAt' = l.resetAt /\ log' = Append(log, e)
  BY ZenonT(30) DEF GetConfig
<1>2. limit \in Nat /\ limit > 0
  <2>1. limit \in Int /\ limit > 0
    BY <1>1, SeedLimit, ZenonT(30)
  <2>. QED BY <2>1
<1>3. now \in Nat /\ resetAt \in Nat /\ counts \in [Hosts -> Nat] /\ log \in Seq(Request)
      /\ TicksPerSecond \in Nat
  BY BootstrapAssumption, ZenonT(30) DEF LimiterInv, LimiterTypes
<1>4. /\ now > resetAt => /\ resetAt' = now + TicksPerSecond
                          /\ counts' = [[x \in Hosts |-> 0] EXCEPT ![h] = @ + 1]
      /\ now <= resetAt => resetAt' = resetAt /\ counts' = [counts EXCEPT ![h] = @ + 1]
  <2>1. CASE now > resetAt
    <3>1. l = [counts |-> [[x \in Hosts |-> 0] EXCEPT ![h] = @ + 1],
               resetAt |-> now + TicksPerSecond]
      BY <2>1, ZenonT(30) DEF Allow
    <3>. HIDE DEF l
    <3>2. counts' = l.counts /\ resetAt' = l.resetAt
      BY <1>1, ZenonT(30)
    <3>. QED BY <1>3, <2>1, <3>1, <3>2
  <2>2. CASE now <= resetAt
    <3>1. ~(now > resetAt)
      BY <1>3, <2>2
    <3>2. l = [counts |-> [counts EXCEPT ![h] = @ + 1], resetAt |-> resetAt]
      BY <3>1, ZenonT(30) DEF Allow
    <3>. HIDE DEF l
    <3>3. counts' = l.counts /\ resetAt' = l.resetAt
      BY <1>1
    <3>. QED BY <3>1, <3>2, <3>3, ZenonT(30)
  <2>. QED BY <1>3, <2>1, <2>2, ZenonT(30)
<1>5. /\ now > resetAt => /\ resetAt' = now + TicksPerSecond
                          /\ \A x \in Hosts : counts'[x] = IF x = h THEN 1 ELSE 0
      /\ now <= resetAt =>
           /\ resetAt' = resetAt
           /\ \A x \in Hosts : counts'[x] = IF x = h THEN counts[x] + 1 ELSE counts[x]
  BY <1>3, <1>4
<1>6. resetAt' \in Nat /\ counts' \in [Hosts -> Nat]
  <2>1. CASE now > resetAt
    BY <1>3, <1>4, <2>1
  <2>2. CASE now <= resetAt
    BY <1>3, <1>4, <2>2
  <2>. QED BY <1>3, <2>1, <2>2
<1>7. allowed(l, h) \in BOOLEAN /\ (allowed(l, h) <=> counts'[h] <= limit)
  <2>1. l.counts = counts'
    BY <1>1, ZenonT(30)
  <2>. HIDE DEF l
  <2>. QED BY <2>1, <1>2 DEF allowed
<1>8. e \in Request /\ e.host = h /\ e.at = now /\ e.allowed = allowed(l, h)
  <2>. HIDE DEF l
  <2>. QED BY <1>3, <1>7, ZenonT(30) DEF Request
<1>. HIDE DEF e, l
<1>9. /\ log' \in Seq(Request) /\ Len(log') = Len(log) + 1 /\ DOMAIN log' = 1 .. Len(log) + 1
      /\ \A i \in 1 .. Len(log) : log'[i] = log[i]
      /\ log'[Len(log) + 1] = e
  BY <1>1, <1>3, <1>8
<1>10. LimiterTypes'
  BY <1>1, <1>3, <1>6, <1>9, ZenonT(30) DEF LimiterTypes
<1>. QED BY <1>1, <1>2, <1>5, <1>7, <1>8, <1>9, <1>10, ZenonT(30)

(* The window after a request: the next one begins with this request alone *)
(* and the last one is the second before it, or this one goes on.          *)
LEMMA WindowStep ==
    ASSUME LimiterInv, SeedOK, NEW h \in Hosts, NEW token, NEW role, GetConfig(h, token, role)
    PROVE  LimiterInv'
<1>. DEFINE n == Len(log)
<1>1. /\ seedCfg.bootstrap.enabled /\ limit \in Nat /\ limit > 0 /\ seedCfg' = seedCfg /\ now' = now
      /\ now > resetAt => /\ resetAt' = now + TicksPerSecond
                          /\ \A x \in Hosts : counts'[x] = IF x = h THEN 1 ELSE 0
      /\ now <= resetAt =>
           /\ resetAt' = resetAt
           /\ \A x \in Hosts : counts'[x] = IF x = h THEN counts[x] + 1 ELSE counts[x]
  BY Asked, ZenonT(30)
<1>2. /\ LimiterTypes'
      /\ DOMAIN log' = 1 .. n + 1 /\ \A i \in 1 .. n : log'[i] = log[i]
      /\ log'[n + 1].host = h /\ log'[n + 1].at = now
      /\ log'[n + 1].allowed <=> counts'[h] <= limit
  BY Asked, ZenonT(30)
<1>3. /\ n \in Nat /\ DOMAIN log = 1 .. n
      /\ \A i \in 1 .. n : log[i].at \in Nat
      /\ \A S \in SUBSET DOMAIN log : IsFiniteSet(S) /\ Cardinality(S) \in Nat
  BY Requests, ZenonT(30) DEF LimiterInv, Request
<1>4. /\ now \in Nat /\ resetAt \in Nat /\ TicksPerSecond \in Nat \ {0}
      /\ counts \in [Hosts -> Nat]
  BY BootstrapAssumption, ZenonT(30) DEF LimiterInv, LimiterTypes
<1>5. /\ windowStart <= now
      /\ \A i \in 1 .. n : log[i].at <= now /\ log[i].at <= resetAt
  BY <1>3, ZenonT(30) DEF LimiterInv, LogInv
<1>6. ASSUME NEW x \in Hosts
      PROVE  /\ inWindow(x) \in SUBSET (1 .. n) /\ beforeWindow(x) \in SUBSET (1 .. n)
             /\ IsFiniteSet(inWindow(x)) /\ IsFiniteSet(beforeWindow(x))
             /\ Cardinality(inWindow(x)) = IF counts[x] <= limit THEN counts[x] ELSE limit
             /\ Cardinality(beforeWindow(x)) <= limit
  <2>1. inWindow(x) \in SUBSET (1 .. n) /\ beforeWindow(x) \in SUBSET (1 .. n)
    BY <1>3, ZenonT(30) DEF inWindow, beforeWindow, admitted
  <2>. QED BY <1>1, <1>3, <2>1, ZenonT(30) DEF LimiterInv, WindowInv
<1>. HIDE DEF n
<1>7. LogInv'
  <2>1. now > resetAt => windowStart' = now
    BY <1>1, <1>4 DEF windowStart
  <2>2. now <= resetAt => windowStart' = windowStart
    BY <1>1, ZenonT(30) DEF windowStart
  <2>3. windowStart' <= now
    BY <1>4, <1>5, <2>1, <2>2
  <2>4. \A i \in 1 .. n + 1 : log'[i].at <= now /\ log'[i].at <= resetAt'
    <3>1. now <= resetAt' /\ (now > resetAt => resetAt <= resetAt')
          /\ (now <= resetAt => resetAt' = resetAt)
      BY <1>1, <1>4
    <3>2. ASSUME NEW i \in 1 .. n PROVE log'[i].at <= now /\ log'[i].at <= resetAt'
      <4>1. log'[i].at \in Nat /\ log'[i].at <= now
        BY <1>2, <1>3, <1>5, ZenonT(30)
      <4>2. resetAt' \in Nat
        BY <1>2, ZenonT(30) DEF LimiterTypes
      <4>. QED BY <1>4, <3>1, <4>1, <4>2
    <3>3. log'[n + 1].at <= now /\ log'[n + 1].at <= resetAt'
      BY <1>2, <1>4, <3>1
    <3>. QED BY <1>3, <3>2, <3>3, Upto, ZenonT(30)
  <2>. QED BY <1>1, <1>2, <2>3, <2>4, ZenonT(30) DEF LogInv
<1>8. limit' = limit
  BY <1>1, ZenonT(30) DEF limit
<1>9. ASSUME NEW x \in Hosts, now > resetAt
      PROVE  /\ Cardinality(inWindow(x)') = IF counts'[x] <= limit THEN counts'[x] ELSE limit
             /\ Cardinality(beforeWindow(x)') <= limit
  <2>1. windowStart' = now /\ windowStart < now - TicksPerSecond
    BY <1>1, <1>4, <1>9 DEF windowStart
  <2>2. beforeWindow(x)' \in SUBSET inWindow(x)
    <3>1. ASSUME NEW i \in beforeWindow(x)'
          PROVE  i \in inWindow(x)
      <4>1. /\ i \in 1 .. n + 1 /\ log'[i].host = x /\ log'[i].allowed
            /\ log'[i].at < now /\ log'[i].at >= now - TicksPerSecond
        BY <1>2, <2>1, <3>1, ZenonT(30) DEF beforeWindow, admitted
      <4>2. i # n + 1
        BY <1>2, <1>4, <4>1
      <4>3. i \in 1 .. n
        BY <1>3, <4>1, <4>2
      <4>4. log[i].at >= windowStart
        BY <1>2, <1>3, <1>4, <2>1, <4>1, <4>3 DEF windowStart
      <4>. QED BY <1>2, <1>3, <4>1, <4>3, <4>4, ZenonT(30) DEF inWindow, admitted
    <3>. QED BY <3>1, ZenonT(30)
  <2>3. Cardinality(beforeWindow(x)') <= limit
    <3>1. Cardinality(beforeWindow(x)') <= Cardinality(inWindow(x)) /\ Cardinality(beforeWindow(x)') \in Nat
      BY <1>6, <2>2, FS_Subset, FS_CardinalityType, ZenonT(30)
    <3>. QED BY <1>1, <1>4, <1>6, <3>1
  <2>4. counts'[h] <= limit
    <3>1. counts'[h] = 1 /\ limit \in Nat /\ limit > 0
      BY <1>1, <1>9, ZenonT(30)
    <3>. QED BY <3>1
  <2>5. inWindow(x)' = IF x = h THEN {n + 1} ELSE {}
    <3>1. ASSUME NEW i \in 1 .. n PROVE i \notin inWindow(x)'
      <4>1. log'[i].at \in Nat /\ log'[i].at <= resetAt
        BY <1>2, <1>3, <1>5, ZenonT(30)
      <4>2. ~(log'[i].at >= windowStart')
        BY <1>4, <1>9, <2>1, <4>1
      <4>. QED BY <4>2, ZenonT(30) DEF inWindow
    <3>2. inWindow(x)' \subseteq 1 .. n + 1
      BY <1>2, ZenonT(30) DEF inWindow, admitted
    <3>3. n + 1 \in inWindow(x)' <=> x = h
      <4>1. now >= now
        BY <1>4
      <4>2. n + 1 \in DOMAIN log' /\ log'[n + 1].allowed /\ log'[n + 1].at >= windowStart'
        BY <1>2, <1>3, <2>1, <2>4, <4>1, Upto, ZenonT(30)
      <4>. QED BY <1>2, <4>2, ZenonT(30) DEF inWindow, admitted
    <3>4. \A i : i \in inWindow(x)' <=> x = h /\ i = n + 1
      BY <1>3, <3>1, <3>2, <3>3, Upto, ZenonT(30)
    <3>. QED BY <3>4, ZenonT(30)
  <2>6. Cardinality(inWindow(x)') = IF x = h THEN 1 ELSE 0
    BY <2>5, FS_Singleton, FS_EmptySet, ZenonT(30)
  <2>7. counts'[x] = (IF x = h THEN 1 ELSE 0) /\ limit \in Nat /\ limit > 0
    BY <1>1, <1>9, ZenonT(30)
  <2>. QED BY <2>3, <2>6, <2>7
<1>10. ASSUME NEW x \in Hosts, now <= resetAt
       PROVE  /\ Cardinality(inWindow(x)') = IF counts'[x] <= limit THEN counts'[x] ELSE limit
              /\ Cardinality(beforeWindow(x)') <= limit
  <2>1. windowStart' = windowStart
    BY <1>1, <1>10, ZenonT(30) DEF windowStart
  <2>2. ASSUME NEW i \in 1 .. n
        PROVE  /\ i \in inWindow(x)' <=> i \in inWindow(x)
               /\ i \in beforeWindow(x)' <=> i \in beforeWindow(x)
    <3>1. i \in DOMAIN log /\ i \in DOMAIN log' /\ log'[i] = log[i]
      BY <1>2, <1>3, Upto, ZenonT(30)
    <3>. QED BY <2>1, <3>1, ZenonT(30) DEF inWindow, beforeWindow, admitted
  <2>3. inWindow(x)' \subseteq 1 .. n + 1 /\ beforeWindow(x)' \subseteq 1 .. n + 1
    BY <1>2, ZenonT(30) DEF inWindow, beforeWindow, admitted
  <2>4. n + 1 \notin beforeWindow(x)'
    BY <1>2, <1>4, <1>5, <2>1 DEF beforeWindow, windowStart
  <2>5. beforeWindow(x)' = beforeWindow(x)
    <3>1. \A i \in 1 .. n + 1 : i \in 1 .. n \/ i = n + 1
      BY <1>3
    <3>2. \A i : i \in beforeWindow(x)' <=> i \in beforeWindow(x)
      BY <1>6, <2>2, <2>3, <2>4, <3>1, ZenonT(30)
    <3>. QED BY <3>2, ZenonT(30)
  <2>6. n + 1 \in inWindow(x)' <=> x = h /\ counts'[h] <= limit
    BY <1>2, <1>3, <1>5, <2>1 DEF inWindow, admitted
  <2>7. CASE x = h /\ counts'[h] <= limit
    <3>1. inWindow(x)' = inWindow(x) \cup {n + 1} /\ n + 1 \notin inWindow(x)
      <4>1. inWindow(x) \subseteq 1 .. n /\ n + 1 \notin inWindow(x)
        BY <1>3, <1>6, Upto, ZenonT(30)
      <4>2. \A i : i \in inWindow(x)' <=> i \in inWindow(x) \/ i = n + 1
        BY <1>3, <2>2, <2>3, <2>6, <2>7, <4>1, Upto, ZenonT(30)
      <4>. QED BY <4>1, <4>2, ZenonT(30)
    <3>2. Cardinality(inWindow(x)') = Cardinality(inWindow(x)) + 1
      BY <1>6, <3>1, FS_AddElement, ZenonT(30)
    <3>. QED BY <1>1, <1>4, <1>6, <1>10, <2>5, <2>7, <3>2
  <2>8. CASE ~(x = h /\ counts'[h] <= limit)
    <3>1. inWindow(x)' = inWindow(x)
      <4>1. \A i \in 1 .. n + 1 : i \in 1 .. n \/ i = n + 1
        BY <1>3
      <4>2. \A i : i \in inWindow(x)' <=> i \in inWindow(x)
        BY <1>6, <2>2, <2>3, <2>6, <2>8, <4>1, ZenonT(30)
      <4>. QED BY <4>2
    <3>. QED BY <1>1, <1>4, <1>6, <1>10, <2>5, <2>8, <3>1
  <2>. QED BY <2>7, <2>8, ZenonT(30)
<1>11. WindowInv'
  BY <1>4, <1>8, <1>9, <1>10 DEF WindowInv
<1>. QED BY <1>2, <1>7, <1>11, ZenonT(30) DEF LimiterInv

LEMMA LimiterInit == Init => LimiterInv /\ AdmittedPerSecond /\ RefusalJustified
<1>. SUFFICES ASSUME Init PROVE LimiterInv /\ AdmittedPerSecond /\ RefusalJustified
  BY ZenonT(30)
<1>1. now = 1 /\ counts = [h \in Hosts |-> 0] /\ resetAt = 0 /\ log = <<>> /\ SeedOK
  BY ZenonT(30) DEF Init, BootInit, SeedOK
<1>2. LimiterTypes /\ LogInv
  BY <1>1, BootstrapAssumption DEF LimiterTypes, LogInv, windowStart
<1>3. WindowInv
  <2>. SUFFICES ASSUME seedCfg.bootstrap.enabled, NEW h \in Hosts
                PROVE  /\ Cardinality(inWindow(h)) = IF counts[h] <= limit THEN counts[h] ELSE limit
                       /\ Cardinality(beforeWindow(h)) <= limit
    BY ZenonT(30) DEF WindowInv
  <2>1. inWindow(h) = {} /\ beforeWindow(h) = {}
    BY <1>1 DEF inWindow, beforeWindow, admitted
  <2>2. limit \in Int /\ limit > 0 /\ counts[h] = 0
    BY <1>1, SeedLimit, ZenonT(30)
  <2>. QED BY <2>1, <2>2, FS_EmptySet
<1>4. AdmittedPerSecond /\ RefusalJustified
  BY <1>1 DEF AdmittedPerSecond, RefusalJustified
<1>. QED BY <1>2, <1>3, <1>4, ZenonT(30) DEF LimiterInv

LEMMA LimiterNext == SeedOK /\ LimiterInv /\ [Next]_vars => LimiterInv'
<1>. SUFFICES ASSUME SeedOK, LimiterInv, [Next]_vars PROVE LimiterInv'
  OBVIOUS
<1>1. CASE UNCHANGED <<counts, resetAt, log>>
  <2>1. seedCfg' = seedCfg /\ now' \in Nat /\ now <= now'
    BY SeedKept DEF LimiterInv, LimiterTypes
  <2>2. LimiterTypes' /\ LogInv'
    <3>1. now \in Nat /\ resetAt \in Nat /\ TicksPerSecond \in Nat
          /\ \A i \in DOMAIN log : log[i].at \in Nat
      BY Requests, BootstrapAssumption, ZenonT(30) DEF LimiterInv, LimiterTypes, Request
    <3>2. LimiterTypes'
      BY <1>1, <2>1, ZenonT(30) DEF LimiterInv, LimiterTypes
    <3>3. LogInv'
      BY <1>1, <2>1, <3>1 DEF LimiterInv, LogInv, windowStart
    <3>. QED BY <3>2, <3>3, ZenonT(30)
  <2>3. WindowInv'
    <3>1. \A h : inWindow(h)' = inWindow(h) /\ beforeWindow(h)' = beforeWindow(h)
      BY <1>1, ZenonT(30) DEF inWindow, beforeWindow, admitted, windowStart
    <3>2. limit' = limit
      BY <2>1, ZenonT(30) DEF limit
    <3>. QED BY <1>1, <2>1, <3>1, <3>2, ZenonT(30) DEF LimiterInv, WindowInv
  <2>. QED BY <2>2, <2>3, ZenonT(30) DEF LimiterInv
<1>. QED BY <1>1, WindowStep, BootCases, ZenonT(30) DEF CreateToken, Pass

LEMMA LimiterInvariant == Spec => []LimiterInv
BY LimiterInit, LimiterNext, SeedInvariant, PTL DEF Spec

(* A request is added at the end: what was let through before stays so.    *)
LEMMA AddedLast ==
    ASSUME LimiterInv, SeedOK, NEW h \in Hosts, NEW token, NEW role, GetConfig(h, token, role),
           NEW x, NEW from, NEW to
    PROVE  /\ letThrough(x, from, to)' \ {Len(log) + 1} = letThrough(x, from, to)
           /\ letThrough(x, from, to)' \subseteq 1 .. Len(log) + 1
           /\ letThrough(x, from, to) \subseteq 1 .. Len(log)
<1>. DEFINE n == Len(log)
<1>1. DOMAIN log' = 1 .. n + 1 /\ \A i \in 1 .. n : log'[i] = log[i]
  BY Asked, ZenonT(30)
<1>2. n \in Nat /\ DOMAIN log = 1 .. n
  BY Requests, ZenonT(30) DEF LimiterInv
<1>. HIDE DEF n
<1>3. \A i : i \in 1 .. n + 1 /\ i # n + 1 <=> i \in 1 .. n
  BY <1>2
<1>4. letThrough(x, from, to)' \subseteq 1 .. n + 1 /\ letThrough(x, from, to) \subseteq 1 .. n
  BY <1>1, <1>2, ZenonT(30) DEF letThrough
<1>5. \A i \in 1 .. n : i \in letThrough(x, from, to)' <=> i \in letThrough(x, from, to)
  BY <1>1, <1>2, <1>3, ZenonT(30) DEF letThrough
<1>6. n + 1 \notin 1 .. n
  BY <1>2
<1>7. \A i : i \in letThrough(x, from, to)' \ {n + 1} <=> i \in letThrough(x, from, to)
  BY <1>3, <1>4, <1>5, <1>6, ZenonT(30)
<1>. QED BY <1>4, <1>7, ZenonT(30) DEF n

LEMMA Dichotomy == \A p, q \in Int : p >= q \/ p < q
OBVIOUS

(* A second that begins in this window or the last one meets two windows;  *)
(* one that began earlier was over before this request.                    *)
LEMMA AdmittedStep ==
    ASSUME LimiterInv, LimiterInv', SeedOK, AdmittedPerSecond,
           NEW h \in Hosts, NEW token, NEW role, GetConfig(h, token, role)
    PROVE  AdmittedPerSecond'
<1>. DEFINE n == Len(log)
<1>1. /\ seedCfg.bootstrap.enabled /\ limit \in Nat /\ seedCfg' = seedCfg /\ now' = now
      /\ DOMAIN log' = 1 .. n + 1 /\ \A i \in 1 .. n : log'[i] = log[i]
      /\ log'[n + 1].at = now
  BY Asked, ZenonT(30)
<1>2. limit' = limit
  BY <1>1, ZenonT(30) DEF limit
<1>3. n \in Nat /\ DOMAIN log = 1 .. n
  BY Requests, ZenonT(30) DEF LimiterInv
<1>4. \A i \in 1 .. n + 1 : log'[i] \in Request
  <2>1. log' \in Seq(Request)
    BY Asked, ZenonT(30) DEF LimiterTypes
  <2>. QED BY <1>1, <2>1
<1>5. /\ now \in Nat /\ resetAt' \in Nat /\ TicksPerSecond \in Nat /\ windowStart' \in Int
      /\ windowStart' <= now
      /\ \A S \in SUBSET (1 .. n + 1) : IsFiniteSet(S) /\ Cardinality(S) \in Nat
  <2>1. now \in Nat /\ resetAt' \in Nat /\ TicksPerSecond \in Nat /\ windowStart' <= now
    BY <1>1, BootstrapAssumption, ZenonT(30) DEF LimiterInv, LimiterTypes, LogInv
  <2>2. IsFiniteSet(1 .. n + 1)
    BY <1>3, Upto, ZenonT(30)
  <2>3. ASSUME NEW S \in SUBSET (1 .. n + 1) PROVE IsFiniteSet(S) /\ Cardinality(S) \in Nat
    BY <2>2, FS_Subset, FS_CardinalityType, ZenonT(30)
  <2>4. windowStart' \in Int
    BY <2>1 DEF windowStart
  <2>. QED BY <2>1, <2>3, <2>4, ZenonT(30)
<1>6. SUFFICES ASSUME NEW i \in 1 .. n + 1
               PROVE  Cardinality(letThrough(log[i].host, log[i].at,
                                             log[i].at + TicksPerSecond)') <= 2 * limit
  BY <1>1, <1>2, ZenonT(30) DEF AdmittedPerSecond
<1>7. PICK x \in Hosts, a \in Nat : log'[i].host = x /\ log'[i].at = a
  BY <1>4, ZenonT(30) DEF Request
<1>. DEFINE S == letThrough(x, a, a + TicksPerSecond)'
<1>8. SUFFICES Cardinality(S) <= 2 * limit
  BY <1>7, ZenonT(30) DEF letThrough
<1>9. S \subseteq 1 .. n + 1 /\ S \ {n + 1} = letThrough(x, a, a + TicksPerSecond)
  BY AddedLast, ZenonT(30)
<1>10. CASE a >= windowStart' - TicksPerSecond
  <2>. DEFINE I == inWindow(x)'
              B == beforeWindow(x)'
  <2>1. ASSUME NEW j \in S PROVE j \in I \cup B
    <3>1. /\ j \in 1 .. n + 1 /\ log'[j].host = x /\ log'[j].allowed
          /\ log'[j].at \in a .. a + TicksPerSecond
      BY <1>1, <2>1, ZenonT(30) DEF letThrough
    <3>2. log'[j].at \in Nat
      BY <1>4, <3>1, ZenonT(30) DEF Request
    <3>3. log'[j].at >= windowStart' - TicksPerSecond
      <4>1. log'[j].at >= a
        BY <1>7, <3>1
      <4>2. windowStart' \in Int /\ TicksPerSecond \in Nat
        BY <1>5, ZenonT(30)
      <4>. QED BY <1>7, <1>10, <3>2, <4>1, <4>2, Later, ZenonT(30)
    <3>4. j \in DOMAIN log'
      BY <1>1, <3>1, ZenonT(30)
    <3>5. log'[j].at >= windowStart' \/ log'[j].at < windowStart'
      BY <1>5, <3>2
    <3>. QED BY <3>1, <3>3, <3>4, <3>5, ZenonT(30) DEF inWindow, beforeWindow, admitted
  <2>2. I \in SUBSET (1 .. n + 1) /\ B \in SUBSET (1 .. n + 1)
    BY <1>1, ZenonT(30) DEF inWindow, beforeWindow, admitted
  <2>3. Cardinality(I) <= limit /\ Cardinality(B) <= limit
    <3>1. /\ Cardinality(I) = IF counts'[x] <= limit THEN counts'[x] ELSE limit
          /\ Cardinality(B) <= limit
      BY <1>1, <1>2, <1>7, ZenonT(30) DEF LimiterInv, WindowInv
    <3>2. limit \in Nat
      BY <1>1, ZenonT(30)
    <3>3. counts'[x] \in Nat
      BY <1>7, ZenonT(30) DEF LimiterInv, LimiterTypes
    <3>. QED BY <3>1, <3>2, <3>3
  <2>. HIDE DEF I, B, S
  <2>4. IsFiniteSet(I) /\ IsFiniteSet(B) /\ Cardinality(I) \in Nat /\ Cardinality(B) \in Nat
    BY <1>5, <2>2, ZenonT(30)
  <2>5. S \subseteq I \cup B
    BY <2>1, ZenonT(30)
  <2>6. /\ IsFiniteSet(I \cup B) /\ Cardinality(I \cap B) \in Nat
        /\ Cardinality(I \cup B) = Cardinality(I) + Cardinality(B) - Cardinality(I \cap B)
    <3>1. IsFiniteSet(I \cap B)
      BY <2>4, FS_Subset, ZenonT(30)
    <3>2. /\ IsFiniteSet(I \cup B)
          /\ Cardinality(I \cup B) = Cardinality(I) + Cardinality(B) - Cardinality(I \cap B)
      BY <2>4, FS_Union, ZenonT(30)
    <3>. QED BY <3>1, <3>2, FS_CardinalityType, ZenonT(30)
  <2>7. Cardinality(S) <= Cardinality(I \cup B) /\ Cardinality(S) \in Nat
    BY <1>5, <1>9, <2>5, <2>6, FS_Subset, ZenonT(30)
  <2>8. limit \in Nat
    BY <1>1, ZenonT(30)
  <2>. QED BY <2>3, <2>4, <2>6, <2>7, <2>8
<1>11. CASE a < windowStart' - TicksPerSecond
  <2>1. now \in Nat /\ TicksPerSecond \in Nat /\ windowStart' \in Int /\ windowStart' <= now
    BY <1>5, ZenonT(30)
  <2>2. now # a /\ ~(now \in a .. a + TicksPerSecond)
    BY <1>7, <1>11, <2>1, Earlier, ZenonT(30)
  <2>3. i # n + 1
    BY <1>1, <1>7, <2>2, ZenonT(30)
  <2>4. i \in 1 .. n /\ log'[i] = log[i]
    BY <1>1, <1>3, <2>3, Upto, ZenonT(30)
  <2>5. n + 1 \notin S
    BY <1>1, <2>2, ZenonT(30) DEF letThrough
  <2>6. S = letThrough(x, a, a + TicksPerSecond)
    <3>. HIDE DEF S
    <3>. QED BY <1>9, <2>5, ZenonT(30)
  <2>7. x = log[i].host /\ a = log[i].at
    BY <1>7, <2>4, ZenonT(30)
  <2>8. Cardinality(letThrough(log[i].host, log[i].at, log[i].at + TicksPerSecond)) <= 2 * limit
    BY <1>3, <2>4, ZenonT(30) DEF AdmittedPerSecond
  <2>. HIDE DEF S
  <2>. QED BY <2>6, <2>7, <2>8, ZenonT(30)
<1>12. a >= windowStart' - TicksPerSecond \/ a < windowStart' - TicksPerSecond
  <2>1. a \in Nat /\ resetAt' \in Nat /\ TicksPerSecond \in Nat
    BY <1>5, <1>7, ZenonT(30)
  <2>2. windowStart' - TicksPerSecond \in Int
    BY <2>1 DEF windowStart
  <2>. QED BY <2>1, <2>2, Dichotomy
<1>. QED BY <1>10, <1>11, <1>12, ZenonT(30)

(* Limiter.Allow (ratelimit.go): in any second a host gets at most twice   *)
(* the limit through, whatever other hosts and the clock do, although      *)
(* windows are moved on only by requests.                                  *)
THEOREM LimitsRate == Spec => []AdmittedPerSecond
<1>1. AdmittedPerSecond /\ SeedOK /\ LimiterInv /\ LimiterInv' /\ [Next]_vars
        => AdmittedPerSecond'
  <2>. SUFFICES ASSUME AdmittedPerSecond, SeedOK, LimiterInv, LimiterInv', [Next]_vars
                PROVE  AdmittedPerSecond'
    BY ZenonT(30)
  <2>1. CASE UNCHANGED log
    <3>1. limit' = limit
      BY SeedKept, ZenonT(30) DEF limit
    <3>. QED BY <2>1, <3>1, ZenonT(30) DEF AdmittedPerSecond, letThrough
  <2>. QED BY <2>1, AdmittedStep, BootCases, ZenonT(30) DEF CreateToken, Pass
<1>. QED BY <1>1, LimiterInit, LimiterInvariant, SeedInvariant, PTL DEF Spec

(* A refusal means that counts has passed the limit in this window, which  *)
(* began within the last second: all the limit was let through in it.      *)
LEMMA RefusedStep ==
    ASSUME LimiterInv, LimiterInv', SeedOK, RefusalJustified,
           NEW h \in Hosts, NEW token, NEW role, GetConfig(h, token, role)
    PROVE  RefusalJustified'
<1>. DEFINE n == Len(log)
<1>1. /\ seedCfg.bootstrap.enabled /\ limit \in Nat /\ limit > 0
      /\ seedCfg' = seedCfg /\ now' = now
      /\ now > resetAt => counts'[h] = 1
      /\ now <= resetAt => resetAt' = resetAt /\ counts'[h] = counts[h] + 1
      /\ DOMAIN log' = 1 .. n + 1 /\ \A i \in 1 .. n : log'[i] = log[i]
      /\ log'[n + 1].host = h /\ log'[n + 1].at = now
      /\ log'[n + 1].allowed <=> counts'[h] <= limit
  BY Asked, ZenonT(30)
<1>2. limit' = limit
  BY <1>1, ZenonT(30) DEF limit
<1>3. n \in Nat /\ DOMAIN log = 1 .. n /\ \A i \in 1 .. n : log[i].at \in Nat
  BY Requests, ZenonT(30) DEF LimiterInv, Request
<1>4. SUFFICES ASSUME NEW i \in 1 .. n + 1, ~log'[i].allowed
               PROVE  Cardinality({j \in letThrough(log[i].host, log[i].at - TicksPerSecond,
                                                    log[i].at)' : j < i}) >= limit
  BY <1>1, <1>2, ZenonT(30) DEF RefusalJustified
<1>5. PICK x, a : log'[i].host = x /\ log'[i].at = a
  BY ZenonT(30)
<1>. DEFINE S == {j \in letThrough(x, a - TicksPerSecond, a)' : j < i}
<1>6. SUFFICES Cardinality(S) >= limit
  BY <1>5, ZenonT(30) DEF letThrough
<1>7. /\ letThrough(x, a - TicksPerSecond, a)' \ {n + 1} = letThrough(x, a - TicksPerSecond, a)
      /\ letThrough(x, a - TicksPerSecond, a)' \subseteq 1 .. n + 1
      /\ letThrough(x, a - TicksPerSecond, a) \subseteq 1 .. n
  BY AddedLast, ZenonT(30)
<1>8. CASE i \in 1 .. n
  <2>1. x = log[i].host /\ a = log[i].at /\ ~log[i].allowed
    BY <1>1, <1>4, <1>5, <1>8, ZenonT(30)
  <2>2. ~(n + 1 < i)
    BY <1>3, <1>8
  <2>3. S = {j \in letThrough(x, a - TicksPerSecond, a) : j < i}
    BY <1>7, <2>2, ZenonT(30)
  <2>. QED BY <1>3, <1>8, <2>1, <2>3, ZenonT(30) DEF RefusalJustified
<1>9. CASE i = n + 1
  <2>1. x = h /\ a = now /\ ~(counts'[h] <= limit)
    BY <1>1, <1>4, <1>5, <1>9, ZenonT(30)
  <2>2. now \in Nat /\ resetAt \in Nat /\ TicksPerSecond \in Nat /\ counts[h] \in Nat
    BY BootstrapAssumption, ZenonT(30) DEF LimiterInv, LimiterTypes
  <2>3. now <= resetAt /\ counts[h] >= limit
    BY <1>1, <2>1, <2>2
  <2>4. Cardinality(inWindow(h)) = limit
    <3>1. Cardinality(inWindow(h)) = IF counts[h] <= limit THEN counts[h] ELSE limit
      BY <1>1, ZenonT(30) DEF LimiterInv, WindowInv
    <3>2. limit \in Nat
      BY <1>1, ZenonT(30)
    <3>. QED BY <2>2, <2>3, <3>1, <3>2
  <2>5. inWindow(h) \subseteq letThrough(h, now - TicksPerSecond, now)
    <3>1. ASSUME NEW j \in inWindow(h)
          PROVE  j \in letThrough(h, now - TicksPerSecond, now)
      <4>1. j \in DOMAIN log /\ log[j].host = h /\ log[j].allowed /\ log[j].at >= resetAt - TicksPerSecond
        BY ZenonT(30) DEF inWindow, admitted, windowStart
      <4>2. log[j].at \in Nat /\ log[j].at <= now
        BY <1>3, <4>1, ZenonT(30) DEF LimiterInv, LogInv
      <4>3. log[j].at \in now - TicksPerSecond .. now
        BY <2>2, <2>3, <4>1, <4>2
      <4>. QED BY <4>1, <4>3, ZenonT(30) DEF letThrough
    <3>. QED BY <3>1, ZenonT(30)
  <2>6. \A j \in 1 .. n : j < i /\ j # n + 1
    BY <1>3, <1>9
  <2>7. inWindow(h) \subseteq S
    BY <1>7, <2>1, <2>5, <2>6, ZenonT(30)
  <2>8. S \in SUBSET (1 .. n + 1)
    BY <1>7, ZenonT(30)
  <2>. HIDE DEF S
  <2>9. IsFiniteSet(S) /\ Cardinality(S) \in Nat
    <3>1. IsFiniteSet(1 .. n + 1)
      BY <1>3, Upto, ZenonT(30)
    <3>. QED BY <2>8, <3>1, FS_Subset, FS_CardinalityType, ZenonT(30)
  <2>10. Cardinality(inWindow(h)) <= Cardinality(S)
    BY <2>7, <2>9, FS_Subset, ZenonT(30)
  <2>. QED BY <1>1, <2>4, <2>9, <2>10, ZenonT(30)
<1>10. i \in 1 .. n \/ i = n + 1
  BY <1>3
<1>. QED BY <1>8, <1>9, <1>10, ZenonT(30)

(* Limiter.Allow (ratelimit.go): a host is refused only when its full      *)
(* limit was let through in the second before, however often it, or        *)
(* others, were refused.                                                   *)
THEOREM RefusesOnlyFull == Spec => []RefusalJustified
<1>1. RefusalJustified /\ SeedOK /\ LimiterInv /\ LimiterInv' /\ [Next]_vars
        => RefusalJustified'
  <2>. SUFFICES ASSUME RefusalJustified, SeedOK, LimiterInv, LimiterInv', [Next]_vars
                PROVE  RefusalJustified'
    OBVIOUS
  <2>1. CASE UNCHANGED log
    <3>1. limit' = limit
      BY SeedKept DEF limit
    <3>. QED BY <2>1, <3>1, ZenonT(30) DEF RefusalJustified, letThrough
  <2>. QED BY <2>1, RefusedStep, BootCases, ZenonT(30) DEF CreateToken, Pass
<1>. QED BY <1>1, LimiterInit, LimiterInvariant, SeedInvariant, PTL DEF Spec
-----------------------------------------------------------------------------
(* The file is one that the seed rendered, completed or not.               *)
FileInv ==
    /\ local.nodeName \in Text /\ local.dataDir \in Text
    /\ file # NoFile => Joined(file, seedCfg, local)

LEMMA SeedWellFormed ==
    ASSUME SeedOK
    PROVE  WellFormed(seedCfg)
<1>1. PICK f \in Configs : Accepted(f) /\ seedCfg = Parse(f)
  BY DEF SeedOK
<1>2. f \in Document
  BY BootstrapAssumption
<1>. QED BY <1>1, <1>2, ParsedTypes, ZenonT(30)

(* Only the two roles, and none, are served a configuration.               *)
LEMMA ServedRole ==
    ASSUME NEW token, NEW role, code(token, role) = "OK"
    PROVE  role \in Roles \cup {""}
BY ZenonT(30) DEF code

LEMMA Served ==
    ASSUME SeedOK, NEW h, NEW token, NEW role, GetConfig(h, token, role)
    PROVE  file' = file \/ Joined(file', seedCfg, local)
<1>. DEFINE l == Allow([counts |-> counts, resetAt |-> resetAt], h, now)
            served == allowed(l, h) /\ code(token, role) = "OK"
            r == IF role = "" THEN "agent" ELSE role
<1>1. seedCfg.bootstrap.enabled /\ writeOut(served, role)
  BY ZenonT(30) DEF GetConfig
<1>2. CASE ~served
  BY <1>1, <1>2, ZenonT(30) DEF writeOut
<1>3. CASE served
  <2>1. r \in Roles
    BY <1>3, ServedRole, ZenonT(30) DEF Roles
  <2>2. file' = Render(seedCfg, r, advertised(seedCfg))
    BY <1>1, <1>3, ZenonT(30) DEF writeOut
  <2>. HIDE DEF r
  <2>3. WellFormed(seedCfg)
    BY SeedWellFormed, ZenonT(30)
  <2>4. advertised(seedCfg) \in SUBSET Text /\ advertised(seedCfg) # {}
    BY <1>1, <2>3, ZenonT(30) DEF advertised, WellFormed
  <2>5. Joined(Render(seedCfg, r, advertised(seedCfg)), seedCfg, local)
    BY <2>1, <2>3, <2>4, RenderedJoins, ZenonT(30)
  <2>. QED BY <2>2, <2>5, ZenonT(30)
<1>. QED BY <1>2, <1>3, ZenonT(30)

LEMMA FileNext == SeedOK /\ FileInv /\ [Next]_vars => FileInv'
<1>. SUFFICES ASSUME SeedOK, FileInv, [Next]_vars PROVE FileInv'
  OBVIOUS
<1>1. UNCHANGED <<seedCfg, local>>
  <2>1. UNCHANGED local
    <3>1. CASE UNCHANGED vars
      BY <3>1, ZenonT(30) DEF vars
    <3>2. ASSUME NEW role \in Roles \cup {""}, Load(role) PROVE UNCHANGED local
      BY <3>2, ZenonT(30) DEF Load
    <3>. QED BY <3>1, <3>2, ZenonT(30) DEF Next, Provision, Node, Operator
  <2>. QED BY <2>1, SeedKept, ZenonT(30)
<1>2. local'.nodeName \in Text /\ local'.dataDir \in Text
  BY <1>1, ZenonT(30) DEF FileInv
<1>3. file' = file \/ Joined(file', seedCfg, local)
  <2>1. CASE UNCHANGED vars
    BY <2>1, ZenonT(30) DEF vars, bootVars
  <2>2. CASE BootNext
    <3>1. ASSUME NEW h \in Hosts, NEW token \in tokens \cup {NoToken},
                 NEW role \in Roles \cup {"", "other"}, GetConfig(h, token, role)
          PROVE  file' = file \/ Joined(file', seedCfg, local)
      BY <3>1, Served, ZenonT(30)
    <3>. QED BY <2>2, <3>1, ZenonT(30) DEF BootNext, CreateToken, Pass
  <2>3. CASE Provision
    <3>1. file' = provisioned(file, local) /\ Joined(file, seedCfg, local)
      BY <2>3, ZenonT(30) DEF Provision, FileInv
    <3>2. Joined(provisioned(file, local), seedCfg, local)
      BY <3>1, CompletedJoins, ZenonT(30) DEF FileInv
    <3>. QED BY <3>1, <3>2, ZenonT(30)
  <2>4. ASSUME NEW role \in Roles \cup {""}, Load(role) PROVE file' = file
    BY <2>4, ZenonT(30) DEF Load, bootVars
  <2>5. CASE Node \/ Operator
    BY <2>5, ZenonT(30) DEF Node, Operator, bootVars
  <2>. QED BY <2>1, <2>2, <2>3, <2>4, <2>5, ZenonT(30) DEF Next
<1>4. file' # NoFile => Joined(file', seedCfg', local')
  BY <1>1, <1>3, ZenonT(30) DEF FileInv
<1>. QED BY <1>2, <1>4, ZenonT(30) DEF FileInv

LEMMA FileInit == Init => FileInv
<1>. SUFFICES ASSUME Init PROVE FileInv
  BY ZenonT(30)
<1>1. PICK f \in Configs : seedCfg = Parse(f)
  BY ZenonT(30) DEF Init, BootInit
<1>2. local \in [nodeName: Text, dataDir: Text]
  BY <1>1, LocalsAssumption, ZenonT(30) DEF Init
<1>. QED BY <1>2, ZenonT(30) DEF Init, BootInit, FileInv

LEMMA FileInvariant == Spec => []FileInv
BY FileInit, FileNext, SeedInvariant, PTL DEF Spec

(* GetConfig and Render (internal/bootstrap), yp bootstrap, then Load      *)
(* (config.go): whatever seed the file comes from, and whatever role was   *)
(* asked for, the node accepts it once the credentials are in it, and runs *)
(* with the settings of the seed.                                          *)
THEOREM JoinsAndStarts == Spec => []JoinedConfigStarts
<1>1. SeedOK /\ FileInv => JoinedConfigStarts
  <2>. SUFFICES ASSUME SeedOK, FileInv, file # NoFile
                PROVE  Accepted(provisioned(file, local)) /\ RunsLike(Parse(file), seedCfg)
    BY ZenonT(30) DEF JoinedConfigStarts, RunsLike
  <2>1. WellFormed(seedCfg) /\ Joined(file, seedCfg, local)
    BY SeedWellFormed, ZenonT(30) DEF FileInv
  <2>2. local.nodeName \in Text /\ local.dataDir \in Text
    BY ZenonT(30) DEF FileInv
  <2>. QED BY <2>1, <2>2, JoinedRuns, JoinedAccepted, ZenonT(30)
<1>. QED BY <1>1, SeedInvariant, FileInvariant, PTL
-----------------------------------------------------------------------------
(* The id a node runs under is the one its file names, or the one in the   *)
(* id file; while an id is being written, none was run under.              *)
theId == IF local.nodeName # "" THEN {local.nodeName} ELSE {idFile} \cap Nat

IdInv ==
    /\ fresh \in Nat /\ idFile \in {NoId, EmptyId} \cup Nat /\ DOMAIN node = {"pc", "id"}
    /\ Added(conf, local)
    /\ node.pc \in {"create", "write"} =>
         /\ conf.nodeName = "" /\ conf.dataDir # ""
         /\ node.id \in Nat /\ idFile \notin Nat
    /\ node.pc = "tls" /\ lasting(conf) => node.id \in theId
    /\ used \subseteq theId

(* A configuration that makes the id last holds what the operator added.   *)
LEMMA LastingAdded ==
    ASSUME IdInv, lasting(conf)
    PROVE  conf.nodeName = local.nodeName /\ conf.dataDir = local.dataDir
BY ZenonT(30) DEF IdInv, lasting, Added

LEMMA IdCases ==
    ASSUME [Next]_vars
    PROVE  /\ local' = local
           /\ \/ UNCHANGED <<idVars, conf>>
              \/ \E role \in Roles \cup {""} : Load(role)
              \/ /\ conf' = conf
                 /\ \/ ReadNodeId(conf.nodeName, conf.dataDir)
                    \/ CreateFile \/ WriteId \/ WriteFails
                    \/ Run(lasting(conf)) \/ Crash \/ LoseId
<1>1. CASE UNCHANGED vars
  BY <1>1, ZenonT(30) DEF vars, credVars, idVars
<1>2. CASE BootNext /\ UNCHANGED <<credVars, local, conf, starts>>
  BY <1>2, ZenonT(30) DEF credVars, idVars
<1>3. CASE Provision
  BY <1>3, ZenonT(30) DEF Provision, credVars, idVars
<1>4. ASSUME NEW role \in Roles \cup {""}, Load(role)
      PROVE  local' = local /\ \E r \in Roles \cup {""} : Load(r)
  <2>1. local' = local
    BY <1>4, ZenonT(30) DEF Load
  <2>. QED BY <1>4, <2>1, ZenonT(30)
<1>5. CASE Node
  <2>1. local' = local /\ conf' = conf
    BY <1>5, ZenonT(30) DEF Node
  <2>2. CASE OpenCerts(conf.tls.enabled)
    BY <2>1, <2>2, ZenonT(30) DEF OpenCerts, idVars
  <2>3. ASSUME NEW t \in Threads, reloadStep(t) PROVE UNCHANGED idVars
    BY <2>3, ZenonT(30) DEF reloadStep, LoadCert, LoadKey, Stat, Store
  <2>4. ASSUME NEW t \in Handshakes, Handshake(t) PROVE UNCHANGED idVars
    BY <2>4, ZenonT(30) DEF Handshake
  <2>5. UNCHANGED idVars => UNCHANGED <<idVars, conf>>
    BY <2>1, ZenonT(30)
  <2>. QED BY <1>5, <2>1, <2>2, <2>3, <2>4, <2>5, ZenonT(30) DEF Node
<1>6. CASE Operator
  <2>1. local' = local /\ conf' = conf
    BY <1>6, ZenonT(30) DEF Operator
  <2>2. UNCHANGED idVars \/ LoseId
    BY <1>6, ZenonT(30) DEF Operator, WriteCert, WriteKey
  <2>3. UNCHANGED idVars => UNCHANGED <<idVars, conf>>
    BY <2>1
  <2>. QED BY <2>1, <2>2, <2>3, ZenonT(30)
<1>. QED BY <1>1, <1>2, <1>3, <1>4, <1>5, <1>6, ZenonT(30) DEF Next

(* The role override of Load leaves the rest as it was parsed.             *)
LEMMA LoadKeeps ==
    ASSUME FileInv, NEW role, Load(role)
    PROVE  Added(conf', local)
<1>1. Joined(file, seedCfg, local)
  BY ZenonT(30) DEF Load, FileInv
<1>2. file \in Document /\ Added(file, local)
  BY <1>1, ZenonT(30) DEF Joined
<1>3. Parse(file).nodeName = file.nodeName /\ Parse(file).dataDir = file.dataDir
  BY <1>2, ParsedFields, ZenonT(30)
<1>4. /\ [Parse(file) EXCEPT !.role = role].nodeName = file.nodeName
      /\ [Parse(file) EXCEPT !.role = role].dataDir = file.dataDir
  BY <1>2 DEF Parse, applyDefaults, Document
<1>5. conf' = IF role = "" THEN Parse(file) ELSE [Parse(file) EXCEPT !.role = role]
  BY ZenonT(30) DEF Load
<1>6. conf'.nodeName = file.nodeName /\ conf'.dataDir = file.dataDir
  <2>1. CASE role = ""
    BY <1>3, <1>5, <2>1, ZenonT(30)
  <2>2. CASE role # ""
    BY <1>4, <1>5, <2>2, ZenonT(30)
  <2>. QED BY <2>1, <2>2, ZenonT(30)
<1>. QED BY <1>2, <1>6, ZenonT(30) DEF Added

LEMMA ReadStep ==
    ASSUME IdInv, local' = local, conf' = conf,
           ReadNodeId(conf.nodeName, conf.dataDir)
    PROVE  IdInv'
<1>1. /\ fresh \in Nat /\ idFile \in {NoId, EmptyId} \cup Nat /\ Added(conf, local)
      /\ used \subseteq theId
  BY ZenonT(30) DEF IdInv
<1>2. idFile' = idFile /\ used' = used
  BY ZenonT(30) DEF ReadNodeId
<1>3. theId' = theId
  BY <1>2, ZenonT(30) DEF theId
<1>4. CASE conf.nodeName # ""
  <2>1. node' = [pc |-> "tls", id |-> conf.nodeName] /\ fresh' = fresh
    <3>1. (CHOOSE i \in {conf.nodeName} : TRUE) = conf.nodeName
      BY ZenonT(30)
    <3>. QED BY <1>4, <3>1, ZenonT(30) DEF ReadNodeId
  <2>2. conf.nodeName = local.nodeName
    BY <1>4, LastingAdded, ZenonT(30) DEF lasting
  <2>3. conf.nodeName \in theId
    BY <1>4, <2>2, ZenonT(30) DEF theId
  <2>. QED BY <1>1, <1>2, <1>3, <2>1, <2>3, ZenonT(30) DEF IdInv
<1>5. CASE conf.nodeName = "" /\ conf.dataDir # "" /\ idFile \in Nat
  <2>1. node' = [pc |-> "tls", id |-> idFile] /\ fresh' = fresh
    <3>1. {idFile} \ {NoId, EmptyId} = {idFile}
      BY <1>5, CredentialsAssumption, ZenonT(30)
    <3>2. (CHOOSE i \in {idFile} : TRUE) = idFile
      BY ZenonT(30)
    <3>. QED BY <1>5, <3>1, <3>2, ZenonT(30) DEF ReadNodeId
  <2>2. local.nodeName = ""
    BY <1>5, LastingAdded, ZenonT(30) DEF lasting
  <2>3. idFile \in theId
    BY <1>5, <2>2, ZenonT(30) DEF theId
  <2>. QED BY <1>1, <1>2, <1>3, <2>1, <2>3, ZenonT(30) DEF IdInv
<1>6. CASE conf.nodeName = "" /\ conf.dataDir # "" /\ idFile \notin Nat
  <2>1. node' = [pc |-> "create", id |-> fresh + 1] /\ fresh' = fresh + 1
    <3>1. {idFile} \ {NoId, EmptyId} = {}
      BY <1>1, <1>6, ZenonT(30)
    <3>. QED BY <1>6, <3>1, ZenonT(30) DEF ReadNodeId
  <2>2. /\ node'.pc = "create" /\ node'.id \in Nat /\ DOMAIN node' = {"pc", "id"}
        /\ fresh' \in Nat
    BY <1>1, <2>1
  <2>. QED BY <1>1, <1>2, <1>3, <1>6, <2>2, ZenonT(30) DEF IdInv
<1>7. CASE conf.nodeName = "" /\ conf.dataDir = ""
  <2>1. node' = [pc |-> "tls", id |-> fresh + 1] /\ fresh' = fresh + 1
    BY <1>7, ZenonT(30) DEF ReadNodeId
  <2>2. ~lasting(conf)
    BY <1>7, ZenonT(30) DEF lasting
  <2>3. node'.pc = "tls" /\ DOMAIN node' = {"pc", "id"} /\ fresh' \in Nat
    BY <1>1, <2>1
  <2>. QED BY <1>1, <1>2, <1>3, <2>2, <2>3, ZenonT(30) DEF IdInv
<1>. QED BY <1>4, <1>5, <1>6, <1>7, ZenonT(30)

(* Nothing was run under while the id file holds no id.                    *)
LEMMA WriteSteps ==
    ASSUME IdInv, local' = local, conf' = conf, CreateFile \/ WriteId \/ WriteFails
    PROVE  IdInv'
<1>1. /\ node.pc \in {"create", "write"} /\ fresh' = fresh /\ used' = used
  BY ZenonT(30) DEF CreateFile, WriteId, WriteFails
<1>2. /\ conf.nodeName = "" /\ conf.dataDir # "" /\ node.id \in Nat /\ idFile \notin Nat
      /\ DOMAIN node = {"pc", "id"} /\ fresh \in Nat /\ Added(conf, local)
      /\ idFile \in {NoId, EmptyId} \cup Nat
  BY <1>1, ZenonT(30) DEF IdInv
<1>3. local.nodeName = ""
  BY <1>2, LastingAdded, ZenonT(30) DEF lasting
<1>4. used = {}
  BY <1>2, <1>3, ZenonT(30) DEF IdInv, theId
<1>5. CASE CreateFile
  <2>1. idFile' = EmptyId /\ node'.pc = "write" /\ node'.id = node.id /\ DOMAIN node' = {"pc", "id"}
    BY <1>2, <1>5, ZenonT(30) DEF CreateFile
  <2>2. EmptyId \notin Nat
    BY CredentialsAssumption, ZenonT(30)
  <2>. QED BY <1>1, <1>2, <1>4, <2>1, <2>2, ZenonT(30) DEF IdInv
<1>6. CASE WriteId
  <2>1. idFile' = node.id /\ node'.pc = "tls" /\ node'.id = node.id /\ DOMAIN node' = {"pc", "id"}
    BY <1>2, <1>6, ZenonT(30) DEF WriteId
  <2>2. node'.id \in theId'
    BY <1>2, <1>3, <2>1, ZenonT(30) DEF theId
  <2>. QED BY <1>1, <1>2, <1>4, <2>1, <2>2, ZenonT(30) DEF IdInv
<1>7. CASE WriteFails
  <2>1. idFile' = idFile /\ node'.pc = "down" /\ DOMAIN node' = {"pc", "id"}
    BY <1>2, <1>7, ZenonT(30) DEF WriteFails
  <2>. QED BY <1>1, <1>2, <1>4, <2>1, ZenonT(30) DEF IdInv
<1>. QED BY <1>5, <1>6, <1>7, ZenonT(30)

LEMMA RunSteps ==
    ASSUME IdInv, local' = local, conf' = conf, Run(lasting(conf)) \/ Crash \/ LoseId
    PROVE  IdInv'
<1>1. /\ fresh \in Nat /\ idFile \in {NoId, EmptyId} \cup Nat /\ Added(conf, local)
      /\ DOMAIN node = {"pc", "id"} /\ used \subseteq theId
  BY ZenonT(30) DEF IdInv
<1>2. CASE Run(lasting(conf))
  <2>1. /\ idFile' = idFile /\ fresh' = fresh /\ node.pc = "tls"
        /\ node'.pc \in {"up", "down"} /\ DOMAIN node' = {"pc", "id"}
    BY <1>1, <1>2, ZenonT(30) DEF Run
  <2>2. theId' = theId
    BY <2>1, ZenonT(30) DEF theId
  <2>3. used' \subseteq theId
    <3>1. used' = used \/ (lasting(conf) /\ used' = used \cup {node.id})
      BY <1>2, ZenonT(30) DEF Run
    <3>2. lasting(conf) => node.id \in theId
      BY <2>1, ZenonT(30) DEF IdInv
    <3>. QED BY <1>1, <3>1, <3>2, ZenonT(30)
  <2>. QED BY <1>1, <2>1, <2>2, <2>3, ZenonT(30) DEF IdInv
<1>3. CASE Crash
  <2>1. /\ idFile' = idFile /\ fresh' = fresh /\ used' = used
        /\ node'.pc = "down" /\ DOMAIN node' = {"pc", "id"}
    BY <1>1, <1>3, ZenonT(30) DEF Crash
  <2>2. theId' = theId
    BY <2>1, ZenonT(30) DEF theId
  <2>. QED BY <1>1, <2>1, <2>2, ZenonT(30) DEF IdInv
<1>4. CASE LoseId
  <2>1. idFile' = NoId /\ fresh' = fresh /\ used' = {} /\ node' = node /\ node.pc \in {"up", "down"}
    BY <1>4, ZenonT(30) DEF LoseId
  <2>. QED BY <1>1, <2>1, ZenonT(30) DEF IdInv
<1>. QED BY <1>2, <1>3, <1>4, ZenonT(30)

LEMMA IdNext == FileInv /\ IdInv /\ [Next]_vars => IdInv'
<1>. SUFFICES ASSUME FileInv, IdInv, [Next]_vars PROVE IdInv'
  OBVIOUS
<1>1. local' = local
  BY IdCases, ZenonT(30)
<1>2. CASE UNCHANGED <<idVars, conf>>
  BY <1>1, <1>2, ZenonT(30) DEF idVars, IdInv, theId
<1>3. ASSUME NEW role \in Roles \cup {""}, Load(role) PROVE IdInv'
  <2>1. Added(conf', local')
    BY <1>1, <1>3, LoadKeeps, ZenonT(30)
  <2>2. /\ node' = [pc |-> "start", id |-> NoId] /\ idFile' = idFile /\ fresh' = fresh
        /\ used' = used
    BY <1>3, ZenonT(30) DEF Load, Start
  <2>3. theId' = theId
    BY <1>1, <2>2, ZenonT(30) DEF theId
  <2>. QED BY <2>1, <2>2, <2>3, ZenonT(30) DEF IdInv
<1>. QED BY <1>1, <1>2, <1>3, IdCases, ReadStep, WriteSteps, RunSteps, ZenonT(30)

LEMMA IdInit == Init => IdInv
<1>. SUFFICES ASSUME Init PROVE IdInv
  OBVIOUS
<1>1. /\ fresh = 0 /\ idFile = NoId /\ used = {} /\ node = [pc |-> "down", id |-> NoId]
      /\ conf = Blank
  BY ZenonT(30) DEF Init, CredInit
<1>2. Added(conf, local)
  BY <1>1, ZenonT(30) DEF Added, Blank
<1>. QED BY <1>1, <1>2, ZenonT(30) DEF IdInv

(* NodeID (nodeid.go): a node whose file names it or its data directory    *)
(* runs under one id until the id file is lost, wherever it crashes or its *)
(* disk fails.                                                             *)
THEOREM KeepsIdentity == Spec => []OneIdentity
<1>1. IdInv => OneIdentity
  <2>. SUFFICES ASSUME IdInv PROVE Cardinality(used) <= 1
    BY ZenonT(30) DEF OneIdentity
  <2>1. PICK i : used \subseteq {i}
    BY ZenonT(30) DEF IdInv, theId
  <2>2. IsFiniteSet({i}) /\ Cardinality({i}) = 1
    BY FS_Singleton, ZenonT(30)
  <2>3. Cardinality(used) \in Nat /\ Cardinality(used) <= Cardinality({i})
    BY <2>1, <2>2, FS_Subset, FS_CardinalityType, ZenonT(30)
  <2>. QED BY <2>2, <2>3, ZenonT(30)
<1>. QED BY <1>1, IdInit, IdNext, FileInvariant, PTL DEF Spec
-----------------------------------------------------------------------------
(* The files and the steps of reloads.                                     *)
File == [k: Keys \cup {0}, mod: Nat \ {0}]
Reload == [pc: {"idle", "load cert", "load key", "stat", "store", "done", "failed"},
           cert: Nat, k: Keys \cup {0}, key: Keys \cup {0}, mods: Int \X Int]

ReloadTypes ==
    /\ certFile \in File /\ keyFile \in File
    /\ cached \in [cert: Nat, k: Keys \cup {0}, key: Keys \cup {0}]
    /\ modCert \in Int /\ modKey \in Int
    /\ load \in [Threads -> Reload]
    /\ quiet \subseteq Threads /\ raced \in BOOLEAN

(* What was compared is what is stored, and it was read before its times   *)
(* were taken.                                                             *)
PairInv ==
    /\ cached.k = cached.key
    /\ \A t \in Threads : load[t].pc \in {"stat", "store"} => load[t].k = load[t].key

TimesInv ==
    /\ modCert <= certFile.mod /\ modKey <= keyFile.mod
    /\ \A t \in Threads :
         load[t].pc = "store" =>
           load[t].mods[1] <= certFile.mod /\ load[t].mods[2] <= keyFile.mod

(* Unless a write fell into a reload, what a reload has read is on disk,   *)
(* what is recorded as loaded is cached, and a handshake that no write     *)
(* overlapped has found the times of the files recorded.                   *)
Current(l) ==
    /\ l.pc \in {"load key", "stat", "store"} =>
         exists(certFile) /\ l.cert = certFile.mod /\ l.k = certFile.k
    /\ l.pc \in {"stat", "store"} => exists(keyFile) /\ l.key = keyFile.k
    /\ l.pc = "store" => l.mods = <<certFile.mod, keyFile.mod>>

Recorded == modCert = certFile.mod /\ modKey = keyFile.mod

Loaded(t) ==
    load[t].pc = "done" /\ t \in quiet /\ exists(certFile) /\ certFile.k = keyFile.k
      => Recorded

RotationInv ==
    ~raced =>
      /\ \A t \in Threads : Current(load[t])
      /\ Recorded => cached.cert = certFile.mod /\ cached.key = keyFile.k
      /\ \A t \in Handshakes : Loaded(t)

ReloadInv == ReloadTypes /\ PairInv /\ TimesInv /\ RotationInv
reloadVars == <<files, tlsVars>>

(* A step changes the files or the reloader's state by one of these.       *)
LEMMA ReloadCases ==
    ASSUME [Next]_vars
    PROVE  \/ UNCHANGED reloadVars
           \/ \E t \in Handshakes : Handshake(t)
           \/ \E t \in Threads : reloadStep(t)
           \/ \E tls \in {conf.tls.enabled} : OpenCerts(tls)
           \/ \E p \in {lasting(conf)} : Run(p)
           \/ Crash
           \/ \E k \in Keys \cup {0} : WriteCert(k) \/ WriteKey(k)
<1>1. CASE UNCHANGED vars
  BY <1>1, ZenonT(30) DEF vars, credVars, reloadVars, files, tlsVars
<1>2. CASE BootNext /\ UNCHANGED <<credVars, local, conf, starts>>
  BY <1>2, ZenonT(30) DEF credVars, reloadVars, files, tlsVars
<1>3. CASE Provision
  BY <1>3, ZenonT(30) DEF Provision, credVars, reloadVars, files, tlsVars
<1>4. ASSUME NEW role \in Roles \cup {""}, Load(role) PROVE UNCHANGED reloadVars
  BY <1>4, ZenonT(30) DEF Load, Start, reloadVars, files, tlsVars
<1>5. CASE Node
  BY <1>5, ZenonT(30) DEF Node, ReadNodeId, CreateFile, WriteId, WriteFails, reloadVars
<1>6. CASE Operator
  BY <1>6, ZenonT(30) DEF Operator, LoseId, reloadVars
<1>. QED BY <1>1, <1>2, <1>3, <1>4, <1>5, <1>6, ZenonT(30) DEF Next

(* A thread's step: what becomes of it, and that the others keep theirs.   *)
LEMMA OneTurn ==
    ASSUME ReloadTypes, NEW t \in Threads, NEW l \in Reload, load' = [load EXCEPT ![t] = l]
    PROVE  /\ load' \in [Threads -> Reload] /\ load'[t] = l
           /\ \A u \in Threads : u # t => load'[u] = load[u]
BY ZenonT(30) DEF ReloadTypes

LEMMA ReloadFields ==
    ASSUME ReloadTypes, NEW t \in Threads
    PROVE  /\ load[t] \in Reload
           /\ load[t].cert \in Nat /\ load[t].k \in Keys \cup {0}
           /\ load[t].key \in Keys \cup {0} /\ load[t].mods \in Int \X Int
BY ZenonT(30) DEF ReloadTypes, Reload

LEMMA LoadCertTurn ==
    ASSUME ReloadTypes, NEW t \in Threads, LoadCert(t)
    PROVE  \E l \in Reload :
             /\ load' = [load EXCEPT ![t] = l]
             /\ \/ /\ exists(certFile) /\ l.pc = "load key"
                   /\ l.cert = certFile.mod /\ l.k = certFile.k
                \/ ~exists(certFile) /\ l.pc \in {"done", "failed"}
<1>. DEFINE a == [load[t] EXCEPT !.pc = "load key", !.cert = certFile.mod, !.k = certFile.k]
            pc == IF t = Main THEN "failed" ELSE "done"
            b == [load[t] EXCEPT !.pc = pc]
<1>1. load[t] \in Reload /\ certFile.mod \in Nat /\ certFile.k \in Keys \cup {0}
  BY ReloadFields, ZenonT(30) DEF ReloadTypes, File
<1>2. CASE exists(certFile)
  <2>1. load' = [load EXCEPT ![t] = a]
    BY <1>2, ZenonT(30) DEF LoadCert, ReloadTypes
  <2>2. a \in Reload /\ a.pc = "load key" /\ a.cert = certFile.mod /\ a.k = certFile.k
    BY <1>1, ZenonT(30) DEF Reload
  <2>. QED BY <2>1, <2>2, <1>2, ZenonT(30)
<1>3. CASE ~exists(certFile)
  <2>1. load' = [load EXCEPT ![t] = b]
    BY <1>3, ZenonT(30) DEF LoadCert, giveUp, ReloadTypes
  <2>2. b \in Reload /\ b.pc \in {"done", "failed"}
    BY <1>1, ZenonT(30) DEF Reload
  <2>. QED BY <2>1, <2>2, <1>3, ZenonT(30)
<1>. QED BY <1>2, <1>3, ZenonT(30)

LEMMA LoadKeyTurn ==
    ASSUME ReloadTypes, NEW t \in Threads, LoadKey(t)
    PROVE  \E l \in Reload :
             /\ load' = [load EXCEPT ![t] = l]
             /\ l.cert = load[t].cert /\ l.k = load[t].k
             /\ \/ /\ exists(keyFile) /\ keyFile.k = load[t].k
                   /\ l.pc = "stat" /\ l.key = keyFile.k
                \/ /\ ~(exists(keyFile) /\ keyFile.k = load[t].k)
                   /\ l.pc \in {"done", "failed"}
<1>. DEFINE a == [load[t] EXCEPT !.pc = "stat", !.key = keyFile.k]
            pc == IF t = Main THEN "failed" ELSE "done"
            b == [load[t] EXCEPT !.pc = pc]
<1>1. load[t] \in Reload /\ keyFile.k \in Keys \cup {0}
  BY ReloadFields, ZenonT(30) DEF ReloadTypes, File
<1>2. CASE exists(keyFile) /\ keyFile.k = load[t].k
  <2>1. load' = [load EXCEPT ![t] = a]
    BY <1>2, ZenonT(30) DEF LoadKey, ReloadTypes
  <2>2. a \in Reload /\ a.pc = "stat" /\ a.key = keyFile.k
        /\ a.cert = load[t].cert /\ a.k = load[t].k
    BY <1>1, ZenonT(30) DEF Reload
  <2>. QED BY <2>1, <2>2, <1>2, ZenonT(30)
<1>3. CASE ~(exists(keyFile) /\ keyFile.k = load[t].k)
  <2>1. load' = [load EXCEPT ![t] = b]
    BY <1>3, ZenonT(30) DEF LoadKey, giveUp, ReloadTypes
  <2>2. b \in Reload /\ b.pc \in {"done", "failed"} /\ b.cert = load[t].cert /\ b.k = load[t].k
    BY <1>1, ZenonT(30) DEF Reload
  <2>. QED BY <2>1, <2>2, <1>3, ZenonT(30)
<1>. QED BY <1>2, <1>3, ZenonT(30)

LEMMA StatTurn ==
    ASSUME ReloadTypes, NEW t \in Threads, Stat(t)
    PROVE  \E l \in Reload :
             /\ load' = [load EXCEPT ![t] = l]
             /\ l.pc = "store" /\ l.cert = load[t].cert /\ l.k = load[t].k
             /\ l.key = load[t].key
             /\ l.mods = <<IF exists(certFile) THEN certFile.mod ELSE -1,
                           IF exists(keyFile) THEN keyFile.mod ELSE -1>>
<1>. DEFINE x == IF exists(certFile) THEN certFile.mod ELSE -1
            y == IF exists(keyFile) THEN keyFile.mod ELSE -1
            m == <<x, y>>
            a == [load[t] EXCEPT !.pc = "store", !.mods = m]
<1>1. load[t] \in Reload /\ m \in Int \X Int
  <2>1. x \in Int /\ y \in Int
    BY DEF ReloadTypes, File, exists
  <2>. HIDE DEF x, y
  <2>. QED BY <2>1, ReloadFields, ZenonT(30)
<1>2. load' = [load EXCEPT ![t] = a]
  BY ZenonT(30) DEF Stat, ReloadTypes
<1>. HIDE DEF m
<1>3. a \in Reload /\ a.pc = "store" /\ a.cert = load[t].cert /\ a.k = load[t].k
      /\ a.key = load[t].key /\ a.mods = m
  BY <1>1, ZenonT(30) DEF Reload
<1>. QED BY <1>2, <1>3, ZenonT(30) DEF m

LEMMA StoreTurn ==
    ASSUME ReloadTypes, NEW t \in Threads, Store(t)
    PROVE  \E l \in Reload : load' = [load EXCEPT ![t] = l] /\ l.pc = "done"
<1>. DEFINE a == [load[t] EXCEPT !.pc = "done"]
<1>1. load[t] \in Reload
  BY ReloadFields, ZenonT(30)
<1>2. load' = [load EXCEPT ![t] = a] /\ a \in Reload /\ a.pc = "done"
  BY <1>1, ZenonT(30) DEF Store, ReloadTypes, Reload
<1>. QED BY <1>2, ZenonT(30)

LEMMA IdleTyped == Idle \in Reload /\ Idle.pc = "idle"
BY DEF Idle, Reload

(* What the invariants ask of a thread.                                    *)
Turn(l) ==
    /\ l.pc \in {"stat", "store"} => l.k = l.key
    /\ l.pc = "store" => l.mods[1] <= certFile.mod /\ l.mods[2] <= keyFile.mod
    /\ ~raced => Current(l)

LEMMA Turns ==
    /\ ReloadInv => \A t \in Threads : Turn(load[t])
    /\ (\A t \in Threads : Turn(load[t])) <=>
         /\ \A t \in Threads : load[t].pc \in {"stat", "store"} => load[t].k = load[t].key
         /\ \A t \in Threads :
              load[t].pc = "store" =>
                load[t].mods[1] <= certFile.mod /\ load[t].mods[2] <= keyFile.mod
         /\ ~raced => \A t \in Threads : Current(load[t])
BY ZenonT(30) DEF ReloadInv, PairInv, TimesInv, RotationInv, Turn

LEMMA SameTurn ==
    ASSUME certFile' = certFile, keyFile' = keyFile, raced' = raced, NEW u, Turn(load'[u])
    PROVE  Turn(load[u])'
BY ZenonT(30) DEF Turn, Current, exists

LEMMA NoPairTyped ==
    NoPair \in [cert: Nat, k: Keys \cup {0}, key: Keys \cup {0}] /\ NoPair.k = NoPair.key
BY ZenonT(30) DEF NoPair

(* The reloader's state after a thread's step that leaves the rest alone.  *)
LEMMA TurnKeeps ==
    ASSUME ReloadInv, NEW t \in Threads, NEW l \in Reload, load' = [load EXCEPT ![t] = l],
           UNCHANGED <<files, pair, raced>>, quiet' \in {quiet, quiet \cup {t}},
           Turn(l),
           ~raced /\ t \in Handshakes /\ l.pc = "done" /\ t \in quiet' /\ exists(certFile)
             /\ certFile.k = keyFile.k => Recorded
    PROVE  ReloadInv'
<1>1. /\ load' \in [Threads -> Reload] /\ load'[t] = l
      /\ \A u \in Threads : u # t => load'[u] = load[u]
  BY OneTurn, ZenonT(30) DEF ReloadInv
<1>2. /\ certFile' = certFile /\ keyFile' = keyFile /\ cached' = cached
      /\ modCert' = modCert /\ modKey' = modKey /\ raced' = raced
  BY ZenonT(30) DEF files, pair
<1>3. \A u \in Threads : Turn(load[u])
  BY Turns, ZenonT(30)
<1>4. \A u \in Threads : Turn(load[u])'
  <2>1. SUFFICES ASSUME NEW u \in Threads PROVE Turn(load[u])'
    BY ZenonT(30)
  <2>2. Turn(load'[u])
    BY <1>1, <1>3, ZenonT(30)
  <2>. QED BY <2>2, <1>2, SameTurn, ZenonT(30)
<1>5. ReloadTypes'
  <2>1. quiet' \subseteq Threads
    BY ZenonT(30) DEF ReloadInv, ReloadTypes
  <2>. QED BY <1>1, <1>2, <2>1, ZenonT(30) DEF ReloadInv, ReloadTypes
<1>6. PairInv' /\ TimesInv'
  <2>1. PairInv'
    BY <1>2, <1>4, ZenonT(30) DEF ReloadInv, PairInv, Turn
  <2>2. TimesInv'
    BY <1>2, <1>4, ZenonT(30) DEF ReloadInv, TimesInv, Turn
  <2>. QED BY <2>1, <2>2, ZenonT(30)
<1>7. RotationInv'
  <2>1. SUFFICES ASSUME ~raced
                 PROVE  /\ \A u \in Threads : Current(load[u])'
                        /\ (Recorded => cached.cert = certFile.mod /\ cached.key = keyFile.k)'
                        /\ \A u \in Handshakes : Loaded(u)'
    BY <1>2 DEF RotationInv
  <2>2. \A u \in Threads : Current(load[u])'
    BY <1>2, <1>4, <2>1 DEF Turn
  <2>3. (Recorded => cached.cert = certFile.mod /\ cached.key = keyFile.k)'
    BY <1>2, <2>1, ZenonT(30) DEF ReloadInv, RotationInv, Recorded
  <2>4. ASSUME NEW u \in Handshakes PROVE Loaded(u)'
    <3>1. u \in Threads /\ Loaded(u)
      BY <2>1, <2>4, ZenonT(30) DEF ReloadInv, RotationInv, Threads
    <3>2. CASE u = t
      BY <1>1, <1>2, <2>1, <2>4, <3>2, ZenonT(30) DEF Loaded, Recorded, exists
    <3>3. CASE u # t
      <4>1. load'[u] = load[u] /\ (u \in quiet' <=> u \in quiet)
        BY <1>1, <3>1, <3>3, ZenonT(30)
      <4>. QED BY <4>1, <1>2, <3>1, ZenonT(30) DEF Loaded, Recorded, exists
    <3>. QED BY <3>2, <3>3, ZenonT(30)
  <2>. QED BY <2>2, <2>3, <2>4, ZenonT(30)
<1>. QED BY <1>5, <1>6, <1>7, ZenonT(30) DEF ReloadInv

LEMMA HandshakeStep ==
    ASSUME ReloadInv, NEW t \in Handshakes, Handshake(t)
    PROVE  ReloadInv'
<1>. DEFINE pc == IF changed THEN "load cert" ELSE "done"
            l == [Idle EXCEPT !.pc = pc]
<1>1. t \in Threads /\ pc \in {"load cert", "done"}
  BY ZenonT(30) DEF Threads
<1>2. load' = [load EXCEPT ![t] = l] /\ quiet' = quiet \cup {t} /\ UNCHANGED <<files, pair, raced>>
  BY ZenonT(30) DEF Handshake
<1>3. ~changed /\ exists(certFile) /\ certFile.k = keyFile.k => Recorded
  BY ZenonT(30) DEF changed, Recorded, exists
<1>4. pc = "done" => ~changed
  BY ZenonT(30)
<1>. HIDE DEF pc
<1>5. l \in Reload /\ l.pc = pc
  BY <1>1, IdleTyped, ZenonT(30) DEF Reload
<1>. HIDE DEF l
<1>6. Turn(l)
  BY <1>1, <1>5, ZenonT(30) DEF Turn, Current
<1>. QED BY <1>1, <1>2, <1>3, <1>4, <1>5, <1>6, TurnKeeps, ZenonT(30)

LEMMA LoadCertStep ==
    ASSUME ReloadInv, NEW t \in Threads, LoadCert(t)
    PROVE  ReloadInv'
<1>1. PICK l \in Reload :
        /\ load' = [load EXCEPT ![t] = l]
        /\ \/ /\ exists(certFile) /\ l.pc = "load key"
              /\ l.cert = certFile.mod /\ l.k = certFile.k
           \/ ~exists(certFile) /\ l.pc \in {"done", "failed"}
  BY LoadCertTurn, ZenonT(30) DEF ReloadInv
<1>2. UNCHANGED <<files, pair, raced>> /\ quiet' = quiet
  BY ZenonT(30) DEF LoadCert
<1>3. Turn(l)
  BY <1>1, ZenonT(30) DEF Turn, Current
<1>4. l.pc = "done" => ~exists(certFile)
  BY <1>1, ZenonT(30)
<1>. QED BY <1>1, <1>2, <1>3, <1>4, TurnKeeps, ZenonT(30)

LEMMA LoadKeyStep ==
    ASSUME ReloadInv, NEW t \in Threads, LoadKey(t)
    PROVE  ReloadInv'
<1>1. PICK l \in Reload :
        /\ load' = [load EXCEPT ![t] = l]
        /\ l.cert = load[t].cert /\ l.k = load[t].k
        /\ \/ /\ exists(keyFile) /\ keyFile.k = load[t].k
              /\ l.pc = "stat" /\ l.key = keyFile.k
           \/ /\ ~(exists(keyFile) /\ keyFile.k = load[t].k)
              /\ l.pc \in {"done", "failed"}
  BY LoadKeyTurn, ZenonT(30) DEF ReloadInv
<1>2. UNCHANGED <<files, pair, raced>> /\ quiet' = quiet /\ load[t].pc = "load key"
  BY ZenonT(30) DEF LoadKey
<1>3. Turn(load[t])
  BY Turns, ZenonT(30)
<1>4. Turn(l)
  BY <1>1, <1>2, <1>3, ZenonT(30) DEF Turn, Current
<1>5. ~raced /\ l.pc = "done" /\ exists(certFile) => certFile.k # keyFile.k
  BY <1>1, <1>2, <1>3, ZenonT(30) DEF Turn, Current, exists
<1>. QED BY <1>1, <1>2, <1>4, <1>5, TurnKeeps, ZenonT(30)

LEMMA StatStep ==
    ASSUME ReloadInv, NEW t \in Threads, Stat(t)
    PROVE  ReloadInv'
<1>1. PICK l \in Reload :
        /\ load' = [load EXCEPT ![t] = l]
        /\ l.pc = "store" /\ l.cert = load[t].cert /\ l.k = load[t].k
        /\ l.key = load[t].key
        /\ l.mods = <<IF exists(certFile) THEN certFile.mod ELSE -1,
                      IF exists(keyFile) THEN keyFile.mod ELSE -1>>
  BY StatTurn, ZenonT(30) DEF ReloadInv
<1>2. UNCHANGED <<files, pair, raced>> /\ quiet' = quiet /\ load[t].pc = "stat"
  BY ZenonT(30) DEF Stat
<1>3. Turn(load[t])
  BY Turns
<1>4. l.mods[1] <= certFile.mod /\ l.mods[2] <= keyFile.mod
  <2>. DEFINE x == IF exists(certFile) THEN certFile.mod ELSE -1
              y == IF exists(keyFile) THEN keyFile.mod ELSE -1
  <2>1. x <= certFile.mod /\ y <= keyFile.mod
    BY DEF ReloadInv, ReloadTypes, File, exists
  <2>2. l.mods = <<x, y>>
    BY <1>1, ZenonT(30)
  <2>. HIDE DEF x, y
  <2>. QED BY <2>1, <2>2
<1>5. ~raced => Current(l)
  BY <1>1, <1>2, <1>3, ZenonT(30) DEF Turn, Current
<1>6. Turn(l)
  BY <1>1, <1>2, <1>3, <1>4, <1>5, ZenonT(30) DEF Turn
<1>. QED BY <1>1, <1>2, <1>6, TurnKeeps, ZenonT(30)

(* What a store keeps is what was compared, so it is a pair; unless a      *)
(* write fell into the reload it is the pair on disk.                      *)
LEMMA StoreStep ==
    ASSUME ReloadInv, NEW t \in Threads, Store(t)
    PROVE  ReloadInv'
<1>1. PICK l \in Reload : load' = [load EXCEPT ![t] = l] /\ l.pc = "done"
  BY StoreTurn, ZenonT(30) DEF ReloadInv
<1>2. /\ load' \in [Threads -> Reload] /\ load'[t] = l
      /\ \A u \in Threads : u # t => load'[u] = load[u]
  BY <1>1, OneTurn, ZenonT(30) DEF ReloadInv
<1>3. /\ certFile' = certFile /\ keyFile' = keyFile /\ quiet' = quiet /\ raced' = raced
      /\ load[t].pc = "store"
      /\ cached' = [cert |-> load[t].cert, k |-> load[t].k, key |-> load[t].key]
      /\ modCert' = IF load[t].mods[1] = -1 THEN modCert ELSE load[t].mods[1]
      /\ modKey' = IF load[t].mods[2] = -1 THEN modKey ELSE load[t].mods[2]
  BY ZenonT(30) DEF Store, files
<1>4. \A u \in Threads : Turn(load[u])
  BY Turns, ZenonT(30)
<1>5. \A u \in Threads : Turn(load[u])'
  <2>1. SUFFICES ASSUME NEW u \in Threads PROVE Turn(load[u])'
    BY ZenonT(30)
  <2>2. Turn(load'[u])
    BY <1>1, <1>2, <1>4, ZenonT(30) DEF Turn, Current
  <2>. QED BY <2>2, <1>3, SameTurn, ZenonT(30)
<1>6. /\ load[t].cert \in Nat /\ load[t].k \in Keys \cup {0} /\ load[t].key \in Keys \cup {0}
      /\ load[t].mods[1] \in Int /\ load[t].mods[2] \in Int
      /\ load[t].k = load[t].key
      /\ load[t].mods[1] <= certFile.mod /\ load[t].mods[2] <= keyFile.mod
  BY <1>3, <1>4, ReloadFields, ZenonT(30) DEF ReloadInv, Turn
<1>7. /\ modCert' \in Int /\ modKey' \in Int /\ modCert' <= certFile.mod /\ modKey' <= keyFile.mod
      /\ cached' \in [cert: Nat, k: Keys \cup {0}, key: Keys \cup {0}]
      /\ cached'.cert = load[t].cert /\ cached'.k = load[t].k /\ cached'.key = load[t].key
  BY <1>3, <1>6, ZenonT(30) DEF ReloadInv, ReloadTypes, TimesInv
<1>8. ReloadTypes'
  BY <1>2, <1>3, <1>7, ZenonT(30) DEF ReloadInv, ReloadTypes
<1>9. PairInv' /\ TimesInv'
  BY <1>3, <1>5, <1>6, <1>7, ZenonT(30) DEF PairInv, TimesInv, Turn
<1>10. RotationInv'
  <2>1. SUFFICES ASSUME ~raced
                 PROVE  /\ \A u \in Threads : Current(load[u])'
                        /\ (Recorded => cached.cert = certFile.mod /\ cached.key = keyFile.k)'
                        /\ \A u \in Handshakes : Loaded(u)'
    BY <1>3, ZenonT(30) DEF RotationInv
  <2>2. \A u \in Threads : Current(load[u])'
    BY <1>3, <1>5, <2>1, ZenonT(30) DEF Turn
  <2>3. /\ load[t].cert = certFile.mod /\ load[t].key = keyFile.k
        /\ load[t].mods = <<certFile.mod, keyFile.mod>>
    BY <1>3, <1>4, <2>1, ZenonT(30) DEF Turn, Current
  <2>4. modCert' = certFile.mod /\ modKey' = keyFile.mod
    BY <1>3, <2>3 DEF ReloadInv, ReloadTypes, File
  <2>. QED BY <1>3, <1>7, <2>2, <2>3, <2>4, ZenonT(30) DEF Recorded, Loaded
<1>. QED BY <1>8, <1>9, <1>10, ZenonT(30) DEF ReloadInv

LEMMA OpenRunCrash ==
    ASSUME ReloadInv,
           \/ \E tls \in {conf.tls.enabled} : OpenCerts(tls)
           \/ \E p \in {lasting(conf)} : Run(p)
           \/ Crash
    PROVE  ReloadInv'
<1>1. Main \in Threads /\ Main \notin Handshakes
  BY CredentialsAssumption, ZenonT(30) DEF Threads, Main
<1>2. ASSUME NEW tls \in {conf.tls.enabled}, OpenCerts(tls) PROVE ReloadInv'
  <2>. DEFINE pc == IF tls THEN "load cert" ELSE "done"
              l == [load[Main] EXCEPT !.pc = pc]
  <2>1. load' = [load EXCEPT ![Main] = l] /\ UNCHANGED <<files, pair, raced>> /\ quiet' = quiet
    BY <1>2, ZenonT(30) DEF OpenCerts, ReloadInv, ReloadTypes
  <2>2. pc \in {"load cert", "done"} /\ load[Main] \in Reload
    BY <1>1, ReloadFields, ZenonT(30) DEF ReloadInv
  <2>. HIDE DEF pc
  <2>3. l \in Reload /\ l.pc = pc
    BY <2>2, ZenonT(30) DEF Reload
  <2>. HIDE DEF l
  <2>4. Turn(l)
    BY <2>2, <2>3, ZenonT(30) DEF Turn, Current
  <2>. QED BY <1>1, <2>1, <2>3, <2>4, TurnKeeps, ZenonT(30)
<1>3. ASSUME NEW p \in {lasting(conf)}, Run(p) PROVE ReloadInv'
  <2>1. load' = [load EXCEPT ![Main] = Idle] /\ UNCHANGED <<files, pair, raced>> /\ quiet' = quiet
    BY <1>3, ZenonT(30) DEF Run
  <2>2. Turn(Idle)
    BY IdleTyped, ZenonT(30) DEF Turn, Current
  <2>. QED BY <1>1, <2>1, <2>2, IdleTyped, TurnKeeps, ZenonT(30)
<1>4. CASE Crash
  <2>1. /\ certFile' = certFile /\ keyFile' = keyFile
        /\ cached' = NoPair /\ modCert' = 0 /\ modKey' = 0
        /\ load' = [u \in Threads |-> Idle] /\ quiet' = {} /\ raced' = FALSE
    BY <1>4, ZenonT(30) DEF Crash, files
  <2>2. \A u \in Threads : load'[u].pc = "idle"
    BY <2>1, IdleTyped, ZenonT(30)
  <2>3. ReloadTypes'
    <3>1. load' \in [Threads -> Reload] /\ modCert' \in Int /\ modKey' \in Int
      BY <2>1, IdleTyped
    <3>. QED BY <2>1, <3>1, NoPairTyped, ZenonT(30) DEF ReloadInv, ReloadTypes
  <2>4. PairInv' /\ TimesInv'
    <3>1. certFile.mod \in Nat /\ keyFile.mod \in Nat
      BY ZenonT(30) DEF ReloadInv, ReloadTypes, File
    <3>2. 0 <= certFile.mod /\ 0 <= keyFile.mod
      BY <3>1
    <3>3. PairInv'
      BY <2>1, <2>2, NoPairTyped, ZenonT(30) DEF PairInv
    <3>4. TimesInv'
      BY <2>1, <2>2, <3>2, ZenonT(30) DEF TimesInv
    <3>. QED BY <3>3, <3>4, ZenonT(30)
  <2>5. modCert' # certFile'.mod
    BY <2>1, ZenonT(30) DEF ReloadInv, ReloadTypes, File
  <2>6. RotationInv'
    <3>1. \A u \in Threads : Current(load[u])'
      BY <2>2, ZenonT(30) DEF Current
    <3>2. \A u \in Handshakes : Loaded(u)'
      BY <2>1, ZenonT(30) DEF Loaded
    <3>. QED BY <3>1, <3>2, <2>5, ZenonT(30) DEF RotationInv, Recorded
  <2>. QED BY <2>3, <2>4, <2>6, ZenonT(30) DEF ReloadInv
<1>. QED BY <1>2, <1>3, <1>4, ZenonT(30)

(* A write ends what the history says of quiet handshakes, and of a race   *)
(* when it falls into a reload.                                            *)
LEMMA WriteStep ==
    ASSUME ReloadInv, NEW k \in Keys \cup {0}, WriteCert(k) \/ WriteKey(k)
    PROVE  ReloadInv'
<1>1. /\ certFile.mod \in Nat \ {0} /\ keyFile.mod \in Nat \ {0}
      /\ certFile.k \in Keys \cup {0} /\ keyFile.k \in Keys \cup {0}
  BY ZenonT(30) DEF ReloadInv, ReloadTypes, File
<1>2. /\ certFile' \in File /\ keyFile' \in File
      /\ certFile.mod <= certFile'.mod /\ keyFile.mod <= keyFile'.mod
      /\ certFile'.mod # certFile.mod \/ keyFile'.mod # keyFile.mod
      /\ cached' = cached /\ modCert' = modCert /\ modKey' = modKey /\ load' = load
      /\ quiet' = {} /\ raced' = (raced \/ reloading # {})
  <2>1. CASE WriteCert(k)
    BY <1>1, <2>1 DEF WriteCert, File, pair, ReloadInv, ReloadTypes
  <2>2. CASE WriteKey(k)
    BY <1>1, <2>2 DEF WriteKey, File, pair, ReloadInv, ReloadTypes
  <2>. QED BY <2>1, <2>2, ZenonT(30)
<1>3. /\ certFile'.mod \in Nat /\ keyFile'.mod \in Nat
  BY <1>2, ZenonT(30) DEF File
<1>4. ReloadTypes'
  BY <1>2, ZenonT(30) DEF ReloadInv, ReloadTypes
<1>5. PairInv'
  BY <1>2, ZenonT(30) DEF ReloadInv, PairInv
<1>6. modCert \in Int /\ modKey \in Int /\ modCert <= certFile.mod /\ modKey <= keyFile.mod
  BY ZenonT(30) DEF ReloadInv, ReloadTypes, TimesInv
<1>7. TimesInv'
  <2>1. ASSUME NEW t \in Threads, load[t].pc = "store"
        PROVE  load[t].mods[1] <= certFile'.mod /\ load[t].mods[2] <= keyFile'.mod
    <3>1. load[t].mods[1] <= certFile.mod /\ load[t].mods[2] <= keyFile.mod
      BY <2>1, ZenonT(30) DEF ReloadInv, TimesInv
    <3>2. load[t].mods[1] \in Int /\ load[t].mods[2] \in Int
      BY ReloadFields, ZenonT(30) DEF ReloadInv
    <3>. QED BY <3>1, <3>2, <1>1, <1>2, <1>3
  <2>2. modCert' <= certFile'.mod /\ modKey' <= keyFile'.mod
    BY <1>1, <1>2, <1>3, <1>6
  <2>3. load' = load
    BY <1>2, ZenonT(30)
  <2>. QED BY <2>1, <2>2, <2>3, ZenonT(30) DEF TimesInv
<1>8. RotationInv'
  <2>1. SUFFICES ASSUME ~raced'
                 PROVE  /\ \A u \in Threads : Current(load[u])'
                        /\ ~Recorded'
                        /\ \A u \in Handshakes : Loaded(u)'
    BY ZenonT(30) DEF RotationInv
  <2>2. \A u \in Threads : load'[u].pc \notin {"load key", "stat", "store"}
    BY <1>2, <2>1, ZenonT(30) DEF reloading
  <2>3. ~Recorded'
    BY <1>1, <1>2, <1>3, <1>6 DEF Recorded
  <2>. QED BY <1>2, <2>2, <2>3, ZenonT(30) DEF Current, Loaded
<1>. QED BY <1>4, <1>5, <1>7, <1>8, ZenonT(30) DEF ReloadInv

LEMMA ReloadNext == ReloadInv /\ [Next]_vars => ReloadInv'
<1>. SUFFICES ASSUME ReloadInv, [Next]_vars PROVE ReloadInv'
  OBVIOUS
<1>1. CASE UNCHANGED reloadVars
  BY <1>1, ZenonT(30) DEF reloadVars, files, tlsVars, ReloadInv, ReloadTypes, PairInv, TimesInv,
     RotationInv, Current, Recorded, Loaded, exists
<1>2. ASSUME NEW t \in Threads, reloadStep(t) PROVE ReloadInv'
  BY <1>2, LoadCertStep, LoadKeyStep, StatStep, StoreStep, ZenonT(30) DEF reloadStep
<1>. QED BY <1>1, <1>2, ReloadCases, HandshakeStep, OpenRunCrash, WriteStep, ZenonT(30)

LEMMA ReloadInit == Init => ReloadInv
<1>. SUFFICES ASSUME Init PROVE ReloadInv
  OBVIOUS
<1>. DEFINE k0 == CHOOSE k \in Keys : TRUE
<1>1. k0 \in Keys
  BY CredentialsAssumption, ZenonT(30)
<1>2. /\ certFile = [k |-> k0, mod |-> 1] /\ keyFile = certFile
      /\ cached = NoPair /\ modCert = 0 /\ modKey = 0
      /\ load = [t \in Threads |-> Idle] /\ quiet = {} /\ raced = FALSE
  BY ZenonT(30) DEF Init, CredInit
<1>. HIDE DEF k0
<1>3. \A t \in Threads : load[t].pc = "idle"
  BY <1>2, IdleTyped, ZenonT(30)
<1>4. ReloadTypes
  <2>1. certFile \in File /\ keyFile \in File
    BY <1>1, <1>2 DEF File
  <2>2. load \in [Threads -> Reload] /\ modCert \in Int /\ modKey \in Int
    BY <1>2, IdleTyped
  <2>. QED BY <1>2, <2>1, <2>2, NoPairTyped, ZenonT(30) DEF ReloadTypes
<1>5. PairInv /\ TimesInv
  BY <1>2, <1>3, NoPairTyped DEF PairInv, TimesInv
<1>6. RotationInv
  <2>1. modCert # certFile.mod
    BY <1>2
  <2>. QED BY <1>2, <1>3, <2>1, ZenonT(30) DEF RotationInv, Current, Recorded, Loaded
<1>. QED BY <1>4, <1>5, <1>6, ZenonT(30) DEF ReloadInv

LEMMA ReloadInvariant == Spec => []ReloadInv
BY ReloadInit, ReloadNext, PTL DEF Spec

(* certReloader.reload (reload.go): the certificate served is the one its  *)
(* key belongs to, whatever is written between the reads of a reload and   *)
(* whichever of the concurrent reloads stores last.                        *)
THEOREM ServesAPair == Spec => []ServedPairMatches
<1>1. ReloadInv => ServedPairMatches
  BY ZenonT(30) DEF ReloadInv, PairInv, ServedPairMatches
<1>. QED BY <1>1, ReloadInvariant, PTL

(* certReloader.current (reload.go): a handshake serves the pair that is   *)
(* on disk, without a restart, if no write overlapped it or an earlier     *)
(* reload.                                                                 *)
THEOREM TakesRotation == Spec => []RotationTaken
<1>1. ReloadInv => RotationTaken
  BY ZenonT(30) DEF ReloadInv, RotationInv, Loaded, Recorded, RotationTaken
<1>. QED BY <1>1, ReloadInvariant, PTL
=============================================================================
