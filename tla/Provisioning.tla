---------------------------- MODULE Provisioning ----------------------------
(***************************************************************************)
(* The life of a node before it serves: it fetches its configuration from  *)
(* a seed (Bootstrap), the operator adds to the file what is not served,   *)
(* and the process starts from the file (cmd/yp/root.go), takes its id and *)
(* its certificate from disk (Credentials), crashes, and starts again,     *)
(* while tokens expire, files rotate and the configuration is fetched      *)
(* anew.                                                                   *)
(***************************************************************************)
EXTENDS Bootstrap, Credentials

ASSUME LocalsAssumption ==
    \A f \in Configs : Bound(Parse(f)).locals \subseteq [nodeName: Text, dataDir: Text]

VARIABLES
    local,          \* what this node's operator adds: [nodeName, dataDir]
    conf,           \* the configuration the process runs with
    starts          \* starts so far

vars == <<bootVars, credVars, local, conf, starts>>
-----------------------------------------------------------------------------
Provision ==
    /\ file # NoFile /\ file # provisioned(file, local) /\ starts < Bound(seedCfg).starts
    /\ file' = provisioned(file, local)
    /\ UNCHANGED <<seedCfg, now, counts, resetAt, tokens, log, credVars, local,
                   conf, starts>>

(* Load, the --role override, setupSecurity; a refused file ends the       *)
(* process before it does anything.                                        *)
Load(roleFlag) ==
    LET c == IF roleFlag = "" THEN Parse(file) ELSE [Parse(file) EXCEPT !.role = roleFlag]
    IN  /\ file # NoFile /\ starts < Bound(seedCfg).starts
        /\ Accepted(file) /\ Validate(c)
        /\ Start /\ conf' = c /\ starts' = starts + 1
        /\ UNCHANGED <<bootVars, local>>

(* The configuration gives the node an id that outlives the process.       *)
lasting(c) == c.nodeName # "" \/ c.dataDir # ""

Node ==
    /\ \/ ReadNodeId(conf.nodeName, conf.dataDir)
       \/ CreateFile \/ WriteId \/ WriteFails
       \/ OpenCerts(conf.tls.enabled) \/ Run(lasting(conf)) \/ Crash
       \/ \E t \in Threads : reloadStep(t)
       \/ \E t \in Handshakes : Handshake(t)
    /\ UNCHANGED <<bootVars, local, conf, starts>>

Operator ==
    /\ \/ /\ certFile.mod + keyFile.mod < Bound(seedCfg).writes /\ starts > 0
          /\ \E k \in Keys \cup {0} : WriteCert(k) \/ WriteKey(k)
       \/ starts > 0 /\ LoseId
    /\ UNCHANGED <<bootVars, local, conf, starts>>

Init == BootInit /\ CredInit /\ local \in Bound(seedCfg).locals /\ conf = Blank /\ starts = 0

Next ==
    \/ BootNext /\ UNCHANGED <<credVars, local, conf, starts>>
    \/ Provision \/ \E role \in Roles \cup {""} : Load(role)
    \/ Node \/ Operator

Spec == Init /\ [][Next]_vars
-----------------------------------------------------------------------------
(* Properties.                                                             *)

(* "Re-running yp bootstrap on a node writes the updated config, and a     *)
(* restart applies it" (bootstrap.md:11): whatever seed the file comes     *)
(* from and whatever role was asked for, once the credentials are back in  *)
(* it the node accepts it, and runs with the seed's cluster, datacenter,   *)
(* lease and timeout settings, zones, ports, transport and ACL mode.       *)
JoinedConfigStarts ==
    file # NoFile =>
      LET mine == Parse(file)
      IN  /\ Accepted(provisioned(file, local))
          /\ mine.cluster = seedCfg.cluster /\ mine.datacenter = seedCfg.datacenter
          /\ mine.ttl = seedCfg.ttl /\ mine.heartbeat = seedCfg.heartbeat
          /\ mine.shutdown = seedCfg.shutdown
          /\ mine.domain = seedCfg.domain /\ mine.altDomain = seedCfg.altDomain
          /\ mine.tls.enabled = seedCfg.tls.enabled /\ mine.tls.mutual = seedCfg.tls.mutual
          /\ mine.acl.mode = seedCfg.acl.mode
          /\ \A s \in Listeners : mine.listeners[s].port = seedCfg.listeners[s].port
          /\ mine.role = "agent" => mine.agent = seedCfg.agent
          /\ mine.role = "seed" => mine.maxServices = seedCfg.maxServices

(* "A UUID is persisted under dataDir and reused across restarts"          *)
(* (nodeid.go:33): as long as its file names it or its data directory, a   *)
(* node runs under one id until the id file is lost, even when it crashes, *)
(* or its disk fails, in the middle of writing the id.  (A configuration   *)
(* that was fetched again and not completed again names neither.)          *)
OneIdentity == Cardinality(used) <= 1
=============================================================================
