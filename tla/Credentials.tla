---------------------------- MODULE Credentials ----------------------------
(***************************************************************************)
(* The files a node's identity rests on: the persisted node id             *)
(* (internal/cred/nodeid.go) and the certificate and key that every TLS    *)
(* handshake may reload (internal/cred/reload.go), under processes that    *)
(* read them and an operator who rotates them one file at a time.          *)
(*                                                                         *)
(* A key file holds key k; a certificate file one issued for key k; 0 is a *)
(* file that is missing.  A write gives a file the next modification time, *)
(* which also tells certificates apart.                                    *)
(***************************************************************************)
EXTENDS Integers, FiniteSets

CONSTANTS
    Handshakes,     \* concurrent TLS handshakes
    Keys,           \* private keys an operator may install
    NoId, EmptyId   \* the id file is missing; it was truncated

ASSUME CredentialsAssumption ==
    /\ Keys # {} /\ 0 \notin Keys
    /\ "main" \notin Handshakes
    /\ NoId \notin Nat /\ EmptyId \notin Nat

VARIABLES
    certFile, keyFile,  \* [k, mod]
    idFile,             \* NoId, EmptyId or an id
    fresh,              \* ids generated so far
    node,               \* the process: [pc, id]
    used,               \* history: lasting ids run under since the id file was lost
    cached,             \* certReloader.cached: [cert, k, key]; NoPair before
    modCert, modKey,    \* certReloader.modCert, modKey
    load,               \* per thread: its step in current()
    quiet,              \* history: threads no write overlapped since they began
    raced               \* history: a write overlapped a reload

credVars == <<certFile, keyFile, idFile, fresh, node, used, cached, modCert,
              modKey, load, quiet, raced>>

Main == "main"          \* the thread of newCertReloader
Threads == Handshakes \cup {Main}
Idle == [pc |-> "idle", cert |-> 0, k |-> 0, key |-> 0, mods |-> <<0, 0>>]
reloading == {t \in Threads : load[t].pc \in {"load cert", "load key", "stat", "store"}}

NoPair == [cert |-> 0, k |-> 0, key |-> 0]

files == <<certFile, keyFile>>
idVars == <<idFile, fresh, node, used>>
pair == <<cached, modCert, modKey>>
tlsVars == <<cached, modCert, modKey, load, quiet, raced>>
-----------------------------------------------------------------------------
(* NodeID, at the start of the process.                                    *)
ReadNodeId(nodeName, dataDir) ==
    /\ node.pc = "start"
    /\ LET given == IF nodeName # "" THEN {nodeName}
                    ELSE IF dataDir # "" THEN {idFile} \ {NoId, EmptyId} ELSE {}
       IN  /\ node' = IF given # {}
                      THEN [pc |-> "tls", id |-> CHOOSE i \in given : TRUE]
                      ELSE [pc |-> IF dataDir = "" THEN "tls" ELSE "create",
                            id |-> fresh + 1]
           /\ fresh' = IF given # {} THEN fresh ELSE fresh + 1
    /\ UNCHANGED <<idFile, used, files, tlsVars>>

(* Mutant of CreateFile: the node goes on before its id is written.        *)
CreateFileUnwritten ==
    /\ node.pc = "create"
    /\ idFile' = EmptyId /\ node' = [node EXCEPT !.pc = "tls"]
    /\ UNCHANGED <<fresh, used, files, tlsVars>>

(* os.WriteFile truncates, then writes; an error ends the start.           *)
CreateFile ==
    /\ node.pc = "create"
    /\ idFile' = EmptyId /\ node' = [node EXCEPT !.pc = "write"]
    /\ UNCHANGED <<fresh, used, files, tlsVars>>

WriteId ==
    /\ node.pc = "write"
    /\ idFile' = node.id /\ node' = [node EXCEPT !.pc = "tls"]
    /\ UNCHANGED <<fresh, used, files, tlsVars>>

WriteFails ==
    /\ node.pc \in {"create", "write"}
    /\ node' = [node EXCEPT !.pc = "down"]
    /\ UNCHANGED <<idFile, fresh, used, files, tlsVars>>
-----------------------------------------------------------------------------
(* current(): reload if a file changed, then serve what is cached.         *)
exists(f) == f.k # 0

(* Mutant of changed: both files must have changed.                        *)
changedBoth ==
    exists(certFile) /\ exists(keyFile) /\ certFile.mod # modCert /\ keyFile.mod # modKey

changed ==
    exists(certFile) /\ exists(keyFile) /\ (certFile.mod # modCert \/ keyFile.mod # modKey)

Handshake(t) ==
    /\ node.pc = "up" /\ cached # NoPair /\ load[t].pc \in {"idle", "done"}
    /\ load' = [load EXCEPT ![t] = [Idle EXCEPT !.pc = IF changed THEN "load cert" ELSE "done"]]
    /\ quiet' = quiet \cup {t}
    /\ UNCHANGED <<files, idVars, pair, raced>>

(* reload's error: the last good pair stays, and newCertReloader fails.    *)
giveUp(t) == load' = [load EXCEPT ![t].pc = IF t = Main THEN "failed" ELSE "done"]

(* tls.LoadX509KeyPair reads the certificate, then the key, and compares.  *)
LoadCert(t) ==
    /\ load[t].pc = "load cert"
    /\ IF exists(certFile)
       THEN load' = [load EXCEPT ![t].pc = "load key", ![t].cert = certFile.mod,
                                 ![t].k = certFile.k]
       ELSE giveUp(t)
    /\ UNCHANGED <<files, idVars, pair, quiet, raced>>

LoadKey(t) ==
    /\ load[t].pc = "load key"
    /\ IF exists(keyFile) /\ keyFile.k = load[t].k
       THEN load' = [load EXCEPT ![t].pc = "stat", ![t].key = keyFile.k]
       ELSE giveUp(t)
    /\ UNCHANGED <<files, idVars, pair, quiet, raced>>

(* The files are looked at again, after they were read; a file that is     *)
(* gone leaves its recorded time as it is (-1 here).                       *)
Stat(t) ==
    /\ load[t].pc = "stat"
    /\ load' = [load EXCEPT ![t].pc = "store",
                            ![t].mods = <<IF exists(certFile) THEN certFile.mod ELSE -1,
                                          IF exists(keyFile) THEN keyFile.mod ELSE -1>>]
    /\ UNCHANGED <<files, idVars, pair, quiet, raced>>

Store(t) ==
    /\ load[t].pc = "store"
    /\ cached' = [cert |-> load[t].cert, k |-> load[t].k, key |-> load[t].key]
    /\ modCert' = IF load[t].mods[1] = -1 THEN modCert ELSE load[t].mods[1]
    /\ modKey' = IF load[t].mods[2] = -1 THEN modKey ELSE load[t].mods[2]
    /\ load' = [load EXCEPT ![t].pc = "done"]
    /\ UNCHANGED <<files, idVars, quiet, raced>>

reloadStep(t) == LoadCert(t) \/ LoadKey(t) \/ Stat(t) \/ Store(t)
-----------------------------------------------------------------------------
(* The process.                                                            *)
Start ==
    /\ node.pc = "down"
    /\ node' = [pc |-> "start", id |-> NoId]
    /\ UNCHANGED <<idFile, fresh, used, files, tlsVars>>

(* newCertReloader, when TLS is on.                                        *)
OpenCerts(tls) ==
    /\ node.pc = "tls" /\ load[Main].pc = "idle"
    /\ load' = [load EXCEPT ![Main].pc = IF tls THEN "load cert" ELSE "done"]
    /\ UNCHANGED <<files, idVars, pair, quiet, raced>>

Run(persistent) ==
    /\ node.pc = "tls" /\ load[Main].pc \in {"done", "failed"}
    /\ node' = [node EXCEPT !.pc = IF load[Main].pc = "done" THEN "up" ELSE "down"]
    /\ used' = IF load[Main].pc = "done" /\ persistent THEN used \cup {node.id} ELSE used
    /\ load' = [load EXCEPT ![Main] = Idle]
    /\ UNCHANGED <<idFile, fresh, files, pair, quiet, raced>>

(* Nothing in memory survives.                                             *)
Crash ==
    /\ node.pc # "down"
    /\ node' = [node EXCEPT !.pc = "down"]
    /\ cached' = NoPair /\ modCert' = 0 /\ modKey' = 0
    /\ load' = [t \in Threads |-> Idle] /\ quiet' = {} /\ raced' = FALSE
    /\ UNCHANGED <<files, idFile, fresh, used>>

(* What happens to the files: a rotation writes one of them, or removes it *)
(* (k = 0); the id file may be lost (while the process starts is as good   *)
(* as right after).                                                        *)
WriteCert(k) ==
    /\ certFile' = [k |-> k, mod |-> certFile.mod + 1]
    /\ quiet' = {} /\ raced' = (raced \/ reloading # {})
    /\ UNCHANGED <<keyFile, idVars, pair, load>>

WriteKey(k) ==
    /\ keyFile' = [k |-> k, mod |-> keyFile.mod + 1]
    /\ quiet' = {} /\ raced' = (raced \/ reloading # {})
    /\ UNCHANGED <<certFile, idVars, pair, load>>

LoseId ==
    /\ idFile # NoId /\ node.pc \in {"up", "down"}
    /\ idFile' = NoId /\ used' = {}
    /\ UNCHANGED <<fresh, node, files, tlsVars>>

CredInit ==
    /\ certFile = [k |-> CHOOSE k \in Keys : TRUE, mod |-> 1] /\ keyFile = certFile
    /\ idFile = NoId /\ fresh = 0 /\ used = {}
    /\ node = [pc |-> "down", id |-> NoId]
    /\ cached = NoPair /\ modCert = 0 /\ modKey = 0
    /\ load = [t \in Threads |-> Idle] /\ quiet = {} /\ raced = FALSE
-----------------------------------------------------------------------------
(* Properties.                                                             *)

(* "Only swaps to a valid pair - a mismatched cert/key written             *)
(* non-atomically keeps the previous one in use" (reload.go:29): a node    *)
(* that is up serves a certificate with its own key, in spite of rotations *)
(* between the reads and of handshakes that store at the same time.        *)
ServedPairMatches == cached.k = cached.key

(* "Rotation needs no restart" (reload.go:27): a handshake that no write   *)
(* overlapped serves the pair that is on disk, if that is a pair, unless   *)
(* an earlier write fell into a reload, between the files being read and   *)
(* their times being taken.                                                *)
RotationTaken ==
    \A t \in Handshakes :
        (load[t].pc = "done" /\ t \in quiet /\ ~raced /\ node.pc = "up"
           /\ exists(certFile) /\ certFile.k = keyFile.k)
        => cached.cert = certFile.mod /\ cached.key = keyFile.k
=============================================================================
