----------------------------- MODULE FanOutRead -----------------------------
(***************************************************************************)
(* One cross-seed read: SeedClient.Lookup (internal/seedclient/client.go)  *)
(* asks every seed at once, gathers their copies in the order the answers  *)
(* come in, and merges them with health.MergeLWW, one pass over the copies *)
(* in that order.  The model takes the pass over a seed's copies when they *)
(* arrive, which is the same pass.  A read of the local cluster filters by *)
(* health after the merge (Proxy.directLookup, Cache.LookupWithAge); a     *)
(* read of a remote datacenter (federation.Pool.Resolve) hands the filter  *)
(* to the seeds.                                                           *)
(*                                                                         *)
(* A copy is what one seed holds of one instance: its data version, its    *)
(* last heartbeat, what its definition says, and its health.  It reaches   *)
(* the reader over the wire (internal/protoconv/protoconv.go).             *)
(***************************************************************************)
EXTENDS Lease

CONSTANTS
    Seeds, Keys,    \* the seeds; instance identities (node, service)
    Payloads,       \* what definitions say: records with tags and a ttl in ticks
    Tags, NoTag,    \* tags a read may ask for, or none
    TicksPerSecond, \* how finely a TTL is written
    MaxGen, MaxSeen,\* bounds: data versions, heartbeat stamps
    Clusters,       \* bound: the registries a read is made of
    NoCopy          \* a seed does not have the instance

Copy == [gen: 1 .. MaxGen, lastSeen: 1 .. MaxSeen, payload: Payloads,
         health: HealthStates, maintenance: BOOLEAN]

(* A TTL is taken below 2^32 seconds, where ttlToSeconds does not clamp.   *)
ASSUME ReadAssumption ==
    /\ TicksPerSecond \in Nat \ {0}
    /\ MaxGen \in Nat /\ MaxSeen \in Nat
    /\ \A p \in Payloads : "ttl" \in DOMAIN p /\ p.ttl \in Nat
    /\ Clusters \subseteq [Seeds -> [Keys -> Copy \cup {NoCopy}]]

VARIABLES
    reg,            \* each seed's copies, which this read does not change
    onlyHealthy,    \* Query.OnlyHealthy
    tag,            \* Query.Tags
    remote,         \* the read is for another datacenter
    open,           \* seeds whose outcome is still open
    winners,        \* MergeLWW's winner per key among the copies gathered so far
    okSeeds,        \* seeds that answered
    result          \* the answer: per key a copy or NoCopy; <<>> before

readVars == <<reg, onlyHealthy, tag, remote, open, winners, okSeeds, result>>
-----------------------------------------------------------------------------
(* health.Visible: what ?passing and OnlyHealthy let through.              *)
VisiblePassing(c) == ~c.maintenance /\ c.health = Passing
Visible(c) == onlyHealthy => VisiblePassing(c)

(* The wire form of a copy: whole seconds of TTL, enumerated health.       *)
ttlToSeconds(ttl) == ttl \div TicksPerSecond
HealthToProto(h) == IF h = Passing THEN 1 ELSE 3
HealthFromProto(n) == IF n = 1 THEN Passing ELSE Critical

EntryToProto(c) ==
    [generation |-> c.gen, lastSeenUnixNano |-> c.lastSeen,
     service |-> [c.payload EXCEPT !.ttl = ttlToSeconds(@)],
     health |-> HealthToProto(c.health), maintenance |-> c.maintenance]

EntryFromProto(p) ==
    [gen |-> p.generation, lastSeen |-> p.lastSeenUnixNano,
     payload |-> [p.service EXCEPT !.ttl = @ * TicksPerSecond],
     health |-> HealthFromProto(p.health), maintenance |-> p.maintenance]

wire(c) == EntryFromProto(EntryToProto(c))

ASSUME NoCopyAssumption == \A c \in Copy : wire(c) # NoCopy

(* Mutant of MergeLWW: the heartbeat decides first.                        *)
MergeBySeen(cur, in) ==
    LET beats(c, d) == c.lastSeen > d.lastSeen \/ (c.lastSeen = d.lastSeen /\ c.gen > d.gen)
    IN  [k \in Keys |->
           IF k \in DOMAIN in /\ (cur[k] = NoCopy \/ beats(in[k], cur[k]))
           THEN in[k] ELSE cur[k]]

(* One winner per identity: the current one, unless the copy that comes in *)
(* beats it.                                                               *)
MergeLWW(cur, in) ==
    [k \in Keys |->
        IF k \in DOMAIN in /\ (cur[k] = NoCopy \/ WinsLWW(in[k], cur[k]))
        THEN in[k] ELSE cur[k]]

(* What a seed is asked for: a federated read leaves the health filter to  *)
(* it, a local one (Proxy.directLookup, Cache.fetch) does not; the tag     *)
(* filter is always the seed's.                                            *)
tagged(c) == tag # NoTag => tag \in c.payload.tags

askedRemote(s) ==
    {k \in Keys : reg[s][k] # NoCopy /\ tagged(reg[s][k]) /\ Visible(reg[s][k])}

askedLocal(s) == {k \in Keys : reg[s][k] # NoCopy /\ tagged(reg[s][k])}

asked(s) == IF remote THEN askedRemote(s) ELSE askedLocal(s)

SeedAnswers(s) ==
    /\ s \in open
    /\ open' = open \ {s} /\ okSeeds' = okSeeds \cup {s}
    /\ winners' = MergeLWW(winners, [k \in asked(s) |-> wire(reg[s][k])])
    /\ UNCHANGED <<reg, onlyHealthy, tag, remote, result>>

SeedFails(s) ==
    /\ s \in open
    /\ open' = open \ {s}
    /\ UNCHANGED <<reg, onlyHealthy, tag, remote, winners, okSeeds, result>>

(* All outcomes are in: an error when no seed answered, else the merge and *)
(* the filter.                                                             *)
Answer ==
    /\ open = {} /\ okSeeds # {} /\ result = <<>>
    /\ result' = [k \in Keys |->
          IF winners[k] # NoCopy /\ ~Visible(winners[k]) THEN NoCopy
          ELSE winners[k]]
    /\ UNCHANGED <<reg, onlyHealthy, tag, remote, open, winners, okSeeds>>

ReadInit ==
    /\ reg \in Clusters
    /\ onlyHealthy \in BOOLEAN /\ remote \in BOOLEAN /\ tag \in Tags \cup {NoTag}
    /\ open = Seeds /\ winners = [k \in Keys |-> NoCopy] /\ okSeeds = {} /\ result = <<>>

ReadNext == (\E s \in Seeds : SeedAnswers(s) \/ SeedFails(s)) \/ Answer

ReadSpec == ReadInit /\ [][ReadNext]_readVars
-----------------------------------------------------------------------------
(* Properties.                                                             *)

Answered == result # <<>>

(* The copies of k that match on the seeds that answered, those of a set   *)
(* that none of it beats, and how a set of copies reads.                   *)
copies(k) == {c \in {reg[s][k] : s \in okSeeds} \ {NoCopy} : tagged(c)}
wholeSeconds(ttl) == ttl - (ttl % TicksPerSecond)
shown(set) == {[c EXCEPT !.payload.ttl = wholeSeconds(@)] : c \in set}
newest(set) == {c \in set : \A d \in set : ~WinsLWW(d, c)}

(* "Max(generation), then max(last_seen)" (discovery.proto:93): a read     *)
(* without a filter, or filtered by the seeds, shows every instance that a *)
(* seed which answered lets through, under a copy that none of those could *)
(* better, and shows that copy as the seed holds it, but for the fraction  *)
(* of a second in its TTL.  (Under ?tag the copies in question are those   *)
(* that carry the tag: a newer copy that lost it does not hide an older    *)
(* one, the seeds having dropped it before the merge.)                     *)
NewestWins ==
    Answered /\ (onlyHealthy => remote) => \A k \in Keys :
        LET let == {c \in copies(k) : Visible(c)}
        IN  IF let = {} THEN result[k] = NoCopy
            ELSE result[k] \in shown(newest(let))

(* "An instance healthy on the freshest seed is not dropped by a stale     *)
(* seed" (cache.go:105), and one that is unhealthy there is not revived by *)
(* a stale seed: the newest copies decide what a filtered read of the      *)
(* local cluster shows.                                                    *)
FreshestHealthDecides ==
    Answered /\ onlyHealthy /\ ~remote => \A k \in Keys :
        LET best == newest(copies(k))
        IN  /\ result[k] # NoCopy =>
                 result[k] \in shown({c \in best : VisiblePassing(c)})
            /\ (best # {} /\ \A c \in best : VisiblePassing(c))
                 => result[k] # NoCopy
=============================================================================
