---------------------------- MODULE AntiEntropy ----------------------------
(***************************************************************************)
(* Seeds that pull from each other: membership.Syncer                      *)
(* (internal/membership/syncer.go) over the registries of several seeds.   *)
(* A seed that starts asks every peer for its services, merges the answer  *)
(* into its registry (store.Memory.Merge) and only then reports ready;     *)
(* from then on it does the same at every tick of its interval.            *)
(*                                                                         *)
(* The seeds' clocks differ: seed s reads true time plus Skew[s].  Instants*)
(* are kept as ages in true time: a stamp made by s has age -Skew[s] when  *)
(* it is made, grows with time up to Cap, and is found by t to be          *)
(* age + Skew[t] old.  Equal or smaller ages are equal or later stamps.    *)
(*                                                                         *)
(* Agents write to the seeds as in module Cluster; here a call of an app   *)
(* is a message to every seed that arrives or is lost, and renewals arrive *)
(* when they like.                                                         *)
(***************************************************************************)
EXTENDS Integers, FiniteSets

CONSTANTS
    Seeds, Ids,     \* the seeds, each the peer of all others; the services
    Versions,       \* what apps register, in this order
    Gen,            \* the generation each version is registered under
    Life,           \* TTL and grace, after which a lease is expired
    Skew,           \* how far each seed's clock is ahead
    MaxSkew,        \* bound on Skew
    Cap,            \* bound: ages stop here, past every lease
    MaxCalls,       \* bound: calls of the apps
    MaxFailures     \* bound: crashes, lost messages, peers not reached

ASSUME AntiEntropyAssumption ==
    /\ Versions \subseteq Nat \ {0} /\ Gen \in [Versions -> Nat]
    /\ Life \in Nat /\ MaxSkew \in Nat /\ Skew \in [Seeds -> 0 .. MaxSkew]
    /\ Cap \in Nat /\ Cap > Life + MaxSkew
    /\ MaxCalls \in Nat /\ MaxFailures \in Nat

Ages == (-MaxSkew) .. Cap
Copy == [v: Versions, age: Ages]
None == [v |-> 0, age |-> 0]    \* a seed does not have the service

VARIABLES
    store,          \* each seed's copy of every service
    phase,          \* down, joining, merged (about to report) or ready
    pull,           \* each seed's Lookup under way: peers still open, peers
                    \* that answered, the merge of their answers
    hosted,         \* the version of each service its agent hosts, or 0
    last,           \* the last version registered of each service, or 0
    msgs,           \* writes on their way to a seed
    touched,        \* history: age of the last write or renewal of each
                    \* service, at any seed
    steady,         \* history: <<s, p, id>> where p has had id, unexpired,
                    \* ever since s began to join, and s has not lost it
    calls, failures

vars == <<store, phase, pull, hosted, last, msgs, touched, steady, calls, failures>>
counters == <<calls, failures>>
-----------------------------------------------------------------------------
NoAnswer == [id \in Ids |-> None]
NoPull == [open |-> {}, ok |-> {}, got |-> NoAnswer]
Up(s) == phase[s] # "down"
Has(s, id) == store[s][id] # None

(* Memory.lease on the clock of seed t.                                    *)
expired(t, c) == c.age + Skew[t] > Life

(* What Lookup on seed p finds.                                            *)
Lookup(p) == [id \in Ids |-> IF Has(p, id) /\ ~expired(p, store[p][id])
                             THEN store[p][id] ELSE None]

(* Mutant of WinsLWW: the heartbeat decides first.                         *)
WinsBySeen(c, d) ==
    \/ c.age < d.age
    \/ c.age = d.age /\ Gen[c.v] > Gen[d.v]

(* ServiceInstance.WinsLWW: a later stamp is a smaller age.                *)
WinsLWW(c, d) ==
    \/ Gen[c.v] > Gen[d.v]
    \/ Gen[c.v] = Gen[d.v] /\ c.age < d.age

(* Adding one answer to a map of winners: health.MergeLWW over the answers,*)
(* and Merge over what the registry has.                                   *)
merged(base, in) ==
    [id \in Ids |->
        IF in[id] # None /\ (base[id] = None \/ WinsLWW(in[id], base[id]))
        THEN in[id] ELSE base[id]]
-----------------------------------------------------------------------------
(* The apps and their agents.                                              *)

send(kind, id, v) == {[to |-> s, kind |-> kind, id |-> id, v |-> v] : s \in Seeds}

(* One call at a time per service: a call is over when its messages are.   *)
Call(id) ==
    /\ calls < MaxCalls /\ calls' = calls + 1
    /\ ~\E m \in msgs : m.id = id
    /\ UNCHANGED <<store, phase, pull, touched, failures>>

AppRegister(id, v) ==
    /\ Call(id)
    /\ last[id] < v /\ \A w \in Versions : last[id] < w => v <= w
    /\ hosted' = [hosted EXCEPT ![id] = v]
    /\ last' = [last EXCEPT ![id] = v]
    /\ msgs' = msgs \cup send("register", id, v)

AppRemove(id) ==
    /\ Call(id)
    /\ hosted[id] # 0
    /\ hosted' = [hosted EXCEPT ![id] = 0]
    /\ UNCHANGED last
    /\ msgs' = msgs \cup send("remove", id, 0)

stamped(s, v) == [v |-> v, age |-> -Skew[s]]

(* Memory.Register overwrites whatever generation it finds;                *)
(* Memory.DeregisterService deletes.                                       *)
Deliver(m) ==
    /\ Up(m.to)
    /\ msgs' = msgs \ {m}
    /\ store' = [store EXCEPT ![m.to][m.id] =
          IF m.kind = "register" THEN stamped(m.to, m.v) ELSE None]
    /\ touched' = IF m.kind = "register" THEN [touched EXCEPT ![m.id] = 0]
                  ELSE touched
    /\ UNCHANGED <<phase, pull, hosted, last, counters>>

Lose(m) ==
    /\ msgs' = msgs \ {m}
    /\ IF Up(m.to) THEN failures < MaxFailures /\ failures' = failures + 1
       ELSE UNCHANGED failures
    /\ UNCHANGED <<store, phase, pull, hosted, last, touched, calls>>

(* Proxy.renewAll, seen from one seed: the lease is refreshed, whatever    *)
(* version the seed has.                                                   *)
Renew(s, id) ==
    /\ Up(s) /\ Has(s, id) /\ hosted[id] # 0
    /\ store' = [store EXCEPT ![s][id] = stamped(s, @.v)]
    /\ touched' = [touched EXCEPT ![id] = 0]
    /\ UNCHANGED <<phase, pull, hosted, last, msgs, counters>>
-----------------------------------------------------------------------------
(* Syncer.syncOnce: the fan-out of Lookup, then Merge.                     *)

peersOf(s) == Seeds \ {s}

ask(s) == pull' = [pull EXCEPT ![s] = [NoPull EXCEPT !.open = peersOf(s)]]

(* A peer answers whether or not it is ready.                              *)
PeerAnswers(s, p) ==
    /\ p \in pull[s].open /\ Up(p)
    /\ pull' = [pull EXCEPT ![s] = [open |-> @.open \ {p}, ok |-> @.ok \cup {p},
                                    got |-> merged(@.got, Lookup(p))]]
    /\ UNCHANGED <<store, phase, hosted, last, msgs, touched, counters>>

PeerFails(s, p) ==
    /\ p \in pull[s].open
    /\ pull' = [pull EXCEPT ![s].open = @ \ {p}]
    /\ IF Up(p) THEN failures < MaxFailures /\ failures' = failures + 1
       ELSE UNCHANGED failures
    /\ UNCHANGED <<store, phase, hosted, last, msgs, touched, calls>>

(* Mutants of Merge: the merged copy is stamped here and now, as Register  *)
(* does; only what is missing is added.                                    *)
MergeStamped(s) ==
    [id \in Ids |->
        IF merged(store[s], pull[s].got)[id] = store[s][id] THEN store[s][id]
        ELSE stamped(s, pull[s].got[id].v)]

MergeMissing(s) ==
    [id \in Ids |-> IF Has(s, id) THEN store[s][id] ELSE pull[s].got[id]]

(* The registry after the merge; a Lookup that no peer answered merges     *)
(* nothing.  The peer's stamp is kept.                                     *)
Merge(s) == IF pull[s].ok = {} THEN store[s] ELSE merged(store[s], pull[s].got)

(* Mutant of Joined: the snapshot is dropped.                              *)
JoinedUnmerged(s) ==
    /\ phase[s] = "joining" /\ pull[s].open = {}
    /\ phase' = [phase EXCEPT ![s] = "merged"]
    /\ UNCHANGED <<store, pull, hosted, last, msgs, touched, counters>>

(* The join snapshot is in, or has failed on every peer: the seed goes on  *)
(* to report ready in both cases.                                          *)
Joined(s) ==
    /\ phase[s] = "joining" /\ pull[s].open = {}
    /\ store' = [store EXCEPT ![s] = Merge(s)]
    /\ phase' = [phase EXCEPT ![s] = "merged"]
    /\ UNCHANGED <<pull, hosted, last, msgs, touched, counters>>

markReady(s) ==
    /\ phase[s] = "merged"
    /\ phase' = [phase EXCEPT ![s] = "ready"]
    /\ pull' = [pull EXCEPT ![s] = NoPull]
    /\ UNCHANGED <<store, hosted, last, msgs, touched, counters>>

(* The ticker of Syncer.Start.                                             *)
SyncTick(s) ==
    /\ phase[s] = "ready" /\ pull[s] = NoPull
    /\ ask(s)
    /\ UNCHANGED <<store, phase, hosted, last, msgs, touched, counters>>

syncDone(s) ==
    /\ phase[s] = "ready" /\ pull[s] # NoPull /\ pull[s].open = {}
    /\ store' = [store EXCEPT ![s] = Merge(s)]
    /\ pull' = [pull EXCEPT ![s] = NoPull]
    /\ UNCHANGED <<phase, hosted, last, msgs, touched, counters>>
-----------------------------------------------------------------------------
(* Failures and time.                                                      *)

Crash(s) ==
    /\ Up(s) /\ failures < MaxFailures
    /\ failures' = failures + 1
    /\ phase' = [phase EXCEPT ![s] = "down"]
    /\ store' = [store EXCEPT ![s] = NoAnswer]
    /\ pull' = [pull EXCEPT ![s] = NoPull]
    /\ UNCHANGED <<hosted, last, msgs, touched, calls>>

(* The server listens and the syncer begins to join.                       *)
Boot(s) ==
    /\ ~Up(s)
    /\ phase' = [phase EXCEPT ![s] = "joining"]
    /\ ask(s)
    /\ UNCHANGED <<store, hosted, last, msgs, touched, counters>>

(* Mutant of GC: only a lease that has just run out is noticed.            *)
GCOnTheEdge(s) ==
    /\ \E id \in Ids : Has(s, id) /\ store[s][id].age + Skew[s] = Life + 1
    /\ store' = [store EXCEPT ![s] =
          [id \in Ids |-> IF Has(s, id) /\ store[s][id].age + Skew[s] = Life + 1 THEN None
                          ELSE store[s][id]]]
    /\ UNCHANGED <<phase, pull, hosted, last, msgs, touched, counters>>

GC(s) ==
    /\ \E id \in Ids : Has(s, id) /\ expired(s, store[s][id])
    /\ store' = [store EXCEPT ![s] =
          [id \in Ids |-> IF Has(s, id) /\ expired(s, store[s][id]) THEN None
                          ELSE store[s][id]]]
    /\ UNCHANGED <<phase, pull, hosted, last, msgs, touched, counters>>

older(a) == IF a < Cap THEN a + 1 ELSE a
aged(c) == IF c = None THEN None ELSE [c EXCEPT !.age = older(@)]

(* Time passes; a fan-out of writes is over by then, a pull need not be.   *)
Tick ==
    /\ msgs = {}
    /\ store' = [s \in Seeds |-> [id \in Ids |-> aged(store[s][id])]]
    /\ pull' = [s \in Seeds |-> [pull[s] EXCEPT !.got =
                   [id \in Ids |-> aged(pull[s].got[id])]]]
    /\ touched' = [id \in Ids |-> older(touched[id])]
    /\ UNCHANGED <<phase, hosted, last, msgs, counters>>
-----------------------------------------------------------------------------
Init ==
    /\ store = [s \in Seeds |-> NoAnswer]
    /\ phase = [s \in Seeds |-> "down"]
    /\ pull = [s \in Seeds |-> NoPull]
    /\ hosted = [id \in Ids |-> 0] /\ last = [id \in Ids |-> 0]
    /\ msgs = {} /\ steady = {}
    /\ touched = [id \in Ids |-> Cap]
    /\ calls = 0 /\ failures = 0

SeedStep(s) ==
    \/ \E p \in Seeds : PeerAnswers(s, p) \/ PeerFails(s, p)
    \/ Joined(s) \/ markReady(s) \/ SyncTick(s) \/ syncDone(s)
    \/ Crash(s) \/ Boot(s) \/ GC(s)
    \/ \E id \in Ids : Renew(s, id)

Step ==
    \/ \E id \in Ids : AppRemove(id) \/ \E v \in Versions : AppRegister(id, v)
    \/ \E m \in msgs : Deliver(m) \/ Lose(m)
    \/ \E s \in Seeds : SeedStep(s)
    \/ Tick

(* The history variable steady, after any step.                            *)
Watched ==
    {x \in Seeds \X Seeds \X Ids :
        LET s == x[1]  p == x[2]  id == x[3]
        IN  /\ s # p /\ phase'[s] \in {"joining", "merged"}
            /\ phase[s] = "down" \/ x \in steady
            /\ store'[p][id] # None
            /\ store'[p][id].age + Skew[p] <= Life
            /\ ~(Has(s, id) /\ store'[s][id] = None)}

Next == Step /\ steady' = Watched

Spec == Init /\ [][Next]_vars

(* Seeds that are down come back, messages and answers arrive or are lost, *)
(* the syncer goes on, and GC runs.                                        *)
FairSpec ==
    /\ Spec
    /\ WF_vars(Tick /\ steady' = Watched)
    /\ WF_vars(\E m \in msgs : (Deliver(m) \/ Lose(m)) /\ steady' = Watched)
    /\ \A s \in Seeds :
         /\ WF_vars((Boot(s) \/ SyncTick(s)) /\ steady' = Watched)
         /\ WF_vars(/\ \/ \E p \in Seeds : PeerAnswers(s, p) \/ PeerFails(s, p)
                       \/ Joined(s) \/ markReady(s) \/ syncDone(s)
                    /\ steady' = Watched)
         /\ SF_vars(GC(s) /\ steady' = Watched)
-----------------------------------------------------------------------------
(* Properties.                                                             *)

(* Type correctness: ages stay between the most a clock may be ahead and   *)
(* Cap, at every seed and in every answer under way.                       *)
TypeOK ==
    /\ store \in [Seeds -> [Ids -> Copy \cup {None}]]
    /\ phase \in [Seeds -> {"down", "joining", "merged", "ready"}]
    /\ pull \in [Seeds -> [open: SUBSET Seeds, ok: SUBSET Seeds,
                           got: [Ids -> Copy \cup {None}]]]
    /\ hosted \in [Ids -> Versions \cup {0}]
    /\ last \in [Ids -> Versions \cup {0}]
    /\ msgs \subseteq [to: Seeds, kind: {"register", "remove"}, id: Ids,
                       v: Versions \cup {0}]
    /\ \A m \in msgs : m.kind = "register" => m.v \in Versions
    /\ touched \in [Ids -> 0 .. Cap]
    /\ steady \subseteq Seeds \X Seeds \X Ids
    /\ calls \in 0 .. MaxCalls /\ failures \in 0 .. MaxFailures

(* "A pulled snapshot does not artificially extend or shorten a lease"     *)
(* (store.go:276): however often a copy is passed from seed to seed, and   *)
(* however late a snapshot is merged, no seed shows a service for longer   *)
(* than a lease (and the difference of two clocks) after the last write or *)
(* renewal any seed took.                                                  *)
GossipKeepsLease ==
    \A s \in Seeds, id \in Ids :
        Has(s, id) /\ ~expired(s, store[s][id])
            => touched[id] <= Life + MaxSkew - Skew[s]

(* "A seed that (re)starts pulls a full snapshot from its peers before it  *)
(* reports ready" (membership.md:16): when the join snapshot is merged,    *)
(* the seed has every service that a peer which answered has had all       *)
(* along.  A peer that did not answer is not waited for.                   *)
JoinComplete ==
    \A x \in steady :
        phase[x[1]] = "merged" /\ x[2] \in pull[x[1]].ok => Has(x[1], x[3])

(* What no agent hosts disappears from every seed, although each seed that *)
(* still has it, or has an old snapshot of it, gives it back to those that *)
(* have deleted it (syncer.go:143).                                        *)
GossipForgets ==
    \A id \in Ids :
        <>[](hosted[id] = 0) => <>[](\A s \in Seeds : ~Has(s, id))

(* "A concurrent live write is never lost - the newer copy always wins the *)
(* merge" (membership.md:22): a seed that has the version the agent hosts  *)
(* keeps it as long as the agent does, or loses the service altogether.    *)
LiveWriteKept ==
    [][\A s \in Seeds, id \in Ids :
         /\ hosted[id] # 0 /\ hosted'[id] = hosted[id]
         /\ store[s][id].v = hosted[id] /\ store'[s][id] # None
         => store'[s][id].v = hosted[id]]_vars

(* "Seeds reconcile divergence in the background" (membership.md:11):      *)
(* while some seed has the version the agent hosts, time and again all     *)
(* seeds have it, those included that crashed or that missed the write.    *)
LiveWriteSpreads ==
    \A id \in Ids :
        <>[](hosted[id] # 0 /\ \E s \in Seeds : store[s][id].v = hosted[id])
            => []<>(\A t \in Seeds : store[t][id].v = hosted[id])
=============================================================================
