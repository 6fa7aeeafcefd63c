------------------------------ MODULE Registry ------------------------------
(***************************************************************************)
(* The registry a seed holds: store.Memory of internal/store/store.go.     *)
(*                                                                         *)
(* Every operation runs under Memory.mu.  An operation that touches one    *)
(* service is one action.  An operation that loops over services           *)
(* (Register, Merge, Deregister, GC) takes the lock in one action,         *)
(* performs one action per iteration and releases it in a last one; no     *)
(* other operation can run in between, but the clock moves and earlier     *)
(* callers still deliver their events.  The events of an operation are     *)
(* handed to Options.OnChange only AFTER the lock is released: `pending'   *)
(* holds the batches of the callers that are between the two.              *)
(*                                                                         *)
(* Calls that return ErrInvalid or ErrNotFound before changing anything    *)
(* are stuttering steps and have no action of their own.                   *)
(***************************************************************************)
EXTENDS Lease, Sequences, FiniteSets

CONSTANTS
    Nodes,          \* agent ids
    SvcIds,         \* service ids
    Names,          \* service names; a name may serve as an id
    Metas,          \* node attributes: records with a field dc
    Datas,          \* address, port, tags, meta and weights of an instance:
                    \* records with a field tags
    NoId,           \* the empty string, as a service id or a query's name
    NoNode, NoMeta, NoSvc, NoEvent, \* "absent"
    MaxServices,    \* Options.MaxServices, 0 = unlimited
    StartIndex,     \* Options.StartIndex
    Registrations,  \* the calls of Register that clients make
    PeerBatches,    \* the calls of Merge that anti-entropy makes
    RenewArgs,      \* the service id lists passed to Renew
    FailRefs,       \* the services on which a client ever calls Fail
    MaxIndex,       \* bound: no client write starts at or past this index
    MaxTime         \* bound: the clock stops here

Ref == Nodes \X SvcIds

(* A service of a Registration, and an entry of a peer's snapshot.         *)
Input == [id: SvcIds \cup {NoId}, name: Names, data: Datas, ttl: Nat]
Item == [ref: Ref, meta: Metas, name: Names, data: Datas, ttl: Nat,
         gen: Nat, lastSeen: Nat]

ASSUME RegistryAssumption ==
    /\ Names \subseteq SvcIds
    /\ NoId \notin SvcIds
    /\ NoMeta \notin Metas
    /\ MaxServices \in Nat /\ StartIndex \in Nat
    /\ MaxIndex \in Nat /\ MaxTime \in Nat
    /\ Registrations \subseteq
         [node: Nodes, meta: Metas, gen: Nat, services: Seq(Input)]
    /\ PeerBatches \subseteq Seq(Item)
    /\ RenewArgs \subseteq Seq(SvcIds)
    /\ FailRefs \subseteq Ref

Def == [name: Names, data: Datas, ttl: Nat, gen: Nat, lastSeen: Nat]
Service == [def: Def, maintenance: BOOLEAN, failed: BOOLEAN,
            lastState: HealthStates, createIndex: Nat, modifyIndex: Nat]
Event == [type: {"put", "delete"}, ref: Ref, meta: Metas, def: Def,
          health: HealthStates, maintenance: BOOLEAN, index: Nat]

(* What a reader can see of a service apart from its lease, listed with    *)
(* the index of its last change.                                           *)
View == [name: Names, data: Datas, ttl: Nat, gen: Nat, maintenance: BOOLEAN]
Listed == [view: View, rev: Nat]

ASSUME AbsentAssumption ==
    NoSvc \notin Service /\ NoSvc \notin Listed /\ NoEvent \notin Event

VARIABLES
    now,            \* the clock
    nodes,          \* Memory.nodes: the attributes of each known node
    svc,            \* node.services of every node, by (node, service id)
    byName,         \* Memory.byName
    index,          \* Memory.index
    call,           \* the loop that holds Memory.mu, or Idle
    pending,        \* event batches whose caller has not emitted them yet
    newest          \* history: the last event created about each service

vars == <<now, nodes, svc, byName, index, call, pending, newest>>

(* The local variables of a loop: the node, instant or size it read, the   *)
(* input it has yet to process (rest) or the services it has yet to visit  *)
(* (todo), and the events it has gathered.                                 *)
Idle == [op |-> "idle", node |-> NoNode, at |-> 0, size |-> 0, rest |-> <<>>,
         todo |-> {}, events |-> <<>>]

Stored == {r \in Ref : svc[r] # NoSvc}
sizeLocked == Cardinality(Stored)
-----------------------------------------------------------------------------
(* Events.                                                                 *)

entryEvent(type, r, meta, s, health) ==
    [type |-> type, ref |-> r, meta |-> meta, def |-> s.def,
     health |-> health, maintenance |-> s.maintenance, index |-> s.modifyIndex]

(* putEvent reads the clock again: its health is the lease's at `now'.     *)
putEvent(r, meta, s) == entryEvent("put", r, meta, s, leaseState(s, now))

deleteEvent(r, meta, s) == entryEvent("delete", r, meta, s, Critical)

(* Hand a batch over to the caller, who emits it once the lock is free.    *)
(* emit ignores an empty batch.                                            *)
queue(events) ==
    pending' = IF events = <<>> THEN pending ELSE pending \cup {events}

(* Record e as the newest event of its service.                            *)
Announce(e) == newest' = [newest EXCEPT ![e.ref] = e]

(* OnChange is called, outside the lock, by whichever caller runs next.    *)
emit(batch) ==
    /\ batch \in pending
    /\ pending' = pending \ {batch}
    /\ UNCHANGED <<now, nodes, svc, byName, index, call, newest>>
-----------------------------------------------------------------------------
(* The secondary index by name, and the three ways a service changes.      *)

indexName(names, r, name) == [names EXCEPT ![name] = @ \cup {r}]
unindexName(names, r, name) == [names EXCEPT ![name] = @ \ {r}]

changed(a, b) ==
    \/ a.name # b.name
    \/ a.data # b.data
    \/ a.ttl # b.ttl
    \/ a.gen # b.gen

defOf(item) ==
    [name |-> item.name, data |-> item.data, ttl |-> clampTTL(item.ttl),
     gen |-> item.gen, lastSeen |-> item.lastSeen]

(* A new service at the next index.                                        *)
newService(def) ==
    [def |-> def, maintenance |-> FALSE, failed |-> FALSE,
     lastState |-> Passing, createIndex |-> index + 1,
     modifyIndex |-> index + 1]

(* Mutant of putInLoop: a rename leaves the old name behind.               *)
putInLoopStaleName(r, meta, s, size, more) ==
    LET e == putEvent(r, meta, s)
    IN  /\ svc' = [svc EXCEPT ![r] = s]
        /\ byName' = indexName(byName, r, s.def.name)
        /\ index' = index + 1
        /\ call' = [call EXCEPT !.size = size, !.rest = more,
                                !.events = Append(@, e)]
        /\ Announce(e)

(* Store s at r with a put event, inside the loop `call'; `more' is what   *)
(* remains of the loop's input.  The name index follows a rename.          *)
putInLoop(r, meta, s, size, more) ==
    LET e == putEvent(r, meta, s)
        old == IF svc[r] = NoSvc THEN byName
               ELSE unindexName(byName, r, svc[r].def.name)
    IN  /\ svc' = [svc EXCEPT ![r] = s]
        /\ byName' = indexName(old, r, s.def.name)
        /\ index' = index + 1
        /\ call' = [call EXCEPT !.size = size, !.rest = more,
                                !.events = Append(@, e)]
        /\ Announce(e)

(* Mutant of deleteInLoop: no event.                                       *)
deleteInLoopSilent(r) ==
    /\ svc' = [svc EXCEPT ![r] = NoSvc]
    /\ byName' = unindexName(byName, r, svc[r].def.name)
    /\ index' = index + 1
    /\ call' = [call EXCEPT !.todo = @ \ {r}]
    /\ UNCHANGED newest

(* Delete r with a delete event, inside the loop `call'.                   *)
deleteInLoop(r) ==
    LET e == deleteEvent(r, nodes[r[1]], [svc[r] EXCEPT !.modifyIndex = index + 1])
    IN  /\ svc' = [svc EXCEPT ![r] = NoSvc]
        /\ byName' = unindexName(byName, r, svc[r].def.name)
        /\ index' = index + 1
        /\ call' = [call EXCEPT !.todo = @ \ {r}, !.events = Append(@, e)]
        /\ Announce(e)

(* Leave a loop: release the lock, the caller goes on to emit.             *)
unlock ==
    /\ call' = Idle
    /\ queue(call.events)

atCapacity(size) == MaxServices > 0 /\ size >= MaxServices
-----------------------------------------------------------------------------
(* Register.  The attributes of the node are overwritten first, the items  *)
(* carry the instant the lock was taken and the registration's generation. *)

itemsOf(reg) ==
    [i \in 1 .. Len(reg.services) |->
        LET in == reg.services[i]
        IN  [ref |-> <<reg.node, IF in.id = NoId THEN in.name ELSE in.id>>,
             meta |-> reg.meta, name |-> in.name, data |-> in.data,
             ttl |-> in.ttl, gen |-> reg.gen, lastSeen |-> now]]

Register(reg) ==
    /\ call = Idle /\ index < MaxIndex
    /\ nodes' = [nodes EXCEPT ![reg.node] = reg.meta]
    /\ call' = [Idle EXCEPT !.op = "Register", !.size = sizeLocked,
                            !.rest = itemsOf(reg)]
    /\ UNCHANGED <<now, svc, byName, index, pending, newest>>

(* Mutant of RegisterNew: the size read under the lock is not kept up.     *)
RegisterNewUncounted(item, def) ==
    /\ svc[item.ref] = NoSvc
    /\ ~atCapacity(call.size)
    /\ putInLoop(item.ref, item.meta, newService(def), call.size,
                 Tail(call.rest))
    /\ UNCHANGED pending

RegisterNew(item, def) ==
    /\ svc[item.ref] = NoSvc
    /\ ~atCapacity(call.size)
    /\ putInLoop(item.ref, item.meta, newService(def), call.size + 1,
                 Tail(call.rest))
    /\ UNCHANGED pending

(* ErrCapacity: what was registered before this item stays, its events     *)
(* are emitted, the rest of the registration is dropped.                   *)
RegisterFull(item) ==
    /\ svc[item.ref] = NoSvc
    /\ atCapacity(call.size)
    /\ unlock
    /\ UNCHANGED <<svc, byName, index, newest>>

RegisterChanged(item, def) ==
    /\ svc[item.ref] # NoSvc
    /\ changed(svc[item.ref].def, def)
    /\ putInLoop(item.ref, item.meta,
                 [svc[item.ref] EXCEPT !.def = def, !.lastState = Passing,
                                       !.modifyIndex = index + 1],
                 call.size, Tail(call.rest))
    /\ UNCHANGED pending

(* Identical data: the lease is refreshed, nothing is announced.           *)
RegisterSame(item, def) ==
    /\ svc[item.ref] # NoSvc
    /\ ~changed(svc[item.ref].def, def)
    /\ svc' = [svc EXCEPT ![item.ref].def.lastSeen = def.lastSeen]
    /\ call' = [call EXCEPT !.rest = Tail(@)]
    /\ UNCHANGED <<byName, index, pending, newest>>

RegisterService ==
    /\ call.op = "Register" /\ call.rest # <<>>
    /\ LET item == Head(call.rest)
           def == defOf(item)
       IN  \/ RegisterNew(item, def)
           \/ RegisterFull(item)
           \/ RegisterChanged(item, def)
           \/ RegisterSame(item, def)
    /\ UNCHANGED <<now, nodes>>

RegisterDone ==
    /\ call.op = "Register" /\ call.rest = <<>>
    /\ unlock
    /\ UNCHANGED <<now, nodes, svc, byName, index, newest>>
-----------------------------------------------------------------------------
(* Merge: anti-entropy.  Every entry overwrites the attributes of its      *)
(* node, whether or not its service wins.                                  *)

Merge(entries) ==
    /\ call = Idle /\ index < MaxIndex
    /\ call' = [Idle EXCEPT !.op = "Merge", !.size = sizeLocked,
                            !.rest = entries]
    /\ UNCHANGED <<now, nodes, svc, byName, index, pending, newest>>

MergeNew(item, def) ==
    /\ svc[item.ref] = NoSvc
    /\ ~atCapacity(call.size)
    /\ putInLoop(item.ref, item.meta, newService(def), call.size + 1,
                 Tail(call.rest))

MergeWins(item, def) ==
    /\ svc[item.ref] # NoSvc
    /\ WinsLWW(def, svc[item.ref].def)
    /\ putInLoop(item.ref, item.meta,
                 [svc[item.ref] EXCEPT !.def = def, !.modifyIndex = index + 1],
                 call.size, Tail(call.rest))

(* A losing entry, and one past the cap, leave the services alone.         *)
MergeSkip(item, def) ==
    /\ IF svc[item.ref] = NoSvc
       THEN atCapacity(call.size)
       ELSE ~WinsLWW(def, svc[item.ref].def)
    /\ call' = [call EXCEPT !.rest = Tail(@)]
    /\ UNCHANGED <<svc, byName, index, newest>>

MergeEntry ==
    /\ call.op = "Merge" /\ call.rest # <<>>
    /\ LET item == Head(call.rest)
           def == defOf(item)
       IN  /\ nodes' = [nodes EXCEPT ![item.ref[1]] = item.meta]
           /\ \/ MergeNew(item, def)
              \/ MergeWins(item, def)
              \/ MergeSkip(item, def)
    /\ UNCHANGED <<now, pending>>

MergeDone ==
    /\ call.op = "Merge" /\ call.rest = <<>>
    /\ unlock
    /\ UNCHANGED <<now, nodes, svc, byName, index, newest>>
-----------------------------------------------------------------------------
(* The operations on single services.                                      *)

(* Renew without ids renews the whole node; with ids it stops at the first *)
(* one that is not registered, leaving the ids after it unrenewed.         *)
Renew(n, ids) ==
    /\ call = Idle
    /\ nodes[n] # NoMeta
    /\ LET reached == {ids[i] : i \in {j \in 1 .. Len(ids) :
                          \A k \in 1 .. j : svc[<<n, ids[k]>>] # NoSvc}}
           renewed == {r \in Stored :
                          r[1] = n /\ (ids = <<>> \/ r[2] \in reached)}
       IN  svc' = [r \in Ref |-> IF r \in renewed
                     THEN [svc[r] EXCEPT !.def.lastSeen = now, !.failed = FALSE]
                     ELSE svc[r]]
    /\ UNCHANGED <<now, nodes, byName, index, call, pending, newest>>

(* The tail common to Fail and SetMaintenance: s replaces the service at r.*)
putOne(r, s) ==
    LET e == putEvent(r, nodes[r[1]], s)
    IN  /\ svc' = [svc EXCEPT ![r] = s]
        /\ index' = index + 1
        /\ queue(<<e>>)
        /\ Announce(e)
        /\ UNCHANGED <<now, nodes, byName, call>>

Fail(r) ==
    /\ call = Idle /\ index < MaxIndex
    /\ svc[r] # NoSvc /\ ~svc[r].failed
    /\ putOne(r, [svc[r] EXCEPT !.failed = TRUE, !.modifyIndex = index + 1])

SetMaintenance(r, enabled) ==
    /\ call = Idle /\ index < MaxIndex
    /\ svc[r] # NoSvc /\ svc[r].maintenance # enabled
    /\ putOne(r, [svc[r] EXCEPT !.maintenance = enabled,
                                !.modifyIndex = index + 1])

(* Mutant of DeregisterService: the index is advanced for the service and  *)
(* again for the event.                                                    *)
DeregisterServiceTwoIndexes(r) ==
    /\ call = Idle /\ index < MaxIndex
    /\ svc[r] # NoSvc
    /\ LET e == deleteEvent(r, nodes[r[1]],
                            [svc[r] EXCEPT !.modifyIndex = index + 2])
       IN  queue(<<e>>) /\ Announce(e)
    /\ svc' = [svc EXCEPT ![r] = NoSvc]
    /\ byName' = unindexName(byName, r, svc[r].def.name)
    /\ index' = index + 2
    /\ nodes' = IF \E q \in Stored \ {r} : q[1] = r[1] THEN nodes
                ELSE [nodes EXCEPT ![r[1]] = NoMeta]
    /\ UNCHANGED <<now, call>>

(* The node goes with its last service.                                    *)
DeregisterService(r) ==
    /\ call = Idle /\ index < MaxIndex
    /\ svc[r] # NoSvc
    /\ LET e == deleteEvent(r, nodes[r[1]],
                            [svc[r] EXCEPT !.modifyIndex = index + 1])
       IN  /\ queue(<<e>>)
           /\ Announce(e)
    /\ svc' = [svc EXCEPT ![r] = NoSvc]
    /\ byName' = unindexName(byName, r, svc[r].def.name)
    /\ index' = index + 1
    /\ nodes' = IF \E q \in Stored \ {r} : q[1] = r[1] THEN nodes
                ELSE [nodes EXCEPT ![r[1]] = NoMeta]
    /\ UNCHANGED <<now, call>>
-----------------------------------------------------------------------------
(* Deregister: the services of a node in the map's arbitrary order, then   *)
(* the node.  call.todo holds the services still to visit.                 *)

Deregister(n) ==
    /\ call = Idle /\ index < MaxIndex
    /\ nodes[n] # NoMeta
    /\ call' = [Idle EXCEPT !.op = "Deregister",
                            !.node = n,
                            !.todo = {r \in Stored : r[1] = n}]
    /\ UNCHANGED <<now, nodes, svc, byName, index, pending, newest>>

DeregisterNext(r) ==
    /\ call.op = "Deregister" /\ r \in call.todo
    /\ deleteInLoop(r)
    /\ UNCHANGED <<now, nodes, pending>>

DeregisterDone ==
    /\ call.op = "Deregister" /\ call.todo = {}
    /\ nodes' = [nodes EXCEPT ![call.node] = NoMeta]
    /\ unlock
    /\ UNCHANGED <<now, svc, byName, index, newest>>
-----------------------------------------------------------------------------
(* GC: one visit of every service, judged at the instant the pass began.   *)

GC ==
    /\ call = Idle
    /\ call' = [Idle EXCEPT !.op = "GC", !.at = now, !.todo = Stored]
    /\ UNCHANGED <<now, nodes, svc, byName, index, pending, newest>>

(* Mutant of GCReap: the grace window is skipped.                          *)
GCReapNoGrace(r) ==
    /\ leaseState(svc[r], call.at) = Critical
    /\ deleteInLoop(r)

GCReap(r) ==
    /\ leaseExpired(svc[r], call.at)
    /\ deleteInLoop(r)

GCTransition(r) ==
    /\ ~leaseExpired(svc[r], call.at)
    /\ leaseState(svc[r], call.at) # svc[r].lastState
    /\ LET s == [svc[r] EXCEPT !.lastState = leaseState(svc[r], call.at),
                               !.modifyIndex = index + 1]
           e == putEvent(r, nodes[r[1]], s)
       IN  /\ svc' = [svc EXCEPT ![r] = s]
           /\ index' = index + 1
           /\ call' = [call EXCEPT !.todo = @ \ {r}, !.events = Append(@, e)]
           /\ Announce(e)
    /\ UNCHANGED byName

GCKeep(r) ==
    /\ ~leaseExpired(svc[r], call.at)
    /\ leaseState(svc[r], call.at) = svc[r].lastState
    /\ call' = [call EXCEPT !.todo = @ \ {r}]
    /\ UNCHANGED <<svc, byName, index, newest>>

GCNext(r) ==
    /\ call.op = "GC" /\ r \in call.todo
    /\ GCReap(r) \/ GCTransition(r) \/ GCKeep(r)
    /\ UNCHANGED <<now, nodes, pending>>

(* Nodes left without services are dropped.                                *)
GCDone ==
    /\ call.op = "GC" /\ call.todo = {}
    /\ nodes' = [n \in Nodes |-> IF \E r \in Stored : r[1] = n
                                 THEN nodes[n] ELSE NoMeta]
    /\ unlock
    /\ UNCHANGED <<now, svc, byName, index, newest>>
-----------------------------------------------------------------------------
Tick ==
    /\ now < MaxTime
    /\ now' = now + 1
    /\ UNCHANGED <<nodes, svc, byName, index, call, pending, newest>>

Init ==
    /\ now = 0
    /\ nodes = [n \in Nodes |-> NoMeta]
    /\ svc = [r \in Ref |-> NoSvc]
    /\ byName = [name \in Names |-> {}]
    /\ index = StartIndex
    /\ call = Idle
    /\ pending = {}
    /\ newest = [r \in Ref |-> NoEvent]

(* The operations of the registry, loops included.                         *)
Operation ==
    \/ \E reg \in Registrations : Register(reg)
    \/ RegisterService
    \/ RegisterDone
    \/ \E entries \in PeerBatches : Merge(entries)
    \/ MergeEntry
    \/ MergeDone
    \/ \E n \in Nodes, ids \in RenewArgs : Renew(n, ids)
    \/ \E r \in FailRefs : Fail(r)
    \/ \E r \in Ref, enabled \in BOOLEAN : SetMaintenance(r, enabled)
    \/ \E r \in Ref : DeregisterService(r)
    \/ \E n \in Nodes : Deregister(n)
    \/ \E r \in Ref : DeregisterNext(r)
    \/ DeregisterDone
    \/ GC
    \/ \E r \in Ref : GCNext(r)
    \/ GCDone

Next ==
    \/ Operation
    \/ \E batch \in pending : emit(batch)
    \/ Tick

Spec == Init /\ [][Next]_vars
-----------------------------------------------------------------------------
(* Lookup, the read every surface is built on.                             *)

matches(r, q) ==
    /\ q.dc = NoId \/ nodes[r[1]].dc = q.dc
    /\ q.tags \subseteq svc[r].def.data.tags
    /\ ~leaseExpired(svc[r], now)

entry(r) ==
    [ref |-> r, meta |-> nodes[r[1]], def |-> svc[r].def,
     health |-> leaseState(svc[r], now), maintenance |-> svc[r].maintenance,
     createIndex |-> svc[r].createIndex, modifyIndex |-> svc[r].modifyIndex]

Lookup(q) ==
    {entry(r) : r \in {x \in (IF q.name = NoId THEN Stored ELSE byName[q.name]) :
                          svc[x] # NoSvc /\ matches(x, q)}}
-----------------------------------------------------------------------------
(* Properties.                                                             *)

CallType ==
    [op: {"idle", "Register", "Merge", "Deregister", "GC"},
     node: Nodes \cup {NoNode}, at: Nat, size: Nat, rest: Seq(Item),
     todo: SUBSET Ref, events: Seq(Event)]

(* Type correctness of the registry's state.                               *)
TypeOK ==
    /\ now \in Nat
    /\ nodes \in [Nodes -> Metas \cup {NoMeta}]
    /\ svc \in [Ref -> Service \cup {NoSvc}]
    /\ byName \in [Names -> SUBSET Ref]
    /\ index \in Nat
    /\ call \in CallType
    /\ pending \in SUBSET Seq(Event)
    /\ newest \in [Ref -> Event \cup {NoEvent}]

(* The name index is exactly the inverse of the stored services' names, in *)
(* every state and even inside a loop: Register, Merge, Deregister,        *)
(* DeregisterService and GC keep byName and node.services in step through  *)
(* creations, renames and removals, so a Lookup by name neither misses an  *)
(* instance nor finds one under a name it has lost.                        *)
ByNameExact ==
    \A name \in Names : byName[name] = {r \in Stored : svc[r].def.name = name}

(* A stored service always sits on a known node, so Lookup and the events  *)
(* never read the attributes of a dropped one (the node is dropped with    *)
(* its last service by DeregisterService, Deregister and GC, never         *)
(* before).                                                                *)
NodesCover == \A r \in Stored : nodes[r[1]] # NoMeta

(* Every index the registry hands out names one change: a service's        *)
(* CreateIndex and ModifyIndex lie in its past in that order, and no two   *)
(* services share a ModifyIndex.                                           *)
IndexDiscipline ==
    /\ \A r \in Stored : /\ svc[r].createIndex > StartIndex
                         /\ svc[r].createIndex <= svc[r].modifyIndex
                         /\ svc[r].modifyIndex <= index
    /\ \A r, q \in Stored :
         svc[r].modifyIndex = svc[q].modifyIndex => r = q

(* The change events tell the whole story: the newest event created about  *)
(* a service is a put exactly when the service is stored, and then carries *)
(* its definition (all but the heartbeat time), its drain flag and its     *)
(* ModifyIndex.  A consumer that keeps, per service, the event with the    *)
(* highest index therefore holds the registry.                             *)
EventsDescribeRegistry ==
    \A r \in Ref :
        /\ r \in Stored <=> (newest[r] # NoEvent /\ newest[r].type = "put")
        /\ r \in Stored =>
             /\ ~changed(newest[r].def, svc[r].def)
             /\ newest[r].maintenance = svc[r].maintenance
             /\ newest[r].index = svc[r].modifyIndex

Undelivered == pending \cup {call.events}

(* No two events that are still to be emitted carry the same index and a   *)
(* batch is in index order: however the emitting callers interleave, the   *)
(* indexes alone order the changes.                                        *)
EventIndexesOrder ==
    /\ \A b \in Undelivered : \A i, j \in 1 .. Len(b) :
         i < j => b[i].index < b[j].index
    /\ \A b, c \in Undelivered : \A i \in 1 .. Len(b), j \in 1 .. Len(c) :
         b[i].index = c[j].index => b = c /\ i = j
    /\ \A b \in Undelivered : \A i \in 1 .. Len(b) : b[i].index <= index

(* The cap holds in every state, also in the middle of a registration or a *)
(* merge whose size was read once at the start.                            *)
CapRespected == MaxServices > 0 => sizeLocked <= MaxServices

(* A service leaves the registry only when a client deregisters it or when *)
(* GC finds a lease that is still past TTL and grace at the moment of the  *)
(* removal and was not forced critical.                                    *)
LeaseHonoured ==
    [][\A r \in Ref :
         (r \in Stored /\ r \notin Stored' /\ call.op = "GC")
            => leaseExpired(svc[r], now)]_vars

(* ModifyIndex tells every change a reader can see except a heartbeat: a   *)
(* service whose definition or drain flag differs after a step has moved   *)
(* to an index never used before, and its CreateIndex has not changed.     *)
ModifyIndexTracks ==
    [][\A r \in Ref :
         (r \in Stored /\ r \in Stored') =>
            /\ svc'[r].createIndex = svc[r].createIndex
            /\ (changed(svc[r].def, svc'[r].def)
                  \/ svc[r].maintenance # svc'[r].maintenance)
                 => svc'[r].modifyIndex > index]_vars

(* What a reader can see of a service apart from its lease.                *)
view(s) == [name |-> s.def.name, data |-> s.def.data, ttl |-> s.def.ttl,
            gen |-> s.def.gen, maintenance |-> s.maintenance]

catalog ==
    [r \in Ref |-> IF svc[r] = NoSvc THEN NoSvc
                   ELSE [view |-> view(svc[r]), rev |-> svc[r].modifyIndex]]

C == INSTANCE Catalog WITH
        Services <- Ref, Views <- View, Absent <- NoSvc,
        StartRev <- StartIndex, cat <- catalog, rev <- index

(* The registry implements the catalogue: however its loops, its clock and *)
(* its callers interleave, readers see one instance change at a time, each *)
(* change at the next index, and nothing else ever changes what they see.  *)
ImplementsCatalog == C!Spec
=============================================================================
