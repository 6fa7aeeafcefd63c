----------------------------- MODULE SeedWatch -----------------------------
(***************************************************************************)
(* A seed's push path: the registry's change events go through             *)
(* watch.Watcher.Notify (internal/watch/watcher.go) to the Watch streams   *)
(* of internal/server/service.go, and into the instance set that           *)
(* client/sdk/sdk.go keeps at the other end.                               *)
(*                                                                         *)
(* The registry is module Registry; what it leaves to its callers, the     *)
(* delivery of a batch after the lock is released, is Notify here.  Notify *)
(* numbers the events and picks the subscribers under Watcher.mu, then     *)
(* sends outside it: `delivering' holds the callers that are between.      *)
(*                                                                         *)
(* A client stands for one stream, from Subscribe to Disconnect.           *)
(***************************************************************************)
EXTENDS Registry, WatchIndex

CONSTANTS
    Clients,        \* the streams
    Queries,        \* the queries they make, always with a name
    Buffer,         \* capacity of a subscription's channel, 64 in the code
    MaxWriters      \* bound: operations between their unlock and the end of
                    \* their deliveries when another one starts

ASSUME WatchAssumption == Buffer \in Nat \ {0} /\ MaxWriters \in Nat \ {0}

VARIABLES
    wIndex,         \* Watcher.index
    nameIndex,      \* Watcher.nameIndex
    stream,         \* every client's end and server's end of its stream
    delivering,     \* deliveries not sent yet, one set per Notify call
    overtaken       \* history: an event went ahead of an older one about the
                    \* same service, at its Notify call or when it was sent

watchVars == <<wIndex, nameIndex, stream, delivering, overtaken>>

(* pc: where Service.Watch stands; chan: the subscription's channel;       *)
(* toSend: what is left of the snapshot; set: the SDK's map; last: the     *)
(* index of the last response.  The rest is history: the versions in the   *)
(* snapshot, those it left out (see unlisted) and those received in        *)
(* events, whether the channel was ever full.                              *)
NoStream ==
    [pc |-> "off", q |-> [name |-> NoId, dc |-> NoId, tags |-> {}],
     chan |-> <<>>, toSend |-> {}, set |-> [r \in Ref |-> NoSvc], last |-> 0,
     snap |-> {}, hidden |-> {}, got |-> {}, dropped |-> FALSE]

CurrentIndex(q) == currentIndexLocked(wIndex, nameIndex, q.name)

(* watcher.matches, on the entry an event carries.                         *)
eventMatches(q, e) ==
    /\ q.name = e.def.name
    /\ q.dc = NoId \/ e.meta.dc = q.dc
    /\ q.tags \subseteq e.def.data.tags

(* Mutant of Subscribed: a stream subscribes once its snapshot is sent.    *)
SubscribedWhenLive == {c \in Clients : stream[c].pc = "live"}

Subscribed == {c \in Clients : stream[c].pc \notin {"off", "closed"}}
-----------------------------------------------------------------------------
(* Watcher.                                                                *)

(* The events of a batch under the watcher's own indexes.                  *)
numbered(batch) ==
    [i \in 1 .. Len(batch) |-> [ev |-> batch[i], index |-> wIndex + i]]

(* The deliveries for one event: to the subscribers that match.            *)
deliveriesOf(n) ==
    {[to |-> c, ev |-> n.ev, index |-> n.index] :
       c \in {x \in Subscribed : eventMatches(stream[x].q, n.ev)}}

olderOf(o, e) == o.ref = e.ref /\ o.index < e.index

Notify(batch) ==
    /\ emit(batch)
    /\ overtaken' = (overtaken \/
          \E b \in pending : \E i \in 1 .. Len(b), j \in 1 .. Len(batch) :
             olderOf(b[i], batch[j]))
    /\ wIndex' = wIndex + Len(batch)
    /\ nameIndex' = keysAfter(wIndex, nameIndex,
                              [i \in 1 .. Len(batch) |-> batch[i].def.name])
    /\ LET ds == UNION {deliveriesOf(numbered(batch)[i]) : i \in 1 .. Len(batch)}
       IN  delivering' = IF ds = {} THEN delivering ELSE delivering \cup {ds}
    /\ UNCHANGED stream

(* One send of a Notify call, which sends event by event, and each event   *)
(* in the arbitrary order of the subscriptions' map: a full channel drops  *)
(* the event, a closed stream's channel has no reader any more.            *)
Deliver(ds, d) ==
    LET s == stream[d.to]
    IN  /\ \A o \in ds : d.index <= o.index
        /\ delivering' = (delivering \ {ds}) \cup ({ds \ {d}} \ {{}})
        /\ stream' = [stream EXCEPT ![d.to] =
              IF s.pc = "closed" THEN s
              ELSE IF Len(s.chan) < Buffer
                   THEN [s EXCEPT !.chan = Append(@, d)]
                   ELSE [s EXCEPT !.dropped = TRUE]]
        /\ overtaken' = (overtaken \/
              \E o \in UNION (delivering \ {ds}) :
                 o.to = d.to /\ olderOf(o.ev, d.ev))
        /\ UNCHANGED <<vars, wIndex, nameIndex>>
-----------------------------------------------------------------------------
(* Service.Watch and the SDK behind it.                                    *)

Subscribe(c, q) ==
    /\ stream[c].pc = "off"
    /\ stream' = [stream EXCEPT ![c] = [@ EXCEPT !.pc = "subscribed", !.q = q]]
    /\ UNCHANGED <<vars, wIndex, nameIndex, delivering, overtaken>>

(* What Lookup does not list although the last event about it may match:   *)
(* a service past its grace window that GC has not met yet, and one whose  *)
(* node has since been registered with other attributes.                   *)
unlisted ==
    {r \in Stored : leaseExpired(svc[r], now) \/ nodes[r[1]] # newest[r].meta}

(* store.Lookup needs the registry's lock.                                 *)
Snapshot(c) ==
    /\ stream[c].pc = "subscribed" /\ call = Idle
    /\ LET found == Lookup(stream[c].q)
       IN  stream' = [stream EXCEPT ![c] =
              [@ EXCEPT !.pc = "snapshot", !.toSend = found,
                        !.snap = {<<e.ref, e.modifyIndex>> : e \in found},
                        !.hidden = {<<r, svc[r].modifyIndex>> : r \in unlisted}]]
    /\ UNCHANGED <<vars, wIndex, nameIndex, delivering, overtaken>>

(* Mutant of receive: a removal is not applied.                            *)
receiveKeeps(s, e, idx) ==
    [s EXCEPT !.set = [@ EXCEPT ![e.ref] = IF e.type = "put" THEN view(e) ELSE @],
              !.last = idx]

(* A response with an event reaches the client: the event is applied to    *)
(* its set, and the index is the new one to resume from.                   *)
receive(s, e, idx) ==
    [s EXCEPT !.set = [@ EXCEPT ![e.ref] = IF e.type = "put" THEN view(e) ELSE NoSvc],
              !.last = idx]

SendEntry(c) ==
    /\ stream[c].pc = "snapshot"
    /\ \E e \in stream[c].toSend :
         LET s   == stream[c]
             put == [type |-> "put", ref |-> e.ref, def |-> e.def,
                     maintenance |-> e.maintenance]
         IN  stream' = [stream EXCEPT ![c] =
                [receive(s, put, CurrentIndex(s.q)) EXCEPT !.toSend = s.toSend \ {e}]]
    /\ UNCHANGED <<vars, wIndex, nameIndex, delivering, overtaken>>

(* Mutant of SendDone: the marker goes out with the first live event.      *)
SendDoneAwaitsEvent(c) ==
    /\ stream[c].pc = "snapshot" /\ stream[c].toSend = {}
    /\ stream[c].chan # <<>>
    /\ stream' = [stream EXCEPT ![c] =
          [@ EXCEPT !.pc = "live", !.last = CurrentIndex(stream[c].q)]]
    /\ UNCHANGED <<vars, wIndex, nameIndex, delivering, overtaken>>

SendDone(c) ==
    /\ stream[c].pc = "snapshot" /\ stream[c].toSend = {}
    /\ stream' = [stream EXCEPT ![c] =
          [@ EXCEPT !.pc = "live", !.last = CurrentIndex(stream[c].q)]]
    /\ UNCHANGED <<vars, wIndex, nameIndex, delivering, overtaken>>

SendEvent(c) ==
    /\ stream[c].pc = "live" /\ stream[c].chan # <<>>
    /\ LET s == stream[c]
           d == Head(s.chan)
       IN  stream' = [stream EXCEPT ![c] =
              [receive(s, d.ev, d.index) EXCEPT !.chan = Tail(s.chan),
                        !.got = s.got \cup {<<d.ev.ref, d.ev.index>>}]]
    /\ UNCHANGED <<vars, wIndex, nameIndex, delivering, overtaken>>

(* The stream's context ends: cancel removes the subscription.             *)
Disconnect(c) ==
    /\ stream[c].pc \in {"subscribed", "snapshot", "live"}
    /\ stream' = [stream EXCEPT ![c] = [NoStream EXCEPT !.pc = "closed"]]
    /\ UNCHANGED <<vars, wIndex, nameIndex, delivering, overtaken>>
-----------------------------------------------------------------------------
WatchInit ==
    /\ Init
    /\ wIndex = 0
    /\ nameIndex = [n \in Names |-> 0]
    /\ stream = [c \in Clients |-> NoStream]
    /\ delivering = {} /\ overtaken = FALSE

Writers == Cardinality(pending) + Cardinality(delivering)

WatchNext ==
    \/ /\ call = Idle => Writers < MaxWriters
       /\ Operation
       /\ UNCHANGED watchVars
    \/ Tick /\ UNCHANGED watchVars
    \/ \E batch \in pending : Notify(batch)
    \/ \E ds \in delivering : \E d \in ds : Deliver(ds, d)
    \/ \E c \in Clients :
         \/ \E q \in Queries : Subscribe(c, q)
         \/ Snapshot(c)
         \/ SendEntry(c)
         \/ SendDone(c)
         \/ SendEvent(c)
         \/ Disconnect(c)

WatchSpec == WatchInit /\ [][WatchNext]_<<vars, watchVars>>

(* A handler that has events to emit or deliver goes on, and a stream with *)
(* something to send sends it.  A reader waiting for the registry's lock   *)
(* gets it however often writers take it, as Go's mutexes guarantee.       *)
FairWatchSpec ==
    /\ WatchSpec
    /\ WF_<<vars, watchVars>>(\E batch \in pending : Notify(batch))
    /\ WF_<<vars, watchVars>>(\E ds \in delivering : \E d \in ds : Deliver(ds, d))
    /\ \A c \in Clients :
         /\ SF_<<vars, watchVars>>(Snapshot(c))
         /\ WF_<<vars, watchVars>>(SendEntry(c) \/ SendDone(c))
         /\ WF_<<vars, watchVars>>(SendEvent(c))
    /\ WF_<<vars, watchVars>>((RegisterService \/ RegisterDone \/ MergeEntry
          \/ MergeDone \/ (\E r \in Ref : DeregisterNext(r) \/ GCNext(r))
          \/ DeregisterDone \/ GCDone) /\ UNCHANGED watchVars)
-----------------------------------------------------------------------------
(* Properties.                                                             *)

Delivery == [to: Clients, ev: Event, index: Nat]

(* Type correctness of the watcher and of the streams.                     *)
WatchTypeOK ==
    /\ wIndex \in Nat
    /\ nameIndex \in [Names -> 0 .. wIndex]
    /\ delivering \subseteq SUBSET Delivery /\ overtaken \in BOOLEAN
    /\ \A c \in Clients :
         LET s == stream[c]
         IN  /\ s.pc \in {"off", "subscribed", "snapshot", "live", "closed"}
             /\ s.chan \in Seq(Delivery) /\ Len(s.chan) <= Buffer
             /\ s.set \in [Ref -> View \cup {NoSvc}]
             /\ s.last \in 0 .. wIndex + 1

(* What client c has received or is about to: (service, store index).      *)
inFlight(c) ==
    {<<d.ev.ref, d.ev.index>> : d \in {x \in UNION delivering : x.to = c}}

coming(c) ==
    stream[c].got \cup stream[c].snap
      \cup {<<stream[c].chan[i].ev.ref, stream[c].chan[i].ev.index>> :
              i \in 1 .. Len(stream[c].chan)}
      \cup inFlight(c)

notified(e) ==
    \A b \in Undelivered : \A i \in 1 .. Len(b) : b[i] # e

(* "Subscribe before snapshotting so no change between the two is missed"  *)
(* (service.go:130): unless its channel overflowed, a stream that has its  *)
(* snapshot has received, or is about to, the latest version of every      *)
(* service it asked for, and the removal of every service its snapshot     *)
(* listed, as soon as the watcher was told of it.  The one exception is a  *)
(* version the snapshot left out (unlisted): a renewal brings it back, and *)
(* renewals are not announced.                                             *)
NoMissedChange ==
    \A c \in Clients : \A r \in Ref :
        (/\ stream[c].pc \in {"snapshot", "live"} /\ ~stream[c].dropped
         /\ newest[r] # NoEvent
         /\ notified(newest[r])
         /\ eventMatches(stream[c].q, newest[r])
         /\ newest[r].type = "put" \/ \E x \in stream[c].snap : x[1] = r)
        => <<r, newest[r].index>> \in coming(c) \cup stream[c].hidden

(* Nothing is under way.                                                   *)
Settled(c) ==
    /\ stream[c].pc = "live" /\ stream[c].chan = <<>>
    /\ delivering = {} /\ pending = {} /\ call = Idle

(* When nothing is under way the client's set says of every service what   *)
(* the last event about it says, if that event matches the query, unless   *)
(* its channel overflowed, an event overtook an older one of its service,  *)
(* or the snapshot left that version out: the snapshot and the events      *)
(* queued behind it, older and newer ones mixed, add up.  (An event that   *)
(* stops matching, because the instance lost the tag, is not sent: see     *)
(* WatchConverges.)                                                        *)
ConvergesInOrder ==
    \A c \in Clients : \A r \in Ref :
        (/\ Settled(c) /\ ~stream[c].dropped /\ ~overtaken
         /\ newest[r] # NoEvent /\ eventMatches(stream[c].q, newest[r])
         /\ <<r, newest[r].index>> \notin stream[c].hidden)
        => stream[c].set[r] = IF r \in Stored THEN view(svc[r]) ELSE NoSvc

(* What the query of a stream would find now, lease and node aside.        *)
Expected(q) ==
    LET found == {e.ref : e \in Lookup(q)}
    IN  [r \in Ref |-> IF r \in found THEN view(svc[r]) ELSE NoSvc]

(* The SDK's Watch "streams the current instance set for the query and an  *)
(* updated set on every change" (sdk.go:108): when nothing is under way,   *)
(* and no lapsed lease waits for GC to say so, its set is what a Lookup    *)
(* finds.                                                                  *)
WatchConverges ==
    \A c \in Clients :
        (/\ Settled(c) /\ ~stream[c].dropped
         /\ \A r \in Stored : ~leaseExpired(svc[r], now))
          => stream[c].set = Expected(stream[c].q)

(* Under fair handlers every open stream is served: it finishes its        *)
(* snapshot and, once writes stop, everything sent to it is received.      *)
StreamServed ==
    \A c \in Clients :
        (stream[c].pc = "subscribed")
          ~> (stream[c].pc = "closed" \/ Settled(c))
=============================================================================
