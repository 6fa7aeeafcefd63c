----------------------------- MODULE AgentReads -----------------------------
(***************************************************************************)
(* An agent's read side: the bounded-staleness cache over the seeds        *)
(* (internal/seedclient/cache.go), the index synthesised from its changes  *)
(* (watch.Watcher.NotifyNames, WaitForChange), the two surfaces that block *)
(* on that index, the Consul blocking query (internal/consul/handler.go)   *)
(* and the native Watch stream (internal/seedclient/proxy.go), and the     *)
(* index file that outlives the process (internal/watch/persist.go).       *)
(*                                                                         *)
(* The cluster is `truth': the merged answer a fan-out would get now, for  *)
(* each query.  An answer is a pair <<k, m>>: k is what `changed' and      *)
(* `endpointChanged' compare (identity, endpoint, generation, health; 0    *)
(* for no instance), m the rest (tags, meta, maintenance).                 *)
(*                                                                         *)
(* Every goroutine that reads (a Consul request, a stream, the refresh     *)
(* loop) runs the same steps: the cache's lock is only held to look at an  *)
(* entry or to replace it, so a fan-out, the store of its result and the   *)
(* notification are three separate steps that others come between.         *)
(***************************************************************************)
EXTENDS WatchIndex

CONSTANTS
    Queries,        \* cache keys: records with a name
    Names,          \* the service names among them
    NoName,         \* the empty name of a list query
    Answers,        \* answers <<k, m>> of the cluster
    Clients,        \* Consul clients, which ask again and again
    Streams,        \* native Watch streams
    Refresher,      \* the refresh loop
    Consistency,    \* the read modes clients use: "default", "consistent"
    StartBase,      \* the persisted index the agent first starts from
    MaxAge,         \* Cache.maxAge, in ticks
    FetchTime,      \* longest fan-out (the seed timeout), in ticks
    MaxWaiters,     \* slots for blocked queries
    NoAnswer,       \* no data
    MaxChanges,     \* bound: changes of the cluster
    MaxCrashes      \* bound: crashes of the agent

ASSUME ReadsAssumption ==
    /\ \A q \in Queries : q.name \in Names \cup {NoName}
    /\ NoName \notin Names
    /\ <<0, 0>> \in Answers /\ NoAnswer \notin Answers
    /\ StartBase \in Nat /\ MaxAge \in Nat \ {0} /\ FetchTime \in Nat
    /\ Refresher \notin Clients \cup Streams /\ Clients \cap Streams = {}

VARIABLES
    truth,          \* what the seeds answer
    cache,          \* Cache.entries
    wIndex,         \* Watcher.index
    nameIndex,      \* Watcher.nameIndex
    saved,          \* the index file
    flushing,       \* the file is truncated and not written yet
    proc,           \* every reader's goroutine
    held,           \* what every client and stream holds
    todo,           \* queries the running Refresh has yet to fetch
    changes, crashes

vars == <<truth, cache, wIndex, nameIndex, saved, flushing, proc, held, todo,
          changes, crashes>>
-----------------------------------------------------------------------------
Procs == Clients \cup Streams \cup {Refresher}
Holders == Clients \cup Streams
Empty == <<0, 0>>

(* A cache entry: its answer, its age up to MaxAge, and the history        *)
(* variable lag, the ticks since the seeds gave the answer.                *)
Entry == [val: Answers, age: 0 .. MaxAge, lag: 0 .. MaxAge + FetchTime]
NoEntry == [val |-> NoAnswer, age |-> MaxAge, lag |-> 0]

(* had: the entry existed when the reader looked; direct: the cache is     *)
(* bypassed; val and lag: the answer, once there is one.                   *)
Quiet(pc) == [pc |-> pc, had |-> FALSE, direct |-> FALSE,
              val |-> NoAnswer, lag |-> 0]

(* idx: the index the holder would block on, 0 when it has none; first:    *)
(* the stream's snapshot is still to come.  The rest is history: missed,   *)
(* the stream's last lookup failed; life, the life of the agent idx comes  *)
(* from; regressed, an index lower than the last one of that life.         *)
Fresh(q) == [q |-> q, idx |-> 0, data |-> NoAnswer, first |-> TRUE,
             missed |-> FALSE, life |-> 0, regressed |-> FALSE]

CurrentIndex(q) == currentIndexLocked(wIndex, nameIndex, q.name)

(* Cache.changed, on the answers of the previous and the new entry.        *)
changed(prev, cur) == IF prev = NoAnswer THEN cur[1] # 0 ELSE prev[1] # cur[1]

(* Mutant of fresh: an entry of exactly the maximal age is still served.   *)
freshAtMaxAge(q) == cache[q].val # NoAnswer /\ cache[q].age <= MaxAge

fresh(q) == cache[q].val # NoAnswer /\ cache[q].age < MaxAge

Waiting == {c \in Clients : proc[c].pc = "wait"}

Goto(p, pc) == proc' = [proc EXCEPT ![p] = Quiet(pc)]
Query(p) == IF p = Refresher THEN CHOOSE q \in todo : TRUE ELSE held[p].q
-----------------------------------------------------------------------------
(* Cache.fetch, in the goroutine of any reader.                            *)

(* The fan-out returns: the merge of what the seeds answered.              *)
FetchAnswer(p) ==
    /\ proc[p].pc = "fetch"
    /\ proc' = [proc EXCEPT ![p].pc = "answered", ![p].val = truth[Query(p)],
                            ![p].lag = 0]
    /\ UNCHANGED <<truth, cache, wIndex, nameIndex, saved, flushing, held,
                   todo, changes, crashes>>

(* No seed answered.  The refresh loop logs it and goes on; a reader       *)
(* returns the error when it had no entry.  When it had one, LookupWithAge *)
(* announces the stale entry and then reads fetchedAt of the nil entry     *)
(* that fetch returned: the request dies, and with it a stream.            *)
FetchFail(p) ==
    /\ proc[p].pc = "fetch"
    /\ \/ /\ p = Refresher
          /\ todo' = todo \ {Query(p)}
          /\ Goto(p, "next")
          /\ UNCHANGED held
       \/ /\ p \in Clients
          /\ Goto(p, "ready")
          /\ UNCHANGED <<held, todo>>
       \/ /\ p \in Streams
          /\ Goto(p, IF proc[p].had THEN "closed" ELSE "wait")
          /\ held' = [held EXCEPT ![p].missed = TRUE]
          /\ UNCHANGED todo
    /\ UNCHANGED <<truth, cache, wIndex, nameIndex, saved, flushing, changes,
                   crashes>>

(* The entry is replaced, stamped with the time of the store; a fan-out    *)
(* that bypasses the cache stores nothing.                                 *)
FetchStore(p) ==
    /\ proc[p].pc = "answered"
    /\ LET q == Query(p)
           news == ~proc[p].direct /\ changed(cache[q].val, proc[p].val)
       IN  /\ IF proc[p].direct THEN UNCHANGED cache
              ELSE cache' = [cache EXCEPT ![q] =
                     [val |-> proc[p].val, age |-> 0, lag |-> proc[p].lag]]
           /\ proc' = [proc EXCEPT ![p].pc = IF news THEN "notify" ELSE "got"]
    /\ UNCHANGED <<truth, wIndex, nameIndex, saved, flushing, held, todo,
                   changes, crashes>>

(* onChange: Watcher.NotifyNames.                                          *)
NotifyNames(p) ==
    /\ proc[p].pc = "notify"
    /\ wIndex' = wIndex + 1
    /\ nameIndex' = keysAfter(wIndex, nameIndex, <<Query(p).name>>)
    /\ proc' = [proc EXCEPT ![p].pc = "got"]
    /\ UNCHANGED <<truth, cache, saved, flushing, held, todo, changes, crashes>>

(* Cache.LookupWithAge and Proxy.directLookup, up to their fan-out.        *)
ReadCached(p) ==
    /\ proc[p].pc = "read" /\ ~proc[p].direct /\ fresh(Query(p))
    /\ proc' = [proc EXCEPT ![p].pc = "got", ![p].val = cache[Query(p)].val,
                            ![p].lag = cache[Query(p)].lag]
    /\ UNCHANGED <<truth, cache, wIndex, nameIndex, saved, flushing, held,
                   todo, changes, crashes>>

FetchStart(p) ==
    /\ proc[p].pc = "read" /\ (proc[p].direct \/ ~fresh(Query(p)))
    /\ proc' = [proc EXCEPT ![p].pc = "fetch",
                  ![p].had = ~proc[p].direct /\ cache[Query(p)].val # NoAnswer]
    /\ UNCHANGED <<truth, cache, wIndex, nameIndex, saved, flushing, held,
                   todo, changes, crashes>>
-----------------------------------------------------------------------------
(* The refresh loop.                                                       *)

(* Mutant of Refresh: entries past their age are not refreshed.            *)
RefreshFreshOnly ==
    /\ proc[Refresher].pc = "idle"
    /\ todo' = {q \in Queries : fresh(q)}
    /\ Goto(Refresher, "next")
    /\ UNCHANGED <<truth, cache, wIndex, nameIndex, saved, flushing, held,
                   changes, crashes>>

Refresh ==
    /\ proc[Refresher].pc = "idle"
    /\ todo' = {q \in Queries : cache[q].val # NoAnswer}
    /\ Goto(Refresher, "next")
    /\ UNCHANGED <<truth, cache, wIndex, nameIndex, saved, flushing, held,
                   changes, crashes>>

RefreshNext ==
    /\ \/ /\ proc[Refresher].pc = "next"
          /\ Goto(Refresher, IF todo = {} THEN "idle" ELSE "fetch")
          /\ UNCHANGED todo
       \/ /\ proc[Refresher].pc = "got"
          /\ todo' = todo \ {Query(Refresher)}
          /\ Goto(Refresher, "next")
    /\ UNCHANGED <<truth, cache, wIndex, nameIndex, saved, flushing, held,
                   changes, crashes>>
-----------------------------------------------------------------------------
(* Watcher.WaitForChange: the condition and the channel it waits on are    *)
(* read under one lock, so it sleeps only while the index is its own, and  *)
(* every change wakes it; it also returns when its timer fires.            *)

wakes(h) == held[h].idx = 0 \/ CurrentIndex(held[h].q) # held[h].idx

(* Handler.read of one Consul client.  A query with an index takes one of  *)
(* the slots, or is refused with nothing changed.                          *)
Ask(c, mode) ==
    /\ proc[c].pc = "ready"
    /\ held[c].idx # 0 => Cardinality(Waiting) < MaxWaiters
    /\ proc' = [proc EXCEPT ![c] =
                  [Quiet(IF held[c].idx = 0 THEN "read" ELSE "wait")
                     EXCEPT !.direct = (mode = "consistent")]]
    /\ UNCHANGED <<truth, cache, wIndex, nameIndex, saved, flushing, held,
                   todo, changes, crashes>>

(* Mutant of WaitClient: no timer.                                         *)
WaitClientForever(c) ==
    /\ proc[c].pc = "wait" /\ wakes(c)
    /\ proc' = [proc EXCEPT ![c].pc = "read"]
    /\ UNCHANGED <<truth, cache, wIndex, nameIndex, saved, flushing, held,
                   todo, changes, crashes>>

(* Woken or timed out: either way the handler goes on to the data.         *)
WaitClient(c) ==
    /\ proc[c].pc = "wait"
    /\ proc' = [proc EXCEPT ![c].pc = "read"]
    /\ UNCHANGED <<truth, cache, wIndex, nameIndex, saved, flushing, held,
                   todo, changes, crashes>>

(* The answer, with the index read only now.                               *)
Respond(c) ==
    /\ proc[c].pc = "got"
    /\ Goto(c, "ready")
    /\ held' = [held EXCEPT ![c].data = proc[c].val,
                  ![c].idx = CurrentIndex(held[c].q), ![c].life = crashes,
                  ![c].regressed = @ \/ (/\ CurrentIndex(held[c].q) < held[c].idx
                                         /\ held[c].life = crashes)]
    /\ UNCHANGED <<truth, cache, wIndex, nameIndex, saved, flushing, todo,
                   changes, crashes>>
-----------------------------------------------------------------------------
(* Proxy.Watch of one stream.                                              *)

Open(s, q) ==
    /\ proc[s].pc = "off" /\ q.name # NoName
    /\ Goto(s, "wait")
    /\ held' = [held EXCEPT ![s] = Fresh(q)]
    /\ UNCHANGED <<truth, cache, wIndex, nameIndex, saved, flushing, todo,
                   changes, crashes>>

(* A timeout with no change goes back to waiting, except before the        *)
(* snapshot.                                                               *)
WaitStream(s) ==
    /\ proc[s].pc = "wait"
    /\ wakes(s) \/ held[s].first
    /\ Goto(s, "read")
    /\ held' = [held EXCEPT ![s].idx = CurrentIndex(held[s].q)]
    /\ UNCHANGED <<truth, cache, wIndex, nameIndex, saved, flushing, todo,
                   changes, crashes>>

(* Mutant of Send: the stream resumes from the index it sees after the     *)
(* data, as a Consul client does.                                          *)
SendLateIndex(s) ==
    /\ proc[s].pc = "got"
    /\ Goto(s, "wait")
    /\ held' = [held EXCEPT ![s].first = FALSE, ![s].missed = FALSE,
                  ![s].data = proc[s].val, ![s].idx = CurrentIndex(held[s].q)]
    /\ UNCHANGED <<truth, cache, wIndex, nameIndex, saved, flushing, todo,
                   changes, crashes>>

(* The snapshot, or the difference with the last answer: an instance that  *)
(* only differs in the rest is not sent.                                   *)
Send(s) ==
    /\ proc[s].pc = "got"
    /\ Goto(s, "wait")
    /\ held' = [held EXCEPT ![s].first = FALSE, ![s].missed = FALSE,
                  ![s].data = IF ~held[s].first /\ @[1] = proc[s].val[1]
                              THEN @ ELSE proc[s].val]
    /\ UNCHANGED <<truth, cache, wIndex, nameIndex, saved, flushing, todo,
                   changes, crashes>>

Close(s) ==
    /\ proc[s].pc = "wait"
    /\ Goto(s, "closed")
    /\ UNCHANGED <<truth, cache, wIndex, nameIndex, saved, flushing, held,
                   todo, changes, crashes>>
-----------------------------------------------------------------------------
(* Flusher.flush: WriteFile truncates, then writes.                        *)

FlushStart ==
    /\ ~flushing
    /\ flushing' = TRUE /\ saved' = 0
    /\ UNCHANGED <<truth, cache, wIndex, nameIndex, proc, held, todo, changes,
                   crashes>>

FlushEnd ==
    /\ flushing
    /\ flushing' = FALSE /\ saved' = atLeastOne(wIndex)
    /\ UNCHANGED <<truth, cache, wIndex, nameIndex, proc, held, todo, changes,
                   crashes>>

(* The agent dies and starts again: LoadBase, an empty cache, no streams;  *)
(* its Consul clients keep what they hold and ask again.                   *)
Crash ==
    /\ crashes < MaxCrashes
    /\ crashes' = crashes + 1
    /\ wIndex' = saved /\ nameIndex' = [n \in Names |-> 0]
    /\ flushing' = FALSE
    /\ cache' = [q \in Queries |-> NoEntry]
    /\ proc' = [p \in Procs |->
                  Quiet(IF p \in Clients THEN "ready"
                        ELSE IF p = Refresher THEN "idle"
                        ELSE IF proc[p].pc = "off" THEN "off" ELSE "closed")]
    /\ todo' = {}
    /\ UNCHANGED <<truth, saved, held, changes>>

(* The cluster changes under the agent.                                    *)
Change(q, v) ==
    /\ changes < MaxChanges /\ v # truth[q]
    /\ truth' = [truth EXCEPT ![q] = v]
    /\ changes' = changes + 1
    /\ UNCHANGED <<cache, wIndex, nameIndex, saved, flushing, proc, held, todo,
                   crashes>>

(* Time passes; no fan-out outlasts the seed timeout.                      *)
Tick ==
    /\ \A p \in Procs : proc[p].pc = "answered" => proc[p].lag < FetchTime
    /\ cache' = [q \in Queries |->
          IF cache[q].val = NoAnswer THEN NoEntry
          ELSE [cache[q] EXCEPT !.age = Min({@ + 1, MaxAge}),
                                !.lag = Min({@ + 1, MaxAge + FetchTime})]]
    /\ proc' = [p \in Procs |->
          IF proc[p].pc = "answered" THEN [proc[p] EXCEPT !.lag = @ + 1]
          ELSE proc[p]]
    /\ UNCHANGED <<truth, wIndex, nameIndex, saved, flushing, held, todo,
                   changes, crashes>>
-----------------------------------------------------------------------------
Init ==
    /\ truth \in [Queries -> {Empty}]
    /\ cache = [q \in Queries |-> NoEntry]
    /\ wIndex = StartBase /\ saved = StartBase
    /\ nameIndex = [n \in Names |-> 0]
    /\ flushing = FALSE
    /\ proc = [p \in Procs |-> Quiet(IF p \in Clients THEN "ready"
                                     ELSE IF p = Refresher THEN "idle" ELSE "off")]
    /\ held \in [Holders -> {Fresh(q) : q \in Queries}]
    /\ todo = {} /\ changes = 0 /\ crashes = 0

Next ==
    \/ \E p \in Procs :
         \/ FetchAnswer(p) \/ FetchFail(p) \/ FetchStore(p) \/ NotifyNames(p)
         \/ ReadCached(p) \/ FetchStart(p)
    \/ Refresh \/ RefreshNext
    \/ \E c \in Clients :
         \/ \E mode \in Consistency : Ask(c, mode)
         \/ WaitClient(c) \/ Respond(c)
    \/ \E s \in Streams :
         \/ \E q \in Queries : Open(s, q)
         \/ WaitStream(s) \/ Send(s) \/ Close(s)
    \/ FlushStart \/ FlushEnd \/ Crash \/ Tick
    \/ \E q \in Queries, v \in Answers : Change(q, v)

Spec == Init /\ [][Next]_vars

(* A step of one goroutine; an application's choice to close is none.      *)
Goroutine(p) ==
    \/ FetchAnswer(p) \/ FetchFail(p) \/ FetchStore(p) \/ NotifyNames(p)
    \/ ReadCached(p) \/ FetchStart(p)
    \/ p = Refresher /\ (Refresh \/ RefreshNext)
    \/ /\ p \in Clients
       /\ (\E mode \in Consistency : Ask(p, mode)) \/ WaitClient(p) \/ Respond(p)
    \/ p \in Streams /\ (WaitStream(p) \/ Send(p))

(* Goroutines go on, tickers and timers fire, a Consul client asks again,  *)
(* and a cluster that is asked for ever answers for ever.  A goroutine is  *)
(* at one step at a time, so that fairness of all its steps is fairness of *)
(* each.                                                                   *)
FairSpec ==
    /\ Spec
    /\ WF_vars(Tick)
    /\ \A p \in Procs : SF_vars(FetchAnswer(p)) /\ WF_vars(Goroutine(p))
-----------------------------------------------------------------------------
(* Properties.                                                             *)

(* Type correctness of the agent's read side.                              *)
TypeOK ==
    /\ truth \in [Queries -> Answers]
    /\ cache \in [Queries -> Entry \cup {NoEntry}]
    /\ wIndex \in Nat /\ nameIndex \in [Names -> 0 .. wIndex]
    /\ saved \in Nat /\ flushing \in BOOLEAN
    /\ todo \subseteq Queries
    /\ \A p \in Procs : proc[p].val \in Answers \cup {NoAnswer}
    /\ proc[Refresher].pc \in {"fetch", "answered", "notify", "got"} => todo # {}
    /\ \A h \in Holders : held[h].idx \in Nat

(* A cached read is stale by less than cache_max_age plus the length of    *)
(* the fan-out that filled the entry (architecture.md:70, "a read is at    *)
(* most that stale", counted from the seeds' answer): an older fan-out     *)
(* overtaking a newer one does not add to it.                              *)
StalenessBounded ==
    \A p \in Procs : proc[p].pc = "got" => proc[p].lag < MaxAge + FetchTime

(* No reader is between the store of an answer for q and its notification. *)
Announced(q) ==
    \A p \in Procs : proc[p].pc = "notify" => Query(p).name # q.name

(* A stream asleep on its index, with no notification under way.           *)
Asleep(s) ==
    /\ proc[s].pc = "wait" /\ ~wakes(s) /\ ~held[s].first /\ ~held[s].missed
    /\ Announced(held[s].q) /\ cache[held[s].q].val # NoAnswer

(* A Watch stream blocks only when there is no news: it waits on the index *)
(* it was given before it read, so while it sleeps the cache holds what it *)
(* last sent (in what `endpointChanged' compares, the rest is not sent),   *)
(* whoever filled the cache and in whatever order, unless its last lookup  *)
(* failed ("retry on the next change", proxy.go:356).  Index 1 is left to  *)
(* FirstChangeWakes.                                                       *)
StreamBlockedIsCurrent ==
    \A s \in Streams :
        Asleep(s) /\ held[s].idx > 1 =>
            held[s].data[1] = cache[held[s].q].val[1]

(* The first change of a name is no exception: "a watch on it wakes when   *)
(* it first appears" (watcher.go:149).                                     *)
FirstChangeWakes ==
    \A s \in Streams : Asleep(s) => held[s].data[1] = cache[held[s].q].val[1]

(* The index a Consul client sees never goes back while the agent lives,   *)
(* not even when a name gets its own key and leaves the one of the list,   *)
(* "Every name-index is <= the index" (watcher.go:150).                    *)
ClientIndexMonotone == \A c \in Clients : ~held[c].regressed

(* "serving stale cache after refresh failure" (cache.go:120): a reader    *)
(* of a query the cache has an entry for gets an answer, even when no seed *)
(* does.                                                                   *)
StaleServedOnFailure ==
    [][\A h \in Holders : proc[h].had => ~FetchFail(h)]_vars

(* When the cluster stops changing, every client that keeps asking ends up *)
(* with its state, for good: what a blocking query misses its timer        *)
(* recovers, in spite of failed fan-outs, of restarts and of fan-outs      *)
(* that finish out of order.                                               *)
ClientsConverge ==
    \A c \in Clients : <>[](held[c].data = truth[held[c].q])

(* When the cluster stops changing, a stream that stays open and whose     *)
(* lookups succeed ends up with its state.                                 *)
StreamsConverge ==
    \A s \in Streams :
        <>[](\/ proc[s].pc \in {"off", "closed"} \/ held[s].missed
             \/ held[s].data = truth[held[s].q])
=============================================================================
