------------------------------ MODULE Cluster ------------------------------
(***************************************************************************)
(* The write side of a cluster: one agent (the local proxy of              *)
(* internal/seedclient/proxy.go) that fans its writes out to every seed    *)
(* (client.go), renews what it hosts (loops.go) and re-registers what its  *)
(* health checks find alive (internal/healthcheck/monitor.go), and the     *)
(* seeds' registries, which share nothing.                                 *)
(*                                                                         *)
(* A fan-out is one request per seed, each with its own outcome: answered, *)
(* applied with the answer lost, lost, or timed out and applied later.  A  *)
(* seed handles a request in one step, under its registry's lock; module   *)
(* Registry is that step in detail.  Services of other nodes never meet    *)
(* this agent's, so there is one node; a definition is its version, the    *)
(* generation.  A lease is counted down in ticks: `left' is what remains   *)
(* of ttl plus grace.                                                      *)
(***************************************************************************)
EXTENDS Integers, FiniteSets, Sequences, Functions

CONSTANTS
    Seeds,          \* the configured seeds
    Ids,            \* the services apps register on the agent
    Checked,        \* those with active health checks
    Versions,       \* generations of a definition
    Quorum,         \* agent.write_quorum
    TTL,            \* lease and grace, in ticks
    Heartbeat,      \* heartbeat_interval, in ticks; checks use it too
    OpTime,         \* longest fan-out (the seed timeout), in ticks
    MaxWrites,      \* bound: calls of the apps
    MaxFailures     \* bound: restarts of seeds, crashes of the agent, lost
                    \* requests and answers, failed probes, in all

ASSUME ClusterAssumption ==
    /\ IsFiniteSet(Seeds) /\ IsFiniteSet(Ids) /\ Checked \subseteq Ids
    /\ 0 \notin Ids /\ "app" \notin Ids /\ "renew" \notin Ids
    /\ Versions \subseteq Nat \ {0}
    /\ {Quorum, TTL, Heartbeat, OpTime} \subseteq Nat \ {0}
    /\ TTL > Heartbeat + 2 * OpTime /\ TTL > 3 * OpTime

VARIABLES
    store,          \* every seed's services of the node
    hosted,         \* Proxy.hosted: the version of each service, or 0
    op,             \* what every goroutine of the agent is doing
    late,           \* requests given up by the agent, still to be handled
    beat,           \* ticks since the renew loop and every check fired
    heard,          \* history: registrations of services without checks a
                    \* seed still ought to have
    gone,           \* history: services no seed had when their removal
                    \* returned, with no registration of theirs under way
    writes, failures

vars == <<store, hosted, op, late, beat, heard, gone, writes, failures>>
counters == <<writes, failures>>
-----------------------------------------------------------------------------
(* An app's call, the renew loop, the monitor's loop of each service.      *)
Threads == {"app", "renew"} \cup Checked
Tickers == Threads \ {"app"}

Absent == [v |-> 0, left |-> 0]
Lease(v) == [v |-> v, left |-> TTL]
NoRequest == [kind |-> "none", id |-> 0, v |-> 0, ids |-> <<>>]
Register(id, v) == [NoRequest EXCEPT !.kind = "register", !.id = id, !.v = v]
Renew(ids) == [NoRequest EXCEPT !.kind = "renew", !.ids = ids]
RenewNode == [NoRequest EXCEPT !.kind = "renew node"]
DeregisterService(id) == [NoRequest EXCEPT !.kind = "deregister service", !.id = id]
Deregister == [NoRequest EXCEPT !.kind = "deregister"]

(* waiting: seeds whose outcome is open; ok: how many accepted.            *)
Idle == [req |-> NoRequest, waiting |-> {}, ok |-> 0, age |-> 0]
Running(req) == [Idle EXCEPT !.req = req, !.waiting = Seeds]
Busy(t) == op[t] # Idle

Has(st, id) == st[id] # Absent

(* The ids a service-scoped Renew refreshes: it stops at the first one the *)
(* registry does not have.                                                 *)
renewed(st, ids) ==
    {ids[i] : i \in {j \in 1 .. Len(ids) : \A k \in 1 .. j : Has(st, ids[k])}}

(* A seed's registry after a request, and whether the request succeeds.    *)
(* Register takes any generation, older ones included.                     *)
applied(st, req) ==
    CASE req.kind = "register" -> [st EXCEPT ![req.id] = Lease(req.v)]
      [] req.kind = "renew" ->
           [id \in Ids |-> IF id \in renewed(st, req.ids) THEN Lease(st[id].v)
                           ELSE st[id]]
      [] req.kind = "renew node" ->
           [id \in Ids |-> IF Has(st, id) THEN Lease(st[id].v) ELSE st[id]]
      [] req.kind = "deregister service" -> [st EXCEPT ![req.id] = Absent]
      [] req.kind = "deregister" -> [id \in Ids |-> Absent]

accepts(st, req) ==
    CASE req.kind = "register" -> TRUE
      [] req.kind = "renew" -> \A i \in 1 .. Len(req.ids) : Has(st, req.ids[i])
      [] req.kind = "deregister service" -> Has(st, req.id)
      [] req.kind \in {"renew node", "deregister"} -> \E id \in Ids : Has(st, id)

(* Does the request change which version of id a seed holds?               *)
touches(req, id) == req.id = id \/ req.kind = "deregister"

(* Does an id the seed lacks end the renewal before it comes to id?        *)
cutShort(st, req, id) ==
    req.kind = "renew" /\ id \in Range(req.ids) \ renewed(st, req.ids)
-----------------------------------------------------------------------------
(* Fan-outs start.                                                         *)

Start(t, req) ==
    /\ ~Busy(t)
    /\ op' = [op EXCEPT ![t] = Running(req)]

(* An app calls the agent: RegisterServices, RemoveService, Deregister or  *)
(* a Renew for the whole node.                                             *)
AppCall(req) ==
    /\ writes < MaxWrites
    /\ Start("app", req)
    /\ writes' = writes + 1
    /\ gone' = gone \ {req.id}
    /\ UNCHANGED <<store, hosted, late, beat, heard, failures>>

Fire(t) == ~Busy(t) /\ beat[t] = Heartbeat /\ beat' = [beat EXCEPT ![t] = 0]

renewIds(ids) ==
    IF ids = {} THEN UNCHANGED op
    ELSE \E order \in Bijection(1 .. Cardinality(ids), ids) : Start("renew", Renew(order))

(* Mutants of renewAll: the gate is inverted; the whole node is renewed.   *)
renewAllChecked == renewIds({id \in Checked : hosted[id] # 0})

renewAllNode == Start("renew", RenewNode)

(* Proxy.renewAll: what is hosted and not actively checked, in the map's   *)
(* arbitrary order.                                                        *)
renewAll == renewIds({id \in Ids \ Checked : hosted[id] # 0})

(* RenewLoop's tick.                                                       *)
renewOnce ==
    /\ Fire("renew")
    /\ renewAll
    /\ UNCHANGED <<store, hosted, late, heard, gone, counters>>

(* Mutant of KeepAlive: a passing check only renews the lease.             *)
KeepAliveRenews(id) ==
    IF hosted[id] = 0 THEN UNCHANGED op ELSE Start(id, Renew(<<id>>))

(* Proxy.KeepAlive: what is hosted is registered again.                    *)
KeepAlive(id) ==
    IF hosted[id] = 0 THEN UNCHANGED op ELSE Start(id, Register(id, hosted[id]))

(* The monitor's tick: a failing check does nothing.                       *)
ProbePasses(id) ==
    /\ Fire(id)
    /\ KeepAlive(id)
    /\ UNCHANGED <<store, hosted, late, heard, gone, counters>>

ProbeFails(id) ==
    /\ Fire(id)
    /\ failures < MaxFailures
    /\ failures' = failures + 1
    /\ UNCHANGED <<store, hosted, op, late, heard, gone, writes>>
-----------------------------------------------------------------------------
(* The outcome at one seed.                                                *)

HeardAfter(s, req, good) ==
    {h \in heard : h.seed = s => ~touches(req, h.id) /\ ~cutShort(store[s], req, h.id)}
      \cup (IF good /\ req.kind = "register" /\ req.id \notin Checked
            THEN {[seed |-> s, id |-> req.id, v |-> req.v]} ELSE {})

Answer(t, s) ==
    /\ s \in op[t].waiting
    /\ LET req == op[t].req
           ok == accepts(store[s], req)
       IN  /\ store' = [store EXCEPT ![s] = applied(@, req)]
           /\ op' = [op EXCEPT ![t].waiting = @ \ {s},
                               ![t].ok = IF ok THEN @ + 1 ELSE @]
           /\ heard' = HeardAfter(s, req, ok)
    /\ UNCHANGED <<hosted, late, beat, gone, counters>>

(* The request is handled, the answer comes too late or never.             *)
AnswerLost(t, s) ==
    /\ s \in op[t].waiting /\ failures < MaxFailures
    /\ failures' = failures + 1
    /\ store' = [store EXCEPT ![s] = applied(@, op[t].req)]
    /\ op' = [op EXCEPT ![t].waiting = @ \ {s}]
    /\ heard' = HeardAfter(s, op[t].req, FALSE)
    /\ UNCHANGED <<hosted, late, beat, gone, writes>>

(* The request does not get there in time: it may still get there later.   *)
Timeout(t, s) ==
    /\ s \in op[t].waiting /\ failures < MaxFailures
    /\ failures' = failures + 1
    /\ late' \in {late, late \cup {[seed |-> s, req |-> op[t].req]}}
    /\ op' = [op EXCEPT ![t].waiting = @ \ {s}]
    /\ heard' = {h \in heard : h.seed # s}
    /\ UNCHANGED <<store, hosted, beat, gone, writes>>

HandleLate(r) ==
    /\ late' = late \ {r}
    /\ store' = [store EXCEPT ![r.seed] = applied(@, r.req)]
    /\ heard' = HeardAfter(r.seed, r.req, FALSE)
    /\ UNCHANGED <<hosted, op, beat, gone, counters>>
-----------------------------------------------------------------------------
(* Fan-outs end.                                                           *)

(* Mutant of hostedAfter: a removed service stays hosted.                  *)
hostedAfterKept(o) ==
    CASE o.req.kind = "register" ->
           IF o.ok >= Quorum THEN [hosted EXCEPT ![o.req.id] = o.req.v]
           ELSE hosted
      [] o.req.kind = "deregister" -> [id \in Ids |-> 0]
      [] OTHER -> hosted

(* The apps' calls change what is hosted: a registration when a quorum     *)
(* took it, a removal always.                                              *)
hostedAfter(o) ==
    CASE o.req.kind = "register" ->
           IF o.ok >= Quorum THEN [hosted EXCEPT ![o.req.id] = o.req.v]
           ELSE hosted
      [] o.req.kind = "deregister service" -> [hosted EXCEPT ![o.req.id] = 0]
      [] o.req.kind = "deregister" -> [id \in Ids |-> 0]
      [] OTHER -> hosted

underWay(t, id) ==
    \/ \E x \in Threads \ {t} : op[x].req.kind = "register" /\ op[x].req.id = id
    \/ \E r \in late : r.req.kind = "register" /\ r.req.id = id

Finish(t) ==
    /\ Busy(t) /\ op[t].waiting = {}
    /\ op' = [op EXCEPT ![t] = Idle]
    /\ hosted' = IF t = "app" THEN hostedAfter(op[t]) ELSE hosted
    /\ gone' = IF /\ op[t].req.kind = "deregister service"
                  /\ \A s \in Seeds : ~Has(store[s], op[t].req.id)
                  /\ ~underWay(t, op[t].req.id)
               THEN gone \cup {op[t].req.id} ELSE gone
    /\ UNCHANGED <<store, late, beat, heard, counters>>
-----------------------------------------------------------------------------
(* Failures and time.                                                      *)

(* A seed comes back empty; what was on its way to it is lost.             *)
RestartSeed(s) ==
    /\ failures < MaxFailures
    /\ failures' = failures + 1
    /\ store' = [store EXCEPT ![s] = [id \in Ids |-> Absent]]
    /\ late' = {r \in late : r.seed # s}
    /\ heard' = {h \in heard : h.seed # s}
    /\ UNCHANGED <<hosted, op, beat, gone, writes>>

(* The agent comes back hosting nothing; what it had sent may still be     *)
(* handled.                                                                *)
CrashAgent ==
    /\ failures < MaxFailures
    /\ failures' = failures + 1
    /\ hosted' = [id \in Ids |-> 0]
    /\ op' = [t \in Threads |-> Idle]
    /\ beat' = [t \in Tickers |-> 0]
    /\ heard' = {}
    /\ late' \in {late, late \cup UNION {{[seed |-> s, req |-> op[t].req] :
                            s \in op[t].waiting} : t \in Threads}}
    /\ UNCHANGED <<store, gone, writes>>

(* A seed's GC drops a service whose lease and grace are over.             *)
GC(s) ==
    /\ \E id \in Ids : Has(store[s], id) /\ store[s][id].left = 0
    /\ store' = [store EXCEPT ![s] =
          [id \in Ids |-> IF @[id].left = 0 THEN Absent ELSE @[id]]]
    /\ UNCHANGED <<hosted, op, late, beat, heard, gone, counters>>

(* Time passes: no fan-out outlasts the seed timeout, and a ticker whose   *)
(* goroutine is free fires in time.                                        *)
Tick ==
    /\ \A t \in Threads : Busy(t) => op[t].age < OpTime
    /\ \A t \in Tickers : beat[t] = Heartbeat => Busy(t)
    /\ op' = [t \in Threads |->
                IF Busy(t) THEN [op[t] EXCEPT !.age = @ + 1] ELSE Idle]
    /\ beat' = [t \in Tickers |->
                  IF beat[t] = Heartbeat THEN Heartbeat ELSE beat[t] + 1]
    /\ store' = [s \in Seeds |-> [id \in Ids |->
          IF store[s][id].left = 0 THEN store[s][id]
          ELSE [store[s][id] EXCEPT !.left = @ - 1]]]
    /\ UNCHANGED <<hosted, late, heard, gone, counters>>
-----------------------------------------------------------------------------
Init ==
    /\ store = [s \in Seeds |-> [id \in Ids |-> Absent]]
    /\ hosted = [id \in Ids |-> 0]
    /\ op = [t \in Threads |-> Idle]
    /\ late = {} /\ heard = {} /\ gone = {}
    /\ beat = [t \in Tickers |-> 0]
    /\ writes = 0 /\ failures = 0

Next ==
    \/ \E id \in Ids, v \in Versions : AppCall(Register(id, v))
    \/ \E id \in Ids : AppCall(DeregisterService(id))
    \/ AppCall(Deregister) \/ AppCall(RenewNode)
    \/ renewOnce \/ \E id \in Checked : ProbePasses(id) \/ ProbeFails(id)
    \/ \E t \in Threads :
         \/ \E s \in Seeds : Answer(t, s) \/ AnswerLost(t, s) \/ Timeout(t, s)
         \/ Finish(t)
    \/ \E r \in late : HandleLate(r)
    \/ \E s \in Seeds : RestartSeed(s) \/ GC(s)
    \/ CrashAgent \/ Tick

Spec == Init /\ [][Next]_vars

(* Requests are handled, fan-outs end, tickers fire, GC runs and time      *)
(* passes.                                                                 *)
FairSpec ==
    /\ Spec
    /\ WF_vars(renewOnce) /\ WF_vars(Tick)
    /\ \A id \in Checked : WF_vars(ProbePasses(id) \/ ProbeFails(id))
    /\ \A t \in Threads :
         /\ \A s \in Seeds : WF_vars(Answer(t, s) \/ AnswerLost(t, s) \/ Timeout(t, s))
         /\ WF_vars(Finish(t))
    /\ WF_vars(\E r \in late : HandleLate(r))
    /\ \A s \in Seeds : WF_vars(GC(s))

-----------------------------------------------------------------------------
(* Properties.                                                             *)

Request ==
    [kind: {"none", "register", "renew", "renew node", "deregister service",
            "deregister"},
     id: Ids \cup {0}, v: Versions \cup {0}, ids: Seq(Ids)]

(* Type correctness: in particular leases and fan-outs stay within their   *)
(* times.                                                                  *)
TypeOK ==
    /\ store \in [Seeds -> [Ids -> [v: Versions \cup {0}, left: 0 .. TTL]]]
    /\ hosted \in [Ids -> Versions \cup {0}]
    /\ \A t \in Threads :
         /\ op[t].req \in Request
         /\ op[t].waiting \subseteq Seeds /\ op[t].ok \in 0 .. Cardinality(Seeds)
         /\ op[t].age \in 0 .. OpTime
    /\ \A r \in late : r.seed \in Seeds /\ r.req \in Request
    /\ beat \in [Tickers -> 0 .. Heartbeat]

(* "The agent renews it every heartbeat_interval" (architecture.md:48): a  *)
(* seed that took the registration of a service without active checks, has *)
(* not restarted and was reached by every request since, no renewal of it  *)
(* cut short by a service the seed lacks, keeps the service, under the     *)
(* version hosted, for as long as the agent hosts it.                      *)
LeaseKept ==
    \A h \in heard :
        hosted[h.id] = h.v
          => store[h.seed][h.id].v = h.v /\ store[h.seed][h.id].left > 0

(* KeepAlive is "a no-op for a service no longer hosted" (proxy.go:76): a  *)
(* service that no seed has when its removal returns, and that no          *)
(* registration under way brings back, stays removed until an app          *)
(* registers it again, whatever its checks find.                           *)
RemovedStaysRemoved ==
    \A id \in gone : \A s \in Seeds : ~Has(store[s], id)

(* "TTL is the tombstone" (architecture.md:50): what the agent no longer   *)
(* hosts disappears from every seed for good, in spite of removals that    *)
(* did not arrive, registrations that arrived late or reached no quorum,   *)
(* and crashes of the agent.                                               *)
GhostsExpire ==
    \A id \in Ids :
        <>[](hosted[id] = 0) => <>[](\A s \in Seeds : ~Has(store[s], id))

(* "A seed restart re-fills within a ttl as agents renew"                  *)
(* (operations.md:114): a service that stays hosted ends up on every seed. *)
SeedsRefilled ==
    \A id \in Ids :
        <>[](hosted[id] # 0) => <>[](\A s \in Seeds : Has(store[s], id))

(* A passing probe registers the service again, so a service whose checks  *)
(* pass in the end is on every seed under the version the agent hosts, in  *)
(* spite of restarts, failed probes, lost requests and older registrations *)
(* that arrive late.                                                       *)
CheckedConverges ==
    \A id \in Checked, v \in Versions :
        <>[](hosted[id] = v) => <>[](\A s \in Seeds : store[s][id].v = v)
=============================================================================
