--------------------------- MODULE HealthMonitor ---------------------------
(***************************************************************************)
(* The active health checks of an agent: healthcheck.Monitor               *)
(* (internal/healthcheck) under the callers that install and remove checks *)
(* - the Consul register and deregister handlers                           *)
(* (internal/consul/handler.go) and the loader of service-definition files *)
(* (servicedef.go) - and beside the blanket renew loop, which leaves the   *)
(* services that have checks to the monitor.                               *)
(*                                                                         *)
(* A caller works through a queue of items: a handler's has one, the       *)
(* loader's is the services its files declare.  Between the steps of an    *)
(* item no lock is held.  A fan-out to the seeds is one step that reaches  *)
(* a quorum or fails; module Cluster is that step in detail, and here one  *)
(* registry stands for the seeds.                                          *)
(***************************************************************************)
EXTENDS Integers, Sequences, FiniteSets

CONSTANTS
    Ids,            \* service ids
    Handlers,       \* goroutines that serve register and deregister calls
    Bodies,         \* what apps register: sequences of checks
    Files,          \* the loader's items, in order
    EnableScript,   \* enable_script_checks
    Worlds,         \* what the probed endpoints may do
    TTL,            \* a lease, in ticks
    MaxCalls,       \* bound: calls of handlers, reloads, renewals by apps
    MaxFailures     \* bound: fan-outs that fail, changes of the world

(* A check of a register body names what it probes; a TTL check nothing.   *)
Probes == {"http", "tcp", "udp", "args"}
Check == SUBSET (Probes \cup {"ttl"})
Item == [op: {"register", "deregister"}, id: Ids, body: Seq(Check)]
Loader == "loader"
Callers == Handlers \cup {Loader}

ASSUME MonitorAssumption ==
    /\ Bodies \subseteq Seq(Check) /\ Files \in Seq(Item)
    /\ Worlds \subseteq [Probes -> {"up", "silent", "down"}]
    /\ Loader \notin Handlers
    /\ EnableScript \in BOOLEAN
    /\ TTL \in Nat \ {0} /\ MaxCalls \in Nat /\ MaxFailures \in Nat

VARIABLES
    queue,          \* each caller's items still to do
    pc,             \* where it is in the first one
    hosted,         \* Proxy.hosted: what was registered, or NoHost
    services,       \* Monitor.services: the loop of each service, or 0
    loops,          \* the check loops started so far, cancelled ones too
    stopped,        \* Monitor.Stop has cancelled rootCtx
    renewing,       \* services a pass of the renew loop has picked
    lease,          \* ticks left of each service on the seeds, 0 when gone
    world,          \* what every endpoint does now
    overlapped,     \* history: services two callers worked on at once
    calls, failures

vars == <<queue, pc, hosted, services, loops, stopped, renewing,
          lease, world, overlapped, calls, failures>>
counters == <<calls, failures>>
-----------------------------------------------------------------------------
(* Checks and probes.                                                      *)

(* checkInput.toDefinition: the first kind that is set, in this order.     *)
toDefinition(check) ==
    LET order == SelectSeq(<<"http", "tcp", "udp", "args">>, LAMBDA k : k \in check)
    IN  IF order = <<>> THEN "ttl" ELSE order[1]

(* activeChecks: the definitions to run; a TTL check is not one.           *)
activeChecks(body) ==
    SelectSeq([i \in DOMAIN body |-> toDefinition(body[i])], LAMBDA k : k # "ttl")

(* probe: HTTP wants a 2xx, TCP a connection, a script an exit of 0 and    *)
(* permission to run; a UDP endpoint that says nothing passes.             *)
probe(kind) ==
    CASE kind = "udp" -> world[kind] # "down"
      [] kind = "args" -> EnableScript /\ world[kind] = "up"
      [] OTHER -> world[kind] = "up"

healthy(defs) == \A i \in DOMAIN defs : probe(defs[i])
-----------------------------------------------------------------------------
NoHost == <<"none">>
Hosts(id) == hosted[id] # NoHost

(* A loop runs until its context, or the monitor's, is cancelled.          *)
Live(l) == ~loops[l].cancelled /\ ~stopped
LoopsOf(id) == {l \in DOMAIN loops : loops[l].id = id}

Busy(c) == pc[c] # "idle"
WorksOn(c, id) == Busy(c) /\ Head(queue[c]).id = id
quiet(id) == ~\E c \in Callers : WorksOn(c, id)
-----------------------------------------------------------------------------
(* Callers take up work.                                                   *)

begin(c, items) ==
    /\ ~stopped /\ ~Busy(c) /\ calls < MaxCalls /\ items # <<>>
    /\ calls' = calls + 1
    /\ queue' = [queue EXCEPT ![c] = items]
    /\ pc' = [pc EXCEPT ![c] = Head(items).op]

(* The next item of the queue, if there is one.                            *)
next(c) ==
    LET rest == Tail(queue[c])
    IN  /\ queue' = [queue EXCEPT ![c] = rest]
        /\ pc' = [pc EXCEPT ![c] = IF rest = <<>> THEN "idle" ELSE Head(rest).op]

goto(c, where) == pc' = [pc EXCEPT ![c] = where] /\ UNCHANGED queue

Handle(c, item) ==
    /\ begin(c, <<item>>)
    /\ UNCHANGED <<hosted, services, loops, stopped, renewing, lease, world, failures>>

(* Loader.reload, at start and on every SIGHUP.                            *)
reload ==
    /\ begin(Loader, Files)
    /\ UNCHANGED <<hosted, services, loops, stopped, renewing, lease, world, failures>>

(* A fan-out that fails may have reached some of the seeds.                *)
reaches(id, ttl) == lease' \in {lease, [lease EXCEPT ![id] = ttl]}

fails == failures < MaxFailures /\ failures' = failures + 1
-----------------------------------------------------------------------------
(* An item in steps.                                                       *)

(* RegisterServices: the fan-out, then the service is hosted.  A failure   *)
(* ends the handler, and sends the loader on to its next item.             *)
RegisterServices(c) ==
    /\ pc[c] = "register"
    /\ LET item == Head(queue[c])
       IN  /\ hosted' = [hosted EXCEPT ![item.id] = activeChecks(item.body)]
           /\ lease' = [lease EXCEPT ![item.id] = TTL]
    /\ goto(c, "set")
    /\ UNCHANGED <<services, loops, stopped, renewing, world, counters>>

RegisterFails(c) ==
    /\ pc[c] = "register" /\ fails
    /\ reaches(Head(queue[c]).id, TTL)
    /\ next(c)
    /\ UNCHANGED <<hosted, services, loops, stopped, renewing, world, calls>>

(* Mutant of cancelLoop: the loop is cancelled and stays in the map.       *)
cancelLoopKept(id) ==
    /\ loops' = [l \in DOMAIN loops |->
                   IF l = services[id] THEN [loops[l] EXCEPT !.cancelled = TRUE]
                   ELSE loops[l]]
    /\ UNCHANGED services

(* Monitor.Remove, under its lock.                                         *)
cancelLoop(id) ==
    /\ loops' = [l \in DOMAIN loops |->
                   IF l = services[id] THEN [loops[l] EXCEPT !.cancelled = TRUE]
                   ELSE loops[l]]
    /\ services' = [services EXCEPT ![id] = 0]

(* Mutant of Set: the running loop is replaced in the map only.            *)
SetUncancelled(c) ==
    /\ pc[c] = "set"
    /\ IF activeChecks(Head(queue[c]).body) = <<>> THEN next(c) ELSE goto(c, "insert")
    /\ UNCHANGED <<services, loops, hosted, stopped, renewing, lease, world, counters>>

(* Monitor.Set begins with Remove and is done when there is nothing to     *)
(* check.                                                                  *)
Set(c) ==
    /\ pc[c] = "set"
    /\ cancelLoop(Head(queue[c]).id)
    /\ IF activeChecks(Head(queue[c]).body) = <<>> THEN next(c) ELSE goto(c, "insert")
    /\ UNCHANGED <<hosted, stopped, renewing, lease, world, counters>>

(* ... and goes on, under the lock again, to enter a new loop.             *)
SetInsert(c) ==
    /\ pc[c] = "insert"
    /\ LET item == Head(queue[c])
       IN  /\ loops' = Append(loops, [id |-> item.id, at |-> "wait", cancelled |-> FALSE,
                                      defs |-> activeChecks(item.body)])
           /\ services' = [services EXCEPT ![item.id] = Len(loops) + 1]
    /\ next(c)
    /\ UNCHANGED <<hosted, stopped, renewing, lease, world, counters>>

(* RemoveService: the service is no longer hosted whether or not a seed    *)
(* could be told; the checks go only when one was.                         *)
RemoveService(c) ==
    /\ pc[c] = "deregister"
    /\ LET id == Head(queue[c]).id
       IN  hosted' = [hosted EXCEPT ![id] = NoHost] /\ lease' = [lease EXCEPT ![id] = 0]
    /\ goto(c, "remove")
    /\ UNCHANGED <<services, loops, stopped, renewing, world, counters>>

RemoveFails(c) ==
    /\ pc[c] = "deregister" /\ fails
    /\ hosted' = [hosted EXCEPT ![Head(queue[c]).id] = NoHost]
    /\ next(c)
    /\ UNCHANGED <<services, loops, stopped, renewing, lease, world, calls>>

Remove(c) ==
    /\ pc[c] = "remove"
    /\ cancelLoop(Head(queue[c]).id)
    /\ next(c)
    /\ UNCHANGED <<hosted, stopped, renewing, lease, world, counters>>
-----------------------------------------------------------------------------
(* A check loop.                                                           *)

(* A tick on which every check passes and the service is hosted goes on to *)
(* register it; any other does nothing (note only logs).                   *)
LoopTick(l) ==
    /\ loops[l].at = "wait" /\ Live(l)
    /\ healthy(loops[l].defs)
    /\ Hosts(loops[l].id)
    /\ loops' = [loops EXCEPT ![l].at = "keep"]
    /\ UNCHANGED <<queue, pc, hosted, services, stopped, renewing, lease, world, counters>>

(* KeepAlive's fan-out, which a cancelled context may or may not cut off.  *)
KeepAlive(l) ==
    /\ loops[l].at = "keep"
    /\ loops' = [loops EXCEPT ![l].at = "wait"]
    /\ \/ lease' = [lease EXCEPT ![loops[l].id] = TTL] /\ UNCHANGED failures
       \/ ~Live(l) /\ UNCHANGED <<lease, failures>>
       \/ fails /\ reaches(loops[l].id, TTL)
    /\ UNCHANGED <<queue, pc, hosted, services, stopped, renewing, world, calls>>
-----------------------------------------------------------------------------
(* The rest of the agent and its surroundings.                             *)

(* Mutant of renewAll: the gate is not asked.                              *)
renewAllUngated ==
    /\ ~stopped /\ renewing = {}
    /\ renewing' = {id \in Ids : Hosts(id)}
    /\ UNCHANGED <<queue, pc, hosted, services, loops, stopped, lease, world, counters>>

(* The renew loop picks, under the lock of the proxy, what is hosted and   *)
(* not Active ...                                                          *)
renewAll ==
    /\ ~stopped /\ renewing = {}
    /\ renewing' = {id \in Ids : Hosts(id) /\ services[id] = 0}
    /\ UNCHANGED <<queue, pc, hosted, services, loops, stopped, lease, world, counters>>

(* ... and renews it on the seeds that have it.                            *)
Renew ==
    /\ renewing # {}
    /\ renewing' = {}
    /\ lease' = [id \in Ids |-> IF id \in renewing /\ lease[id] > 0 THEN TTL ELSE lease[id]]
    /\ UNCHANGED <<queue, pc, hosted, services, loops, stopped, world, counters>>

(* An app reports its own check: check/pass, warn and update renew the     *)
(* lease.  On an agent check/fail and maintenance do nothing.              *)
RenewService(id) ==
    /\ ~stopped /\ calls < MaxCalls /\ calls' = calls + 1
    /\ lease[id] > 0
    /\ lease' = [lease EXCEPT ![id] = TTL]
    /\ UNCHANGED <<queue, pc, hosted, services, loops, stopped, renewing, world, failures>>

(* Monitor.Stop: rootCancel, then the map is replaced.  By then the app's  *)
(* context has ended, the renew loop and the loader with it, and the       *)
(* servers take no more calls.                                             *)
Stop ==
    /\ ~stopped
    /\ stopped' = TRUE
    /\ UNCHANGED <<queue, pc, hosted, services, loops, renewing, lease, world, counters>>

StopClears ==
    /\ stopped /\ \E id \in Ids : services[id] # 0
    /\ services' = [id \in Ids |-> 0]
    /\ UNCHANGED <<queue, pc, hosted, loops, stopped, renewing, lease, world, counters>>

WorldChanges ==
    /\ fails
    /\ world' \in Worlds \ {world}
    /\ UNCHANGED <<queue, pc, hosted, services, loops, stopped, renewing, lease, calls>>

Tick ==
    /\ lease' = [id \in Ids |-> IF lease[id] = 0 THEN 0 ELSE lease[id] - 1]
    /\ UNCHANGED <<queue, pc, hosted, services, loops, stopped, renewing, world, counters>>
-----------------------------------------------------------------------------
Init ==
    /\ queue = [c \in Callers |-> <<>>]
    /\ pc = [c \in Callers |-> "idle"]
    /\ hosted = [id \in Ids |-> NoHost]
    /\ services = [id \in Ids |-> 0]
    /\ loops = <<>> /\ stopped = FALSE /\ renewing = {}
    /\ lease = [id \in Ids |-> 0]
    /\ world \in Worlds
    /\ overlapped = {}
    /\ calls = 0 /\ failures = 0

CallerStep(c) ==
    \/ RegisterServices(c) \/ RegisterFails(c) \/ Set(c) \/ SetInsert(c)
    \/ RemoveService(c) \/ RemoveFails(c) \/ Remove(c)

Calls ==
    \/ \E c \in Handlers, id \in Ids, b \in Bodies :
         \/ Handle(c, [op |-> "register", id |-> id, body |-> b])
         \/ Handle(c, [op |-> "deregister", id |-> id, body |-> <<>>])
    \/ reload
    \/ \E id \in Ids : RenewService(id)

Step ==
    \/ Calls
    \/ \E c \in Callers : CallerStep(c)
    \/ \E l \in DOMAIN loops : LoopTick(l) \/ KeepAlive(l)
    \/ renewAll \/ Renew
    \/ Stop \/ StopClears \/ WorldChanges \/ Tick

Overlaps ==
    overlapped' = overlapped \cup
        {id \in Ids : \E c, d \in Callers : c # d /\ WorksOn(c, id)' /\ WorksOn(d, id)'}

Next == Step /\ Overlaps

Spec == Init /\ [][Next]_vars

(* Handlers, loops and time go on.                                         *)
FairSpec ==
    /\ Spec
    /\ \A c \in Callers : WF_vars(CallerStep(c) /\ Overlaps)
    /\ WF_vars((\E l \in DOMAIN loops : KeepAlive(l)) /\ Overlaps)
    /\ WF_vars(Renew /\ Overlaps)
    /\ WF_vars(Tick /\ Overlaps)
-----------------------------------------------------------------------------
(* Properties.                                                             *)

(* Type correctness; an entry of Monitor.services is a loop of that        *)
(* service.                                                                *)
TypeOK ==
    /\ pc \in [Callers -> {"idle", "register", "set", "insert", "deregister", "remove"}]
    /\ \A c \in Callers : queue[c] \in Seq(Item) /\ (Busy(c) <=> queue[c] # <<>>)
    /\ services \in [Ids -> 0 .. Len(loops)]
    /\ \A id \in Ids : services[id] # 0 => loops[services[id]].id = id
    /\ renewing \subseteq Ids /\ lease \in [Ids -> 0 .. TTL]

(* A service the monitor reports as Active, and which the renew loop       *)
(* therefore leaves alone, has a loop that is running: however Set, Remove *)
(* and Stop interleave, no hosted service is left without a keeper.        *)
ActiveIsRunning ==
    \A id \in Ids : services[id] # 0 /\ ~stopped => Live(services[id])

(* "Set installs (or replaces) the active checks for a service"            *)
(* (monitor.go:97): when no caller is at work on a service, and none has   *)
(* overlapped another, its checks are those of the registration that       *)
(* hosts it, run by one loop; without checks none is left.                 *)
ChecksFollowCalls ==
    \A id \in Ids :
        Hosts(id) /\ quiet(id) /\ id \notin overlapped /\ ~stopped =>
            LET running == {l \in LoopsOf(id) : Live(l)}
            IN  IF hosted[id] = <<>> THEN running = {} /\ services[id] = 0
                ELSE running = {services[id]} /\ loops[services[id]].defs = hosted[id]

(* "Active checks gate the lease" (consul-compat.md:65): a service whose   *)
(* checks fail from some time on disappears from the registry, although    *)
(* the agent goes on hosting and renewing, unless calls overlapped.        *)
FailingLapses ==
    \A id \in Ids :
        <>[](/\ Hosts(id) /\ id \notin overlapped
             /\ hosted[id] # <<>> /\ ~healthy(hosted[id]))
          => <>[](lease[id] = 0)
=============================================================================
