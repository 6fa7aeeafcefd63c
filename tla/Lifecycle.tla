----------------------------- MODULE Lifecycle -----------------------------
(***************************************************************************)
(* The life of one process: cmd/yp/root.go builds the components of its    *)
(* role, app.Run (internal/app/app.go) starts them together and, on a      *)
(* signal or the first failure, stops them one by one in reverse order     *)
(* within shutdown_timeout.  The gRPC server (internal/server), the HTTP   *)
(* servers (internal/httpcomp), the DNS server, the readiness probe, the   *)
(* membership syncer, the check monitor and the deregistrar are modelled   *)
(* in their steps, since each Start runs beside the Stops.                 *)
(*                                                                         *)
(* Time is left out: the shutdown window ends while a Stop is waiting for  *)
(* something, unless the wait is not in Slow and would be over at once.    *)
(***************************************************************************)
EXTENDS Naturals, Sequences, FiniteSets

CONSTANTS
    Configs,        \* configurations of the process
    Slow,           \* waits that may outlast shutdown_timeout
    MaxFailures     \* bound: listeners that fail, seeds that do not answer

Servers == {"grpc", "consul", "dns", "metrics"}
Answering == {"grpc", "consul"}         \* servers with requests worth waiting for
Waits == {"drain", "call", "deregister"}
Config == [role: {"seed", "agent"}, metrics: BOOLEAN, federation: BOOLEAN, consul: BOOLEAN,
           dns: BOOLEAN, loader: BOOLEAN, membership: BOOLEAN, drain: BOOLEAN]

ASSUME LifecycleAssumption ==
    /\ Configs \subseteq Config /\ Slow \subseteq Waits /\ MaxFailures \in Nat

VARIABLES
    cfg,            \* the configuration, fixed
    components,     \* App.components, in start order
    start,          \* where the Start of every component is
    done,           \* gctx is cancelled
    run,            \* Run: "running", "stopping", "waiting", "returned"
    err,            \* errgroup: the first component that failed, or "none"
    at,             \* index of the component being stopped, 0 after the last
    step,           \* where its Stop is
    cancelled,      \* stopCtx: the shutdown window is over
    stopped,        \* components whose server or root context is stopped
    accepting,      \* servers that take requests
    inflight,       \* request a server works on: "none", "call", "stream"
    ready,          \* grpc.health.v1 says SERVING
    probe,          \* the readiness probe: "idle", "asking", "up", "down"
    join,           \* the syncer: "pulling", "pulled", "ready"
    wire,           \* senders of registrations on their way to the seeds
    registered,     \* the seeds know services of this agent
    told,           \* the deregistrar's call: "no", "yes", "failed"
    racing,         \* history: readiness writers at work when it was turned off
    late,           \* history: a registration outlived its context
    failures

vars == <<cfg, components, start, done, run, err, at, step, cancelled, stopped, accepting, inflight,
          ready, probe, join, wire, registered, told, racing, late, failures>>
fixed == <<cfg, components>>
runVars == <<done, run, err>>
stopVars == <<at, step, cancelled, stopped>>
readyVars == <<ready, probe, join, racing>>
seedVars == <<wire, registered, told, late>>
-----------------------------------------------------------------------------
(* The components, in start order.                                         *)

opt(enabled, c) == IF enabled THEN <<c>> ELSE <<>>

buildComponents(c) ==
    opt(c.metrics, "metrics")
    \o (IF c.role = "seed" THEN <<"grpc", "gc">> \o opt(c.membership, "syncer")
        ELSE opt(c.federation, "federation")
             \o <<"deregistrar", "grpc", "probe", "renew", "refresh", "flusher", "monitor">>)
    \o opt(c.consul, "consul") \o opt(c.dns, "dns") \o opt(c.loader, "loader")

Has(c) == \E i \in DOMAIN components : components[i] = c
Names == {components[i] : i \in DOMAIN components}

(* A seed with peers leaves readiness to the syncer (StartNotReady).       *)
startNotReady == cfg.role = "seed" /\ cfg.membership
-----------------------------------------------------------------------------
(* Start, one goroutine per component.                                     *)

(* A component that fails cancels gctx; the first error is kept.           *)
fail(c) ==
    /\ failures < MaxFailures /\ failures' = failures + 1
    /\ start' = [start EXCEPT ![c] = "returned"]
    /\ err' = IF err = "none" THEN c ELSE err
    /\ done' = TRUE

Bind(c) ==
    /\ c \in Servers /\ start[c] = "new"
    /\ start' = [start EXCEPT ![c] = "bound"]
    /\ UNCHANGED <<fixed, runVars, stopVars, accepting, inflight, readyVars, seedVars, failures>>

(* The address is taken, or a serving listener breaks.                     *)
Fails(c) ==
    /\ c \in Servers /\ start[c] \in {"new", "running"}
    /\ fail(c)
    /\ accepting' = accepting \ {c}
    /\ UNCHANGED <<fixed, run, stopVars, inflight, readyVars, seedVars>>

(* The gRPC server says SERVING and serves.  gRPC and HTTP servers that    *)
(* were stopped before refuse to; the DNS servers do not exist before      *)
(* this step, and serve.                                                   *)
Serve(c) ==
    /\ start[c] = "bound"
    /\ start' = [start EXCEPT ![c] = "running"]
    /\ accepting' = IF c \in stopped /\ c # "dns" THEN accepting ELSE accepting \cup {c}
    /\ ready' = (ready \/ (c = "grpc" /\ ~startNotReady))
    /\ UNCHANGED <<fixed, runVars, stopVars, inflight, probe, join, racing, seedVars, failures>>

(* The ReadinessProbe asks the seeds, looks at its context, and only then  *)
(* sets the gate.                                                          *)
ProbeAsk ==
    /\ Has("probe") /\ probe = "idle" /\ ~done
    /\ probe' = "asking"
    /\ UNCHANGED <<fixed, start, runVars, stopVars, accepting, inflight, ready, join, racing,
                   seedVars, failures>>

(* Mutant of ProbeAnswer: the context is not looked at.                    *)
ProbeAnswerUnchecked ==
    /\ probe = "asking"
    /\ probe' \in {"up", "down"}
    /\ UNCHANGED <<fixed, start, runVars, stopVars, accepting, inflight, ready, join, racing,
                   seedVars, failures>>

ProbeAnswer ==
    /\ probe = "asking"
    /\ IF done THEN probe' = "idle" ELSE probe' \in {"up", "down"}
    /\ UNCHANGED <<fixed, start, runVars, stopVars, accepting, inflight, ready, join, racing,
                   seedVars, failures>>

ProbeSet ==
    /\ probe \in {"up", "down"}
    /\ ready' = (probe = "up")
    /\ probe' = "idle"
    /\ UNCHANGED <<fixed, start, runVars, stopVars, accepting, inflight, join, racing, seedVars,
                   failures>>

(* Syncer.Start: the join snapshot, with peers or without, then markReady. *)
Pulled ==
    /\ Has("syncer") /\ join = "pulling"
    /\ join' = "pulled"
    /\ UNCHANGED <<fixed, start, runVars, stopVars, accepting, inflight, ready, probe, racing,
                   seedVars, failures>>

MarkReady ==
    /\ join = "pulled"
    /\ join' = "ready" /\ ready' = TRUE
    /\ UNCHANGED <<fixed, start, runVars, stopVars, accepting, inflight, probe, racing, seedVars,
                   failures>>

(* The Start of a server, of the probe and of the syncer ends with gctx;   *)
(* so do those of the loops, which nothing tells apart.                    *)
Loops == Names \ (Servers \cup {"probe", "syncer"})
returning(C) == start' = [c \in Names |-> IF c \in C THEN "returned" ELSE start[c]]

Return ==
    /\ done
    /\ \/ \E c \in Names \cap Servers : start[c] = "running" /\ returning({c})
       \/ Has("probe") /\ start["probe"] = "running" /\ probe = "idle" /\ returning({"probe"})
       \/ Has("syncer") /\ start["syncer"] = "running" /\ join = "ready" /\ returning({"syncer"})
       \/ \E c \in Loops : start[c] = "running" /\ returning(Loops)
    /\ UNCHANGED <<fixed, runVars, stopVars, accepting, inflight, readyVars, seedVars, failures>>
-----------------------------------------------------------------------------
(* Work of the running process.                                            *)

(* A request arrives; a stream is a Watch or a blocking query.             *)
Request(c) ==
    /\ c \in accepting \cap Answering /\ inflight[c] = "none"
    /\ \E kind \in {"call", "stream"} : inflight' = [inflight EXCEPT ![c] = kind]
    /\ UNCHANGED <<fixed, start, runVars, stopVars, accepting, readyVars, seedVars, failures>>

(* A call of an agent may register a service.                              *)
Answer(c) ==
    /\ inflight[c] = "call"
    /\ inflight' = [inflight EXCEPT ![c] = "none"]
    /\ registered' \in {registered, cfg.role = "agent"}
    /\ UNCHANGED <<fixed, start, runVars, stopVars, accepting, readyVars, wire, told, late, failures>>

HangUp(c) ==
    /\ inflight[c] = "stream"
    /\ inflight' = [inflight EXCEPT ![c] = "none"]
    /\ UNCHANGED <<fixed, start, runVars, stopVars, accepting, readyVars, seedVars, failures>>

(* The loader sends registrations under gctx, the loops of the monitor     *)
(* under their own context, which Monitor.Stop cancels.                    *)
open(c) == IF c = "loader" THEN ~done ELSE c \notin stopped

SendRegister(c) ==
    /\ cfg.role = "agent" /\ Has(c) /\ open(c) /\ c \notin wire
    /\ c = "loader" \/ registered
    /\ wire' = wire \cup {c}
    /\ UNCHANGED <<fixed, start, runVars, stopVars, accepting, inflight, readyVars, registered,
                   told, late, failures>>

(* It reaches the seeds, in time or late, or a cancelled context stops it. *)
Land(c) ==
    /\ c \in wire /\ wire' = wire \ {c}
    /\ \/ registered' = TRUE /\ late' = (late \/ ~open(c))
       \/ ~open(c) /\ UNCHANGED <<registered, late>>
    /\ UNCHANGED <<fixed, start, runVars, stopVars, accepting, inflight, readyVars, told, failures>>
-----------------------------------------------------------------------------
(* App.Run and stopComponents.                                             *)

Signal ==
    /\ run = "running" /\ ~done
    /\ done' = TRUE
    /\ UNCHANGED <<fixed, start, run, err, stopVars, accepting, inflight, readyVars, seedVars,
                   failures>>

BeginStop ==
    /\ run = "running" /\ done
    /\ run' = "stopping" /\ at' = Len(components) /\ step' = "begin"
    /\ UNCHANGED <<fixed, start, done, err, cancelled, stopped, accepting, inflight, readyVars,
                   seedVars, failures>>

Working(c) == c \in Answering /\ inflight[c] # "none"
Stopping(c) == run # "running" /\ at > 0 /\ components[at] = c
nextStop == at' = at - 1 /\ step' = "begin"

(* Mutant of StopOther: Monitor.Stop forgets its loops.                    *)
StopOtherIdle ==
    /\ \E c \in Names \ (Answering \cup {"metrics", "dns", "deregistrar"}) : Stopping(c)
    /\ nextStop
    /\ UNCHANGED <<fixed, start, runVars, cancelled, stopped, accepting, inflight, readyVars,
                   seedVars, failures>>

(* Stops that have nothing to do, or only to cancel a context.             *)
StopOther ==
    /\ \E c \in Names \ (Answering \cup {"metrics", "dns", "deregistrar"}) :
         Stopping(c) /\ stopped' = stopped \cup {c}
    /\ nextStop
    /\ UNCHANGED <<fixed, start, runVars, cancelled, accepting, inflight, readyVars, seedVars,
                   failures>>

(* http.Server.Shutdown stops accepting, and waits for the requests or the *)
(* context; it leaves the requests alone.                                  *)
StopHTTP(c) ==
    /\ c \in {"consul", "metrics"} /\ Stopping(c) /\ step = "begin"
    /\ stopped' = stopped \cup {c} /\ accepting' = accepting \ {c}
    /\ step' = "wait" /\ UNCHANGED at
    /\ UNCHANGED <<fixed, start, runVars, cancelled, inflight, readyVars, seedVars, failures>>

ShutdownOver(c) ==
    /\ c \in {"consul", "metrics"} /\ Stopping(c) /\ step = "wait"
    /\ cancelled \/ ~Working(c)
    /\ nextStop
    /\ UNCHANGED <<fixed, start, runVars, cancelled, stopped, accepting, inflight, readyVars,
                   seedVars, failures>>

(* The DNS servers are shut down if Start has made them.                   *)
StopDNS ==
    /\ Stopping("dns")
    /\ stopped' = stopped \cup {"dns"} /\ accepting' = accepting \ {"dns"}
    /\ nextStop
    /\ UNCHANGED <<fixed, start, runVars, cancelled, inflight, readyVars, seedVars, failures>>

(* Component.Stop of the gRPC server: NOT_SERVING, the drain window, then  *)
(* GracefulStop, or a hard stop once the context is cancelled.             *)
writers ==
    {w \in {"grpc", "probe", "syncer"} :
       \/ w = "grpc" /\ ~startNotReady /\ start["grpc"] \in {"new", "bound"}
       \/ w = "probe" /\ probe = "up"
       \/ w = "syncer" /\ Has("syncer") /\ join # "ready"}

StopGRPC ==
    /\ Stopping("grpc") /\ step = "begin"
    /\ ready' = FALSE /\ racing' = writers
    /\ step' = IF cfg.drain /\ cfg.role = "agent" THEN "drain" ELSE "stop"
    /\ UNCHANGED <<fixed, start, runVars, at, cancelled, stopped, accepting, inflight, probe,
                   join, seedVars, failures>>

DrainOver ==
    /\ step = "drain" /\ ~cancelled
    /\ step' = "stop"
    /\ UNCHANGED <<fixed, start, runVars, at, cancelled, stopped, accepting, inflight, readyVars,
                   seedVars, failures>>

GracefulStop ==
    /\ step = "stop"
    /\ stopped' = stopped \cup {"grpc"} /\ accepting' = accepting \ {"grpc"}
    /\ IF inflight["grpc"] = "none" THEN nextStop ELSE step' = "wait" /\ UNCHANGED at
    /\ UNCHANGED <<fixed, start, runVars, cancelled, inflight, readyVars, seedVars, failures>>

Drained ==
    /\ Stopping("grpc") /\ step = "wait" /\ inflight["grpc"] = "none"
    /\ nextStop
    /\ UNCHANGED <<fixed, start, runVars, cancelled, stopped, accepting, inflight, readyVars,
                   seedVars, failures>>

HardStop ==
    /\ Stopping("grpc") /\ step \in {"drain", "wait"} /\ cancelled
    /\ stopped' = stopped \cup {"grpc"} /\ accepting' = accepting \ {"grpc"}
    /\ inflight' = [inflight EXCEPT !["grpc"] = "none"]
    /\ nextStop
    /\ UNCHANGED <<fixed, start, runVars, cancelled, readyVars, seedVars, failures>>

(* Deregistrar.Stop: one call, bounded by the context, and Close.          *)
StopDeregistrar ==
    /\ Stopping("deregistrar")
    /\ \/ step = "begin" /\ ~cancelled /\ step' = "wait" /\ UNCHANGED <<at, registered, told, failures>>
       \/ step = "wait" /\ nextStop /\ registered' = FALSE /\ told' = "yes" /\ UNCHANGED failures
       \/ step = "wait" /\ failures < MaxFailures /\ nextStop
          /\ told' = "failed" /\ failures' = failures + 1 /\ UNCHANGED registered
       \/ cancelled /\ nextStop /\ told' = "failed" /\ UNCHANGED <<registered, failures>>
    /\ UNCHANGED <<fixed, start, runVars, cancelled, stopped, accepting, inflight, readyVars, wire,
                   late>>

(* The window is over while a Stop waits: its context is cancelled, and    *)
(* Run goes on without the Stops, which go on beside it.                   *)
waiting ==
    \/ step = "drain" /\ "drain" \in Slow
    \/ step = "wait" /\ Stopping("deregistrar") /\ "deregister" \in Slow
    \/ step = "wait" /\ \E c \in Answering : Stopping(c) /\ inflight[c] = "call" /\ "call" \in Slow
    \/ step = "wait" /\ \E c \in Answering : Stopping(c) /\ inflight[c] = "stream"

(* Mutant of Timeout: the end of the window is logged, and no more.        *)
TimeoutLogs == run = "stopping" /\ waiting /\ UNCHANGED vars

Timeout ==
    /\ run = "stopping" /\ waiting
    /\ run' = "waiting" /\ cancelled' = TRUE
    /\ UNCHANGED <<fixed, start, done, err, at, step, stopped, accepting, inflight, readyVars,
                   seedVars, failures>>

StopsDone ==
    /\ run = "stopping" /\ at = 0
    /\ run' = "waiting"
    /\ UNCHANGED <<fixed, start, done, err, stopVars, accepting, inflight, readyVars, seedVars,
                   failures>>

(* g.Wait, and the process ends.                                           *)
RunReturns ==
    /\ run = "waiting" /\ \A c \in Names : start[c] = "returned"
    /\ run' = "returned"
    /\ UNCHANGED <<fixed, start, done, err, stopVars, accepting, inflight, readyVars, seedVars,
                   failures>>

result == IF err # "none" THEN err ELSE IF cancelled THEN "ErrShutdownTimeout" ELSE "nil"
-----------------------------------------------------------------------------
Init ==
    /\ cfg \in Configs /\ components = buildComponents(cfg)
    /\ start = [c \in Names |-> IF c \in Servers THEN "new" ELSE "running"]
    /\ done = FALSE /\ run = "running" /\ err = "none"
    /\ at = 0 /\ step = "begin" /\ cancelled = FALSE /\ stopped = {}
    /\ accepting = {} /\ inflight = [c \in Answering |-> "none"]
    /\ ready = FALSE /\ join = "pulling"
    /\ probe = IF Has("probe") THEN "asking" ELSE "idle"
    /\ wire = {} /\ registered = FALSE /\ told = "no"
    /\ racing = {} /\ late = FALSE /\ failures = 0

Starts == Return \/ \E c \in Names : Bind(c) \/ Serve(c)
Gates == ProbeAnswer \/ ProbeSet \/ Pulled \/ MarkReady
Stops ==
    \/ BeginStop \/ StopOther \/ StopDNS
    \/ \E c \in {"consul", "metrics"} : StopHTTP(c) \/ ShutdownOver(c)
    \/ StopGRPC \/ DrainOver \/ GracefulStop \/ Drained \/ HardStop \/ StopDeregistrar
    \/ StopsDone \/ RunReturns

Alive ==
    \/ Starts \/ \E c \in Names : Fails(c)
    \/ ProbeAsk \/ Gates \/ Signal \/ Stops \/ Timeout
    \/ \E c \in Answering : Request(c) \/ Answer(c) \/ HangUp(c)
    \/ \E c \in {"loader", "monitor"} : SendRegister(c) \/ Land(c)

Exited == run = "returned" /\ UNCHANGED vars

Next == (run # "returned" /\ Alive) \/ Exited

Spec == Init /\ [][Next]_vars

(* Every goroutine that can go on does; a client may keep a stream open    *)
(* for ever.                                                               *)
FairSpec ==
    /\ Spec
    /\ WF_vars(run # "returned" /\ Starts)
    /\ WF_vars(run # "returned" /\ Gates)
    /\ WF_vars(run # "returned" /\ Stops)
    /\ WF_vars(run # "returned" /\ Timeout)
-----------------------------------------------------------------------------
(* Properties.                                                             *)

(* Type correctness; a server that stopped takes no request, the DNS       *)
(* servers excepted when their Start came late.                            *)
TypeOK ==
    /\ start \in [Names -> {"new", "bound", "running", "returned"}]
    /\ run \in {"running", "stopping", "waiting", "returned"}
    /\ err \in Names \cup {"none"} /\ at \in 0 .. Len(components)
    /\ step \in {"begin", "drain", "stop", "wait"}
    /\ stopped \subseteq Names /\ accepting \subseteq Names \cap Servers
    /\ inflight \in [Answering -> {"none", "call", "stream"}]
    /\ \A c \in accepting : c \in stopped => c = "dns"

(* "an agent drains as readiness-off -> drain-window -> stop-accept ->     *)
(* deregister -> close" (architecture.md:97): when the seeds are told that *)
(* the agent leaves, no server of it takes or still works on a request     *)
(* that could register a service again, however slowly the Starts run and  *)
(* whatever set the shutdown off.                                          *)
DeregisterLast ==
    told = "yes" =>
        \A c \in Answering : c \notin accepting /\ inflight[c] = "none"

(* An agent whose Run returns nil has left nothing behind on the seeds,    *)
(* unless they did not answer, or a registration that was on the wire when *)
(* its context was cancelled came in after the deregistration.             *)
NothingLeft ==
    run = "returned" /\ result = "nil" /\ registered => told = "failed" \/ late

(* The Stop of the gRPC server has turned readiness off.                   *)
GateClosed ==
    /\ run # "running"
    /\ \E i \in DOMAIN components :
         components[i] = "grpc" /\ (at < i \/ (at = i /\ step # "begin"))

(* "Stop flips the server NOT_SERVING" (component.go:194), and the probe   *)
(* leaves readiness to the drain once its context is done (loops.go:125):  *)
(* the gate can only open again by a writer that was past its last check   *)
(* when it was closed.                                                     *)
DrainStaysOff == GateClosed /\ ready => racing # {}

(* "shutdown is bounded" (architecture.md:97): after a signal or a failure *)
(* Run returns, with clients that never hang up and seeds that do not      *)
(* answer.                                                                 *)
ShutdownEnds == done ~> run = "returned"

(* "On SIGTERM/SIGINT an agent drains in order: ... deregister from seeds, *)
(* close" (operations.md:62): a shutdown tells the seeds.                  *)
ShutdownDeregisters == (cfg.role = "agent" /\ done) ~> told = "yes"
=============================================================================
