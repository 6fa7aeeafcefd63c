-------------------------- MODULE LifecycleProofs --------------------------
(***************************************************************************)
(* Proofs about Lifecycle, for every configuration and any set of slow     *)
(* waits: type correctness, DrainStaysOff, DeregisterLast and NothingLeft. *)
(***************************************************************************)
EXTENDS Lifecycle, SequenceTheorems, TLAPS

(* Time for the provers.                                                   *)
USE SMTT(30), ZenonT(30)

(* The Stop of c is over.                                                  *)
Past(c) ==
    /\ run # "running"
    /\ \E i \in DOMAIN components : components[i] = c /\ at < i

(* Types, and what the steps of Run and of the single Stops rest on.       *)
TypeInv ==
    /\ cfg \in Configs /\ components = buildComponents(cfg)
    /\ TypeOK
    /\ failures \in Nat /\ join \in {"pulling", "pulled", "ready"}
    /\ \A c \in Names : start[c] \in {"new", "bound"} => c \in Servers
    /\ run = "running" => at = 0 /\ told = "no"
    /\ run # "running" => done
    /\ run \in {"waiting", "returned"} /\ ~cancelled => at = 0
    /\ step \in {"drain", "stop"} => Stopping("grpc")

(* Once readiness is off with no writer past its check, none is left.      *)
GateInv ==
    /\ ~Has("syncer") => join = "pulling"
    /\ GateClosed /\ racing = {} =>
         /\ ~ready /\ probe # "up"
         /\ startNotReady \/ start["grpc"] \notin {"new", "bound"}
         /\ Has("syncer") => join = "ready"

(* What is stopped stays so, and what the Stops waited for is over.        *)
StopInv ==
    /\ \A c \in {"grpc", "consul", "monitor"} : Past(c) => c \in stopped
    /\ \A c \in Answering : Stopping(c) /\ step = "wait" => c \in stopped
    /\ \A c \in Answering : Past(c) /\ ~cancelled => inflight[c] = "none"
    /\ \A c \in Answering \ Names : inflight[c] = "none"

(* No server of the agent has or takes a request, no check runs.           *)
Silent ==
    /\ "monitor" \in stopped
    /\ \A c \in Answering : /\ c \notin accepting /\ inflight[c] = "none"
                            /\ c \in Names => c \in stopped

(* The deregistration comes after all that, and nothing but a late         *)
(* registration comes after it.                                            *)
LeaveInv ==
    /\ told \in {"no", "yes", "failed"} /\ registered \in BOOLEAN
    /\ wire # {} \/ registered => cfg.role = "agent"
    /\ Past("deregistrar") => told # "no"
    /\ told = "yes" \/ (Stopping("deregistrar") /\ step = "wait") => Silent
    /\ told = "yes" /\ registered => late
-----------------------------------------------------------------------------
(* The order of the components of an agent: only the metrics and the       *)
(* federation come before the deregistrar, and so are stopped after it.    *)

AllNames == {"metrics", "federation", "deregistrar", "grpc", "probe", "renew",
             "refresh", "flusher", "monitor", "gc", "syncer", "consul", "dns",
             "loader"}

LEMMA OptSeq ==
    ASSUME NEW e \in BOOLEAN, NEW c \in AllNames
    PROVE  /\ opt(e, c) \in Seq(AllNames)
           /\ \A i \in 1 .. Len(opt(e, c)) : opt(e, c)[i] = c
BY DEF opt

LEMMA Joined ==
    ASSUME NEW s \in Seq(AllNames), NEW t \in Seq(AllNames)
    PROVE  /\ s \o t \in Seq(AllNames) /\ Len(s \o t) = Len(s) + Len(t)
           /\ \A i \in 1 .. Len(s) : (s \o t)[i] = s[i]
           /\ \A i \in 1 .. Len(t) : (s \o t)[Len(s) + i] = t[i]
           /\ \A i \in 1 .. Len(s) + Len(t) :
                i > Len(s) => i - Len(s) \in 1 .. Len(t)
                              /\ (s \o t)[i] = t[i - Len(s)]
OBVIOUS

(* s has its deregistrar at d, before it only the metrics and federation.  *)
Deregisters(s, d) ==
    /\ d \in 1 .. Len(s) /\ s[d] = "deregistrar"
    /\ \A i \in 1 .. Len(s) : i < d => s[i] \in {"metrics", "federation"}
    /\ \A i \in 1 .. Len(s) : s[i] = "deregistrar" => i = d
    /\ \E i \in 1 .. Len(s) : s[i] = "monitor"

LEMMA DeregistersBefore ==
    ASSUME NEW s \in Seq(AllNames), NEW d, Deregisters(s, d),
           NEW t \in Seq(AllNames),
           \A i \in 1 .. Len(t) : t[i] \in {"metrics", "federation"}
    PROVE  Deregisters(t \o s, Len(t) + d)
<1>1. /\ Len(t \o s) = Len(t) + Len(s) /\ Len(s) \in Nat /\ Len(t) \in Nat
      /\ \A i \in 1 .. Len(t) : (t \o s)[i] = t[i]
      /\ \A i \in 1 .. Len(s) : (t \o s)[Len(t) + i] = s[i]
      /\ \A i \in 1 .. Len(t) + Len(s) :
           i > Len(t) => i - Len(t) \in 1 .. Len(s) /\ (t \o s)[i] = s[i - Len(t)]
  BY Joined
<1>2. Len(t) + d \in 1 .. Len(t \o s) /\ (t \o s)[Len(t) + d] = "deregistrar"
  BY <1>1 DEF Deregisters
<1>3. ASSUME NEW i \in 1 .. Len(t \o s)
      PROVE  /\ i < Len(t) + d => (t \o s)[i] \in {"metrics", "federation"}
             /\ (t \o s)[i] = "deregistrar" => i = Len(t) + d
  <2>1. CASE i <= Len(t)
    BY <1>1, <2>1
  <2>2. CASE i > Len(t)
    <3>1. i - Len(t) \in 1 .. Len(s) /\ (t \o s)[i] = s[i - Len(t)]
      BY <1>1, <2>2, ZenonT(30)
    <3>2. /\ i - Len(t) < d => s[i - Len(t)] \in {"metrics", "federation"}
          /\ s[i - Len(t)] = "deregistrar" => i - Len(t) = d
      BY <3>1, ZenonT(30) DEF Deregisters
    <3>. QED  BY <1>1, <3>1, <3>2 DEF Deregisters
  <2>. QED  BY <1>1, <2>1, <2>2
<1>4. \E i \in 1 .. Len(t \o s) : (t \o s)[i] = "monitor"
  <2>1. PICK i \in 1 .. Len(s) : s[i] = "monitor"
    BY ZenonT(30) DEF Deregisters
  <2>2. Len(t) + i \in 1 .. Len(t \o s) /\ (t \o s)[Len(t) + i] = "monitor"
    BY <1>1, <2>1
  <2>. QED  BY <2>2, ZenonT(30)
<1>. QED  BY <1>2, <1>3, <1>4, ZenonT(30) DEF Deregisters

LEMMA DeregistersAfter ==
    ASSUME NEW s \in Seq(AllNames), NEW d, Deregisters(s, d),
           NEW t \in Seq(AllNames),
           \A i \in 1 .. Len(t) : t[i] # "deregistrar"
    PROVE  Deregisters(s \o t, d)
<1>1. /\ Len(s \o t) = Len(s) + Len(t) /\ Len(s) \in Nat /\ Len(t) \in Nat
      /\ \A i \in 1 .. Len(s) : (s \o t)[i] = s[i]
      /\ \A i \in 1 .. Len(s) + Len(t) :
           i > Len(s) => i - Len(s) \in 1 .. Len(t) /\ (s \o t)[i] = t[i - Len(s)]
  BY Joined
<1>2. d \in 1 .. Len(s \o t) /\ (s \o t)[d] = "deregistrar" /\ d \in 1 .. Len(s)
  BY <1>1 DEF Deregisters
<1>3. ASSUME NEW i \in 1 .. Len(s \o t)
      PROVE  /\ i < d => (s \o t)[i] \in {"metrics", "federation"}
             /\ (s \o t)[i] = "deregistrar" => i = d
  <2>1. CASE i <= Len(s)
    BY <1>1, <2>1 DEF Deregisters
  <2>2. CASE i > Len(s)
    BY <1>1, <1>2, <2>2
  <2>. QED  BY <1>1, <2>1, <2>2
<1>4. \E i \in 1 .. Len(s \o t) : (s \o t)[i] = "monitor"
  BY <1>1 DEF Deregisters
<1>. QED  BY <1>2, <1>3, <1>4, ZenonT(30) DEF Deregisters

LEMMA NoneAfter ==
    ASSUME NEW s \in Seq(AllNames), NEW t \in Seq(AllNames),
           \A i \in 1 .. Len(s) : s[i] # "deregistrar",
           \A i \in 1 .. Len(t) : t[i] # "deregistrar"
    PROVE  \A i \in 1 .. Len(s \o t) : (s \o t)[i] # "deregistrar"
BY Joined

LEMMA AgentOrder ==
    ASSUME NEW c \in Config, c.role = "agent"
    PROVE  /\ buildComponents(c) \in Seq(AllNames)
           /\ \E d : Deregisters(buildComponents(c), d)
<1>. DEFINE core == <<"deregistrar", "grpc", "probe", "renew", "refresh",
                      "flusher", "monitor">>
            M == opt(c.metrics, "metrics")
            F == opt(c.federation, "federation")
            C == opt(c.consul, "consul")
            D == opt(c.dns, "dns")
            L == opt(c.loader, "loader")
<1>1. c.metrics \in BOOLEAN /\ c.federation \in BOOLEAN /\ c.consul \in BOOLEAN
      /\ c.dns \in BOOLEAN /\ c.loader \in BOOLEAN
  BY ZenonT(30) DEF Config
<1>2. buildComponents(c) = M \o (F \o core) \o C \o D \o L
  BY ZenonT(30) DEF buildComponents
<1>3. M \in Seq(AllNames) /\ \A i \in 1 .. Len(M) : M[i] = "metrics"
  <2>1. "metrics" \in AllNames
    BY ZenonT(30) DEF AllNames
  <2>. QED  BY <1>1, <2>1, OptSeq, ZenonT(30)
<1>4. F \in Seq(AllNames) /\ \A i \in 1 .. Len(F) : F[i] = "federation"
  <2>1. "federation" \in AllNames
    BY ZenonT(30) DEF AllNames
  <2>. QED  BY <1>1, <2>1, OptSeq, ZenonT(30)
<1>5. C \in Seq(AllNames) /\ \A i \in 1 .. Len(C) : C[i] = "consul"
  <2>1. "consul" \in AllNames
    BY ZenonT(30) DEF AllNames
  <2>. QED  BY <1>1, <2>1, OptSeq, ZenonT(30)
<1>6. D \in Seq(AllNames) /\ \A i \in 1 .. Len(D) : D[i] = "dns"
  <2>1. "dns" \in AllNames
    BY ZenonT(30) DEF AllNames
  <2>. QED  BY <1>1, <2>1, OptSeq, ZenonT(30)
<1>7. L \in Seq(AllNames) /\ \A i \in 1 .. Len(L) : L[i] = "loader"
  <2>1. "loader" \in AllNames
    BY ZenonT(30) DEF AllNames
  <2>. QED  BY <1>1, <2>1, OptSeq, ZenonT(30)
<1>8. core \in Seq(AllNames) /\ Deregisters(core, 1)
  <2>1. core \in Seq(AllNames) /\ Len(core) = 7
    BY DEF AllNames
  <2>2. core[1] = "deregistrar" /\ core[7] = "monitor"
    BY ZenonT(30)
  <2>3. \A i \in 1 .. 7 : core[i] = "deregistrar" => i = 1
    OBVIOUS
  <2>. HIDE DEF core
  <2>. QED  BY <2>1, <2>2, <2>3 DEF Deregisters
<1>. HIDE DEF core, M, F, C, D, L
<1>9. F \o core \in Seq(AllNames) /\ \E d : Deregisters(F \o core, d)
  BY <1>4, <1>8, Joined, DeregistersBefore, ZenonT(30)
<1>10. M \o (F \o core) \in Seq(AllNames)
       /\ \E d : Deregisters(M \o (F \o core), d)
  BY <1>3, <1>9, Joined, DeregistersBefore, ZenonT(30)
<1>11. M \o (F \o core) \o C \in Seq(AllNames)
       /\ \E d : Deregisters(M \o (F \o core) \o C, d)
  BY <1>5, <1>10, Joined, DeregistersAfter, ZenonT(30)
<1>12. M \o (F \o core) \o C \o D \in Seq(AllNames)
       /\ \E d : Deregisters(M \o (F \o core) \o C \o D, d)
  BY <1>6, <1>11, Joined, DeregistersAfter, ZenonT(30)
<1>13. M \o (F \o core) \o C \o D \o L \in Seq(AllNames)
       /\ \E d : Deregisters(M \o (F \o core) \o C \o D \o L, d)
  BY <1>7, <1>12, Joined, DeregistersAfter, ZenonT(30)
<1>. QED  BY <1>2, <1>13, ZenonT(30)

LEMMA SeedOrder ==
    ASSUME NEW c \in Config, c.role # "agent"
    PROVE  /\ buildComponents(c) \in Seq(AllNames)
           /\ \A i \in 1 .. Len(buildComponents(c)) :
                buildComponents(c)[i] # "deregistrar"
<1>. DEFINE core == <<"grpc", "gc">>
            M == opt(c.metrics, "metrics")
            Y == opt(c.membership, "syncer")
            C == opt(c.consul, "consul")
            D == opt(c.dns, "dns")
            L == opt(c.loader, "loader")
            Free(s) == \A i \in 1 .. Len(s) : s[i] # "deregistrar"
<1>1. c.metrics \in BOOLEAN /\ c.membership \in BOOLEAN /\ c.consul \in BOOLEAN
      /\ c.dns \in BOOLEAN /\ c.loader \in BOOLEAN /\ c.role = "seed"
  BY ZenonT(30) DEF Config
<1>2. buildComponents(c) = M \o (core \o Y) \o C \o D \o L
  BY <1>1, ZenonT(30) DEF buildComponents
<1>3. /\ "metrics" \in AllNames /\ "syncer" \in AllNames /\ "consul" \in AllNames
      /\ "dns" \in AllNames /\ "loader" \in AllNames
  BY ZenonT(30) DEF AllNames
<1>4. /\ M \in Seq(AllNames) /\ Free(M)
      /\ Y \in Seq(AllNames) /\ Free(Y)
      /\ C \in Seq(AllNames) /\ Free(C)
      /\ D \in Seq(AllNames) /\ Free(D)
      /\ L \in Seq(AllNames) /\ Free(L)
  BY <1>1, <1>3, OptSeq, ZenonT(30)
<1>5. core \in Seq(AllNames) /\ Free(core)
  BY DEF AllNames
<1>11. ASSUME NEW s \in Seq(AllNames), NEW t \in Seq(AllNames), Free(s), Free(t)
       PROVE  s \o t \in Seq(AllNames) /\ Free(s \o t)
  BY <1>11, Joined, NoneAfter, ZenonT(30)
<1>. HIDE DEF core, M, Y, C, D, L, Free
<1>6. core \o Y \in Seq(AllNames) /\ Free(core \o Y)
  BY <1>4, <1>5, <1>11, ZenonT(30)
<1>7. M \o (core \o Y) \in Seq(AllNames) /\ Free(M \o (core \o Y))
  BY <1>4, <1>6, <1>11, ZenonT(30)
<1>8. M \o (core \o Y) \o C \in Seq(AllNames) /\ Free(M \o (core \o Y) \o C)
  BY <1>4, <1>7, <1>11, ZenonT(30)
<1>9. M \o (core \o Y) \o C \o D \in Seq(AllNames)
      /\ Free(M \o (core \o Y) \o C \o D)
  BY <1>4, <1>8, <1>11, ZenonT(30)
<1>10. M \o (core \o Y) \o C \o D \o L \in Seq(AllNames)
       /\ Free(M \o (core \o Y) \o C \o D \o L)
  BY <1>4, <1>9, <1>11, ZenonT(30)
<1>. QED  BY <1>2, <1>10, ZenonT(30) DEF Free

(* What the proofs use of the order.                                       *)
LEMMA Order ==
    ASSUME TypeInv
    PROVE  /\ components \in Seq(AllNames) /\ DOMAIN components = 1 .. Len(components)
           /\ Len(components) \in Nat
           /\ Has("deregistrar") => cfg.role = "agent"
           /\ cfg.role = "agent" => Has("deregistrar") /\ Has("monitor")
           /\ \A i, j \in DOMAIN components :
                /\ components[i] = "deregistrar"
                /\ components[j] \in {"grpc", "consul", "monitor"}
                => i < j
<1>1. cfg \in Config /\ components = buildComponents(cfg)
  BY LifecycleAssumption, ZenonT(30) DEF TypeInv
<1>2. CASE cfg.role = "agent"
  <2>1. components \in Seq(AllNames) /\ \E d : Deregisters(components, d)
    BY <1>1, <1>2, AgentOrder, ZenonT(30)
  <2>2. PICK d : Deregisters(components, d)
    BY <2>1, ZenonT(30)
  <2>3. DOMAIN components = 1 .. Len(components) /\ Len(components) \in Nat
    BY <2>1
  <2>4. Has("deregistrar") /\ Has("monitor")
    BY <2>2, <2>3, ZenonT(30) DEF Deregisters, Has
  <2>5. ASSUME NEW i \in DOMAIN components, NEW j \in DOMAIN components,
               components[i] = "deregistrar",
               components[j] \in {"grpc", "consul", "monitor"}
        PROVE  i < j
    <3>1. i = d /\ i \in Nat /\ j \in Nat
      BY <2>2, <2>3, <2>5 DEF Deregisters
    <3>2. ~(j < d) /\ j # d
      BY <2>2, <2>3, <2>5, ZenonT(30) DEF Deregisters
    <3>. QED  BY <3>1, <3>2
  <2>. QED  BY <1>2, <2>1, <2>3, <2>4, <2>5, ZenonT(30)
<1>3. CASE cfg.role # "agent"
  <2>1. /\ components \in Seq(AllNames)
        /\ \A i \in 1 .. Len(components) : components[i] # "deregistrar"
    BY <1>1, <1>3, SeedOrder, ZenonT(30)
  <2>2. DOMAIN components = 1 .. Len(components) /\ Len(components) \in Nat
    BY <2>1
  <2>. QED  BY <1>3, <2>1, <2>2, ZenonT(30) DEF Has
<1>. QED  BY <1>2, <1>3, ZenonT(30)
-----------------------------------------------------------------------------
(* Type correctness.                                                       *)

LEMMA FixedStep == [Next]_vars => cfg' = cfg /\ components' = components
BY ZenonT(30) DEF Next, Alive, Exited, Starts, Gates, Stops, vars, fixed, Bind, Serve,
       Return, Fails, ProbeAsk, ProbeAnswer, ProbeSet, Pulled, MarkReady, Signal,
       Timeout, Request, Answer, HangUp, SendRegister, Land, BeginStop, StopOther,
       StopDNS, StopHTTP, ShutdownOver, StopGRPC, DrainOver, GracefulStop,
       Drained, HardStop, StopDeregistrar, StopsDone, RunReturns

LEMMA TypeStep ==
    ASSUME TypeInv, [Next]_vars
    PROVE  TypeInv'
<1>. USE DEF TypeInv, TypeOK, fixed, runVars, stopVars, readyVars, seedVars
<1>0. cfg' = cfg /\ components' = components /\ Names' = Names
  BY FixedStep DEF Names
<1>00. Len(components) \in Nat
  BY Order, ZenonT(30)
<1>1. ASSUME NEW c \in Names, Bind(c)
      PROVE  TypeInv'
  BY <1>0, <1>00, <1>1, ZenonT(30) DEF Bind, Stopping
<1>2. ASSUME NEW c \in Names, Serve(c)
      PROVE  TypeInv'
  BY <1>0, <1>00, <1>2, ZenonT(30) DEF Serve, Stopping
<1>3. CASE Return
  BY <1>0, <1>00, <1>3 DEF Return, returning, Loops, Stopping
<1>4. ASSUME NEW c \in Names, Fails(c)
      PROVE  TypeInv'
  BY <1>0, <1>00, <1>4 DEF Fails, fail, Stopping
<1>5. CASE ProbeAsk \/ ProbeAnswer \/ ProbeSet
  BY <1>0, <1>00, <1>5, ZenonT(30) DEF ProbeAsk, ProbeAnswer, ProbeSet, Stopping
<1>6. CASE Pulled \/ MarkReady
  BY <1>0, <1>00, <1>6, ZenonT(30) DEF Pulled, MarkReady, Stopping
<1>7. CASE Signal
  BY <1>0, <1>00, <1>7, ZenonT(30) DEF Signal, Stopping
<1>8. CASE Timeout
  BY <1>0, <1>00, <1>8, ZenonT(30) DEF Timeout, Stopping
<1>9. ASSUME NEW c \in Answering, Request(c) \/ Answer(c) \/ HangUp(c)
      PROVE  TypeInv'
  BY <1>0, <1>00, <1>9 DEF Request, Answer, HangUp, Stopping
<1>10. ASSUME NEW c \in {"loader", "monitor"}, SendRegister(c) \/ Land(c)
      PROVE  TypeInv'
  BY <1>0, <1>00, <1>10, ZenonT(30) DEF SendRegister, Land, Stopping
<1>11. CASE BeginStop
  BY <1>0, <1>00, <1>11 DEF BeginStop, Stopping
<1>12. CASE StopOther
  BY <1>0, <1>00, <1>12 DEF StopOther, nextStop, Stopping, Servers, Answering
<1>13. CASE StopDNS
  BY <1>0, <1>00, <1>13 DEF StopDNS, nextStop, Names, Stopping
<1>14. ASSUME NEW c \in {"consul", "metrics"}, StopHTTP(c)
      PROVE  TypeInv'
  BY <1>0, <1>00, <1>14 DEF StopHTTP, Names, Stopping
<1>15. ASSUME NEW c \in {"consul", "metrics"}, ShutdownOver(c)
      PROVE  TypeInv'
  BY <1>0, <1>00, <1>15 DEF ShutdownOver, nextStop, Stopping
<1>16. CASE StopGRPC
  BY <1>0, <1>00, <1>16, ZenonT(30) DEF StopGRPC, Stopping
<1>17. CASE DrainOver
  BY <1>0, <1>00, <1>17, ZenonT(30) DEF DrainOver, Stopping
<1>18. CASE GracefulStop
  BY <1>0, <1>00, <1>18 DEF GracefulStop, nextStop, Names, Stopping
<1>19. CASE Drained
  BY <1>0, <1>00, <1>19 DEF Drained, nextStop, Stopping
<1>20. CASE HardStop
  BY <1>0, <1>00, <1>20 DEF HardStop, nextStop, Names, Stopping, Answering
<1>21. CASE StopDeregistrar
  BY <1>0, <1>00, <1>21 DEF StopDeregistrar, nextStop, Stopping
<1>22. CASE StopsDone \/ RunReturns
  BY <1>0, <1>00, <1>22, ZenonT(30) DEF StopsDone, RunReturns, Stopping
<1>23. CASE UNCHANGED vars
  BY <1>0, <1>00, <1>23, ZenonT(30) DEF vars, Stopping
<1>. QED
  BY <1>1, <1>2, <1>3, <1>4, <1>5, <1>6, <1>7, <1>8, <1>9, <1>10, <1>11, <1>12, <1>13, <1>14, <1>15, <1>16, <1>17, <1>18, <1>19, <1>20, <1>21, <1>22, <1>23, ZenonT(30)
  DEF Next, Alive, Exited, Starts, Gates, Stops

LEMMA InitTypes == Init => TypeInv
<1>. SUFFICES ASSUME Init PROVE TypeInv
  BY ZenonT(30)
<1>1. cfg \in Configs /\ components = buildComponents(cfg)
  BY ZenonT(30) DEF Init
<1>2. Len(components) \in Nat
  BY <1>1, LifecycleAssumption, AgentOrder, SeedOrder
<1>3. /\ start \in [Names -> {"new", "bound", "running", "returned"}]
      /\ \A c \in Names : start[c] \in {"new", "bound"} => c \in Servers
  BY ZenonT(30) DEF Init
<1>4. inflight \in [Answering -> {"none", "call", "stream"}]
  BY ZenonT(30) DEF Init
<1>. QED  BY <1>1, <1>2, <1>3, <1>4 DEF Init, TypeInv, TypeOK

(* The process keeps its types; a stopped server takes no request.         *)
THEOREM TypeInvariant == Spec => [](TypeInv /\ TypeOK)
<1>1. TypeInv => TypeOK
  BY ZenonT(30) DEF TypeInv
<1>2. TypeInv /\ [Next]_vars => TypeInv'
  BY TypeStep, ZenonT(30)
<1>. QED  BY InitTypes, <1>1, <1>2, PTL DEF Spec
-----------------------------------------------------------------------------
(* The readiness gate.                                                     *)

(* Only the Stop of the gRPC server closes the gate.                       *)
LEMMA GateCloses ==
    ASSUME TypeInv, [Next]_vars, ~StopGRPC
    PROVE  racing' = racing /\ (GateClosed' => GateClosed)
<1>. USE DEF fixed, runVars, stopVars, readyVars, seedVars
<1>0. /\ components' = components /\ DOMAIN components = 1 .. Len(components)
      /\ Len(components) \in Nat /\ at \in Nat
  BY FixedStep, Order DEF TypeInv, TypeOK
<1>1. ASSUME run # "running" \/ run' = run, at' = at, step' = step
      PROVE  GateClosed' => GateClosed
  BY <1>0, <1>1, ZenonT(30) DEF GateClosed
<1>2. ASSUME run # "running", at > 0, nextStop,
             components[at] # "grpc" \/ step # "begin"
      PROVE  GateClosed' => GateClosed
  BY <1>0, <1>2 DEF GateClosed, nextStop
<1>3. ASSUME run # "running", at' = at, components[at] # "grpc"
      PROVE  GateClosed' => GateClosed
  BY <1>0, <1>3, ZenonT(30) DEF GateClosed
<1>4. CASE BeginStop
  BY <1>0, <1>4 DEF BeginStop, GateClosed
<1>5. CASE StopOther
  BY <1>2, <1>5, ZenonT(30) DEF StopOther, Stopping, Answering
<1>6. CASE StopDNS
  BY <1>2, <1>6, ZenonT(30) DEF StopDNS, Stopping
<1>7. ASSUME NEW c \in {"consul", "metrics"}, StopHTTP(c) \/ ShutdownOver(c)
      PROVE  racing' = racing /\ (GateClosed' => GateClosed)
  BY <1>2, <1>3, <1>7, ZenonT(30) DEF StopHTTP, ShutdownOver, Stopping
<1>8. CASE DrainOver
  BY <1>0, <1>8, ZenonT(30) DEF DrainOver, GateClosed
<1>9. CASE GracefulStop
  <2>1. Stopping("grpc") /\ step = "stop"
    BY <1>9, ZenonT(30) DEF TypeInv, GracefulStop
  <2>2. CASE nextStop
    BY <1>2, <1>9, <2>1, <2>2, ZenonT(30) DEF GracefulStop, Stopping
  <2>3. CASE ~nextStop
    BY <1>0, <1>9, <2>1, <2>3, ZenonT(30) DEF GracefulStop, Stopping, GateClosed
  <2>. QED  BY <2>2, <2>3, ZenonT(30)
<1>10. CASE Drained
  BY <1>2, <1>10, ZenonT(30) DEF Drained, Stopping
<1>11. CASE HardStop
  BY <1>2, <1>11, ZenonT(30) DEF HardStop, Stopping
<1>12. CASE StopDeregistrar
  BY <1>2, <1>3, <1>12, ZenonT(30) DEF StopDeregistrar, Stopping
<1>13. CASE Timeout \/ StopsDone \/ RunReturns
  BY <1>1, <1>13, ZenonT(30) DEF Timeout, StopsDone, RunReturns
<1>14. CASE UNCHANGED vars
  BY <1>1, <1>14, ZenonT(30) DEF vars
<1>15. ASSUME NEW c, Bind(c) \/ Serve(c) \/ Fails(c) \/ Request(c) \/ Answer(c)
                     \/ HangUp(c) \/ SendRegister(c) \/ Land(c)
       PROVE  racing' = racing /\ (GateClosed' => GateClosed)
  BY <1>1, <1>15, ZenonT(30) DEF Bind, Serve, Fails, Request, Answer, HangUp, SendRegister, Land
<1>16. CASE Return \/ ProbeAsk \/ Gates \/ Signal
  BY <1>1, <1>16, ZenonT(30) DEF Return, ProbeAsk, Gates, ProbeAnswer, ProbeSet, Pulled,
                     MarkReady, Signal
<1>. QED
  BY <1>4, <1>5, <1>6, <1>7, <1>8, <1>9, <1>10, <1>11, <1>12, <1>13, <1>14,
     <1>15, <1>16, ZenonT(30)
  DEF Next, Alive, Exited, Starts, Stops

(* What the writers of readiness are once none is left.                    *)
Unwritten ==
    /\ ~ready /\ probe # "up"
    /\ startNotReady \/ start["grpc"] \notin {"new", "bound"}
    /\ Has("syncer") => join = "ready"

LEMMA GateStep ==
    ASSUME TypeInv, GateInv, [Next]_vars
    PROVE  GateInv'
<1>. USE DEF fixed, runVars, stopVars, readyVars, seedVars
<1>0. /\ components' = components /\ cfg' = cfg
      /\ Has("syncer")' <=> Has("syncer")
      /\ startNotReady' <=> startNotReady
  BY FixedStep, ZenonT(30) DEF Has, startNotReady
<1>1. (~Has("syncer") => join = "pulling") => (~Has("syncer")' => join' = "pulling")
  BY <1>0, ZenonT(30) DEF Next, Alive, Exited, Starts, Gates, Stops, vars, Bind, Serve,
       Return, Fails, ProbeAsk, ProbeAnswer, ProbeSet, Pulled, MarkReady, Signal,
       Timeout, Request, Answer, HangUp, SendRegister, Land, BeginStop, StopOther,
       StopDNS, StopHTTP, ShutdownOver, StopGRPC, DrainOver, GracefulStop,
       Drained, HardStop, StopDeregistrar, StopsDone, RunReturns
<1>2. CASE StopGRPC
  <2>1. ASSUME racing' = {}
        PROVE  Unwritten'
    <3>1. writers = {} /\ ready' = FALSE
      BY <1>2, <2>1, ZenonT(30) DEF StopGRPC
    <3>2. /\ startNotReady \/ start["grpc"] \notin {"new", "bound"}
          /\ probe # "up" /\ (Has("syncer") => join = "ready")
      BY <3>1, ZenonT(30) DEF writers
    <3>. QED  BY <1>0, <1>2, <3>1, <3>2, ZenonT(30) DEF StopGRPC, Unwritten
  <2>. QED  BY <1>1, <2>1, ZenonT(30) DEF GateInv, Unwritten
<1>3. ASSUME ~StopGRPC, GateClosed, Unwritten
      PROVE  Unwritten'
  <2>1. /\ "grpc" \in Names /\ Names' = Names /\ done
        /\ start \in [Names -> {"new", "bound", "running", "returned"}]
    BY <1>0, <1>3, ZenonT(30) DEF GateClosed, Names, TypeInv, TypeOK
  <2>2. Has("syncer") \/ join = "pulling"
    BY ZenonT(30) DEF GateInv
  <2>3. CASE ProbeAsk \/ ProbeAnswer \/ ProbeSet \/ Pulled \/ MarkReady
    <3>1. start' = start /\ probe' # "up" /\ join' = join
      BY <1>3, <2>1, <2>2, <2>3, ZenonT(30)
      DEF ProbeAsk, ProbeAnswer, ProbeSet, Pulled, MarkReady, Unwritten
    <3>2. ~ready'
      BY <1>3, <2>1, <2>2, <2>3, ZenonT(30)
      DEF ProbeAsk, ProbeAnswer, ProbeSet, Pulled, MarkReady, Unwritten
    <3>. QED  BY <1>0, <1>3, <3>1, <3>2, ZenonT(30) DEF Unwritten
  <2>4. ASSUME NEW c \in Names, Bind(c) \/ Serve(c) \/ Fails(c)
        PROVE  Unwritten'
    <3>1. startNotReady \/ start'["grpc"] \notin {"new", "bound"}
      <4>1. CASE Bind(c)
        BY <1>3, <2>1, <4>1, ZenonT(30) DEF Bind, Unwritten
      <4>2. CASE Serve(c)
        BY <1>3, <2>1, <4>2, ZenonT(30) DEF Serve, Unwritten
      <4>3. CASE Fails(c)
        BY <1>3, <2>1, <4>3, ZenonT(30) DEF Fails, fail, Unwritten
      <4>. QED  BY <2>4, <4>1, <4>2, <4>3, ZenonT(30)
    <3>2. probe' = probe /\ join' = join
      BY <2>4, ZenonT(30) DEF Bind, Serve, Fails
    <3>3. ~ready'
      <4>1. CASE Serve(c)
        <5>1. ~(c = "grpc" /\ ~startNotReady)
          BY <1>3, <4>1, ZenonT(30) DEF Serve, Unwritten
        <5>. QED  BY <1>3, <4>1, <5>1, ZenonT(30) DEF Serve, Unwritten
      <4>2. CASE Bind(c) \/ Fails(c)
        BY <1>3, <4>2, ZenonT(30) DEF Bind, Fails, Unwritten
      <4>. QED  BY <2>4, <4>1, <4>2, ZenonT(30)
    <3>. QED  BY <1>0, <1>3, <3>1, <3>2, <3>3, ZenonT(30) DEF Unwritten
  <2>5. CASE Return
    <3>1. start'["grpc"] \in {start["grpc"], "returned"}
      BY <2>1, <2>5, ZenonT(30) DEF Return, returning
    <3>. QED  BY <1>0, <1>3, <2>5, <3>1, ZenonT(30) DEF Return, Unwritten
  <2>6. ASSUME start' = start, ready' = ready, probe' = probe, join' = join
        PROVE  Unwritten'
    BY <1>0, <1>3, <2>6, ZenonT(30) DEF Unwritten
  <2>. QED
    BY <1>3, <2>3, <2>4, <2>5, <2>6, ZenonT(30)
    DEF Next, Alive, Exited, Starts, Gates, Stops, vars, Signal,
        Timeout, Request, Answer, HangUp, SendRegister, Land, BeginStop, StopOther,
        StopDNS, StopHTTP, ShutdownOver, DrainOver, GracefulStop,
        Drained, HardStop, StopDeregistrar, StopsDone, RunReturns
<1>4. CASE ~StopGRPC
  <2>1. racing' = racing /\ (GateClosed' => GateClosed)
    BY <1>4, GateCloses, ZenonT(30)
  <2>2. GateClosed /\ racing = {} => Unwritten
    BY ZenonT(30) DEF GateInv, Unwritten
  <2>3. GateClosed' /\ racing' = {} => Unwritten'
    BY <1>3, <1>4, <2>1, <2>2, ZenonT(30)
  <2>. QED  BY <1>1, <2>3, ZenonT(30) DEF GateInv, Unwritten
<1>. QED  BY <1>2, <1>4, ZenonT(30)

(* Once the Stop of the gRPC server has turned readiness off, only a       *)
(* writer that was past its last check then turns it on again, for every   *)
(* role and set of components (Component.Stop, ReadinessProbe.check).      *)
THEOREM GateStaysOff == Spec => []DrainStaysOff
<1>1. Init => GateInv
  BY ZenonT(30) DEF Init, GateInv, GateClosed
<1>2. GateInv => DrainStaysOff
  BY ZenonT(30) DEF GateInv, DrainStaysOff
<1>3. TypeInv /\ GateInv /\ [Next]_vars => GateInv'
  BY GateStep, ZenonT(30)
<1>. QED  BY TypeInvariant, <1>1, <1>2, <1>3, PTL DEF Spec
-----------------------------------------------------------------------------
(* The order of the Stops.                                                 *)

(* The steps that are no step of a Stop.                                   *)
Beside ==
    \/ Starts \/ \E c \in Names : Fails(c)
    \/ ProbeAsk \/ Gates \/ Signal \/ Timeout \/ StopsDone \/ RunReturns
    \/ \E c \in Answering : Request(c) \/ Answer(c) \/ HangUp(c)
    \/ \E c \in {"loader", "monitor"} : SendRegister(c) \/ Land(c)
    \/ UNCHANGED vars

LEMMA BesideEffect ==
    ASSUME TypeInv, Beside
    PROVE  /\ at' = at /\ step' = step /\ stopped' = stopped /\ told' = told
           /\ run' = run \/ run # "running"
           /\ cancelled' = cancelled \/ cancelled'
<1>. USE DEF fixed, runVars, stopVars, readyVars, seedVars
<1>. QED
  BY ZenonT(30) DEF Beside, Starts, Gates, vars, Bind, Serve, Return, Fails, ProbeAsk,
         ProbeAnswer, ProbeSet, Pulled, MarkReady, Signal, Timeout, StopsDone,
         RunReturns, Request, Answer, HangUp, SendRegister, Land

(* One component after the other: a Stop that is over now, and was not     *)
(* before, is the one that was under way.                                  *)
LEMMA PastGrows ==
    ASSUME TypeInv, [Next]_vars, NEW c, Past(c)', ~Past(c)
    PROVE  Stopping(c) /\ nextStop
<1>. USE DEF fixed, runVars, stopVars, readyVars, seedVars
<1>0. /\ components' = components /\ DOMAIN components = 1 .. Len(components)
      /\ Len(components) \in Nat /\ at \in Nat
  BY FixedStep, Order DEF TypeInv, TypeOK
<1>1. ASSUME run' = run \/ run # "running", at' = at PROVE FALSE
  BY <1>0, <1>1, ZenonT(30) DEF Past
<1>2. ASSUME nextStop, run # "running", at > 0 PROVE Stopping(c)
  <2>1. PICK i \in DOMAIN components : components[i] = c /\ at' < i
    BY <1>0, ZenonT(30) DEF Past
  <2>2. i = at
    BY <1>0, <1>2, <2>1 DEF Past, nextStop
  <2>. QED  BY <1>2, <2>1, <2>2, ZenonT(30) DEF Stopping
<1>3. CASE Beside
  BY <1>1, <1>3, BesideEffect, ZenonT(30)
<1>4. CASE BeginStop
  BY <1>0, <1>4 DEF BeginStop, Past
<1>5. CASE StopOther \/ StopDNS \/ Drained \/ HardStop
  BY <1>2, <1>5, ZenonT(30) DEF StopOther, StopDNS, Drained, HardStop, Stopping
<1>6. ASSUME NEW d \in {"consul", "metrics"}, StopHTTP(d) \/ ShutdownOver(d)
      PROVE  Stopping(c) /\ nextStop
  BY <1>1, <1>2, <1>6, ZenonT(30) DEF StopHTTP, ShutdownOver, Stopping
<1>7. CASE StopGRPC \/ DrainOver
  BY <1>1, <1>7, ZenonT(30) DEF StopGRPC, DrainOver
<1>8. CASE GracefulStop
  BY <1>1, <1>2, <1>8, ZenonT(30) DEF GracefulStop, Stopping, TypeInv
<1>9. CASE StopDeregistrar
  BY <1>1, <1>2, <1>9, ZenonT(30) DEF StopDeregistrar, Stopping
<1>. QED
  BY <1>3, <1>4, <1>5, <1>6, <1>7, <1>8, <1>9, ZenonT(30) DEF Next, Alive, Exited, Stops, Beside

(* What is stopped stays stopped, and a request that is over stays over on *)
(* a server that takes no more.                                            *)
LEMMA StoppedStays ==
    ASSUME TypeInv, [Next]_vars
    PROVE  /\ stopped \subseteq stopped'
           /\ \A c \in Answering : c \notin accepting /\ inflight[c] = "none"
                => inflight'[c] = "none"
           /\ \A c \in Answering :
                c \notin accepting /\ (c \in Names => c \in stopped)
                => c \notin accepting'
           /\ late => late'
<1>. USE DEF fixed, runVars, stopVars, readyVars, seedVars
<1>0. inflight \in [Answering -> {"none", "call", "stream"}] /\ "dns" \notin Answering
  BY ZenonT(30) DEF TypeInv, TypeOK, Answering
<1>1. ASSUME inflight' = inflight, accepting' \subseteq accepting,
             stopped \subseteq stopped', late' = late
      PROVE  /\ stopped \subseteq stopped'
             /\ \A c \in Answering : c \notin accepting /\ inflight[c] = "none"
                  => inflight'[c] = "none"
             /\ \A c \in Answering :
                  c \notin accepting /\ (c \in Names => c \in stopped)
                  => c \notin accepting'
             /\ late => late'
  BY <1>1, ZenonT(30)
<1>2. ASSUME NEW d \in Names, Serve(d)
      PROVE  /\ stopped' = stopped /\ inflight' = inflight /\ late' = late
             /\ \A c \in Answering : c \notin accepting
                  /\ (c \in Names => c \in stopped) => c \notin accepting'
  BY <1>0, <1>2, ZenonT(30) DEF Serve
<1>3. ASSUME NEW d \in Names, Bind(d) \/ Fails(d)
      PROVE  /\ stopped' = stopped /\ inflight' = inflight
             /\ accepting' \subseteq accepting /\ late' = late
  BY <1>3, ZenonT(30) DEF Bind, Fails
<1>4. CASE Return \/ ProbeAsk \/ Gates \/ Signal \/ Timeout \/ StopsDone
           \/ RunReturns \/ UNCHANGED vars
  BY <1>1, <1>4, ZenonT(30) DEF Return, ProbeAsk, Gates, ProbeAnswer, ProbeSet, Pulled,
       MarkReady, Signal, Timeout, StopsDone, RunReturns, vars
<1>5. ASSUME NEW d \in Answering, Request(d) \/ Answer(d) \/ HangUp(d)
      PROVE  /\ stopped' = stopped /\ accepting' = accepting /\ late' = late
             /\ \A c \in Answering : c \notin accepting /\ inflight[c] = "none"
                  => inflight'[c] = "none"
  BY <1>0, <1>5, ZenonT(30) DEF Request, Answer, HangUp
<1>6. ASSUME NEW d \in {"loader", "monitor"}, SendRegister(d) \/ Land(d)
      PROVE  /\ stopped' = stopped /\ accepting' = accepting
             /\ inflight' = inflight /\ (late => late')
  <2>1. stopped' = stopped /\ accepting' = accepting /\ inflight' = inflight
    BY <1>6, ZenonT(30) DEF SendRegister, Land
  <2>2. late => late'
    BY <1>6, ZenonT(30) DEF SendRegister, Land
  <2>. QED  BY <2>1, <2>2, ZenonT(30)
<1>7. CASE BeginStop \/ StopOther \/ StopDNS \/ StopGRPC \/ DrainOver
           \/ GracefulStop \/ Drained \/ StopDeregistrar
  BY <1>1, <1>7, ZenonT(30) DEF BeginStop, StopOther, StopDNS, StopGRPC, DrainOver,
       GracefulStop, Drained, StopDeregistrar
<1>8. ASSUME NEW d \in {"consul", "metrics"}, StopHTTP(d) \/ ShutdownOver(d)
      PROVE  /\ stopped \subseteq stopped' /\ inflight' = inflight
             /\ accepting' \subseteq accepting /\ late' = late
  BY <1>8, ZenonT(30) DEF StopHTTP, ShutdownOver
<1>9. CASE HardStop
  BY <1>0, <1>9, ZenonT(30) DEF HardStop
<1>. QED
  BY <1>1, <1>2, <1>3, <1>4, <1>5, <1>6, <1>7, <1>8, <1>9, ZenonT(30)
  DEF Next, Alive, Exited, Starts, Stops

LEMMA StopStep ==
    ASSUME TypeInv, TypeInv', StopInv, [Next]_vars
    PROVE  StopInv'
<1>. USE DEF fixed, runVars, stopVars, readyVars, seedVars
<1>0. /\ components' = components /\ Names' = Names
      /\ at \in Nat /\ Answering = {"grpc", "consul"}
      /\ inflight \in [Answering -> {"none", "call", "stream"}]
  <2>1. components' = components
    BY FixedStep, ZenonT(30)
  <2>2. Names' = Names
    BY <2>1, ZenonT(30) DEF Names
  <2>3. /\ at \in 0 .. Len(components)
        /\ inflight \in [Answering -> {"none", "call", "stream"}]
    BY ZenonT(30) DEF TypeInv, TypeOK
  <2>4. at \in Nat
    BY <2>3, Order
  <2>. QED  BY <2>1, <2>2, <2>3, <2>4, ZenonT(30) DEF Answering
<1>1. ASSUME NEW c \in {"grpc", "consul", "monitor"}, Past(c)'
      PROVE  c \in stopped'
  <2>1. CASE Past(c)
    BY <2>1, StoppedStays, ZenonT(30) DEF StopInv
  <2>2. CASE ~Past(c)
    <3>1. Stopping(c) /\ at' = at - 1 /\ at' # at /\ components[at] = c
      BY <1>0, <1>1, <2>2, PastGrows DEF nextStop, Stopping
    <3>2. CASE Beside
      BY <3>1, <3>2, BesideEffect, ZenonT(30)
    <3>3. CASE BeginStop
      BY <3>1, <3>3, ZenonT(30) DEF BeginStop, Stopping
    <3>4. CASE StopOther
      BY <3>1, <3>4, ZenonT(30) DEF StopOther, Stopping
    <3>5. CASE StopDNS \/ StopDeregistrar
      BY <3>1, <3>5, ZenonT(30) DEF StopDNS, StopDeregistrar, Stopping
    <3>6. ASSUME NEW d \in {"consul", "metrics"}, StopHTTP(d) \/ ShutdownOver(d)
          PROVE  c \in stopped'
      <4>1. d = c /\ ShutdownOver(d)
        BY <3>1, <3>6, ZenonT(30) DEF StopHTTP, ShutdownOver, Stopping
      <4>. QED  BY <1>0, <3>1, <4>1, ZenonT(30) DEF ShutdownOver, StopInv
    <3>7. CASE StopGRPC \/ DrainOver
      BY <3>1, <3>7, ZenonT(30) DEF StopGRPC, DrainOver
    <3>8. CASE GracefulStop
      BY <3>1, <3>8, ZenonT(30) DEF GracefulStop, Stopping, TypeInv
    <3>9. CASE Drained \/ HardStop
      BY <1>0, <3>1, <3>9, ZenonT(30) DEF Drained, HardStop, Stopping, StopInv
    <3>. QED
      BY <3>2, <3>3, <3>4, <3>5, <3>6, <3>7, <3>8, <3>9, ZenonT(30)
      DEF Next, Alive, Exited, Stops, Beside
  <2>. QED  BY <2>1, <2>2, ZenonT(30)
<1>2. ASSUME NEW c \in Answering, Stopping(c)', step' = "wait"
      PROVE  c \in stopped'
  <2>1. ASSUME step = "wait", at' = at, run # "running" PROVE c \in stopped'
    BY <1>0, <1>2, <2>1, StoppedStays, ZenonT(30) DEF Stopping, StopInv
  <2>2. CASE Beside
    <3>1. CASE run # "running"
      BY <1>2, <2>1, <2>2, <3>1, BesideEffect, ZenonT(30)
    <3>2. CASE run = "running"
      BY <1>2, <2>2, <3>2, BesideEffect, ZenonT(30) DEF Stopping
    <3>. QED  BY <3>1, <3>2, ZenonT(30)
  <2>3. CASE BeginStop \/ StopOther \/ StopDNS \/ Drained \/ HardStop
    BY <1>2, <2>3, ZenonT(30) DEF BeginStop, StopOther, StopDNS, Drained, HardStop, nextStop
  <2>4. ASSUME NEW d \in {"consul", "metrics"}, StopHTTP(d) \/ ShutdownOver(d)
        PROVE  c \in stopped'
    BY <1>0, <1>2, <2>4, ZenonT(30) DEF StopHTTP, ShutdownOver, Stopping, nextStop
  <2>5. CASE StopGRPC \/ DrainOver
    BY <1>2, <2>5, ZenonT(30) DEF StopGRPC, DrainOver
  <2>6. CASE GracefulStop
    BY <1>0, <1>2, <2>6, ZenonT(30) DEF GracefulStop, Stopping, TypeInv, nextStop
  <2>7. CASE StopDeregistrar
    BY <1>0, <1>2, <2>7, ZenonT(30) DEF StopDeregistrar, Stopping, nextStop
  <2>. QED
    BY <2>2, <2>3, <2>4, <2>5, <2>6, <2>7, ZenonT(30) DEF Next, Alive, Exited, Stops, Beside
<1>3. ASSUME NEW c \in Answering, Past(c)', ~cancelled'
      PROVE  inflight'[c] = "none"
  <2>1. ~cancelled
    BY <1>3, ZenonT(30) DEF Next, Alive, Exited, vars, Starts, Gates, Stops, Bind, Serve, Return,
         Fails, ProbeAsk, ProbeAnswer, ProbeSet, Pulled, MarkReady, Signal, Timeout,
         StopsDone, RunReturns, Request, Answer, HangUp, SendRegister, Land, BeginStop,
         StopOther, StopDNS, StopHTTP, ShutdownOver, StopGRPC, DrainOver,
         GracefulStop, Drained, HardStop, StopDeregistrar
  <2>2. CASE Past(c)
    <3>1. inflight[c] = "none" /\ c \in stopped /\ c # "dns"
      BY <1>0, <2>1, <2>2, ZenonT(30) DEF StopInv
    <3>2. c \notin accepting
      BY <3>1, ZenonT(30) DEF TypeInv, TypeOK
    <3>. QED  BY <3>1, <3>2, StoppedStays, ZenonT(30)
  <2>3. CASE ~Past(c)
    <3>1. Stopping(c) /\ at' = at - 1 /\ at' # at /\ components[at] = c
      BY <1>0, <1>3, <2>3, PastGrows DEF nextStop, Stopping
    <3>2. CASE Beside
      BY <3>1, <3>2, BesideEffect, ZenonT(30)
    <3>3. CASE BeginStop \/ StopOther \/ StopDNS \/ StopDeregistrar
      BY <1>0, <3>1, <3>3, ZenonT(30) DEF BeginStop, StopOther, StopDNS, StopDeregistrar, Stopping
    <3>4. ASSUME NEW d \in {"consul", "metrics"}, StopHTTP(d) \/ ShutdownOver(d)
          PROVE  inflight'[c] = "none"
      BY <1>0, <2>1, <3>1, <3>4, ZenonT(30) DEF StopHTTP, ShutdownOver, Stopping, Working
    <3>5. CASE StopGRPC \/ DrainOver
      BY <3>1, <3>5, ZenonT(30) DEF StopGRPC, DrainOver
    <3>6. CASE GracefulStop \/ Drained
      BY <3>1, <3>6, ZenonT(30) DEF GracefulStop, Drained, Stopping, TypeInv
    <3>7. CASE HardStop
      BY <2>1, <3>7, ZenonT(30) DEF HardStop
    <3>. QED
      BY <3>2, <3>3, <3>4, <3>5, <3>6, <3>7, ZenonT(30) DEF Next, Alive, Exited, Stops, Beside
  <2>. QED  BY <2>2, <2>3, ZenonT(30)
<1>4. ASSUME NEW c \in Answering \ Names PROVE inflight'[c] = "none"
  BY <1>4, StoppedStays, ZenonT(30) DEF StopInv, TypeInv, TypeOK
<1>. QED  BY <1>0, <1>1, <1>2, <1>3, <1>4, ZenonT(30) DEF StopInv
-----------------------------------------------------------------------------
(* The deregistration.                                                     *)

(* An agent that is silent stays silent: a server that was stopped serves  *)
(* no more, even if its Start comes to it only now.                        *)
LEMMA SilentStays ==
    ASSUME TypeInv, TypeInv', [Next]_vars, Silent
    PROVE  Silent'
<1>1. Names' = Names
  BY FixedStep, ZenonT(30) DEF Names
<1>. QED  BY <1>1, StoppedStays, ZenonT(30) DEF Silent

(* Only the Deregistrar tells the seeds.                                   *)
LEMMA ToldBy ==
    ASSUME TypeInv, [Next]_vars
    PROVE  \/ StopDeregistrar
           \/ /\ told' = told
              /\ Past("deregistrar")' => Past("deregistrar")
              /\ Stopping("deregistrar")' /\ step' = "wait"
                   => Stopping("deregistrar") /\ step = "wait"
<1>. USE DEF fixed, runVars, stopVars, readyVars, seedVars
<1>0. at \in Nat /\ components' = components
  BY FixedStep, Order DEF TypeInv, TypeOK
<1>1. ASSUME Past("deregistrar")', ~Past("deregistrar")
      PROVE  Stopping("deregistrar") /\ at' # at
  BY <1>0, <1>1, PastGrows DEF nextStop, Stopping
<1>2. CASE Beside
  <2>1. Stopping("deregistrar")' => Stopping("deregistrar")
    BY <1>0, <1>2, BesideEffect, ZenonT(30) DEF Stopping, TypeInv
  <2>. QED  BY <1>1, <1>2, <2>1, BesideEffect, ZenonT(30)
<1>3. CASE BeginStop
  BY <1>1, <1>3, ZenonT(30) DEF BeginStop, Stopping
<1>4. CASE StopOther \/ StopDNS \/ Drained \/ HardStop
  BY <1>1, <1>4, ZenonT(30) DEF StopOther, StopDNS, Drained, HardStop, Stopping, nextStop
<1>5. ASSUME NEW d \in {"consul", "metrics"}, StopHTTP(d) \/ ShutdownOver(d)
      PROVE  /\ told' = told
             /\ Past("deregistrar")' => Past("deregistrar")
             /\ ~(Stopping("deregistrar")' /\ step' = "wait")
  BY <1>0, <1>1, <1>5, ZenonT(30) DEF StopHTTP, ShutdownOver, Stopping, nextStop
<1>6. CASE StopGRPC \/ DrainOver
  BY <1>1, <1>6, ZenonT(30) DEF StopGRPC, DrainOver
<1>7. CASE GracefulStop
  BY <1>0, <1>1, <1>7, ZenonT(30) DEF GracefulStop, Stopping, TypeInv, nextStop
<1>. QED
  BY <1>2, <1>3, <1>4, <1>5, <1>6, <1>7, ZenonT(30) DEF Next, Alive, Exited, Stops, Beside

(* The Deregistrar's call goes out with all the servers of the agent and   *)
(* its checks stopped: their Stops came first, and not one was cut short.  *)
LEMMA SilentBefore ==
    ASSUME TypeInv, StopInv, Stopping("deregistrar"), ~cancelled
    PROVE  Silent
<1>1. /\ DOMAIN components = 1 .. Len(components) /\ Len(components) \in Nat
      /\ at \in DOMAIN components /\ components[at] = "deregistrar"
      /\ run # "running"
  BY Order DEF Stopping, TypeInv, TypeOK
<1>2. Has("monitor")
  BY <1>1, Order, ZenonT(30) DEF Has
<1>3. ASSUME NEW c \in {"grpc", "consul", "monitor"}, c \in Names PROVE Past(c)
  <2>1. PICK i \in DOMAIN components : components[i] = c
    BY <1>3, ZenonT(30) DEF Names
  <2>2. at < i
    BY <1>1, <2>1, Order, ZenonT(30)
  <2>. QED  BY <1>1, <2>1, <2>2, ZenonT(30) DEF Past
<1>4. "monitor" \in stopped
  BY <1>2, <1>3, ZenonT(30) DEF Has, Names, StopInv
<1>5. ASSUME NEW c \in Answering
      PROVE  /\ c \notin accepting /\ inflight[c] = "none"
             /\ c \in Names => c \in stopped
  <2>1. CASE c \in Names
    <3>1. c \in stopped /\ inflight[c] = "none" /\ c # "dns"
      BY <1>3, <2>1, ZenonT(30) DEF StopInv, Answering
    <3>. QED  BY <3>1, ZenonT(30) DEF TypeInv, TypeOK
  <2>2. CASE c \notin Names
    BY <2>2, ZenonT(30) DEF StopInv, TypeInv, TypeOK
  <2>. QED  BY <2>1, <2>2, ZenonT(30)
<1>. QED  BY <1>4, <1>5, ZenonT(30) DEF Silent

LEMMA LeaveStep ==
    ASSUME TypeInv, TypeInv', StopInv, LeaveInv, [Next]_vars
    PROVE  LeaveInv'
<1>. USE DEF fixed, runVars, stopVars, readyVars, seedVars
<1>0. cfg' = cfg
  BY FixedStep, ZenonT(30)
<1>1. told' \in {"no", "yes", "failed"}
  BY ToldBy, ZenonT(30) DEF StopDeregistrar, LeaveInv
<1>2. ASSUME Past("deregistrar")' PROVE told' # "no"
  <2>1. CASE StopDeregistrar
    <3>1. Past("deregistrar") \/ nextStop
      BY <1>2, PastGrows, ZenonT(30)
    <3>2. at \in Nat
      BY DEF TypeInv, TypeOK
    <3>. QED  BY <2>1, <3>1, <3>2, ZenonT(30) DEF StopDeregistrar, LeaveInv, nextStop
  <2>. QED  BY <1>2, <2>1, ToldBy, ZenonT(30) DEF LeaveInv
<1>3. ASSUME told' = "yes" \/ (Stopping("deregistrar")' /\ step' = "wait")
      PROVE  Silent'
  <2>1. CASE told = "yes" \/ (Stopping("deregistrar") /\ step = "wait")
    BY <2>1, SilentStays, ZenonT(30) DEF LeaveInv
  <2>2. CASE ~(told = "yes" \/ (Stopping("deregistrar") /\ step = "wait"))
    <3>1. StopDeregistrar
      BY <1>3, <2>2, ToldBy, ZenonT(30)
    <3>2. Stopping("deregistrar") /\ ~cancelled
      BY <1>3, <2>2, <3>1, ZenonT(30) DEF StopDeregistrar, nextStop
    <3>. QED  BY <3>2, SilentBefore, SilentStays, ZenonT(30)
  <2>. QED  BY <2>1, <2>2, ZenonT(30)
<1>4. /\ registered' \in BOOLEAN
      /\ wire' # {} \/ registered' => cfg.role = "agent"
      /\ told' = "yes" /\ registered' => late'
  <2>1. CASE StopDeregistrar
    <3>1. wire' = wire /\ late' = late
      BY <2>1, ZenonT(30) DEF StopDeregistrar
    <3>2. \/ told' = told /\ registered' = registered
          \/ registered' = FALSE
          \/ told' = "failed" /\ registered' = registered
      BY <2>1, ZenonT(30) DEF StopDeregistrar
    <3>3. CASE told' = told /\ registered' = registered
      BY <3>1, <3>3, ZenonT(30) DEF LeaveInv
    <3>4. CASE registered' = FALSE
      BY <3>1, <3>4, ZenonT(30) DEF LeaveInv
    <3>5. CASE told' = "failed" /\ registered' = registered
      BY <3>1, <3>5, ZenonT(30) DEF LeaveInv
    <3>. QED  BY <3>2, <3>3, <3>4, <3>5, ZenonT(30)
  <2>2. ASSUME ~StopDeregistrar, registered' = registered,
               wire' = wire
        PROVE  /\ registered' \in BOOLEAN
               /\ wire' # {} \/ registered' => cfg.role = "agent"
               /\ told' = "yes" /\ registered' => late'
    BY <2>2, ToldBy, StoppedStays, ZenonT(30) DEF LeaveInv
  <2>3. ASSUME NEW c \in Answering, Answer(c)
        PROVE  /\ registered' \in BOOLEAN
               /\ wire' # {} \/ registered' => cfg.role = "agent"
               /\ told' = "yes" /\ registered' => late'
    <3>1. told' = told /\ wire' = wire /\ inflight[c] = "call"
          /\ registered' \in {registered, cfg.role = "agent"}
      BY <2>3, ZenonT(30) DEF Answer
    <3>2. told # "yes"
      BY <3>1, ZenonT(30) DEF LeaveInv, Silent
    <3>3. registered' \in BOOLEAN /\ (registered' => registered \/ cfg.role = "agent")
      BY <3>1, ZenonT(30) DEF LeaveInv
    <3>. QED  BY <3>1, <3>2, <3>3, ZenonT(30) DEF LeaveInv
  <2>4. ASSUME NEW c \in {"loader", "monitor"}, SendRegister(c)
        PROVE  /\ registered' \in BOOLEAN
               /\ wire' # {} \/ registered' => cfg.role = "agent"
               /\ told' = "yes" /\ registered' => late'
    <3>1. /\ told' = told /\ registered' = registered /\ late' = late
          /\ cfg.role = "agent"
      BY <2>4, ZenonT(30) DEF SendRegister
    <3>. QED  BY <3>1, ZenonT(30) DEF LeaveInv
  <2>5. ASSUME NEW c \in {"loader", "monitor"}, Land(c)
        PROVE  /\ registered' \in BOOLEAN
               /\ wire' # {} \/ registered' => cfg.role = "agent"
               /\ told' = "yes" /\ registered' => late'
    <3>1. told' = told /\ cfg.role = "agent"
      BY <2>5, ZenonT(30) DEF Land, LeaveInv
    <3>2. registered' = TRUE \/ registered' = registered
      BY <2>5, ZenonT(30) DEF Land
    <3>3. ASSUME told = "yes" PROVE ~open(c)
      <4>1. done /\ "monitor" \in stopped
        BY <3>3, ZenonT(30) DEF LeaveInv, Silent, TypeInv
      <4>. QED  BY <4>1, ZenonT(30) DEF open
    <3>4. told = "yes" /\ registered' => late'
      <4>1. \/ late' = (late \/ ~open(c))
            \/ registered' = registered /\ late' = late
        BY <2>5, ZenonT(30) DEF Land
      <4>2. CASE late' = (late \/ ~open(c))
        BY <3>3, <4>2, ZenonT(30)
      <4>3. CASE registered' = registered /\ late' = late
        BY <4>3, ZenonT(30) DEF LeaveInv
      <4>. QED  BY <4>1, <4>2, <4>3, ZenonT(30)
    <3>5. registered' \in BOOLEAN
      BY <3>2, ZenonT(30) DEF LeaveInv
    <3>. QED  BY <3>1, <3>4, <3>5, ZenonT(30)
  <2>6. CASE Starts \/ Gates \/ ProbeAsk \/ Signal \/ Timeout \/ UNCHANGED vars
    <3>1. registered' = registered /\ wire' = wire /\ told' = told /\ late' = late
      BY <2>6, ZenonT(30) DEF Starts, Gates, vars, Bind, Serve, Return, ProbeAsk, ProbeAnswer,
           ProbeSet, Pulled, MarkReady, Signal, Timeout
    <3>. QED  BY <3>1, ZenonT(30) DEF LeaveInv
  <2>7. ASSUME NEW c, Fails(c) \/ Request(c) \/ HangUp(c)
        PROVE  registered' = registered /\ wire' = wire /\ told' = told /\ late' = late
    BY <2>7, ZenonT(30) DEF Fails, Request, HangUp
  <2>8. ASSUME Stops, ~StopDeregistrar
        PROVE  registered' = registered /\ wire' = wire /\ told' = told /\ late' = late
    BY <2>8, ZenonT(30) DEF Stops, BeginStop, StopOther, StopDNS, StopHTTP, ShutdownOver,
         StopGRPC, DrainOver, GracefulStop, Drained, HardStop, StopsDone, RunReturns
  <2>9. ASSUME registered' = registered /\ wire' = wire /\ told' = told /\ late' = late
        PROVE  /\ registered' \in BOOLEAN
               /\ wire' # {} \/ registered' => cfg.role = "agent"
               /\ told' = "yes" /\ registered' => late'
    BY <2>9, ZenonT(30) DEF LeaveInv
  <2>. QED
    BY <2>1, <2>3, <2>4, <2>5, <2>6, <2>7, <2>8, <2>9, ZenonT(30) DEF Next, Alive, Exited
<1>. QED  BY <1>0, <1>1, <1>2, <1>3, <1>4, ZenonT(30) DEF LeaveInv

(* The three invariants of the shutdown hold together.                     *)
LEMMA Leaving == Spec => [](TypeInv /\ StopInv /\ LeaveInv)
<1>1. ASSUME Init PROVE StopInv /\ LeaveInv
  <2>1. run = "running" /\ told = "no" /\ wire = {} /\ registered = FALSE
        /\ inflight = [c \in Answering |-> "none"]
    BY <1>1, ZenonT(30) DEF Init
  <2>2. StopInv
    BY <2>1, ZenonT(30) DEF StopInv, Past, Stopping
  <2>3. LeaveInv
    BY <2>1, ZenonT(30) DEF LeaveInv, Past, Stopping
  <2>. QED  BY <2>2, <2>3, ZenonT(30)
<1>2. TypeInv /\ TypeInv' /\ StopInv /\ LeaveInv /\ [Next]_vars => StopInv' /\ LeaveInv'
  BY StopStep, LeaveStep, ZenonT(30)
<1>. QED  BY TypeInvariant, <1>1, <1>2, PTL DEF Spec

(* The order of the shutdown of an agent, whatever set it off and however  *)
(* late a server starts: the seeds are told that it leaves only when no    *)
(* server of it takes or works on a request.                               *)
THEOREM DeregistersLast == Spec => []DeregisterLast
<1>1. LeaveInv => DeregisterLast
  BY ZenonT(30) DEF LeaveInv, Silent, DeregisterLast
<1>. QED  BY Leaving, <1>1, PTL

(* A Run of an agent that returns nil has left nothing behind on the       *)
(* seeds, unless the seeds did not answer or a registration whose context  *)
(* was cancelled on the wire came in late: for every configuration.        *)
THEOREM LeavesNothing == Spec => []NothingLeft
<1>1. ASSUME TypeInv, LeaveInv PROVE NothingLeft
  <2>. SUFFICES ASSUME run = "returned", result = "nil", registered, told # "failed"
                PROVE  late
    BY ZenonT(30) DEF NothingLeft
  <2>1. ~cancelled
    <3>1. Names \subseteq AllNames
      BY <1>1, Order, ElementOfSeq, ZenonT(30) DEF Names
    <3>2. err \in AllNames \cup {"none"}
      BY <1>1, <3>1, ZenonT(30) DEF TypeInv, TypeOK
    <3>. QED  BY <3>2, ZenonT(30) DEF result, AllNames
  <2>2. at = 0
    BY <1>1, <2>1, ZenonT(30) DEF TypeInv
  <2>3. Has("deregistrar") /\ DOMAIN components = 1 .. Len(components)
    BY <1>1, Order, ZenonT(30) DEF LeaveInv
  <2>4. Past("deregistrar")
    BY <1>1, <2>2, <2>3, Order DEF Past, Has
  <2>. QED  BY <1>1, <2>4, ZenonT(30) DEF LeaveInv
<1>. QED  BY Leaving, <1>1, PTL
=============================================================================
