------------------------ MODULE HealthMonitorProofs ------------------------
(***************************************************************************)
(* Proofs about HealthMonitor, for any number of services and handlers and *)
(* for any files: type correctness, ActiveIsRunning and ChecksFollowCalls. *)
(***************************************************************************)
EXTENDS HealthMonitor, SequenceTheorems, TLAPS

(* Time for the provers.                                                   *)
USE SMTT(30), ZenonT(30)

(* What checks a loop runs is kept as the value of activeChecks.           *)
Definitions == {activeChecks(b) : b \in Seq(Check)}
Loop == [id: Ids, at: {"wait", "keep"}, cancelled: BOOLEAN, defs: Definitions]
Places == {"idle", "register", "set", "insert", "deregister", "remove"}

(* The callers: one that is busy has an item to work on.                   *)
CallersOK ==
    /\ queue \in [Callers -> Seq(Item)]
    /\ pc \in [Callers -> Places]
    /\ \A c \in Callers : pc[c] # "idle" <=> queue[c] # <<>>

(* The monitor: an entry of its map is a loop of that service.             *)
MonitorOK ==
    /\ loops \in Seq(Loop)
    /\ services \in [Ids -> Nat]
    /\ \A id \in Ids : services[id] # 0 =>
         services[id] \in 1 .. Len(loops) /\ loops[services[id]].id = id

SeedsOK ==
    /\ hosted \in [Ids -> Definitions \cup {NoHost}]
    /\ lease \in [Ids -> 0 .. TTL] /\ renewing \subseteq Ids

TypeInv == CallersOK /\ MonitorOK /\ SeedsOK /\ stopped \in BOOLEAN
-----------------------------------------------------------------------------
(* How the steps change the callers, the map and the loops.                *)

LEMMA FirstItem ==
    ASSUME CallersOK, NEW c \in Callers, Busy(c)
    PROVE  /\ Head(queue[c]) \in Item /\ Tail(queue[c]) \in Seq(Item)
           /\ Head(queue[c]).id \in Ids
           /\ activeChecks(Head(queue[c]).body) \in Definitions
<1>1. queue[c] \in Seq(Item) /\ queue[c] # <<>>
  BY ZenonT(30) DEF CallersOK, Busy
<1>2. Head(queue[c]) \in Item /\ Tail(queue[c]) \in Seq(Item)
  BY <1>1
<1>3. Head(queue[c]).id \in Ids /\ Head(queue[c]).body \in Seq(Check)
  BY <1>2, ZenonT(30) DEF Item
<1>. QED  BY <1>2, <1>3, ZenonT(30) DEF Definitions

LEMMA NextKeepsCallers ==
    ASSUME CallersOK, NEW c \in Callers, Busy(c), next(c)
    PROVE  CallersOK'
<1>. DEFINE rest == Tail(queue[c])
            where == IF rest = <<>> THEN "idle" ELSE Head(rest).op
<1>1. rest \in Seq(Item)
  BY FirstItem, ZenonT(30)
<1>2. where \in Places /\ (where # "idle" <=> rest # <<>>)
  <2>1. CASE rest = <<>>
    BY <2>1, ZenonT(30) DEF Places
  <2>2. CASE rest # <<>>
    <3>1. Head(rest) \in Item
      BY <1>1, <2>2
    <3>2. Head(rest).op \in {"register", "deregister"}
      BY <3>1, ZenonT(30) DEF Item
    <3>. QED  BY <2>2, <3>2, ZenonT(30) DEF Places
  <2>. QED  BY <2>1, <2>2, ZenonT(30)
<1>3. queue' = [queue EXCEPT ![c] = rest] /\ pc' = [pc EXCEPT ![c] = where]
  BY ZenonT(30) DEF next
<1>. HIDE DEF rest, where
<1>. QED  BY <1>1, <1>2, <1>3, ZenonT(30) DEF CallersOK

LEMMA GotoKeepsCallers ==
    ASSUME CallersOK, NEW c \in Callers, Busy(c),
           NEW where \in Places \ {"idle"}, goto(c, where)
    PROVE  CallersOK'
BY ZenonT(30) DEF CallersOK, goto, Busy

LEMMA BeginKeepsCallers ==
    ASSUME CallersOK, NEW c \in Callers, NEW items \in Seq(Item), begin(c, items)
    PROVE  CallersOK'
<1>1. Head(items) \in Item /\ items # <<>>
  BY DEF begin
<1>2. Head(items).op \in Places \ {"idle"}
  BY <1>1, ZenonT(30) DEF Item, Places
<1>3. queue' = [queue EXCEPT ![c] = items] /\ pc' = [pc EXCEPT ![c] = Head(items).op]
  BY ZenonT(30) DEF begin
<1>. QED  BY <1>1, <1>2, <1>3, ZenonT(30) DEF CallersOK

LEMMA CancelKeepsMonitor ==
    ASSUME MonitorOK, NEW id \in Ids, cancelLoop(id)
    PROVE  MonitorOK' /\ Len(loops') = Len(loops)
<1>1. /\ loops' \in Seq(Loop) /\ Len(loops') = Len(loops)
      /\ \A l \in 1 .. Len(loops) : loops'[l].id = loops[l].id
  <2>1. loops' = [l \in 1 .. Len(loops) |->
                    IF l = services[id] THEN [loops[l] EXCEPT !.cancelled = TRUE]
                    ELSE loops[l]]
    BY DEF cancelLoop, MonitorOK
  <2>2. ASSUME NEW l \in 1 .. Len(loops)
        PROVE  loops'[l] \in Loop /\ loops'[l].id = loops[l].id
    <3>1. loops[l] \in Loop
      BY DEF MonitorOK
    <3>. QED  BY <2>1, <3>1, ZenonT(30) DEF Loop
  <2>3. Len(loops) \in Nat
    BY DEF MonitorOK
  <2>4. loops' \in [1 .. Len(loops) -> Loop]
    BY <2>1, <2>2, ZenonT(30)
  <2>. QED  BY <2>2, <2>3, <2>4
<1>2. services' = [services EXCEPT ![id] = 0]
  BY ZenonT(30) DEF cancelLoop
<1>. QED  BY <1>1, <1>2, ZenonT(30) DEF MonitorOK

LEMMA InsertKeepsMonitor ==
    ASSUME MonitorOK, NEW id \in Ids, NEW new \in Loop, new.id = id,
           loops' = Append(loops, new),
           services' = [services EXCEPT ![id] = Len(loops) + 1]
    PROVE  /\ MonitorOK' /\ Len(loops') = Len(loops) + 1
           /\ loops'[Len(loops) + 1] = new
           /\ \A l \in 1 .. Len(loops) : loops'[l] = loops[l]
<1>1. /\ loops' \in Seq(Loop) /\ Len(loops') = Len(loops) + 1
      /\ loops'[Len(loops) + 1] = new
      /\ \A l \in 1 .. Len(loops) : loops'[l] = loops[l]
  BY DEF MonitorOK
<1>2. Len(loops) \in Nat
  BY DEF MonitorOK
<1>. QED  BY <1>1, <1>2 DEF MonitorOK

LEMMA LoopMoves ==
    ASSUME MonitorOK, NEW l \in DOMAIN loops, NEW where \in {"wait", "keep"},
           loops' = [loops EXCEPT ![l].at = where], UNCHANGED services
    PROVE  /\ MonitorOK' /\ Len(loops') = Len(loops)
           /\ \A k \in 1 .. Len(loops) :
                /\ loops'[k].id = loops[k].id /\ loops'[k].defs = loops[k].defs
                /\ loops'[k].cancelled = loops[k].cancelled
<1>1. loops[l] \in Loop /\ l \in 1 .. Len(loops)
  BY DEF MonitorOK
<1>. DEFINE new == [loops[l] EXCEPT !.at = where]
<1>2. new \in Loop /\ new.id = loops[l].id /\ new.defs = loops[l].defs
      /\ new.cancelled = loops[l].cancelled
  BY <1>1, ZenonT(30) DEF Loop
<1>3. loops' = [loops EXCEPT ![l] = new]
  BY ZenonT(30) DEF new
<1>. HIDE DEF new
<1>4. loops' \in Seq(Loop) /\ Len(loops') = Len(loops)
  BY <1>1, <1>2, <1>3, ExceptSeq DEF MonitorOK
<1>5. \A k \in 1 .. Len(loops) :
                /\ loops'[k].id = loops[k].id /\ loops'[k].defs = loops[k].defs
                /\ loops'[k].cancelled = loops[k].cancelled
  BY <1>1, <1>2, <1>3 DEF MonitorOK
<1>. QED  BY <1>4, <1>5, ZenonT(30) DEF MonitorOK

(* What a caller's step leaves: its own place in the queue, and one change *)
(* of the map.                                                             *)
LEMMA CallerStepType ==
    ASSUME TypeInv, NEW c \in Callers, CallerStep(c)
    PROVE  TypeInv'
<1>. DEFINE item == Head(queue[c])
<1>0. Busy(c)
  BY ZenonT(30) DEF CallerStep, RegisterServices, RegisterFails, Set, SetInsert, RemoveService,
     RemoveFails, Remove, Busy
<1>1. item.id \in Ids /\ activeChecks(item.body) \in Definitions
  BY <1>0, FirstItem, ZenonT(30) DEF TypeInv
<1>2. TTL \in 0 .. TTL /\ 0 \in 0 .. TTL
  BY MonitorAssumption
<1>3. CASE RegisterServices(c)
  <2>1. /\ hosted' = [hosted EXCEPT ![item.id] = activeChecks(item.body)]
        /\ lease' = [lease EXCEPT ![item.id] = TTL]
        /\ goto(c, "set") /\ UNCHANGED <<services, loops, stopped, renewing>>
    BY <1>3, ZenonT(30) DEF RegisterServices
  <2>. HIDE DEF item
  <2>2. CallersOK'
    BY <1>0, <2>1, GotoKeepsCallers, ZenonT(30) DEF TypeInv, Places
  <2>. QED  BY <1>1, <1>2, <2>1, <2>2, ZenonT(30) DEF TypeInv, MonitorOK, SeedsOK
<1>4. CASE RegisterFails(c)
  <2>1. /\ lease' \in {lease, [lease EXCEPT ![item.id] = TTL]}
        /\ next(c) /\ UNCHANGED <<hosted, services, loops, stopped, renewing>>
    BY <1>4, ZenonT(30) DEF RegisterFails, reaches
  <2>. HIDE DEF item
  <2>2. CallersOK'
    BY <1>0, <2>1, NextKeepsCallers, ZenonT(30) DEF TypeInv
  <2>. QED  BY <1>1, <1>2, <2>1, <2>2, ZenonT(30) DEF TypeInv, MonitorOK, SeedsOK
<1>5. CASE Set(c)
  <2>1. /\ cancelLoop(item.id)
        /\ next(c) \/ goto(c, "insert")
        /\ UNCHANGED <<hosted, lease, stopped, renewing>>
    BY <1>5, ZenonT(30) DEF Set
  <2>. HIDE DEF item
  <2>2. CallersOK'
    BY <1>0, <2>1, NextKeepsCallers, GotoKeepsCallers, ZenonT(30) DEF TypeInv, Places
  <2>3. MonitorOK'
    BY <1>1, <2>1, CancelKeepsMonitor, ZenonT(30) DEF TypeInv
  <2>. QED  BY <2>1, <2>2, <2>3, ZenonT(30) DEF TypeInv, SeedsOK
<1>6. CASE SetInsert(c)
  <2>. DEFINE new == [id |-> item.id, at |-> "wait", cancelled |-> FALSE,
                      defs |-> activeChecks(item.body)]
  <2>1. /\ loops' = Append(loops, new)
        /\ services' = [services EXCEPT ![item.id] = Len(loops) + 1]
        /\ next(c) /\ UNCHANGED <<hosted, lease, stopped, renewing>>
    BY <1>6, ZenonT(30) DEF SetInsert
  <2>. HIDE DEF item
  <2>2. new \in Loop /\ new.id = item.id
    BY <1>1, ZenonT(30) DEF Loop
  <2>. HIDE DEF new
  <2>3. CallersOK'
    BY <1>0, <2>1, NextKeepsCallers, ZenonT(30) DEF TypeInv
  <2>4. MonitorOK'
    BY <1>1, <2>1, <2>2, InsertKeepsMonitor, ZenonT(30) DEF TypeInv
  <2>. QED  BY <2>1, <2>3, <2>4, ZenonT(30) DEF TypeInv, SeedsOK
<1>7. CASE RemoveService(c)
  <2>1. /\ hosted' = [hosted EXCEPT ![item.id] = NoHost]
        /\ lease' = [lease EXCEPT ![item.id] = 0]
        /\ goto(c, "remove") /\ UNCHANGED <<services, loops, stopped, renewing>>
    BY <1>7, ZenonT(30) DEF RemoveService
  <2>. HIDE DEF item
  <2>2. CallersOK'
    BY <1>0, <2>1, GotoKeepsCallers, ZenonT(30) DEF TypeInv, Places
  <2>. QED  BY <1>1, <1>2, <2>1, <2>2, ZenonT(30) DEF TypeInv, MonitorOK, SeedsOK
<1>8. CASE RemoveFails(c)
  <2>1. /\ hosted' = [hosted EXCEPT ![item.id] = NoHost]
        /\ next(c) /\ UNCHANGED <<lease, services, loops, stopped, renewing>>
    BY <1>8, ZenonT(30) DEF RemoveFails
  <2>. HIDE DEF item
  <2>2. CallersOK'
    BY <1>0, <2>1, NextKeepsCallers, ZenonT(30) DEF TypeInv
  <2>. QED  BY <1>1, <2>1, <2>2, ZenonT(30) DEF TypeInv, MonitorOK, SeedsOK
<1>9. CASE Remove(c)
  <2>1. /\ cancelLoop(item.id) /\ next(c) /\ UNCHANGED <<hosted, lease, stopped, renewing>>
    BY <1>9, ZenonT(30) DEF Remove
  <2>. HIDE DEF item
  <2>2. CallersOK'
    BY <1>0, <2>1, NextKeepsCallers, ZenonT(30) DEF TypeInv
  <2>3. MonitorOK'
    BY <1>1, <2>1, CancelKeepsMonitor, ZenonT(30) DEF TypeInv
  <2>. QED  BY <2>1, <2>2, <2>3, ZenonT(30) DEF TypeInv, SeedsOK
<1>. QED  BY <1>3, <1>4, <1>5, <1>6, <1>7, <1>8, <1>9, ZenonT(30) DEF CallerStep

(* Calls arrive.                                                           *)
LEMMA CallsType ==
    ASSUME TypeInv, Calls
    PROVE  TypeInv'
<1>1. ASSUME NEW c \in Handlers, NEW item \in Item, Handle(c, item)
      PROVE  TypeInv'
  <2>1. begin(c, <<item>>) /\ UNCHANGED <<hosted, services, loops, stopped, renewing, lease>>
    BY <1>1, ZenonT(30) DEF Handle
  <2>2. <<item>> \in Seq(Item) /\ c \in Callers
    BY DEF Callers
  <2>3. CallersOK'
    BY <2>1, <2>2, BeginKeepsCallers, ZenonT(30) DEF TypeInv
  <2>. QED  BY <2>1, <2>3, ZenonT(30) DEF TypeInv, MonitorOK, SeedsOK
<1>2. CASE reload
  <2>1. begin(Loader, Files) /\ UNCHANGED <<hosted, services, loops, stopped, renewing, lease>>
    BY <1>2, ZenonT(30) DEF reload
  <2>2. CallersOK'
    BY <2>1, BeginKeepsCallers, MonitorAssumption, ZenonT(30) DEF TypeInv, Callers
  <2>. QED  BY <2>1, <2>2, ZenonT(30) DEF TypeInv, MonitorOK, SeedsOK
<1>3. ASSUME NEW id \in Ids, RenewService(id)
      PROVE  TypeInv'
  BY <1>3, MonitorAssumption
     DEF RenewService, TypeInv, CallersOK, MonitorOK, SeedsOK
<1>4. ASSUME NEW id \in Ids, NEW b \in Bodies
      PROVE  /\ [op |-> "register", id |-> id, body |-> b] \in Item
             /\ [op |-> "deregister", id |-> id, body |-> <<>>] \in Item
  BY MonitorAssumption DEF Item
<1>. QED  BY <1>1, <1>2, <1>3, <1>4, ZenonT(30) DEF Calls

LEMMA StepType ==
    ASSUME TypeInv, Step
    PROVE  TypeInv'
<1>1. ASSUME NEW l \in DOMAIN loops, LoopTick(l) PROVE TypeInv'
  <2>1. MonitorOK'
    BY <1>1, LoopMoves, ZenonT(30) DEF LoopTick, TypeInv
  <2>. QED  BY <1>1, <2>1, ZenonT(30) DEF LoopTick, TypeInv, CallersOK, SeedsOK
<1>2. ASSUME NEW l \in DOMAIN loops, KeepAlive(l) PROVE TypeInv'
  <2>1. MonitorOK'
    BY <1>2, LoopMoves, ZenonT(30) DEF KeepAlive, TypeInv
  <2>2. lease' \in [Ids -> 0 .. TTL]
    <3>1. lease' \in {lease, [lease EXCEPT ![loops[l].id] = TTL]}
      BY <1>2, ZenonT(30) DEF KeepAlive, reaches
    <3>. QED  BY <3>1, MonitorAssumption DEF TypeInv, SeedsOK
  <2>. QED  BY <1>2, <2>1, <2>2, ZenonT(30) DEF KeepAlive, TypeInv, CallersOK, SeedsOK
<1>3. CASE renewAll \/ Renew \/ Tick
  <2>1. UNCHANGED <<queue, pc, hosted, services, loops, stopped>>
    BY <1>3, ZenonT(30) DEF renewAll, Renew, Tick
  <2>2. lease' \in [Ids -> 0 .. TTL] /\ renewing' \subseteq Ids
    BY <1>3, MonitorAssumption DEF renewAll, Renew, Tick, TypeInv, SeedsOK
  <2>. QED  BY <2>1, <2>2, ZenonT(30) DEF TypeInv, CallersOK, MonitorOK, SeedsOK
<1>4. CASE Stop \/ StopClears \/ WorldChanges
  <2>1. UNCHANGED <<queue, pc, hosted, loops, lease, renewing>>
    BY <1>4, ZenonT(30) DEF Stop, StopClears, WorldChanges
  <2>2. stopped' \in BOOLEAN
    BY ZenonT(30), <1>4 DEF Stop, StopClears, WorldChanges, TypeInv
  <2>3. services' \in {services, [id \in Ids |-> 0]}
    BY <1>4, ZenonT(30) DEF Stop, StopClears, WorldChanges
  <2>4. MonitorOK'
    BY <2>1, <2>3 DEF TypeInv, MonitorOK
  <2>. QED  BY <2>1, <2>2, <2>4, ZenonT(30) DEF TypeInv, CallersOK, SeedsOK
<1>. QED  BY <1>1, <1>2, <1>3, <1>4, CallsType, CallerStepType, ZenonT(30) DEF Step

(* Type correctness: of the callers, of the monitor's map and loops, and   *)
(* of what the seeds know.                                                 *)
THEOREM TypeInvariant == Spec => [](TypeInv /\ TypeOK)
<1>1. Init => TypeInv
  <2>. SUFFICES ASSUME Init PROVE TypeInv
    BY ZenonT(30)
  <2>1. CallersOK
    BY DEF Init, CallersOK, Places
  <2>2. MonitorOK
    BY DEF Init, MonitorOK
  <2>3. SeedsOK
    BY MonitorAssumption DEF Init, SeedsOK
  <2>. QED  BY ZenonT(30), <2>1, <2>2, <2>3 DEF Init, TypeInv
<1>2. TypeInv /\ [Next]_vars => TypeInv'
  <2>1. CASE UNCHANGED vars
    BY <2>1, ZenonT(30) DEF vars, TypeInv, CallersOK, MonitorOK, SeedsOK
  <2>. QED  BY <2>1, StepType, ZenonT(30) DEF Next
<1>3. TypeInv => TypeOK
  BY DEF TypeInv, CallersOK, MonitorOK, SeedsOK, TypeOK, Places, Busy
<1>. QED  BY <1>1, <1>2, <1>3, PTL DEF Spec
-----------------------------------------------------------------------------
(* What the monitor's map says of the loops.                               *)

(* A loop that is cancelled leaves the map in the same step.               *)
NoneCancelled == \A id \in Ids : services[id] # 0 => ~loops[services[id]].cancelled

(* A service no two callers have worked on at once has at most one running *)
(* loop, the one in the map.                                               *)
OneLoop(id) == \A l \in LoopsOf(id) : ~loops[l].cancelled => l = services[id]

(* The map agrees with what is hosted.                                     *)
Installed(id) ==
    IF hosted[id] = <<>> THEN services[id] = 0
    ELSE services[id] # 0 /\ loops[services[id]].defs = hosted[id]

Installing(c) == pc[c] \in {"set", "insert"}

(* What caller c has done of its item.                                     *)
Halfway(c) ==
    LET item == Head(queue[c])
    IN  /\ Installing(c) => hosted[item.id] = activeChecks(item.body)
        /\ pc[c] = "insert" => services[item.id] = 0 /\ activeChecks(item.body) # <<>>
        /\ pc[c] = "remove" => ~Hosts(item.id)

(* The inductive invariant behind ChecksFollowCalls, for one service.      *)
Followed(id) ==
    /\ \A c, d \in Callers : WorksOn(c, id) /\ WorksOn(d, id) => c = d
    /\ \A c \in Callers : WorksOn(c, id) => Halfway(c)
    /\ OneLoop(id)
    /\ Hosts(id) => Installed(id) \/ \E c \in Callers : WorksOn(c, id) /\ Installing(c)

ChecksInv == ~stopped => \A id \in Ids \ overlapped : Followed(id)

(* Nothing that Followed(id) says of the monitor has changed.              *)
SameFor(id) ==
    /\ hosted'[id] = hosted[id] /\ services'[id] = services[id]
    /\ \A l \in DOMAIN loops' : loops'[l].id = id =>
         /\ l \in DOMAIN loops /\ loops[l].id = id
         /\ (loops'[l].cancelled <=> loops[l].cancelled)
    /\ \A l \in DOMAIN loops : loops[l].id = id =>
         l \in DOMAIN loops' /\ loops'[l].id = id /\ loops'[l].defs = loops[l].defs

LEMMA SameKeeps ==
    ASSUME TypeInv, NEW id \in Ids, SameFor(id)
    PROVE  /\ OneLoop(id) => OneLoop(id)'
           /\ Installed(id) <=> Installed(id)'
           /\ Hosts(id) <=> Hosts(id)'
<1>1. services[id] # 0 => services[id] \in DOMAIN loops /\ loops[services[id]].id = id
  BY DEF TypeInv, MonitorOK
<1>2. Installed(id) <=> Installed(id)'
  BY <1>1, ZenonT(30) DEF SameFor, Installed
<1>3. OneLoop(id) => OneLoop(id)'
  BY ZenonT(30) DEF SameFor, OneLoop, LoopsOf
<1>4. Hosts(id) <=> Hosts(id)'
  BY ZenonT(30) DEF SameFor, Hosts
<1>. QED  BY <1>2, <1>3, <1>4, ZenonT(30)

(* A step of caller c, which was not at work on id, and leaves the monitor *)
(* as it is for id.                                                        *)
LEMMA OtherService ==
    ASSUME TypeInv, NEW c \in Callers, NEW id \in Ids, Followed(id),
           ~WorksOn(c, id), SameFor(id),
           \A d \in Callers \ {c} : queue'[d] = queue[d] /\ pc'[d] = pc[d],
           WorksOn(c, id)' => pc'[c] \in {"register", "deregister"},
           \A d, e \in Callers : WorksOn(d, id)' /\ WorksOn(e, id)' => d = e
    PROVE  Followed(id)'
<1>1. \A d \in Callers \ {c} : WorksOn(d, id)' <=> WorksOn(d, id)
  BY ZenonT(30) DEF WorksOn, Busy
<1>2. ASSUME NEW d \in Callers, WorksOn(d, id)'
      PROVE  Halfway(d)'
  <2>1. CASE d = c
    BY <1>2, <2>1, ZenonT(30) DEF Halfway, Installing
  <2>2. CASE d # c
    <3>1. WorksOn(d, id) /\ Halfway(d) /\ queue'[d] = queue[d] /\ pc'[d] = pc[d]
      BY <1>1, <1>2, <2>2, ZenonT(30) DEF Followed
    <3>2. Head(queue[d]).id = id
      BY <3>1, ZenonT(30) DEF WorksOn
    <3>. QED  BY <3>1, <3>2, ZenonT(30) DEF Halfway, Installing, SameFor, Hosts
  <2>. QED  BY <2>1, <2>2, ZenonT(30)
<1>3. OneLoop(id)'
  BY SameKeeps, ZenonT(30) DEF Followed
<1>4. Hosts(id)' => Installed(id)' \/ \E d \in Callers : WorksOn(d, id)' /\ Installing(d)'
  <2>1. CASE Hosts(id)' /\ ~Installed(id)'
    <3>1. PICK d \in Callers : WorksOn(d, id) /\ Installing(d)
      BY <2>1, SameKeeps, ZenonT(30) DEF Followed
    <3>2. d # c /\ WorksOn(d, id)' /\ Installing(d)'
      BY <1>1, <3>1, ZenonT(30) DEF Installing
    <3>. QED  BY <3>2, ZenonT(30)
  <2>. QED  BY <2>1, ZenonT(30)
<1>. QED  BY <1>2, <1>3, <1>4, ZenonT(30) DEF Followed

(* A step of caller c, which was at work on id alone.                      *)
LEMMA OwnService ==
    ASSUME NEW c \in Callers, NEW id \in Ids, Followed(id), WorksOn(c, id),
           \A d \in Callers \ {c} : queue'[d] = queue[d] /\ pc'[d] = pc[d],
           \A d, e \in Callers : WorksOn(d, id)' /\ WorksOn(e, id)' => d = e,
           WorksOn(c, id)' => Halfway(c)',
           OneLoop(id)',
           Hosts(id)' => Installed(id)' \/ (WorksOn(c, id)' /\ Installing(c)')
    PROVE  Followed(id)'
<1>1. \A d \in Callers \ {c} : ~WorksOn(d, id)'
  BY ZenonT(30) DEF Followed, WorksOn, Busy
<1>2. \A d \in Callers : WorksOn(d, id)' => Halfway(d)'
  BY ZenonT(30), <1>1
<1>3. Hosts(id)' => Installed(id)' \/ \E d \in Callers : WorksOn(d, id)' /\ Installing(d)'
  BY ZenonT(30)
<1>. QED  BY ZenonT(30), <1>2, <1>3 DEF Followed

(* After next a caller is idle or at the beginning of an item.             *)
LEMMA NextPlace ==
    ASSUME CallersOK, NEW c \in Callers, Busy(c), next(c)
    PROVE  /\ pc'[c] \in {"idle", "register", "deregister"}
           /\ \A d \in Callers \ {c} : queue'[d] = queue[d] /\ pc'[d] = pc[d]
           /\ \A id \in Ids : WorksOn(c, id)' => Halfway(c)' /\ pc'[c] \in {"register", "deregister"}
<1>. DEFINE rest == Tail(queue[c])
            where == IF rest = <<>> THEN "idle" ELSE Head(rest).op
<1>1. rest \in Seq(Item)
  BY FirstItem
<1>2. where \in {"idle", "register", "deregister"}
  <2>1. CASE rest = <<>>
    BY <2>1, ZenonT(30)
  <2>2. CASE rest # <<>>
    <3>1. Head(rest) \in Item
      BY <1>1, <2>2
    <3>. QED  BY <2>2, <3>1, ZenonT(30) DEF Item
  <2>. QED  BY <2>1, <2>2, ZenonT(30)
<1>3. queue' = [queue EXCEPT ![c] = rest] /\ pc' = [pc EXCEPT ![c] = where]
  BY DEF next
<1>. HIDE DEF rest, where
<1>4. /\ pc'[c] \in {"idle", "register", "deregister"}
      /\ \A d \in Callers \ {c} : queue'[d] = queue[d] /\ pc'[d] = pc[d]
  BY <1>2, <1>3, ZenonT(30) DEF CallersOK
<1>5. \A id \in Ids : WorksOn(c, id)' => Halfway(c)' /\ pc'[c] \in {"register", "deregister"}
  BY <1>4, ZenonT(30) DEF WorksOn, Busy, Halfway, Installing
<1>. QED  BY <1>4, <1>5, ZenonT(30)

(* Monitor.Remove: the loop in the map is cancelled, no other is touched.  *)
LEMMA CancelEffect ==
    ASSUME TypeInv, NEW i \in Ids, cancelLoop(i)
    PROVE  /\ DOMAIN loops' = DOMAIN loops /\ services'[i] = 0
           /\ \A l \in DOMAIN loops :
                /\ loops'[l].id = loops[l].id /\ loops'[l].defs = loops[l].defs
                /\ (loops'[l].cancelled <=> l = services[i] \/ loops[l].cancelled)
           /\ \A id \in Ids \ {i} : services'[id] = services[id] /\ services[i] \notin LoopsOf(id)
<1>1. loops' = [l \in DOMAIN loops |->
                  IF l = services[i] THEN [loops[l] EXCEPT !.cancelled = TRUE]
                  ELSE loops[l]]
  BY ZenonT(30) DEF cancelLoop
<1>2. ASSUME NEW l \in DOMAIN loops
      PROVE  /\ loops'[l].id = loops[l].id /\ loops'[l].defs = loops[l].defs
             /\ (loops'[l].cancelled <=> l = services[i] \/ loops[l].cancelled)
  <2>1. loops[l] \in Loop
    BY DEF TypeInv, MonitorOK
  <2>2. loops'[l] = IF l = services[i] THEN [loops[l] EXCEPT !.cancelled = TRUE] ELSE loops[l]
    BY <1>1, ZenonT(30)
  <2>3. CASE l = services[i]
    <3>1. loops'[l] = [loops[l] EXCEPT !.cancelled = TRUE]
      BY <2>2, <2>3, ZenonT(30)
    <3>2. /\ loops'[l].id = loops[l].id /\ loops'[l].defs = loops[l].defs
          /\ loops'[l].cancelled = TRUE
      BY <2>1, <3>1, ZenonT(30) DEF Loop
    <3>. QED  BY <2>3, <3>2, ZenonT(30)
  <2>4. CASE l # services[i]
    <3>1. loops[l].cancelled \in BOOLEAN
      BY <2>1, ZenonT(30) DEF Loop
    <3>. QED  BY ZenonT(30), <2>2, <2>4, <3>1
  <2>. QED  BY <2>3, <2>4, ZenonT(30)
<1>3. DOMAIN loops' = DOMAIN loops /\ services'[i] = 0
  BY <1>1, ZenonT(30) DEF cancelLoop, TypeInv, MonitorOK
<1>4. ASSUME NEW id \in Ids \ {i}
      PROVE  services'[id] = services[id] /\ services[i] \notin LoopsOf(id)
  <2>1. services'[id] = services[id]
    BY ZenonT(30) DEF cancelLoop, TypeInv, MonitorOK
  <2>2. 0 \notin DOMAIN loops
    BY DEF TypeInv, MonitorOK
  <2>. QED  BY <2>1, <2>2, ZenonT(30) DEF TypeInv, MonitorOK, LoopsOf
<1>. QED  BY <1>2, <1>3, <1>4, ZenonT(30)

LEMMA CancelFrame ==
    ASSUME TypeInv, NEW i \in Ids, cancelLoop(i), UNCHANGED hosted
    PROVE  /\ \A id \in Ids \ {i} : SameFor(id)
           /\ OneLoop(i) => OneLoop(i)'
           /\ NoneCancelled => NoneCancelled'
<1>1. ASSUME NEW id \in Ids \ {i} PROVE SameFor(id)
  <2>1. services'[id] = services[id] /\ services[i] \notin LoopsOf(id)
    BY CancelEffect, ZenonT(30)
  <2>2. \A l \in DOMAIN loops : loops[l].id = id =>
           (loops'[l].cancelled <=> l = services[i] \/ loops[l].cancelled) /\ l # services[i]
    BY CancelEffect, <2>1, ZenonT(30) DEF LoopsOf
  <2>4. \A l \in DOMAIN loops : loops[l].id = id => (loops'[l].cancelled <=> loops[l].cancelled)
    BY <2>2, ZenonT(30)
  <2>. QED  BY <2>1, <2>4, CancelEffect, ZenonT(30) DEF SameFor
<1>2. OneLoop(i) => OneLoop(i)'
  BY CancelEffect, ZenonT(30) DEF OneLoop, LoopsOf
<1>3. NoneCancelled => NoneCancelled'
  <2>. SUFFICES ASSUME NoneCancelled, NEW id \in Ids, services'[id] # 0
                PROVE  ~loops'[services'[id]].cancelled
    BY ZenonT(30) DEF NoneCancelled
  <2>1. id # i /\ services'[id] = services[id] /\ services[i] \notin LoopsOf(id)
    BY CancelEffect, ZenonT(30)
  <2>2. services[id] \in LoopsOf(id) /\ services[id] \in DOMAIN loops
    BY <2>1 DEF TypeInv, MonitorOK, LoopsOf
  <2>. QED  BY <2>1, <2>2, CancelEffect, ZenonT(30) DEF NoneCancelled
<1>. QED  BY <1>1, <1>2, <1>3, ZenonT(30)

(* The second half of Monitor.Set.                                         *)
LEMMA InsertFrame ==
    ASSUME TypeInv, NEW i \in Ids, NEW new \in Loop, new.id = i, ~new.cancelled,
           loops' = Append(loops, new),
           services' = [services EXCEPT ![i] = Len(loops) + 1], UNCHANGED hosted
    PROVE  /\ \A id \in Ids \ {i} : SameFor(id)
           /\ OneLoop(i) /\ services[i] = 0 => OneLoop(i)'
           /\ services'[i] # 0 /\ loops'[services'[i]] = new
           /\ NoneCancelled => NoneCancelled'
<1>1. /\ DOMAIN loops = 1 .. Len(loops) /\ DOMAIN loops' = 1 .. Len(loops) + 1
      /\ loops'[Len(loops) + 1] = new /\ Len(loops) \in Nat
      /\ \A l \in 1 .. Len(loops) : loops'[l] = loops[l]
  <2>1. loops \in Seq(Loop)
    BY ZenonT(30) DEF TypeInv, MonitorOK
  <2>. QED  BY <2>1, InsertKeepsMonitor DEF TypeInv
<1>2. services'[i] = Len(loops) + 1 /\ \A id \in Ids \ {i} : services'[id] = services[id]
  BY ZenonT(30) DEF TypeInv, MonitorOK
<1>3. ASSUME NEW id \in Ids \ {i} PROVE SameFor(id)
  BY <1>1, <1>2 DEF SameFor
<1>4. OneLoop(i) /\ services[i] = 0 => OneLoop(i)'
  BY <1>1, <1>2 DEF OneLoop, LoopsOf
<1>5. services'[i] # 0 /\ loops'[services'[i]] = new
  BY <1>1, <1>2
<1>6. NoneCancelled => NoneCancelled'
  <2>. SUFFICES ASSUME NoneCancelled, NEW id \in Ids, services'[id] # 0
                PROVE  ~loops'[services'[id]].cancelled
    BY ZenonT(30) DEF NoneCancelled
  <2>1. CASE id = i
    BY <1>5, <2>1, ZenonT(30)
  <2>2. CASE id # i
    <3>1. services[id] \in 1 .. Len(loops) /\ services'[id] = services[id]
      BY <1>2, <2>2, ZenonT(30) DEF TypeInv, MonitorOK
    <3>. QED  BY <1>1, <3>1, ZenonT(30) DEF NoneCancelled
  <2>. QED  BY <2>1, <2>2, ZenonT(30)
<1>. QED  BY <1>3, <1>4, <1>5, <1>6, ZenonT(30)
-----------------------------------------------------------------------------
(* The steps that change no map entry, start no loop and cancel none.      *)
Untouched ==
    /\ UNCHANGED <<hosted, services>>
    /\ DOMAIN loops' = DOMAIN loops
    /\ \A l \in DOMAIN loops :
         /\ loops'[l].id = loops[l].id /\ loops'[l].defs = loops[l].defs
         /\ (loops'[l].cancelled <=> loops[l].cancelled)

LEMMA LoopUntouched ==
    ASSUME TypeInv, NEW l \in DOMAIN loops, LoopTick(l) \/ KeepAlive(l)
    PROVE  Untouched
<1>1. PICK where \in {"wait", "keep"} : loops' = [loops EXCEPT ![l].at = where]
  BY ZenonT(30) DEF LoopTick, KeepAlive
<1>2. UNCHANGED <<hosted, services>>
  BY ZenonT(30) DEF LoopTick, KeepAlive
<1>3. /\ Len(loops') = Len(loops)
      /\ \A k \in 1 .. Len(loops) :
           /\ loops'[k].id = loops[k].id /\ loops'[k].defs = loops[k].defs
           /\ loops'[k].cancelled = loops[k].cancelled
  BY <1>1, <1>2, LoopMoves, ZenonT(30) DEF TypeInv
<1>4. DOMAIN loops' = DOMAIN loops /\ DOMAIN loops = 1 .. Len(loops)
  BY <1>1 DEF TypeInv, MonitorOK
<1>. QED  BY <1>2, <1>3, <1>4, ZenonT(30) DEF Untouched

LEMMA UntouchedKeeps ==
    ASSUME TypeInv, Untouched
    PROVE  /\ \A id \in Ids : SameFor(id)
           /\ NoneCancelled => NoneCancelled'
<1>1. \A id \in Ids : SameFor(id)
  BY ZenonT(30) DEF Untouched, SameFor
<1>2. NoneCancelled => NoneCancelled'
  BY DEF Untouched, NoneCancelled, TypeInv, MonitorOK
<1>. QED  BY <1>1, <1>2, ZenonT(30)

(* Every step leaves the monitor as it is, clears it after Stop, or is a   *)
(* caller's.                                                               *)
LEMMA StepEffect ==
    ASSUME TypeInv, Step
    PROVE  \/ Untouched /\ UNCHANGED <<queue, pc>>
           \/ Untouched /\ \E c \in Callers, items \in Seq(Item) : begin(c, items)
           \/ stopped /\ UNCHANGED <<loops, stopped>> /\ services' = [id \in Ids |-> 0]
           \/ \E c \in Callers : CallerStep(c)
<1>0. UNCHANGED <<hosted, services, loops>> => Untouched
  BY ZenonT(30) DEF Untouched
<1>1. CASE Calls
  <2>1. ASSUME NEW c \in Handlers, NEW item \in Item, Handle(c, item)
        PROVE  Untouched /\ \E d \in Callers, items \in Seq(Item) : begin(d, items)
    <3>1. begin(c, <<item>>) /\ Untouched
      BY <1>0, <2>1, ZenonT(30) DEF Handle
    <3>2. <<item>> \in Seq(Item) /\ c \in Callers
      BY DEF Callers
    <3>. QED  BY <3>1, <3>2, ZenonT(30)
  <2>2. CASE reload
    <3>1. begin(Loader, Files) /\ Untouched
      BY <1>0, <2>2, ZenonT(30) DEF reload
    <3>2. Files \in Seq(Item) /\ Loader \in Callers
      BY MonitorAssumption, ZenonT(30) DEF Callers
    <3>. QED  BY <3>1, <3>2, ZenonT(30)
  <2>3. ASSUME NEW id \in Ids, RenewService(id)
        PROVE  Untouched /\ UNCHANGED <<queue, pc>>
    BY <1>0, <2>3, ZenonT(30) DEF RenewService
  <2>4. ASSUME NEW id \in Ids, NEW b \in Bodies
        PROVE  /\ [op |-> "register", id |-> id, body |-> b] \in Item
               /\ [op |-> "deregister", id |-> id, body |-> <<>>] \in Item
    BY MonitorAssumption DEF Item
  <2>. QED  BY <1>1, <2>1, <2>2, <2>3, <2>4, ZenonT(30) DEF Calls
<1>2. ASSUME NEW l \in DOMAIN loops, LoopTick(l) \/ KeepAlive(l)
      PROVE  Untouched /\ UNCHANGED <<queue, pc>>
  BY <1>2, LoopUntouched, ZenonT(30) DEF LoopTick, KeepAlive
<1>3. CASE renewAll \/ Renew \/ Stop \/ WorldChanges \/ Tick
  BY <1>0, <1>3, ZenonT(30) DEF renewAll, Renew, Stop, WorldChanges, Tick
<1>4. CASE StopClears
  BY <1>4, ZenonT(30) DEF StopClears
<1>. QED  BY <1>1, <1>2, <1>3, <1>4, ZenonT(30) DEF Step

(* Monitor.Set and Remove cancel a loop and take it out of the map under   *)
(* one lock, and never touch the loop of another service.                  *)
THEOREM MapCurrent == Spec => []NoneCancelled
<1>1. Init => NoneCancelled
  BY ZenonT(30) DEF Init, NoneCancelled
<1>2. TypeInv /\ NoneCancelled /\ [Next]_vars => NoneCancelled'
  <2>. SUFFICES ASSUME TypeInv, NoneCancelled, Step PROVE NoneCancelled'
    BY ZenonT(30) DEF Next, vars, NoneCancelled
  <2>1. CASE Untouched
    BY <2>1, UntouchedKeeps, ZenonT(30)
  <2>2. CASE services' = [id \in Ids |-> 0]
    BY <2>2, ZenonT(30) DEF NoneCancelled
  <2>3. ASSUME NEW c \in Callers, CallerStep(c) PROVE NoneCancelled'
    <3>. DEFINE item == Head(queue[c])
    <3>0. Busy(c)
      BY <2>3, ZenonT(30) DEF CallerStep, RegisterServices, RegisterFails, Set, SetInsert, RemoveService,
         RemoveFails, Remove, Busy
    <3>1. item.id \in Ids /\ activeChecks(item.body) \in Definitions
      BY <3>0, FirstItem, ZenonT(30) DEF TypeInv
    <3>2. CASE UNCHANGED <<services, loops>>
      BY <3>2, ZenonT(30) DEF NoneCancelled
    <3>3. CASE cancelLoop(item.id) /\ UNCHANGED hosted
      <4>. HIDE DEF item
      <4>. QED  BY <3>1, <3>3, CancelFrame, ZenonT(30)
    <3>4. CASE SetInsert(c)
      <4>. DEFINE new == [id |-> item.id, at |-> "wait", cancelled |-> FALSE,
                          defs |-> activeChecks(item.body)]
      <4>1. /\ loops' = Append(loops, new) /\ UNCHANGED hosted
            /\ services' = [services EXCEPT ![item.id] = Len(loops) + 1]
        BY <3>4, ZenonT(30) DEF SetInsert
      <4>. HIDE DEF item
      <4>2. new \in Loop /\ new.id = item.id /\ ~new.cancelled
        BY <3>1, ZenonT(30) DEF Loop
      <4>. HIDE DEF new
      <4>. QED  BY <3>1, <4>1, <4>2, InsertFrame, ZenonT(30)
    <3>. QED  BY <2>3, <3>2, <3>3, <3>4, ZenonT(30) DEF CallerStep, RegisterServices, RegisterFails, Set,
              RemoveService, RemoveFails, Remove
  <2>. QED  BY <2>1, <2>2, <2>3, StepEffect, ZenonT(30)
<1>. QED  BY <1>1, <1>2, TypeInvariant, PTL DEF Spec

(* A service the monitor reports as Active, which the renew loop leaves    *)
(* alone, has a loop that is running: no interleaving of Set, Remove and   *)
(* Stop leaves a hosted service without a keeper.                          *)
THEOREM ActiveRuns == Spec => []ActiveIsRunning
<1>1. TypeInv /\ NoneCancelled => ActiveIsRunning
  BY ZenonT(30) DEF TypeInv, MonitorOK, NoneCancelled, ActiveIsRunning, Live
<1>. QED  BY <1>1, TypeInvariant, MapCurrent, PTL
-----------------------------------------------------------------------------
(* A caller's step, seen from a service that calls have not overlapped on. *)
LEMMA CallerFollowed ==
    ASSUME TypeInv, NEW c \in Callers, CallerStep(c), NEW id \in Ids, Followed(id),
           \A d, e \in Callers : WorksOn(d, id)' /\ WorksOn(e, id)' => d = e
    PROVE  Followed(id)'
<1>. DEFINE item == Head(queue[c])
            i == item.id
            defs == activeChecks(item.body)
<1>0. Busy(c) /\ pc \in [Callers -> Places] /\ queue \in [Callers -> Seq(Item)]
  BY ZenonT(30) DEF CallerStep, RegisterServices, RegisterFails, Set, SetInsert, RemoveService,
     RemoveFails, Remove, Busy, TypeInv, CallersOK
<1>1. i \in Ids /\ defs \in Definitions
  BY <1>0, FirstItem, ZenonT(30) DEF TypeInv
<1>2. WorksOn(c, id) <=> i = id
  BY <1>0, ZenonT(30) DEF WorksOn
<1>3. WorksOn(c, id) => Halfway(c)
  BY ZenonT(30) DEF Followed
<1>4. ASSUME next(c)
      PROVE  /\ \A d \in Callers \ {c} : queue'[d] = queue[d] /\ pc'[d] = pc[d]
             /\ WorksOn(c, id)' => Halfway(c)' /\ pc'[c] \in {"register", "deregister"}
  BY <1>0, <1>4, NextPlace, ZenonT(30) DEF TypeInv
<1>5. ASSUME NEW where \in Places \ {"idle"}, goto(c, where)
      PROVE  /\ \A d \in Callers \ {c} : queue'[d] = queue[d] /\ pc'[d] = pc[d]
             /\ pc'[c] = where /\ queue' = queue
             /\ WorksOn(c, id)' <=> WorksOn(c, id)
  BY <1>0, <1>5, ZenonT(30) DEF goto, WorksOn, Busy
<1>6. hosted \in [Ids -> Definitions \cup {NoHost}]
  BY ZenonT(30) DEF TypeInv, SeedsOK
<1>7. Hosts(id) /\ WorksOn(c, id) /\ ~Installing(c) => Installed(id)
  BY ZenonT(30) DEF Followed
<1>8. CASE RegisterServices(c)
  <2>1. /\ hosted' = [hosted EXCEPT ![i] = defs]
        /\ goto(c, "set") /\ UNCHANGED <<services, loops>>
    BY <1>8, ZenonT(30) DEF RegisterServices
  <2>2. "set" \in Places \ {"idle"}
    BY ZenonT(30) DEF Places
  <2>3. CASE i # id
    <3>1. SameFor(id)
      BY <1>1, <1>6, <2>1, <2>3, ZenonT(30) DEF SameFor
    <3>. QED  BY <1>2, <1>5, <2>1, <2>2, <2>3, <3>1, OtherService, ZenonT(30)
  <2>4. CASE i = id
    <3>1. OneLoop(id)'
      BY <2>1, ZenonT(30) DEF Followed, OneLoop, LoopsOf
    <3>2. Halfway(c)' /\ Installing(c)'
      BY <1>1, <1>5, <1>6, <2>1, <2>2, ZenonT(30) DEF Halfway, Installing
    <3>. QED  BY <1>2, <1>5, <2>1, <2>2, <2>4, <3>1, <3>2, OwnService, ZenonT(30)
  <2>. QED  BY <2>3, <2>4, ZenonT(30)
<1>9. CASE RegisterFails(c)
  <2>1. next(c) /\ UNCHANGED <<hosted, services, loops>> /\ pc[c] = "register"
    BY <1>9, ZenonT(30) DEF RegisterFails
  <2>2. SameFor(id)
    BY <2>1, ZenonT(30) DEF SameFor
  <2>3. CASE i # id
    BY <1>2, <1>4, <2>1, <2>2, <2>3, OtherService, ZenonT(30)
  <2>4. CASE i = id
    <3>1. OneLoop(id)' /\ (Hosts(id)' => Installed(id)')
      BY <1>2, <1>7, <2>1, <2>2, <2>4, SameKeeps, ZenonT(30) DEF Followed, Installing
    <3>. QED  BY <1>2, <1>4, <2>1, <2>4, <3>1, OwnService, ZenonT(30)
  <2>. QED  BY <2>3, <2>4
<1>10. CASE Set(c)
  <2>1. /\ cancelLoop(i) /\ UNCHANGED hosted /\ pc[c] = "set"
        /\ IF defs = <<>> THEN next(c) ELSE goto(c, "insert")
    BY <1>10, ZenonT(30) DEF Set
  <2>2. "insert" \in Places \ {"idle"}
    BY ZenonT(30) DEF Places
  <2>. HIDE DEF i, defs
  <2>3. CASE i # id
    <3>1. SameFor(id)
      BY <1>1, <2>1, <2>3, CancelFrame, ZenonT(30)
    <3>2. CASE next(c)
      BY <1>2, <1>4, <2>3, <3>1, <3>2, OtherService, ZenonT(30)
    <3>3. CASE goto(c, "insert")
      BY <1>2, <1>5, <2>2, <2>3, <3>1, <3>3, OtherService, ZenonT(30)
    <3>. QED  BY <2>1, <3>2, <3>3, ZenonT(30)
  <2>4. CASE i = id
    <3>1. OneLoop(id)' /\ services'[id] = 0
      BY <1>1, <2>1, <2>4, CancelFrame, CancelEffect, ZenonT(30) DEF Followed
    <3>2. hosted'[id] = defs
      BY <1>2, <1>3, <2>1, <2>4, ZenonT(30) DEF Halfway, Installing, i, defs
    <3>3. CASE defs = <<>>
      <4>1. Installed(id)'
        BY <3>1, <3>2, <3>3, ZenonT(30) DEF Installed
      <4>2. next(c)
        BY <2>1, <3>3, ZenonT(30)
      <4>. QED  BY <1>2, <1>4, <2>4, <3>1, <4>1, <4>2, OwnService, ZenonT(30)
    <3>4. CASE defs # <<>>
      <4>1. goto(c, "insert")
        BY <2>1, <3>4, ZenonT(30)
      <4>2. pc'[c] = "insert" /\ queue' = queue
        BY <1>5, <2>2, <4>1, ZenonT(30)
      <4>3. Halfway(c)' /\ Installing(c)'
        BY <2>4, <3>1, <3>2, <3>4, <4>2, ZenonT(30) DEF Halfway, Installing, i, defs
      <4>. QED  BY <1>2, <1>5, <2>2, <2>4, <3>1, <4>1, <4>3, OwnService, ZenonT(30)
    <3>. QED  BY <3>3, <3>4, ZenonT(30)
  <2>. QED  BY <2>3, <2>4, ZenonT(30)
<1>11. CASE SetInsert(c)
  <2>. DEFINE new == [id |-> i, at |-> "wait", cancelled |-> FALSE, defs |-> defs]
  <2>1. /\ loops' = Append(loops, new) /\ UNCHANGED hosted /\ pc[c] = "insert"
        /\ services' = [services EXCEPT ![i] = Len(loops) + 1] /\ next(c)
    BY <1>11, ZenonT(30) DEF SetInsert
  <2>. HIDE DEF i, defs
  <2>2. new \in Loop /\ new.id = i /\ ~new.cancelled /\ new.defs = defs
    BY <1>1, ZenonT(30) DEF Loop
  <2>. HIDE DEF new
  <2>3. CASE i # id
    <3>1. SameFor(id)
      BY <1>1, <2>1, <2>2, <2>3, InsertFrame, ZenonT(30)
    <3>. QED  BY <1>2, <1>4, <2>1, <2>3, <3>1, OtherService, ZenonT(30)
  <2>4. CASE i = id
    <3>1. services[id] = 0 /\ defs # <<>> /\ hosted[id] = defs
      BY <1>2, <1>3, <2>1, <2>4, ZenonT(30) DEF Halfway, Installing, i, defs
    <3>2. OneLoop(id)' /\ services'[id] # 0 /\ loops'[services'[id]] = new
      <4>1. new.id = id /\ services' = [services EXCEPT ![id] = Len(loops) + 1]
        BY <2>1, <2>2, <2>4, ZenonT(30)
      <4>2. OneLoop(id)
        BY ZenonT(30) DEF Followed
      <4>. QED  BY <2>1, <2>2, <3>1, <4>1, <4>2, InsertFrame, ZenonT(30)
    <3>3. Installed(id)'
      BY <2>1, <2>2, <3>1, <3>2, ZenonT(30) DEF Installed
    <3>. QED  BY <1>2, <1>4, <2>1, <2>4, <3>2, <3>3, OwnService, ZenonT(30)
  <2>. QED  BY <2>3, <2>4
<1>12. CASE RemoveService(c)
  <2>1. /\ hosted' = [hosted EXCEPT ![i] = NoHost]
        /\ goto(c, "remove") /\ UNCHANGED <<services, loops>>
    BY <1>12, ZenonT(30) DEF RemoveService
  <2>2. "remove" \in Places \ {"idle"}
    BY ZenonT(30) DEF Places
  <2>3. CASE i # id
    <3>1. SameFor(id)
      BY <1>1, <1>6, <2>1, <2>3, ZenonT(30) DEF SameFor
    <3>. QED  BY <1>2, <1>5, <2>1, <2>2, <2>3, <3>1, OtherService, ZenonT(30)
  <2>4. CASE i = id
    <3>1. OneLoop(id)' /\ ~Hosts(id)'
      BY <1>1, <1>6, <2>1, <2>4, ZenonT(30) DEF Followed, OneLoop, LoopsOf, Hosts
    <3>2. Halfway(c)'
      BY <1>5, <2>1, <2>2, <2>4, <3>1, ZenonT(30) DEF Halfway, Installing
    <3>. QED  BY <1>2, <1>5, <2>1, <2>2, <2>4, <3>1, <3>2, OwnService, ZenonT(30)
  <2>. QED  BY <2>3, <2>4
<1>13. CASE RemoveFails(c)
  <2>1. hosted' = [hosted EXCEPT ![i] = NoHost] /\ next(c) /\ UNCHANGED <<services, loops>>
    BY <1>13, ZenonT(30) DEF RemoveFails
  <2>2. CASE i # id
    <3>1. SameFor(id)
      BY <1>1, <1>6, <2>1, <2>2, ZenonT(30) DEF SameFor
    <3>. QED  BY <1>2, <1>4, <2>1, <2>2, <3>1, OtherService, ZenonT(30)
  <2>3. CASE i = id
    <3>1. OneLoop(id)' /\ ~Hosts(id)'
      BY <1>1, <1>6, <2>1, <2>3, ZenonT(30) DEF Followed, OneLoop, LoopsOf, Hosts
    <3>. QED  BY <1>2, <1>4, <2>1, <2>3, <3>1, OwnService, ZenonT(30)
  <2>. QED  BY <2>2, <2>3
<1>14. CASE Remove(c)
  <2>1. cancelLoop(i) /\ next(c) /\ UNCHANGED hosted /\ pc[c] = "remove"
    BY <1>14, ZenonT(30) DEF Remove
  <2>2. CASE i # id
    <3>1. SameFor(id)
      BY <1>1, <2>1, <2>2, CancelFrame, ZenonT(30)
    <3>. QED  BY <1>2, <1>4, <2>1, <2>2, <3>1, OtherService, ZenonT(30)
  <2>3. CASE i = id
    <3>1. OneLoop(id)'
      BY <1>1, <2>1, <2>3, CancelFrame, ZenonT(30) DEF Followed
    <3>2. ~Hosts(id)'
      BY <1>2, <1>3, <2>1, <2>3, ZenonT(30) DEF Halfway, Hosts
    <3>. QED  BY <1>2, <1>4, <2>1, <2>3, <3>1, <3>2, OwnService, ZenonT(30)
  <2>. QED  BY <2>2, <2>3
<1>. QED  BY <1>8, <1>9, <1>10, <1>11, <1>12, <1>13, <1>14, ZenonT(30) DEF CallerStep

LEMMA StepFollowed ==
    ASSUME TypeInv, Step, NEW id \in Ids, Followed(id), ~stopped',
           \A d, e \in Callers : WorksOn(d, id)' /\ WorksOn(e, id)' => d = e
    PROVE  Followed(id)'
<1>1. CASE Untouched /\ UNCHANGED <<queue, pc>>
  <2>1. SameFor(id)
    BY <1>1, UntouchedKeeps, ZenonT(30)
  <2>2. \A c \in Callers : WorksOn(c, id) => (Halfway(c) <=> Halfway(c)')
    BY <1>1, <2>1, ZenonT(30) DEF SameFor, WorksOn, Halfway, Installing, Hosts
  <2>3. \A c \in Callers : /\ WorksOn(c, id)' <=> WorksOn(c, id)
                           /\ Installing(c)' <=> Installing(c)
    BY <1>1, ZenonT(30) DEF WorksOn, Busy, Installing
  <2>4. OneLoop(id)' /\ (Installed(id) <=> Installed(id)') /\ (Hosts(id) <=> Hosts(id)')
    BY <2>1, SameKeeps, ZenonT(30) DEF Followed
  <2>. QED  BY ZenonT(30), <2>2, <2>3, <2>4 DEF Followed
<1>2. ASSUME Untouched, NEW c \in Callers, NEW items \in Seq(Item), begin(c, items)
      PROVE  Followed(id)'
  <2>1. /\ ~Busy(c) /\ items # <<>>
        /\ queue' = [queue EXCEPT ![c] = items] /\ pc' = [pc EXCEPT ![c] = Head(items).op]
    BY <1>2, ZenonT(30) DEF begin
  <2>2. Head(items) \in Item
    BY <2>1
  <2>3. Head(items).op \in {"register", "deregister"}
    BY <2>2, ZenonT(30) DEF Item
  <2>4. ~WorksOn(c, id)
    BY <2>1, ZenonT(30) DEF WorksOn
  <2>5. /\ \A d \in Callers \ {c} : queue'[d] = queue[d] /\ pc'[d] = pc[d]
        /\ pc'[c] \in {"register", "deregister"}
    BY <2>1, <2>3, ZenonT(30) DEF TypeInv, CallersOK
  <2>6. SameFor(id)
    BY <1>2, UntouchedKeeps, ZenonT(30)
  <2>. QED  BY <2>4, <2>5, <2>6, OtherService, ZenonT(30)
<1>3. CASE stopped /\ UNCHANGED stopped
  BY <1>3, ZenonT(30)
<1>. QED  BY <1>1, <1>2, <1>3, StepEffect, CallerFollowed, ZenonT(30)

(* When no caller is at work on a service, and none has overlapped another *)
(* there, the loop of the monitor runs the checks of the registration that *)
(* hosts it, and no other loop of that service runs: the steps of Set and  *)
(* Remove, with other callers between them, add up to the last call.       *)
THEOREM ChecksFollow == Spec => []ChecksFollowCalls
<1>1. Init => ChecksInv
  <2>. SUFFICES ASSUME Init, NEW id \in Ids PROVE Followed(id)
    BY ZenonT(30) DEF ChecksInv
  <2>1. \A c \in Callers : ~WorksOn(c, id)
    BY ZenonT(30) DEF Init, WorksOn, Busy
  <2>2. OneLoop(id) /\ ~Hosts(id)
    BY DEF Init, OneLoop, LoopsOf, Hosts
  <2>. QED  BY ZenonT(30), <2>1, <2>2 DEF Followed
<1>2. TypeInv /\ ChecksInv /\ [Next]_vars => ChecksInv'
  <2>. SUFFICES ASSUME TypeInv, ChecksInv, [Next]_vars, ~stopped',
                       NEW id \in Ids, id \notin overlapped'
                PROVE  Followed(id)'
    BY ZenonT(30) DEF ChecksInv
  <2>1. CASE Next
    <3>1. ~stopped
      <4>1. ~stopped \/ stopped' = stopped
        BY <2>1, ZenonT(30) DEF Next, Step, Calls, Handle, reload, RenewService, CallerStep, RegisterServices,
           RegisterFails, Set, SetInsert, RemoveService, RemoveFails, Remove, LoopTick, KeepAlive,
           renewAll, Renew, Stop, StopClears, WorldChanges, Tick
      <4>. QED  BY <4>1, ZenonT(30)
    <3>2. /\ id \notin overlapped
          /\ \A d, e \in Callers : WorksOn(d, id)' /\ WorksOn(e, id)' => d = e
      BY <2>1, ZenonT(30) DEF Next, Overlaps
    <3>3. Followed(id)
      BY <3>1, <3>2, ZenonT(30) DEF ChecksInv
    <3>. QED  BY <2>1, <3>2, <3>3, StepFollowed, ZenonT(30) DEF Next
  <2>2. CASE UNCHANGED vars
    <3>1. Followed(id)
      BY <2>2, ZenonT(30) DEF vars, ChecksInv
    <3>. QED  BY <2>2, <3>1, ZenonT(30) DEF vars, Followed, WorksOn, Busy, Halfway, Installing, Hosts,
                OneLoop, LoopsOf, Installed
  <2>. QED  BY <2>1, <2>2, ZenonT(30)
<1>3. TypeInv /\ NoneCancelled /\ ChecksInv => ChecksFollowCalls
  <2>. SUFFICES ASSUME TypeInv, NoneCancelled, ChecksInv, NEW id \in Ids, Hosts(id), quiet(id),
                       id \notin overlapped, ~stopped
                PROVE  LET running == {l \in LoopsOf(id) : Live(l)}
                       IN  IF hosted[id] = <<>> THEN running = {} /\ services[id] = 0
                           ELSE running = {services[id]} /\ loops[services[id]].defs = hosted[id]
    BY ZenonT(30) DEF ChecksFollowCalls
  <2>1. Followed(id)
    BY ZenonT(30) DEF ChecksInv
  <2>2. Installed(id) /\ OneLoop(id)
    BY <2>1, ZenonT(30) DEF Followed, quiet
  <2>3. 0 \notin LoopsOf(id)
    BY DEF LoopsOf, TypeInv, MonitorOK
  <2>4. services[id] # 0 => services[id] \in LoopsOf(id) /\ ~loops[services[id]].cancelled
    BY DEF LoopsOf, TypeInv, MonitorOK, NoneCancelled
  <2>. QED  BY <2>2, <2>3, <2>4, ZenonT(30) DEF Installed, OneLoop, Live
<1>. QED  BY <1>1, <1>2, <1>3, TypeInvariant, MapCurrent, PTL DEF Spec
=============================================================================
