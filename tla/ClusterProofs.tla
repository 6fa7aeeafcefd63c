--------------------------- MODULE ClusterProofs ---------------------------
(***************************************************************************)
(* Proofs about Cluster, for any number of seeds and services, any quorum  *)
(* and any times that satisfy ClusterAssumption: type correctness,         *)
(* RemovedStaysRemoved and LeaseKept.                                      *)
(***************************************************************************)
EXTENDS Cluster, FiniteSetTheorems, TLAPS

(* Time for the provers.                                                   *)
USE SMTT(30), ZenonT(30)

Registry == [Ids -> [v: Versions \cup {0}, left: 0 .. TTL]]
Op == [req: Request, waiting: SUBSET Seeds, ok: Nat, age: Nat]

(* A request names a service exactly if it is about one.                   *)
ReqOK(req) ==
    /\ req \in Request
    /\ req.kind = "register" => req.id \in Ids /\ req.v \in Versions
    /\ req.kind = "deregister service" => req.id \in Ids
    /\ req.kind \in {"none", "renew", "renew node", "deregister"} => req.id = 0

(* What thread t can be doing.                                             *)
OpOK(t, o) ==
    /\ o \in Op /\ ReqOK(o.req) /\ o.age <= OpTime
    /\ o.waiting # {} => o.req.kind # "none"
    /\ o.ok + Cardinality(o.waiting) <= Cardinality(Seeds)
    /\ t = "app" => o.req.kind # "renew"
    /\ t = "renew" => o.req.kind \in {"none", "renew"}
    /\ t \in Checked =>
         /\ o.req.kind \in {"none", "register"}
         /\ o.req.kind = "register" => o.req.id = t

OpsOK == op \in [Threads -> Op] /\ \A t \in Threads : OpOK(t, op[t])

LateOK == \A r \in late : r.seed \in Seeds /\ ReqOK(r.req) /\ r.req.kind # "none"

TypeInv ==
    /\ store \in [Seeds -> Registry]
    /\ hosted \in [Ids -> Versions \cup {0}]
    /\ OpsOK /\ LateOK
    /\ beat \in [Tickers -> 0 .. Heartbeat]
    /\ heard \subseteq [seed: Seeds, id: Ids \ Checked, v: Versions]
    /\ gone \subseteq Ids

(* What is gone is on no seed, is not hosted, and no registration of it is *)
(* under way.                                                              *)
GoneInv ==
    \A id \in gone :
        /\ \A s \in Seeds : ~Has(store[s], id)
        /\ hosted[id] = 0
        /\ \A t \in Threads : ~(op[t].req.kind = "register" /\ op[t].req.id = id)
        /\ \A r \in late : ~(r.req.kind = "register" /\ r.req.id = id)
-----------------------------------------------------------------------------
(* The records.                                                            *)

LEMMA Constants ==
    /\ TTL \in Nat /\ Heartbeat \in Nat /\ OpTime \in Nat /\ Quorum \in Nat
    /\ TTL > 0 /\ Heartbeat > 0 /\ OpTime > 0
    /\ TTL > Heartbeat + 2 * OpTime /\ TTL > 3 * OpTime
    /\ 0 \notin Versions /\ Versions \subseteq Nat /\ 0 \notin Ids
    /\ "app" \in Threads /\ "renew" \in Threads /\ "renew" \in Tickers
    /\ "app" \notin Checked /\ "renew" \notin Checked
    /\ Checked \subseteq Ids /\ Checked \subseteq Tickers
    /\ Threads = {"app", "renew"} \cup Checked
    /\ Cardinality(Seeds) \in Nat
<1>1. /\ Quorum \in Nat \ {0} /\ TTL \in Nat \ {0} /\ Heartbeat \in Nat \ {0}
      /\ OpTime \in Nat \ {0}
  BY ClusterAssumption, ZenonT(30)
<1>2. Cardinality(Seeds) \in Nat
  BY ClusterAssumption, FS_CardinalityType, ZenonT(30)
<1>3. "app" \notin Checked /\ "renew" \notin Checked
  BY ClusterAssumption, ZenonT(30)
<1>. QED  BY <1>1, <1>2, <1>3, ClusterAssumption DEF Threads, Tickers

LEMMA LeaseFields ==
    ASSUME NEW v
    PROVE  /\ Lease(v).v = v /\ Lease(v).left = TTL
           /\ v \in Versions \cup {0} => Lease(v) \in [v: Versions \cup {0}, left: 0 .. TTL]
BY Constants DEF Lease

LEMMA AbsentFields ==
    /\ Absent.v = 0 /\ Absent.left = 0
    /\ Absent \in [v: Versions \cup {0}, left: 0 .. TTL]
BY Constants DEF Absent

LEMMA RequestsOK ==
    /\ NoRequest.kind = "none" /\ NoRequest.id = 0 /\ ReqOK(NoRequest)
    /\ \A id \in Ids, v \in Versions :
         /\ ReqOK(Register(id, v)) /\ Register(id, v).kind = "register"
         /\ Register(id, v).id = id /\ Register(id, v).v = v
    /\ \A ids \in Seq(Ids) :
         ReqOK(Renew(ids)) /\ Renew(ids).kind = "renew" /\ Renew(ids).ids = ids
    /\ \A id \in Ids :
         /\ ReqOK(DeregisterService(id)) /\ DeregisterService(id).id = id
         /\ DeregisterService(id).kind = "deregister service"
    /\ ReqOK(RenewNode) /\ RenewNode.kind = "renew node"
    /\ ReqOK(Deregister) /\ Deregister.kind = "deregister"
<1>1. <<>> \in Seq(Ids)
  OBVIOUS
<1>. QED
  BY <1>1, Zenon DEF NoRequest, ReqOK, Request, Register, Renew, DeregisterService,
              RenewNode, Deregister

LEMMA IdleFields ==
    /\ Idle.req = NoRequest /\ Idle.waiting = {} /\ Idle.age = 0
    /\ \A t : OpOK(t, Idle)
<1>1. Idle.req = NoRequest /\ Idle.waiting = {} /\ Idle.age = 0 /\ Idle.ok = 0
  BY ZenonT(30) DEF Idle
<1>2. Idle \in Op
  BY RequestsOK, Zenon DEF Idle, Op, ReqOK
<1>3. Cardinality({}) = 0
  BY FS_EmptySet, ZenonT(30)
<1>4. ASSUME NEW t PROVE OpOK(t, Idle)
  <2>1. Idle.ok + Cardinality(Idle.waiting) <= Cardinality(Seeds) /\ Idle.age <= OpTime
    BY <1>1, <1>3, Constants
  <2>2. ReqOK(Idle.req) /\ Idle.req.kind = "none"
    BY <1>1, RequestsOK, Zenon
  <2>. QED  BY <1>1, <1>2, <2>1, <2>2, ZenonT(30) DEF OpOK
<1>. QED  BY <1>1, <1>4, ZenonT(30)

LEMMA RunningFields ==
    ASSUME NEW req, ReqOK(req), req.kind # "none"
    PROVE  /\ Running(req).req = req /\ Running(req).waiting = Seeds
           /\ Running(req).age = 0 /\ Running(req).ok = 0 /\ Running(req) \in Op
BY Zenon DEF Running, Idle, Op, ReqOK

(* The registry and the answer of a seed.                                  *)
LEMMA AppliedEffect ==
    ASSUME NEW st \in Registry, NEW req, ReqOK(req), req.kind # "none",
           NEW id \in Ids
    PROVE  /\ applied(st, req) \in Registry
           /\ ~touches(req, id) =>
                \/ applied(st, req)[id] = st[id]
                \/ Has(st, id) /\ applied(st, req)[id] = Lease(st[id].v)
           /\ req.kind = "register" /\ req.id = id =>
                applied(st, req)[id] = Lease(req.v)
           /\ ~(req.kind = "register" /\ req.id = id) /\ ~Has(st, id) =>
                ~Has(applied(st, req), id)
           /\ req.kind = "renew" /\ id \in Range(req.ids) /\ ~cutShort(st, req, id) =>
                applied(st, req)[id] = Lease(st[id].v)
<1>0. /\ \A i \in Ids : st[i].v \in Versions \cup {0}
      /\ \A i \in Ids : Lease(st[i].v) \in [v: Versions \cup {0}, left: 0 .. TTL]
      /\ \A i \in Ids : st[i] \in [v: Versions \cup {0}, left: 0 .. TTL]
      /\ st = [i \in Ids |-> st[i]]
  BY LeaseFields, ZenonT(30) DEF Registry
<1>1. CASE req.kind = "register"
  <2>1. applied(st, req) = [st EXCEPT ![req.id] = Lease(req.v)]
    BY <1>1, ZenonT(30) DEF applied
  <2>2. req.id \in Ids /\ Lease(req.v) \in [v: Versions \cup {0}, left: 0 .. TTL]
    BY <1>1, LeaseFields, ZenonT(30) DEF ReqOK
  <2>. QED  BY <1>0, <1>1, <2>1, <2>2 DEF Registry, touches, Has, cutShort
<1>2. CASE req.kind = "renew"
  <2>1. applied(st, req) = [i \in Ids |-> IF i \in renewed(st, req.ids)
                                          THEN Lease(st[i].v) ELSE st[i]]
    BY <1>2, ZenonT(30) DEF applied
  <2>2. applied(st, req) \in Registry
    BY <1>0, <2>1, Zenon DEF Registry
  <2>3. \A i \in renewed(st, req.ids) : Has(st, i)
    <3>1. req.ids \in Seq(Ids)
      BY Zenon DEF ReqOK, Request
    <3>. QED  BY <3>1 DEF renewed
  <2>4. id \notin Range(req.ids) \/ cutShort(st, req, id) \/ id \in renewed(st, req.ids)
    BY <1>2, ZenonT(30) DEF cutShort
  <2>5. applied(st, req)[id] = IF id \in renewed(st, req.ids)
                               THEN Lease(st[id].v) ELSE st[id]
    BY <2>1, ZenonT(30)
  <2>6. ~Has(st, id) => applied(st, req)[id] = st[id]
    BY <2>3, <2>5, ZenonT(30)
  <2>. QED  BY <1>2, <2>2, <2>3, <2>4, <2>5, <2>6, ZenonT(30) DEF Has
<1>3. CASE req.kind = "renew node"
  <2>1. applied(st, req) = [i \in Ids |-> IF Has(st, i) THEN Lease(st[i].v) ELSE st[i]]
    BY <1>3, Zenon DEF applied
  <2>2. applied(st, req) \in Registry
    BY <1>0, <2>1, Zenon DEF Registry
  <2>3. applied(st, req)[id] = IF Has(st, id) THEN Lease(st[id].v) ELSE st[id]
    BY <2>1, ZenonT(30)
  <2>. QED  BY <1>3, <2>2, <2>3, Zenon DEF Has
<1>4. CASE req.kind = "deregister service"
  <2>1. applied(st, req) = [st EXCEPT ![req.id] = Absent]
    BY <1>4, Zenon DEF applied
  <2>2. req.id \in Ids
    BY <1>4, Zenon DEF ReqOK
  <2>3. applied(st, req) \in Registry
    BY <1>0, <2>1, <2>2, AbsentFields, ZenonT(30) DEF Registry
  <2>4. applied(st, req)[id] = IF id = req.id THEN Absent ELSE st[id]
    BY <1>0, <2>1, <2>2, ZenonT(30) DEF Registry
  <2>. QED  BY <1>4, <2>3, <2>4, Zenon DEF touches, Has
<1>5. CASE req.kind = "deregister"
  <2>1. applied(st, req) = [i \in Ids |-> Absent]
    BY <1>5, ZenonT(30) DEF applied
  <2>. QED  BY <1>5, <2>1, AbsentFields, ZenonT(30) DEF Registry, touches, Has
<1>. QED  BY <1>1, <1>2, <1>3, <1>4, <1>5, Zenon DEF ReqOK, Request

(* A permutation of a finite set has every element of it.                  *)
LEMMA Permuted ==
    ASSUME NEW S, IsFiniteSet(S), NEW f \in Bijection(1 .. Cardinality(S), S)
    PROVE  f \in Seq(S) /\ Range(f) = S
<1>1. Cardinality(S) \in Nat
  BY FS_CardinalityType, ZenonT(30)
<1>2. /\ f \in [1 .. Cardinality(S) -> S]
      /\ \A x \in S : \E i \in 1 .. Cardinality(S) : f[i] = x
  BY ZenonT(30) DEF Bijection, Surjection, Injection
<1>. QED  BY <1>1, <1>2 DEF Range
-----------------------------------------------------------------------------
(* Type correctness.                                                       *)

LEMMA OpsSet ==
    ASSUME OpsOK, NEW t \in Threads, NEW o, OpOK(t, o), op' = [op EXCEPT ![t] = o]
    PROVE  OpsOK'
<1>1. o \in Op
  BY ZenonT(30) DEF OpOK
<1>2. op' \in [Threads -> Op] /\ \A x \in Threads : op'[x] = IF x = t THEN o ELSE op[x]
  BY <1>1, ZenonT(30) DEF OpsOK
<1>. QED  BY <1>2, ZenonT(30) DEF OpsOK

(* A fan-out starts.                                                       *)
LEMMA Started ==
    ASSUME OpsOK, NEW t \in Threads, NEW req, ReqOK(req), req.kind # "none",
           t = "app" => req.kind # "renew",
           t = "renew" => req.kind = "renew",
           t \in Checked => req.kind = "register" /\ req.id = t,
           Start(t, req)
    PROVE  OpsOK'
<1>. DEFINE o == Running(req)
<1>1. /\ o.req = req /\ o.waiting = Seeds /\ o.age = 0 /\ o.ok = 0 /\ o \in Op
  BY RunningFields, ZenonT(30)
<1>2. op' = [op EXCEPT ![t] = o]
  BY ZenonT(30) DEF Start
<1>. HIDE DEF o
<1>3. o.ok + Cardinality(o.waiting) <= Cardinality(Seeds) /\ o.age <= OpTime
  BY <1>1, Constants
<1>4. OpOK(t, o)
  BY <1>1, <1>3, ZenonT(30) DEF OpOK
<1>. QED  BY <1>2, <1>4, OpsSet, Zenon

(* The outcome of a fan-out at seed s is known.                            *)
Outcome(t, s) ==
    /\ op' \in [Threads -> Op] /\ \A x \in Threads \ {t} : op'[x] = op[x]
    /\ op'[t].req = op[t].req /\ op'[t].age = op[t].age
    /\ op'[t].waiting = op[t].waiting \ {s}
    /\ op'[t].ok \in {op[t].ok, op[t].ok + 1}

LEMMA Outcomes ==
    ASSUME OpsOK, NEW t \in Threads, NEW s,
           Answer(t, s) \/ AnswerLost(t, s) \/ Timeout(t, s)
    PROVE  s \in op[t].waiting /\ Outcome(t, s)
<1>0. op \in [Threads -> Op] /\ op[t] \in Op /\ op[t].ok \in Nat
  BY ZenonT(30) DEF OpsOK, Op
<1>1. CASE Answer(t, s)
  <2>. DEFINE k == IF accepts(store[s], op[t].req) THEN op[t].ok + 1 ELSE op[t].ok
  <2>1. op' = [op EXCEPT ![t].waiting = @ \ {s}, ![t].ok = k]
    BY <1>1, ZenonT(30) DEF Answer
  <2>2. k \in {op[t].ok, op[t].ok + 1}
    BY ZenonT(30)
  <2>. HIDE DEF k
  <2>3. k \in Nat
    BY <1>0, <2>2
  <2>4. /\ op' \in [Threads -> Op] /\ \A x \in Threads \ {t} : op'[x] = op[x]
        /\ op'[t].req = op[t].req /\ op'[t].age = op[t].age
        /\ op'[t].waiting = op[t].waiting \ {s} /\ op'[t].ok = k
    BY <1>0, <2>1, <2>3, Zenon DEF Op
  <2>. QED  BY <1>1, <2>2, <2>4, ZenonT(30) DEF Answer, Outcome
<1>2. CASE AnswerLost(t, s) \/ Timeout(t, s)
  <2>1. op' = [op EXCEPT ![t].waiting = @ \ {s}] /\ s \in op[t].waiting
    BY <1>2, Zenon DEF AnswerLost, Timeout
  <2>. QED  BY <1>0, <2>1, ZenonT(30) DEF Outcome, Op
<1>. QED  BY <1>1, <1>2, ZenonT(30)

LEMMA OutcomeEffect ==
    ASSUME OpsOK, NEW t \in Threads, NEW s \in op[t].waiting, Outcome(t, s)
    PROVE  /\ OpsOK' /\ op'[t].req = op[t].req /\ op'[t].age = op[t].age
           /\ op'[t].waiting = op[t].waiting \ {s}
           /\ \A x \in Threads \ {t} : op'[x] = op[x]
           /\ op[t].req.kind # "none" /\ ReqOK(op[t].req) /\ Busy(t)
           /\ s \in Seeds
<1>0. OpOK(t, op[t]) /\ op \in [Threads -> Op] /\ op[t].waiting \subseteq Seeds
  BY ZenonT(30) DEF OpsOK, Op
<1>1. op'[t].ok + Cardinality(op'[t].waiting) <= Cardinality(Seeds)
  <2>1. IsFiniteSet(op[t].waiting)
    BY <1>0, ClusterAssumption, FS_Subset, ZenonT(30)
  <2>2. Cardinality(op[t].waiting \ {s}) = Cardinality(op[t].waiting) - 1
    BY <2>1, FS_RemoveElement, Zenon
  <2>3. Cardinality(op[t].waiting) \in Nat
    BY <2>1, FS_CardinalityType, ZenonT(30)
  <2>4. op[t].ok + Cardinality(op[t].waiting) <= Cardinality(Seeds)
    BY <1>0, ZenonT(30) DEF OpOK
  <2>5. op[t].ok \in Nat
    BY <1>0, ZenonT(30) DEF Op
  <2>6. op'[t].waiting = op[t].waiting \ {s} /\ op'[t].ok \in {op[t].ok, op[t].ok + 1}
    BY ZenonT(30) DEF Outcome
  <2>. QED  BY <2>2, <2>3, <2>4, <2>5, <2>6, Constants
<1>2. OpOK(t, op'[t])
  BY <1>0, <1>1, ZenonT(30) DEF OpOK, Outcome
<1>3. OpsOK'
  BY <1>2, ZenonT(30) DEF OpsOK, Outcome
<1>4. Busy(t)
  BY IdleFields, ZenonT(30) DEF Busy
<1>. QED  BY <1>0, <1>3, <1>4, ZenonT(30) DEF OpOK, Outcome

(* A seed handles a request.                                               *)
LEMMA HandledTypes ==
    ASSUME store \in [Seeds -> Registry], NEW s \in Seeds,
           NEW req, ReqOK(req), req.kind # "none",
           store' = [store EXCEPT ![s] = applied(@, req)]
    PROVE  store' \in [Seeds -> Registry]
<1>1. store[s] \in Registry
  BY ZenonT(30)
<1>2. Ids # {} => applied(store[s], req) \in Registry
  BY <1>1, AppliedEffect, ZenonT(30)
<1>3. Ids = {} => applied(store[s], req) \in Registry
  <2>. SUFFICES ASSUME Ids = {} PROVE applied(store[s], req) \in Registry
    BY ZenonT(30)
  <2>1. req.kind \in {"renew", "renew node", "deregister"}
    BY Zenon DEF ReqOK, Request
  <2>. QED  BY <2>1, Zenon DEF applied, Registry
<1>. QED  BY <1>2, <1>3, ZenonT(30)

LEMMA HeardTypes ==
    ASSUME heard \subseteq [seed: Seeds, id: Ids \ Checked, v: Versions],
           NEW s \in Seeds, NEW req, ReqOK(req), NEW good,
           heard' = HeardAfter(s, req, good)
    PROVE  heard' \subseteq [seed: Seeds, id: Ids \ Checked, v: Versions]
<1>1. CASE good /\ req.kind = "register" /\ req.id \notin Checked
  <2>1. [seed |-> s, id |-> req.id, v |-> req.v] \in [seed: Seeds, id: Ids \ Checked, v: Versions]
    BY <1>1, ZenonT(30) DEF ReqOK
  <2>. QED  BY <1>1, <2>1, ZenonT(30) DEF HeardAfter
<1>2. CASE ~(good /\ req.kind = "register" /\ req.id \notin Checked)
  BY <1>2, ZenonT(30) DEF HeardAfter
<1>. QED  BY <1>1, <1>2, ZenonT(30)

LEMMA TypeStep ==
    ASSUME TypeInv, [Next]_vars
    PROVE  TypeInv'
<1>. USE DEF counters
<1>0. /\ store \in [Seeds -> Registry] /\ hosted \in [Ids -> Versions \cup {0}]
      /\ OpsOK /\ LateOK /\ beat \in [Tickers -> 0 .. Heartbeat]
      /\ heard \subseteq [seed: Seeds, id: Ids \ Checked, v: Versions]
      /\ gone \subseteq Ids
  BY ZenonT(30) DEF TypeInv
<1>1. ASSUME NEW req, ReqOK(req), req.kind \notin {"none", "renew"}, AppCall(req)
      PROVE  TypeInv'
  <2>1. OpsOK'
    BY <1>0, <1>1, Started, Constants, ZenonT(30) DEF AppCall
  <2>. QED  BY <1>0, <1>1, <2>1, ZenonT(30) DEF AppCall, TypeInv, LateOK
<1>2. CASE renewOnce
  <2>1. beat' \in [Tickers -> 0 .. Heartbeat]
    BY <1>0, <1>2, Constants DEF renewOnce, Fire
  <2>2. OpsOK'
    <3>. DEFINE ids == {id \in Ids \ Checked : hosted[id] # 0}
    <3>1. CASE ids = {}
      BY <1>0, <1>2, <3>1, ZenonT(30) DEF renewOnce, renewAll, renewIds, OpsOK
    <3>2. CASE ids # {}
      <4>1. PICK order \in Bijection(1 .. Cardinality(ids), ids) : Start("renew", Renew(order))
        BY <1>2, <3>2, ZenonT(30) DEF renewOnce, renewAll, renewIds
      <4>2. IsFiniteSet(ids) /\ ids \subseteq Ids
        BY ClusterAssumption, FS_Subset, ZenonT(30)
      <4>. HIDE DEF ids
      <4>3. order \in Seq(Ids)
        BY <4>2, Permuted
      <4>. QED  BY <1>0, <4>1, <4>3, RequestsOK, Started, Constants, Zenon
    <3>. QED  BY <3>1, <3>2, ZenonT(30)
  <2>. QED  BY <1>0, <1>2, <2>1, <2>2, ZenonT(30) DEF renewOnce, TypeInv, LateOK
<1>3. ASSUME NEW id \in Checked, ProbePasses(id) \/ ProbeFails(id)
      PROVE  TypeInv'
  <2>1. beat' \in [Tickers -> 0 .. Heartbeat]
    BY <1>0, <1>3, Constants DEF ProbePasses, ProbeFails, Fire
  <2>2. OpsOK'
    <3>1. CASE op' = op
      BY <1>0, <3>1, ZenonT(30) DEF OpsOK
    <3>2. CASE hosted[id] # 0 /\ Start(id, Register(id, hosted[id]))
      <4>1. hosted[id] \in Versions /\ id \in Ids /\ id \in Threads /\ id # "app" /\ id # "renew"
        BY <1>0, <1>3, <3>2, Constants, ZenonT(30)
      <4>2. /\ ReqOK(Register(id, hosted[id])) /\ Register(id, hosted[id]).id = id
            /\ Register(id, hosted[id]).kind = "register"
        BY <4>1, RequestsOK, Zenon
      <4>3. Register(id, hosted[id]).kind # "none" /\ Start(id, Register(id, hosted[id]))
        BY <3>2, <4>2, ZenonT(30)
      <4>. QED  BY <1>0, <4>1, <4>2, <4>3, Started, Zenon
    <3>. QED  BY <1>3, <3>1, <3>2, ZenonT(30) DEF ProbePasses, ProbeFails, KeepAlive
  <2>. QED
    BY <1>0, <1>3, <2>1, <2>2, ZenonT(30) DEF ProbePasses, ProbeFails, TypeInv, LateOK
<1>4. ASSUME NEW t \in Threads, NEW s \in Seeds,
             Answer(t, s) \/ AnswerLost(t, s) \/ Timeout(t, s)
      PROVE  TypeInv'
  <2>1. OpsOK' /\ op[t].req.kind # "none" /\ ReqOK(op[t].req)
    BY <1>0, <1>4, Outcomes, OutcomeEffect, ZenonT(30)
  <2>2. store' \in [Seeds -> Registry]
    BY <1>0, <1>4, <2>1, HandledTypes, Zenon DEF Answer, AnswerLost, Timeout
  <2>3. heard' \subseteq [seed: Seeds, id: Ids \ Checked, v: Versions]
    <3>1. CASE Answer(t, s)
      BY <1>0, <2>1, <3>1, HeardTypes, ZenonT(30) DEF Answer
    <3>2. CASE AnswerLost(t, s)
      BY <1>0, <3>2, <2>1, HeardTypes, Zenon DEF AnswerLost
    <3>3. CASE Timeout(t, s)
      BY <1>0, <3>3, ZenonT(30) DEF Timeout
    <3>. QED  BY <1>4, <3>1, <3>2, <3>3, ZenonT(30)
  <2>4. LateOK'
    <3>1. CASE late' = late
      BY <1>0, <3>1, ZenonT(30) DEF LateOK
    <3>2. CASE late' = late \cup {[seed |-> s, req |-> op[t].req]}
      BY <1>0, <2>1, <3>2 DEF LateOK
    <3>. QED  BY <1>4, <3>1, <3>2, Zenon DEF Answer, AnswerLost, Timeout
  <2>. QED
    BY <1>0, <1>4, <2>1, <2>2, <2>3, <2>4, Zenon DEF Answer, AnswerLost, Timeout, TypeInv
<1>5. ASSUME NEW r \in late, HandleLate(r)
      PROVE  TypeInv'
  <2>1. r.seed \in Seeds /\ ReqOK(r.req) /\ r.req.kind # "none"
    BY <1>0, ZenonT(30) DEF LateOK
  <2>2. store' \in [Seeds -> Registry]
    BY <1>0, <1>5, <2>1, HandledTypes, Zenon DEF HandleLate
  <2>3. heard' \subseteq [seed: Seeds, id: Ids \ Checked, v: Versions]
    BY <1>0, <1>5, <2>1, HeardTypes, Zenon DEF HandleLate
  <2>4. LateOK' /\ OpsOK'
    BY <1>0, <1>5, ZenonT(30) DEF HandleLate, LateOK, OpsOK
  <2>. QED  BY <1>0, <1>5, <2>2, <2>3, <2>4, Zenon DEF HandleLate, TypeInv
<1>6. ASSUME NEW t \in Threads, Finish(t)
      PROVE  TypeInv'
  <2>1. OpsOK'
    BY <1>0, <1>6, IdleFields, OpsSet, Zenon DEF Finish
  <2>2. ReqOK(op[t].req)
    BY <1>0, ZenonT(30) DEF OpsOK, OpOK
  <2>3. hostedAfter(op[t]) \in [Ids -> Versions \cup {0}]
    BY <1>0, <2>2, Zenon DEF hostedAfter, ReqOK
  <2>4. gone' \subseteq Ids
    BY <1>0, <1>6, <2>2, Zenon DEF Finish, ReqOK
  <2>. QED  BY <1>0, <1>6, <2>1, <2>3, <2>4, Zenon DEF Finish, TypeInv, LateOK
<1>7. ASSUME NEW s \in Seeds, RestartSeed(s)
      PROVE  TypeInv'
  <2>1. [id \in Ids |-> Absent] \in Registry
    BY AbsentFields, ZenonT(30) DEF Registry
  <2>2. store' \in [Seeds -> Registry]
    BY <1>0, <1>7, <2>1, ZenonT(30) DEF RestartSeed
  <2>. QED  BY <1>0, <1>7, <2>2, ZenonT(30) DEF RestartSeed, TypeInv, LateOK, OpsOK
<1>8. CASE CrashAgent
  <2>1. OpsOK'
    BY <1>8, IdleFields, ZenonT(30) DEF CrashAgent, OpsOK, OpOK
  <2>2. LateOK'
    <3>1. \A t \in Threads : \A s \in op[t].waiting :
            s \in Seeds /\ ReqOK(op[t].req) /\ op[t].req.kind # "none"
      BY <1>0, ZenonT(30) DEF OpsOK, OpOK, Op
    <3>. QED  BY <1>0, <1>8, <3>1 DEF CrashAgent, LateOK
  <2>3. beat' \in [Tickers -> 0 .. Heartbeat] /\ hosted' \in [Ids -> Versions \cup {0}]
    BY <1>8, Constants DEF CrashAgent
  <2>. QED  BY <1>0, <1>8, <2>1, <2>2, <2>3, ZenonT(30) DEF CrashAgent, TypeInv
<1>9. ASSUME NEW s \in Seeds, GC(s)
      PROVE  TypeInv'
  <2>1. store[s] \in Registry
    BY <1>0, ZenonT(30)
  <2>2. [id \in Ids |-> IF store[s][id].left = 0 THEN Absent ELSE store[s][id]] \in Registry
    BY <2>1, AbsentFields, ZenonT(30) DEF Registry
  <2>3. store' \in [Seeds -> Registry]
    BY <1>0, <1>9, <2>2, ZenonT(30) DEF GC
  <2>. QED  BY <1>0, <1>9, <2>3, ZenonT(30) DEF GC, TypeInv, LateOK, OpsOK
<1>10. CASE Tick
  <2>1. store' \in [Seeds -> Registry]
    <3>1. ASSUME NEW s \in Seeds, NEW id \in Ids
          PROVE  (IF store[s][id].left = 0 THEN store[s][id]
                  ELSE [store[s][id] EXCEPT !.left = @ - 1])
                 \in [v: Versions \cup {0}, left: 0 .. TTL]
      <4>1. store[s][id] \in [v: Versions \cup {0}, left: 0 .. TTL]
        BY <1>0, ZenonT(30) DEF Registry
      <4>. QED  BY <4>1, Constants
    <3>. QED  BY <1>10, <3>1, ZenonT(30) DEF Tick, Registry
  <2>2. OpsOK'
    <3>1. ASSUME NEW t \in Threads
          PROVE  OpOK(t, op'[t])
      <4>1. CASE ~Busy(t)
        BY <1>10, <4>1, IdleFields, ZenonT(30) DEF Tick
      <4>2. CASE Busy(t)
        <5>1. op'[t] = [op[t] EXCEPT !.age = @ + 1] /\ op[t].age < OpTime
          BY <1>10, <4>2, ZenonT(30) DEF Tick
        <5>2. op[t] \in Op /\ OpOK(t, op[t])
          BY <1>0, ZenonT(30) DEF OpsOK
        <5>3. /\ op'[t] \in Op /\ op'[t].req = op[t].req /\ op'[t].ok = op[t].ok
              /\ op'[t].waiting = op[t].waiting /\ op'[t].age <= OpTime
          BY <5>1, <5>2, Constants DEF Op
        <5>. QED  BY <5>2, <5>3, ZenonT(30) DEF OpOK
      <4>. QED  BY <4>1, <4>2, ZenonT(30)
    <3>2. \A t \in Threads : op'[t] \in Op
      BY <3>1, ZenonT(30) DEF OpOK
    <3>3. op' \in [Threads -> Op]
      BY <1>10, <3>2, ZenonT(30) DEF Tick
    <3>. QED  BY <3>1, <3>3, ZenonT(30) DEF OpsOK
  <2>3. beat' \in [Tickers -> 0 .. Heartbeat]
    <3>1. ASSUME NEW t \in Tickers
          PROVE  (IF beat[t] = Heartbeat THEN Heartbeat ELSE beat[t] + 1) \in 0 .. Heartbeat
      BY <1>0, Constants
    <3>2. beat' = [t \in Tickers |-> IF beat[t] = Heartbeat THEN Heartbeat ELSE beat[t] + 1]
      BY <1>10, ZenonT(30) DEF Tick
    <3>. QED  BY <3>1, <3>2, ZenonT(30)
  <2>. QED  BY <1>0, <1>10, <2>1, <2>2, <2>3, ZenonT(30) DEF Tick, TypeInv, LateOK
<1>11. CASE UNCHANGED vars
  BY <1>0, <1>11, ZenonT(30) DEF vars, TypeInv, OpsOK, LateOK
<1>12. CASE \/ \E id \in Ids, v \in Versions : AppCall(Register(id, v))
            \/ \E id \in Ids : AppCall(DeregisterService(id))
            \/ AppCall(Deregister) \/ AppCall(RenewNode)
  BY <1>1, <1>12, RequestsOK, Zenon
<1>. QED
  BY <1>2, <1>3, <1>4, <1>5, <1>6, <1>7, <1>8, <1>9, <1>10, <1>11, <1>12, ZenonT(30) DEF Next

LEMMA InitTypes == Init => TypeInv
<1>. SUFFICES ASSUME Init PROVE TypeInv
  BY ZenonT(30)
<1>1. store \in [Seeds -> Registry]
  BY AbsentFields, ZenonT(30) DEF Init, Registry
<1>2. OpsOK
  BY IdleFields, ZenonT(30) DEF Init, OpsOK, OpOK
<1>. QED  BY <1>1, <1>2, Constants DEF Init, TypeInv, LateOK

(* Leases, requests and fan-outs are well typed, and no fan-out counts     *)
(* more answers than there are seeds.                                      *)
THEOREM TypeInvariant == Spec => [](TypeInv /\ TypeOK)
<1>1. TypeInv => TypeOK
  <2>. SUFFICES ASSUME TypeInv PROVE TypeOK
    BY ZenonT(30)
  <2>1. store \in [Seeds -> [Ids -> [v: Versions \cup {0}, left: 0 .. TTL]]]
    BY ZenonT(30) DEF TypeInv, Registry
  <2>2. ASSUME NEW t \in Threads
        PROVE  /\ op[t].req \in Request /\ op[t].waiting \subseteq Seeds
               /\ op[t].ok \in 0 .. Cardinality(Seeds) /\ op[t].age \in 0 .. OpTime
    <3>1. OpOK(t, op[t]) /\ op[t] \in Op
      BY ZenonT(30) DEF TypeInv, OpsOK
    <3>2. op[t].waiting \subseteq Seeds /\ op[t].ok \in Nat /\ op[t].age \in Nat
      BY <3>1, ZenonT(30) DEF Op
    <3>3. Cardinality(op[t].waiting) \in Nat
      BY <3>2, ClusterAssumption, FS_Subset, FS_CardinalityType, ZenonT(30)
    <3>4. op[t].ok + Cardinality(op[t].waiting) <= Cardinality(Seeds)
          /\ op[t].age <= OpTime /\ op[t].req \in Request
      BY <3>1, Zenon DEF OpOK, ReqOK
    <3>. QED  BY <3>2, <3>3, <3>4, Constants
  <2>3. \A r \in late : r.seed \in Seeds /\ r.req \in Request
    BY Zenon DEF TypeInv, LateOK, ReqOK
  <2>. QED  BY <2>1, <2>2, <2>3, ZenonT(30) DEF TypeInv, TypeOK
<1>2. TypeInv /\ [Next]_vars => TypeInv'
  BY TypeStep, ZenonT(30)
<1>. QED  BY InitTypes, <1>1, <1>2, PTL DEF Spec
-----------------------------------------------------------------------------
(* What was removed stays removed.                                         *)

(* No request brings back what was on no seed and is not registered.       *)
LEMMA StaysAway ==
    ASSUME TypeInv, NEW s \in Seeds, NEW req, ReqOK(req), req.kind # "none",
           store' = [store EXCEPT ![s] = applied(@, req)], NEW id \in Ids,
           \A x \in Seeds : ~Has(store[x], id),
           ~(req.kind = "register" /\ req.id = id)
    PROVE  \A x \in Seeds : ~Has(store'[x], id)
<1>1. store \in [Seeds -> Registry] /\ store[s] \in Registry
  BY ZenonT(30) DEF TypeInv
<1>2. ~Has(applied(store[s], req), id)
  BY <1>1, AppliedEffect, ZenonT(30)
<1>. QED  BY <1>1, <1>2, ZenonT(30)

LEMMA GoneStep ==
    ASSUME TypeInv, GoneInv, [Next]_vars
    PROVE  GoneInv'
<1>. USE DEF counters
<1>0. /\ store \in [Seeds -> Registry] /\ gone \subseteq Ids /\ OpsOK /\ LateOK
      /\ op \in [Threads -> Op] /\ hosted \in [Ids -> Versions \cup {0}]
  BY ZenonT(30) DEF TypeInv, OpsOK
<1>1. ASSUME NEW req, ReqOK(req), req.kind # "none", AppCall(req)
      PROVE  GoneInv'
  <2>1. op' = [op EXCEPT !["app"] = Running(req)] /\ Running(req).req = req
    BY <1>1, RunningFields, ZenonT(30) DEF AppCall, Start
  <2>2. \A t \in Threads : op'[t].req = IF t = "app" THEN req ELSE op[t].req
    BY <1>0, <2>1, ZenonT(30)
  <2>. QED  BY <1>1, <2>2, ZenonT(30) DEF AppCall, GoneInv
<1>2. CASE renewOnce
  <2>1. \A t \in Threads : op'[t].req = op[t].req \/ op'[t].req.kind = "renew"
    <3>. DEFINE ids == {id \in Ids \ Checked : hosted[id] # 0}
    <3>1. CASE ids = {}
      BY <1>2, <3>1, ZenonT(30) DEF renewOnce, renewAll, renewIds
    <3>2. CASE ids # {}
      <4>1. PICK order \in Bijection(1 .. Cardinality(ids), ids) : Start("renew", Renew(order))
        BY <1>2, <3>2, ZenonT(30) DEF renewOnce, renewAll, renewIds
      <4>2. IsFiniteSet(ids) /\ ids \subseteq Ids
        BY ClusterAssumption, FS_Subset, ZenonT(30)
      <4>. HIDE DEF ids
      <4>3. order \in Seq(Ids)
        BY <4>2, Permuted
      <4>4. ReqOK(Renew(order)) /\ Renew(order).kind = "renew"
        BY <4>3, RequestsOK, Zenon
      <4>5. Running(Renew(order)).req.kind = "renew"
        BY <4>4, RunningFields, ZenonT(30)
      <4>. QED  BY <1>0, <4>1, <4>5, ZenonT(30) DEF Start
    <3>. QED  BY <3>1, <3>2, ZenonT(30)
  <2>. QED  BY <1>2, <2>1 DEF renewOnce, GoneInv
<1>3. ASSUME NEW i \in Checked, ProbePasses(i) \/ ProbeFails(i)
      PROVE  GoneInv'
  <2>1. CASE op' = op
    BY <1>3, <2>1, ZenonT(30) DEF ProbePasses, ProbeFails, GoneInv
  <2>2. CASE hosted[i] # 0 /\ Start(i, Register(i, hosted[i]))
    <3>1. hosted[i] \in Versions /\ i \in Ids /\ i \in Threads
      BY <1>0, <1>3, <2>2, Constants, ZenonT(30)
    <3>2. /\ ReqOK(Register(i, hosted[i])) /\ Register(i, hosted[i]).id = i
          /\ Register(i, hosted[i]).kind = "register"
      BY <3>1, RequestsOK, Zenon
    <3>5. Running(Register(i, hosted[i])).req.id = i
      BY <3>2, RunningFields, ZenonT(30)
    <3>3. \A t \in Threads : op'[t].req = op[t].req \/ op'[t].req.id = i
      BY <1>0, <2>2, <3>5, ZenonT(30) DEF Start
    <3>4. i \notin gone
      BY <2>2, ZenonT(30) DEF GoneInv
    <3>. QED  BY <1>3, <3>3, <3>4 DEF ProbePasses, ProbeFails, GoneInv
  <2>. QED  BY <1>3, <2>1, <2>2, ZenonT(30) DEF ProbePasses, ProbeFails, KeepAlive
<1>4. ASSUME NEW t \in Threads, NEW s \in Seeds,
             Answer(t, s) \/ AnswerLost(t, s) \/ Timeout(t, s)
      PROVE  GoneInv'
  <2>1. ReqOK(op[t].req) /\ op[t].req.kind # "none"
        /\ \A x \in Threads : op'[x].req = op[x].req
    BY <1>0, <1>4, Outcomes, OutcomeEffect, ZenonT(30)
  <2>2. hosted' = hosted /\ gone' = gone
    BY <1>4, Zenon DEF Answer, AnswerLost, Timeout
  <2>3. ASSUME NEW id \in gone
        PROVE  \A x \in Seeds : ~Has(store'[x], id)
    BY <1>0, <1>4, <2>1, <2>3, StaysAway, Zenon DEF Answer, AnswerLost, Timeout, GoneInv
  <2>4. ASSUME NEW id \in gone, NEW r \in late'
        PROVE  ~(r.req.kind = "register" /\ r.req.id = id)
    <3>1. r \in late \/ r = [seed |-> s, req |-> op[t].req]
      BY <1>4, <2>4, Zenon DEF Answer, AnswerLost, Timeout
    <3>. QED  BY <2>4, <3>1 DEF GoneInv
  <2>. QED  BY <2>1, <2>2, <2>3, <2>4, ZenonT(30) DEF GoneInv
<1>5. ASSUME NEW r \in late, HandleLate(r)
      PROVE  GoneInv'
  <2>1. r.seed \in Seeds /\ ReqOK(r.req) /\ r.req.kind # "none"
    BY <1>0, ZenonT(30) DEF LateOK
  <2>2. ASSUME NEW id \in gone
        PROVE  \A x \in Seeds : ~Has(store'[x], id)
    BY <1>0, <1>5, <2>1, <2>2, StaysAway, Zenon DEF HandleLate, GoneInv
  <2>. QED  BY <1>5, <2>2, ZenonT(30) DEF HandleLate, GoneInv
<1>6. ASSUME NEW t \in Threads, Finish(t)
      PROVE  GoneInv'
  <2>1. \A x \in Threads : op'[x].req = IF x = t THEN NoRequest ELSE op[x].req
    BY <1>0, <1>6, IdleFields, Zenon DEF Finish
  <2>2. store' = store /\ late' = late
    BY <1>6, Zenon DEF Finish
  <2>3. ReqOK(op[t].req) /\ (op[t].req.kind = "deregister service" => t = "app")
    BY <1>0, Zenon DEF OpsOK, OpOK, Threads
  <2>4. ASSUME NEW id \in gone
        PROVE  hosted'[id] = 0
    BY <1>0, <1>6, <2>3, <2>4, Zenon DEF Finish, hostedAfter, GoneInv, ReqOK
  <2>5. ASSUME NEW id \in gone', id \notin gone
        PROVE  /\ \A s \in Seeds : ~Has(store[s], id)
               /\ hosted'[id] = 0
               /\ \A x \in Threads \ {t} : ~(op[x].req.kind = "register" /\ op[x].req.id = id)
               /\ \A r \in late : ~(r.req.kind = "register" /\ r.req.id = id)
    <3>1. /\ op[t].req.kind = "deregister service" /\ id = op[t].req.id
          /\ \A s \in Seeds : ~Has(store[s], id)
          /\ ~underWay(t, id)
      BY <1>6, <2>5, Zenon DEF Finish
    <3>2. id \in Ids
      BY <2>3, <3>1, Zenon DEF ReqOK
    <3>3. hosted' = [hosted EXCEPT ![id] = 0]
      BY <1>6, <2>3, <3>1, Zenon DEF Finish, hostedAfter
    <3>. QED  BY <1>0, <3>1, <3>2, <3>3, Zenon DEF underWay
  <2>6. ASSUME NEW id \in gone'
        PROVE  /\ \A s \in Seeds : ~Has(store'[s], id)
               /\ hosted'[id] = 0
               /\ \A x \in Threads : ~(op'[x].req.kind = "register" /\ op'[x].req.id = id)
               /\ \A r \in late' : ~(r.req.kind = "register" /\ r.req.id = id)
    <3>0. NoRequest.kind # "register"
      BY RequestsOK, Zenon
    <3>1. CASE id \in gone
      <4>1. /\ \A s \in Seeds : ~Has(store[s], id)
            /\ \A x \in Threads : ~(op[x].req.kind = "register" /\ op[x].req.id = id)
            /\ \A r \in late : ~(r.req.kind = "register" /\ r.req.id = id)
        BY <3>1, ZenonT(30) DEF GoneInv
      <4>2. \A x \in Threads : ~(op'[x].req.kind = "register" /\ op'[x].req.id = id)
        BY <2>1, <3>0, <4>1, ZenonT(30)
      <4>. QED  BY <2>2, <2>4, <3>1, <4>1, <4>2, ZenonT(30)
    <3>2. CASE id \notin gone
      <4>1. /\ \A s \in Seeds : ~Has(store[s], id)
            /\ hosted'[id] = 0
            /\ \A x \in Threads \ {t} : ~(op[x].req.kind = "register" /\ op[x].req.id = id)
            /\ \A r \in late : ~(r.req.kind = "register" /\ r.req.id = id)
        BY <2>5, <2>6, <3>2, ZenonT(30)
      <4>2. \A x \in Threads : ~(op'[x].req.kind = "register" /\ op'[x].req.id = id)
        BY <2>1, <3>0, <4>1, ZenonT(30)
      <4>. QED  BY <2>2, <4>1, <4>2, ZenonT(30)
    <3>. QED  BY <3>1, <3>2, ZenonT(30)
  <2>. QED  BY <2>6, ZenonT(30) DEF GoneInv
<1>7. ASSUME NEW s \in Seeds, RestartSeed(s)
      PROVE  GoneInv'
  <2>1. \A x \in Seeds : \A id \in Ids : ~Has(store[x], id) => ~Has(store'[x], id)
    BY <1>0, <1>7, ZenonT(30) DEF RestartSeed, Has
  <2>. QED  BY <1>0, <1>7, <2>1, ZenonT(30) DEF RestartSeed, GoneInv
<1>8. CASE CrashAgent
  <2>1. \A x \in Threads : op'[x].req = NoRequest
    BY <1>8, IdleFields, Zenon DEF CrashAgent
  <2>2. ASSUME NEW id \in gone, NEW r \in late'
        PROVE  ~(r.req.kind = "register" /\ r.req.id = id)
    <3>1. r \in late \/ \E t \in Threads : r.req = op[t].req
      BY <1>8, <2>2 DEF CrashAgent
    <3>. QED  BY <2>2, <3>1, ZenonT(30) DEF GoneInv
  <2>. QED  BY <1>0, <1>8, <2>1, <2>2, RequestsOK, Zenon DEF CrashAgent, GoneInv
<1>9. ASSUME NEW s \in Seeds, GC(s)
      PROVE  GoneInv'
  <2>1. \A x \in Seeds : \A id \in Ids : ~Has(store[x], id) => ~Has(store'[x], id)
    BY <1>0, <1>9, ZenonT(30) DEF GC, Has
  <2>. QED  BY <1>0, <1>9, <2>1, ZenonT(30) DEF GC, GoneInv
<1>10. CASE Tick
  <2>1. \A x \in Seeds : \A id \in Ids : ~Has(store[x], id) => ~Has(store'[x], id)
    BY <1>0, <1>10, AbsentFields, ZenonT(30) DEF Tick, Has
  <2>2. \A t \in Threads : op'[t].req = op[t].req
    <3>1. \A t \in Threads : op[t] \in Op
      BY <1>0, ZenonT(30)
    <3>. QED  BY <1>10, <3>1, IdleFields, ZenonT(30) DEF Tick, Busy, Op
  <2>. QED  BY <1>0, <1>10, <2>1, <2>2 DEF Tick, GoneInv
<1>11. CASE UNCHANGED vars
  BY <1>11, ZenonT(30) DEF vars, GoneInv
<1>12. CASE \/ \E id \in Ids, v \in Versions : AppCall(Register(id, v))
            \/ \E id \in Ids : AppCall(DeregisterService(id))
            \/ AppCall(Deregister) \/ AppCall(RenewNode)
  BY <1>1, <1>12, RequestsOK, Zenon
<1>. QED
  BY <1>2, <1>3, <1>4, <1>5, <1>6, <1>7, <1>8, <1>9, <1>10, <1>11, <1>12, ZenonT(30) DEF Next

(* For any number of seeds, of services and of failures: a service that no *)
(* seed had when its removal returned, with no registration of it under    *)
(* way, stays removed until an app registers it again.                     *)
THEOREM StaysRemoved == Spec => []RemovedStaysRemoved
<1>1. Init => GoneInv
  BY ZenonT(30) DEF Init, GoneInv
<1>2. GoneInv => RemovedStaysRemoved
  BY ZenonT(30) DEF GoneInv, RemovedStaysRemoved
<1>3. TypeInv /\ GoneInv /\ [Next]_vars => GoneInv'
  BY GoneStep, ZenonT(30)
<1>. QED  BY TypeInvariant, <1>1, <1>2, <1>3, PTL DEF Spec
-----------------------------------------------------------------------------
(* The renewal of id under way has not reached s yet.                      *)
Awaited(s, id) == s \in op["renew"].waiting /\ id \in Range(op["renew"].req.ids)

(* The ticks that are left of a lease last until the next renewal: to the  *)
(* end of the one that is under way and has not arrived yet, or of the one *)
(* that starts when the loop fires again and the one under way is over.    *)
Safe(s, id) ==
    IF Awaited(s, id) THEN store[s][id].left + op["renew"].age > OpTime
    ELSE /\ store[s][id].left + beat["renew"] > Heartbeat + OpTime
         /\ Busy("renew") => store[s][id].left + op["renew"].age > 2 * OpTime

(* A registration under way that has been answered by a seed: the seed has *)
(* had it for no longer than the fan-out.                                  *)
Fresh(h) ==
    /\ op["app"].req.kind = "register" /\ op["app"].req.id = h.id
    /\ h.seed \notin op["app"].waiting
    => /\ h.v = op["app"].req.v /\ store[h.seed][h.id].v = h.v
       /\ store[h.seed][h.id].left + op["app"].age >= TTL

Secure(h) ==
    hosted[h.id] = h.v => store[h.seed][h.id].v = h.v /\ Safe(h.seed, h.id)

LeaseInv == \A h \in heard : Fresh(h) /\ Secure(h)
-----------------------------------------------------------------------------
LEMMA HeardFields ==
    ASSUME TypeInv, NEW h \in heard
    PROVE  /\ h.seed \in Seeds /\ h.id \in Ids /\ h.id \notin Checked
           /\ h.v \in Versions /\ h.v # 0
           /\ store[h.seed] \in Registry
           /\ store[h.seed][h.id].left \in Nat /\ store[h.seed][h.id].left <= TTL
BY Constants DEF TypeInv, Registry

LEMMA Clocks ==
    ASSUME TypeInv
    PROVE  /\ op["app"].age \in Nat /\ op["app"].age <= OpTime
           /\ op["renew"].age \in Nat /\ op["renew"].age <= OpTime
           /\ beat["renew"] \in Nat /\ beat["renew"] <= Heartbeat
           /\ op["app"] \in Op /\ op["renew"] \in Op
<1>1. /\ OpOK("app", op["app"]) /\ OpOK("renew", op["renew"])
      /\ beat["renew"] \in 0 .. Heartbeat
  BY Constants, ZenonT(30) DEF TypeInv, OpsOK
<1>2. op["app"] \in Op /\ op["renew"] \in Op
  BY <1>1, ZenonT(30) DEF OpOK
<1>. QED  BY <1>1, <1>2, Constants DEF OpOK, Op

(* A lease that is safe, or fresh, is not over.                            *)
LEMMA NotOver ==
    ASSUME TypeInv, NEW h \in heard
    PROVE  /\ Safe(h.seed, h.id) => store[h.seed][h.id].left > 0
           /\ store[h.seed][h.id].left + op["app"].age >= TTL
                => store[h.seed][h.id].left > OpTime + Heartbeat
<1>. DEFINE l == store[h.seed][h.id].left
            a == op["renew"].age
            b == beat["renew"]
<1>1. l \in Nat /\ a \in Nat /\ a <= OpTime /\ b \in Nat /\ b <= Heartbeat
  BY HeardFields, Clocks, ZenonT(30)
<1>2. Safe(h.seed, h.id) => l + a > OpTime \/ l + b > Heartbeat + OpTime
  BY ZenonT(30) DEF Safe
<1>3. op["app"].age \in Nat /\ op["app"].age <= OpTime
  BY Clocks, ZenonT(30)
<1>. HIDE DEF l, a, b
<1>4. Safe(h.seed, h.id) => l > 0
  BY <1>1, <1>2, Constants
<1>5. l + op["app"].age >= TTL => l > OpTime + Heartbeat
  BY <1>1, <1>3, Constants
<1>. QED  BY <1>4, <1>5, ZenonT(30) DEF l

(* A step after which a seed still has the service, with no less of its    *)
(* lease, and that changes nothing else that matters, keeps a lease safe.  *)
LEMMA SafeStays ==
    ASSUME TypeInv, NEW h \in heard, Safe(h.seed, h.id),
           op'["renew"].age = op["renew"].age, beat'["renew"] = beat["renew"],
           Awaited(h.seed, h.id)' <=> Awaited(h.seed, h.id),
           Busy("renew")' => Busy("renew"),
           store'[h.seed][h.id].left \in Nat,
           store'[h.seed][h.id].left >= store[h.seed][h.id].left
    PROVE  Safe(h.seed, h.id)'
<1>. DEFINE l == store[h.seed][h.id].left
            m == store'[h.seed][h.id].left
            a == op["renew"].age
            b == beat["renew"]
<1>1. l \in Nat /\ m \in Nat /\ m >= l /\ a \in Nat /\ b \in Nat
  BY HeardFields, Clocks, ZenonT(30)
<1>3. CASE Awaited(h.seed, h.id)
  <2>1. l + a > OpTime
    BY <1>3, ZenonT(30) DEF Safe
  <2>2. m + a > OpTime
    BY <1>1, <2>1, Constants
  <2>. QED  BY <1>3, <2>2, ZenonT(30) DEF Safe
<1>4. CASE ~Awaited(h.seed, h.id)
  <2>1. l + b > Heartbeat + OpTime /\ (Busy("renew") => l + a > 2 * OpTime)
    BY <1>4, ZenonT(30) DEF Safe
  <2>2. m + b > Heartbeat + OpTime /\ (Busy("renew") => m + a > 2 * OpTime)
    BY <1>1, <2>1, Constants
  <2>. QED  BY <1>4, <2>2, ZenonT(30) DEF Safe
<1>. QED  BY <1>3, <1>4, ZenonT(30)

LEMMA SecureStays ==
    ASSUME TypeInv, NEW h \in heard, Secure(h),
           op'["renew"] = op["renew"], beat'["renew"] = beat["renew"],
           hosted'[h.id] = hosted[h.id] \/ hosted'[h.id] # h.v,
           hosted[h.id] = h.v =>
             /\ store'[h.seed][h.id].v = store[h.seed][h.id].v
             /\ store'[h.seed][h.id].left \in Nat
             /\ store'[h.seed][h.id].left >= store[h.seed][h.id].left
    PROVE  Secure(h)'
<1>. SUFFICES ASSUME hosted'[h.id] = h.v
              PROVE  store'[h.seed][h.id].v = h.v /\ Safe(h.seed, h.id)'
  BY ZenonT(30) DEF Secure
<1>1. hosted[h.id] = h.v
  BY ZenonT(30)
<1>2. (Awaited(h.seed, h.id)' <=> Awaited(h.seed, h.id)) /\ (Busy("renew")' <=> Busy("renew"))
  BY ZenonT(30) DEF Awaited, Busy
<1>. QED  BY <1>1, <1>2, SafeStays, Zenon DEF Secure

LEMMA FreshStays ==
    ASSUME TypeInv, NEW h \in heard, Fresh(h), op'["app"] = op["app"],
           store[h.seed][h.id].left + op["app"].age >= TTL =>
             /\ store'[h.seed][h.id].v = store[h.seed][h.id].v
             /\ store'[h.seed][h.id].left \in Nat
             /\ store'[h.seed][h.id].left >= store[h.seed][h.id].left
    PROVE  Fresh(h)'
<1>. DEFINE l == store[h.seed][h.id].left
            m == store'[h.seed][h.id].left
            a == op["app"].age
<1>1. l \in Nat /\ a \in Nat
  BY HeardFields, Clocks, ZenonT(30)
<1>2. l + a >= TTL /\ m \in Nat /\ m >= l => m + a >= TTL
  BY <1>1, Constants
<1>. QED  BY <1>2, ZenonT(30) DEF Fresh

(* A request that is handled at s, and neither touches the service nor     *)
(* stops before it.                                                        *)
LEMMA Kept ==
    ASSUME TypeInv, NEW s \in Seeds, NEW req, ReqOK(req), req.kind # "none",
           store' = [store EXCEPT ![s] = applied(@, req)], NEW h \in heard,
           h.seed = s => ~touches(req, h.id) /\ ~cutShort(store[s], req, h.id)
    PROVE  /\ store'[h.seed][h.id].v = store[h.seed][h.id].v
           /\ store'[h.seed][h.id].left \in Nat
           /\ store'[h.seed][h.id].left >= store[h.seed][h.id].left
           /\ h.seed = s /\ req.kind = "renew" /\ h.id \in Range(req.ids)
                => store'[h.seed][h.id].left = TTL
<1>0. /\ h.seed \in Seeds /\ h.id \in Ids /\ store[h.seed] \in Registry
      /\ store[h.seed][h.id].left \in Nat /\ store[h.seed][h.id].left <= TTL
      /\ store \in [Seeds -> Registry]
  BY HeardFields, ZenonT(30) DEF TypeInv
<1>1. CASE h.seed # s
  <2>1. store'[h.seed] = store[h.seed]
    BY <1>0, <1>1, ZenonT(30)
  <2>. QED  BY <1>0, <1>1, <2>1
<1>2. CASE h.seed = s
  <2>1. store'[h.seed] = applied(store[h.seed], req)
    BY <1>0, <1>2, ZenonT(30)
  <2>2. \/ applied(store[h.seed], req)[h.id] = store[h.seed][h.id]
        \/ applied(store[h.seed], req)[h.id] = Lease(store[h.seed][h.id].v)
    BY <1>0, <1>2, AppliedEffect
  <2>3. req.kind = "renew" /\ h.id \in Range(req.ids) =>
          applied(store[h.seed], req)[h.id] = Lease(store[h.seed][h.id].v)
    BY <1>0, <1>2, AppliedEffect
  <2>4. /\ Lease(store[h.seed][h.id].v).v = store[h.seed][h.id].v
        /\ Lease(store[h.seed][h.id].v).left = TTL
    BY LeaseFields, ZenonT(30)
  <2>5. TTL \in Nat
    BY Constants, ZenonT(30)
  <2>6. CASE store'[h.seed][h.id] = store[h.seed][h.id]
    <3>1. req.kind = "renew" /\ h.id \in Range(req.ids) => store'[h.seed][h.id].left = TTL
      BY <2>1, <2>3, <2>4, ZenonT(30)
    <3>2. store[h.seed][h.id].left >= store[h.seed][h.id].left
      BY <1>0
    <3>. QED  BY <1>0, <2>6, <3>1, <3>2, Zenon
  <2>7. CASE store'[h.seed][h.id] = Lease(store[h.seed][h.id].v)
    BY <1>0, <2>4, <2>5, <2>7, ZenonT(30)
  <2>. QED  BY <2>1, <2>2, <2>6, <2>7, ZenonT(30)
<1>. QED  BY <1>1, <1>2, Zenon

LEMMA FullIsSafe ==
    ASSUME NEW s, NEW id, TypeInv', store'[s][id].left = TTL
    PROVE  Safe(s, id)'
<1>. DEFINE a == op'["renew"].age
            b == beat'["renew"]
<1>0. OpOK("renew", op["renew"])' /\ b \in 0 .. Heartbeat
  BY Constants, ZenonT(30) DEF TypeInv, OpsOK
<1>1. a \in Nat /\ b \in Nat
  BY <1>0, Constants DEF OpOK, Op
<1>. HIDE DEF a, b
<1>2. TTL + a > OpTime /\ TTL + b > Heartbeat + OpTime /\ TTL + a > 2 * OpTime
  BY <1>1, Constants
<1>. QED  BY <1>2, ZenonT(30) DEF Safe, a, b

(* The outcome of a fan-out at a seed is known.                            *)
LEMMA LeaseOutcome ==
    ASSUME TypeInv, TypeInv', LeaseInv, NEW t \in Threads, NEW s \in Seeds,
           Answer(t, s) \/ AnswerLost(t, s) \/ Timeout(t, s)
    PROVE  LeaseInv'
<1>. DEFINE req == op[t].req
<1>0. OpsOK /\ OpOK(t, op[t]) /\ store \in [Seeds -> Registry]
  BY ZenonT(30) DEF TypeInv, OpsOK
<1>1. /\ op'[t].req = op[t].req /\ op'[t].age = op[t].age
      /\ op'[t].waiting = op[t].waiting \ {s} /\ s \in op[t].waiting
      /\ \A x \in Threads \ {t} : op'[x] = op[x]
      /\ ReqOK(req) /\ req.kind # "none" /\ Busy(t)
  BY <1>0, Outcomes, OutcomeEffect, Zenon
<1>2. hosted' = hosted /\ beat' = beat
  <2>1. CASE Answer(t, s)
    BY <2>1, ZenonT(30) DEF Answer
  <2>2. CASE AnswerLost(t, s)
    BY <2>2, ZenonT(30) DEF AnswerLost
  <2>3. CASE Timeout(t, s)
    BY <2>3, ZenonT(30) DEF Timeout
  <2>. QED  BY <2>1, <2>2, <2>3, ZenonT(30)
<1>3. ASSUME NEW h \in heard,
             h.seed = s => /\ ~touches(req, h.id) /\ ~cutShort(store[s], req, h.id)
                           /\ ~Timeout(t, s)
      PROVE  Fresh(h)' /\ Secure(h)'
  <2>1. /\ store'[h.seed][h.id].v = store[h.seed][h.id].v
        /\ store'[h.seed][h.id].left \in Nat
        /\ store'[h.seed][h.id].left >= store[h.seed][h.id].left
        /\ h.seed = s /\ req.kind = "renew" /\ h.id \in Range(req.ids)
             => store'[h.seed][h.id].left = TTL
    <3>1. CASE Timeout(t, s)
      BY <1>3, <3>1, HeardFields DEF Timeout
    <3>2. CASE Answer(t, s) \/ AnswerLost(t, s)
      <4>1. store' = [store EXCEPT ![s] = applied(@, req)]
        <5>1. CASE Answer(t, s)
          BY <5>1, ZenonT(30) DEF Answer
        <5>2. CASE AnswerLost(t, s)
          BY <5>2, ZenonT(30) DEF AnswerLost
        <5>. QED  BY <3>2, <5>1, <5>2, ZenonT(30)
      <4>2. h.seed = s => ~touches(req, h.id) /\ ~cutShort(store[s], req, h.id)
        BY <1>3, ZenonT(30)
      <4>3. ReqOK(req) /\ req.kind # "none" /\ h \in heard
        BY <1>1, <1>3, ZenonT(30)
      <4>. HIDE DEF req
      <4>. QED  BY <4>1, <4>2, <4>3, Kept, Zenon
    <3>. QED  BY <3>1, <3>2, ZenonT(30)
  <2>2. Fresh(h) /\ Secure(h)
    BY <1>3, ZenonT(30) DEF LeaseInv
  <2>3. CASE t = "app"
    <3>1. op'["renew"] = op["renew"]
      BY <1>1, <2>3, Constants, ZenonT(30)
    <3>2. Secure(h)'
      BY <1>2, <2>1, <2>2, <3>1, SecureStays, Zenon
    <3>3. ASSUME op'["app"].req.kind = "register", op'["app"].req.id = h.id,
                 h.seed \notin op'["app"].waiting
          PROVE  Fresh(h)'
      <4>1. h.seed # s
        BY <1>1, <1>3, <2>3, <3>3, ZenonT(30) DEF touches
      <4>2. h.seed \notin op["app"].waiting
        BY <1>1, <2>3, <3>3, <4>1, ZenonT(30)
      <4>3. /\ h.v = op["app"].req.v /\ store[h.seed][h.id].v = h.v
            /\ store[h.seed][h.id].left + op["app"].age >= TTL
        BY <1>1, <2>2, <2>3, <3>3, <4>2, ZenonT(30) DEF Fresh
      <4>4. store'[h.seed][h.id].left + op["app"].age >= TTL
        <5>1. store[h.seed][h.id].left \in Nat /\ op["app"].age \in Nat
          BY HeardFields, Clocks, ZenonT(30)
        <5>2. /\ store'[h.seed][h.id].left \in Nat
              /\ store'[h.seed][h.id].left >= store[h.seed][h.id].left
          BY <2>1, ZenonT(30)
        <5>. QED  BY <4>3, <5>1, <5>2, Constants
      <4>. QED  BY <1>1, <2>1, <2>3, <4>3, <4>4, Zenon DEF Fresh
    <3>4. Fresh(h)'
      BY <3>3, ZenonT(30) DEF Fresh
    <3>. QED  BY <3>2, <3>4, ZenonT(30)
  <2>4. CASE t = "renew"
    <3>1. op'["app"] = op["app"] /\ req.kind = "renew"
      BY <1>0, <1>1, <2>4, Constants, ZenonT(30) DEF OpOK
    <3>2. Fresh(h)'
      BY <2>1, <2>2, <3>1, FreshStays, Zenon
    <3>3. ASSUME hosted[h.id] = h.v
          PROVE  Safe(h.seed, h.id)'
      <4>1. CASE h.seed = s /\ h.id \in Range(req.ids)
        BY <2>1, <3>1, <4>1, FullIsSafe, ZenonT(30)
      <4>2. CASE ~(h.seed = s /\ h.id \in Range(req.ids))
        <5>1. Awaited(h.seed, h.id)' <=> Awaited(h.seed, h.id)
          BY <1>1, <2>4, <4>2, ZenonT(30) DEF Awaited
        <5>2. Safe(h.seed, h.id)
          BY <2>2, <3>3, ZenonT(30) DEF Secure
        <5>. QED  BY <1>1, <1>2, <2>1, <2>4, <5>1, <5>2, SafeStays, Zenon
      <4>. QED  BY <4>1, <4>2, ZenonT(30)
    <3>4. Secure(h)'
      BY <1>2, <2>1, <2>2, <3>3, ZenonT(30) DEF Secure
    <3>. QED  BY <3>2, <3>4, ZenonT(30)
  <2>5. CASE t # "app" /\ t # "renew"
    <3>1. op'["app"] = op["app"] /\ op'["renew"] = op["renew"]
      BY <1>1, <2>5, Constants, ZenonT(30)
    <3>2. Secure(h)'
      BY <1>2, <2>1, <2>2, <3>1, SecureStays, Zenon
    <3>. QED  BY <2>1, <2>2, <3>1, <3>2, FreshStays, Zenon
  <2>. QED  BY <2>3, <2>4, <2>5, ZenonT(30)
<1>4. ASSUME Answer(t, s), req.kind = "register", req.id \notin Checked, NEW h,
             h = [seed |-> s, id |-> req.id, v |-> req.v]
      PROVE  Fresh(h)' /\ Secure(h)'
  <2>1. t = "app"
    BY <1>0, <1>4, Constants, ZenonT(30) DEF OpOK
  <2>2. h.seed = s /\ h.id = req.id /\ h.v = req.v /\ h.id \in Ids
    BY <1>1, <1>4, Zenon DEF ReqOK
  <2>3. store'[h.seed][h.id] = Lease(req.v)
    <3>1. store' = [store EXCEPT ![s] = applied(@, req)]
      BY <1>4, ZenonT(30) DEF Answer
    <3>2. applied(store[s], req)[h.id] = Lease(req.v)
      BY <1>0, <1>1, <1>4, <2>2, AppliedEffect
    <3>. QED  BY <1>0, <2>2, <3>1, <3>2, ZenonT(30)
  <2>4. store'[h.seed][h.id].v = h.v /\ store'[h.seed][h.id].left = TTL
    BY <2>2, <2>3, LeaseFields, ZenonT(30)
  <2>5. Safe(h.seed, h.id)'
    BY <2>4, FullIsSafe, ZenonT(30)
  <2>6. store'[h.seed][h.id].left + op'["app"].age >= TTL
    BY <1>1, <2>1, <2>4, Clocks, Constants
  <2>. QED  BY <1>1, <2>1, <2>2, <2>4, <2>5, <2>6, ZenonT(30) DEF Fresh, Secure
<1>5. ASSUME NEW h \in heard'
      PROVE  \/ h \in heard /\ (h.seed = s => /\ ~touches(req, h.id) /\ ~cutShort(store[s], req, h.id)
                                              /\ ~Timeout(t, s))
             \/ /\ Answer(t, s) /\ req.kind = "register" /\ req.id \notin Checked
                /\ h = [seed |-> s, id |-> req.id, v |-> req.v]
  <2>1. CASE Timeout(t, s)
    BY <1>5, <2>1, ZenonT(30) DEF Timeout
  <2>2. CASE Answer(t, s) /\ ~Timeout(t, s)
    BY <1>5, <2>2, ZenonT(30) DEF Answer, HeardAfter
  <2>3. CASE AnswerLost(t, s) /\ ~Timeout(t, s)
    BY <1>5, <2>3, ZenonT(30) DEF AnswerLost, HeardAfter
  <2>. QED  BY <2>1, <2>2, <2>3, Zenon
<1>. HIDE DEF req
<1>. QED  BY <1>3, <1>4, <1>5, ZenonT(30) DEF LeaseInv

(* A renewal starts: what is hosted under the version of h is in it.       *)
LEMMA LeaseRenew ==
    ASSUME TypeInv, LeaseInv, renewOnce
    PROVE  LeaseInv'
<1>. DEFINE ids == {id \in Ids \ Checked : hosted[id] # 0}
<1>0. /\ op \in [Threads -> Op] /\ beat \in [Tickers -> 0 .. Heartbeat]
      /\ store' = store /\ hosted' = hosted /\ heard' = heard
      /\ op["renew"] = Idle /\ beat["renew"] = Heartbeat
  BY ZenonT(30) DEF renewOnce, Fire, Busy, TypeInv, OpsOK
<1>1. op'["app"] = op["app"]
  BY <1>0, Constants, Zenon DEF renewOnce, renewAll, renewIds, Start
<1>. SUFFICES ASSUME NEW h \in heard PROVE Fresh(h)' /\ Secure(h)'
  BY <1>0, ZenonT(30) DEF LeaseInv
<1>2. Fresh(h)'
  BY <1>0, <1>1, ZenonT(30) DEF LeaseInv, Fresh
<1>3. ASSUME hosted[h.id] = h.v
      PROVE  store[h.seed][h.id].v = h.v /\ Safe(h.seed, h.id)'
  <2>0. store[h.seed][h.id].v = h.v /\ Safe(h.seed, h.id)
    BY <1>3, ZenonT(30) DEF LeaseInv, Secure
  <2>1. h.id \in ids
    BY <1>3, HeardFields, ZenonT(30)
  <2>2. PICK order \in Bijection(1 .. Cardinality(ids), ids) : Start("renew", Renew(order))
    BY <2>1, ZenonT(30) DEF renewOnce, renewAll, renewIds
  <2>3. IsFiniteSet(ids) /\ ids \subseteq Ids
    BY ClusterAssumption, FS_Subset, ZenonT(30)
  <2>. HIDE DEF ids
  <2>4. order \in Seq(Ids) /\ h.id \in Range(order)
    BY <2>1, <2>3, Permuted
  <2>5. ReqOK(Renew(order)) /\ Renew(order).kind = "renew" /\ Renew(order).ids = order
    BY <2>4, RequestsOK, Zenon
  <2>6. op'["renew"] = Running(Renew(order))
    BY <1>0, <2>2, Constants, ZenonT(30) DEF Start
  <2>7. /\ op'["renew"].waiting = Seeds /\ op'["renew"].age = 0
        /\ op'["renew"].req = Renew(order)
    <3>1. Renew(order).kind # "none"
      BY <2>5, ZenonT(30)
    <3>. QED  BY <2>5, <2>6, <3>1, RunningFields, ZenonT(30)
  <2>8. Awaited(h.seed, h.id)'
    BY <2>4, <2>5, <2>7, HeardFields, ZenonT(30) DEF Awaited
  <2>9. store[h.seed][h.id].left > OpTime
    <3>1. ~Awaited(h.seed, h.id)
      BY <1>0, IdleFields, ZenonT(30) DEF Awaited
    <3>2. store[h.seed][h.id].left + Heartbeat > Heartbeat + OpTime
      BY <1>0, <2>0, <3>1, ZenonT(30) DEF Safe
    <3>3. store[h.seed][h.id].left \in Nat
      BY HeardFields, ZenonT(30)
    <3>. QED  BY <3>2, <3>3, Constants
  <2>10. store[h.seed][h.id].left + 0 > OpTime
    BY <2>9, HeardFields
  <2>. QED  BY <1>0, <2>0, <2>7, <2>8, <2>10, ZenonT(30) DEF Safe
<1>. QED  BY <1>0, <1>2, <1>3, ZenonT(30) DEF Secure

(* A fan-out ends: a registration that is hosted now is fresh on the seeds *)
(* that took it.                                                           *)
LEMMA LeaseFinish ==
    ASSUME TypeInv, LeaseInv, NEW t \in Threads, Finish(t)
    PROVE  LeaseInv'
<1>0. /\ op \in [Threads -> Op] /\ OpOK(t, op[t]) /\ hosted \in [Ids -> Versions \cup {0}]
      /\ store' = store /\ heard' = heard /\ beat' = beat
      /\ op[t].waiting = {} /\ op' = [op EXCEPT ![t] = Idle]
  BY Zenon DEF Finish, TypeInv, OpsOK
<1>1. /\ op'[t] = Idle /\ op'[t].req.kind = "none" /\ op'[t].waiting = {}
      /\ \A x \in Threads \ {t} : op'[x] = op[x]
  BY <1>0, IdleFields, RequestsOK, Zenon
<1>. SUFFICES ASSUME NEW h \in heard PROVE Fresh(h)' /\ Secure(h)'
  BY <1>0, ZenonT(30) DEF LeaseInv
<1>2. Fresh(h) /\ Secure(h)
  BY ZenonT(30) DEF LeaseInv
<1>3. h.id \in Ids /\ h.v # 0 /\ store[h.seed][h.id].left \in Nat
  BY HeardFields, ZenonT(30)
<1>4. CASE t = "app"
  <2>1. Fresh(h)'
    BY <1>1, <1>4, ZenonT(30) DEF Fresh
  <2>2. op'["renew"] = op["renew"] /\ hosted' = hostedAfter(op["app"])
    BY <1>1, <1>4, Constants, Zenon DEF Finish
  <2>3. CASE hosted'[h.id] = hosted[h.id] \/ hosted'[h.id] # h.v
    BY <1>0, <1>2, <1>3, <2>1, <2>2, <2>3, SecureStays
  <2>4. CASE hosted'[h.id] # hosted[h.id] /\ hosted'[h.id] = h.v
    <3>1. ReqOK(op["app"].req)
      BY <1>0, <1>4, ZenonT(30) DEF OpOK
    <3>2. op["app"].req.kind = "register" /\ op["app"].req.id = h.id
      BY <1>0, <1>3, <2>2, <2>4, <3>1, Zenon DEF hostedAfter, ReqOK
    <3>3. /\ store[h.seed][h.id].v = h.v
          /\ store[h.seed][h.id].left + op["app"].age >= TTL
      BY <1>0, <1>2, <1>4, <3>2, ZenonT(30) DEF Fresh
    <3>4. store[h.seed][h.id].left + OpTime >= TTL
      BY <1>3, <3>3, Clocks, Constants
    <3>5. Safe(h.seed, h.id)
      <4>. DEFINE l == store[h.seed][h.id].left
                  a == op["renew"].age
                  b == beat["renew"]
      <4>1. l \in Nat /\ a \in Nat /\ b \in Nat /\ l + OpTime >= TTL
        BY <1>3, <3>4, Clocks, ZenonT(30)
      <4>. HIDE DEF l, a, b
      <4>2. l + a > OpTime /\ l + b > Heartbeat + OpTime /\ l + a > 2 * OpTime
        BY <4>1, Constants
      <4>. QED  BY <4>2, ZenonT(30) DEF Safe, l, a, b
    <3>6. Safe(h.seed, h.id)'
      BY <1>0, <2>2, <3>5, ZenonT(30) DEF Safe, Awaited, Busy
    <3>. QED  BY <1>0, <2>1, <3>3, <3>6, ZenonT(30) DEF Secure
  <2>. QED  BY <2>3, <2>4, ZenonT(30)
<1>5. CASE t = "renew"
  <2>1. op'["app"] = op["app"] /\ hosted' = hosted
    BY <1>1, <1>5, Constants, Zenon DEF Finish
  <2>2. Fresh(h)'
    BY <1>0, <1>2, <2>1, ZenonT(30) DEF Fresh
  <2>3. ~Awaited(h.seed, h.id) /\ ~Awaited(h.seed, h.id)' /\ ~Busy("renew")'
    BY <1>0, <1>1, <1>5, ZenonT(30) DEF Awaited, Busy
  <2>4. Safe(h.seed, h.id) => Safe(h.seed, h.id)'
    BY <1>0, <2>3, ZenonT(30) DEF Safe
  <2>. QED  BY <1>0, <1>2, <2>1, <2>2, <2>4, ZenonT(30) DEF Secure
<1>6. CASE t # "app" /\ t # "renew"
  <2>1. op'["app"] = op["app"] /\ op'["renew"] = op["renew"] /\ hosted' = hosted
    BY <1>1, <1>6, Constants, Zenon DEF Finish
  <2>2. Secure(h)'
    BY <1>0, <1>2, <1>3, <2>1, SecureStays
  <2>. QED  BY <1>0, <1>2, <2>1, <2>2, ZenonT(30) DEF Fresh
<1>. QED  BY <1>4, <1>5, <1>6, ZenonT(30)

(* Time passes: the lease loses a tick, the fan-out under way and the      *)
(* ticker gain one, but for a ticker that already waits for its fan-out.   *)
LEMMA LeaseTick ==
    ASSUME TypeInv, LeaseInv, Tick
    PROVE  LeaseInv'
<1>0. /\ op["app"] \in Op /\ op["renew"] \in Op /\ store \in [Seeds -> Registry]
      /\ hosted' = hosted /\ heard' = heard
  BY Clocks, ZenonT(30) DEF Tick, TypeInv
<1>1. ASSUME NEW t \in {"app", "renew"}
      PROVE  /\ Busy(t) => /\ op'[t].req = op[t].req /\ op'[t].waiting = op[t].waiting
                           /\ op'[t].age = op[t].age + 1 /\ op[t].age < OpTime
             /\ ~Busy(t) => op[t] = Idle /\ op'[t] = Idle
  <2>1. t \in Threads /\ op[t] \in Op
    BY <1>0, <1>1, Constants, ZenonT(30)
  <2>2. CASE Busy(t)
    <3>1. op'[t] = [op[t] EXCEPT !.age = @ + 1] /\ op[t].age < OpTime
      BY <2>1, <2>2, ZenonT(30) DEF Tick
    <3>. QED  BY <2>1, <2>2, <3>1, ZenonT(30) DEF Op
  <2>3. CASE ~Busy(t)
    BY <2>1, <2>3, ZenonT(30) DEF Tick, Busy
  <2>. QED  BY <2>2, <2>3, ZenonT(30)
<1>2. /\ beat["renew"] = Heartbeat => Busy("renew") /\ beat'["renew"] = Heartbeat
      /\ beat["renew"] # Heartbeat => beat'["renew"] = beat["renew"] + 1
  BY Constants, ZenonT(30) DEF Tick
<1>. SUFFICES ASSUME NEW h \in heard PROVE Fresh(h)' /\ Secure(h)'
  BY <1>0, ZenonT(30) DEF LeaseInv
<1>. DEFINE l == store[h.seed][h.id].left
            m == store'[h.seed][h.id].left
            a == op["renew"].age
            b == beat["renew"]
<1>3. /\ store'[h.seed][h.id].v = store[h.seed][h.id].v
      /\ l \in Nat /\ m \in Nat /\ m + 1 >= l
  <2>1. h.seed \in Seeds /\ h.id \in Ids /\ l \in Nat
    BY HeardFields, ZenonT(30)
  <2>2. store[h.seed][h.id] \in [v: Versions \cup {0}, left: 0 .. TTL]
    BY <1>0, <2>1, ZenonT(30) DEF Registry
  <2>3. store'[h.seed][h.id] = IF l = 0 THEN store[h.seed][h.id]
                               ELSE [store[h.seed][h.id] EXCEPT !.left = @ - 1]
    BY <2>1, Zenon DEF Tick
  <2>4. CASE l = 0
    BY <2>1, <2>3, <2>4
  <2>5. CASE l # 0
    <3>1. m = l - 1 /\ store'[h.seed][h.id].v = store[h.seed][h.id].v
      BY <2>2, <2>3, <2>5, ZenonT(30)
    <3>. HIDE DEF l, m
    <3>. QED  BY <2>1, <2>5, <3>1
  <2>. QED  BY <2>4, <2>5, ZenonT(30)
<1>4. a \in Nat /\ a <= OpTime /\ b \in Nat /\ b <= Heartbeat /\ op["app"].age \in Nat
  BY Clocks, ZenonT(30)
<1>5. Fresh(h) /\ Secure(h)
  BY ZenonT(30) DEF LeaseInv
<1>6. Fresh(h)'
  <2>1. CASE Busy("app")
    <3>1. /\ op'["app"].req = op["app"].req /\ op'["app"].waiting = op["app"].waiting
          /\ op'["app"].age = op["app"].age + 1
      BY <1>1, <2>1, ZenonT(30)
    <3>2. l + op["app"].age >= TTL => m + op'["app"].age >= TTL
      <4>. HIDE DEF l, m
      <4>. QED  BY <1>3, <1>4, <3>1, Constants
    <3>. QED  BY <1>3, <1>5, <3>1, <3>2, ZenonT(30) DEF Fresh
  <2>2. CASE ~Busy("app")
    <3>1. op'["app"].req.kind = "none"
      BY <1>1, <2>2, IdleFields, RequestsOK, Zenon
    <3>. QED  BY <3>1, ZenonT(30) DEF Fresh
  <2>. QED  BY <2>1, <2>2, ZenonT(30)
<1>7. Safe(h.seed, h.id) => Safe(h.seed, h.id)'
  <2>1. CASE Busy("renew")
    <3>1. /\ op'["renew"].req = op["renew"].req /\ op'["renew"].waiting = op["renew"].waiting
          /\ op'["renew"].age = a + 1 /\ a < OpTime
      BY <1>1, <2>1, ZenonT(30)
    <3>2. Awaited(h.seed, h.id)' <=> Awaited(h.seed, h.id)
      BY <3>1, ZenonT(30) DEF Awaited
    <3>3. l + a > OpTime => m + (a + 1) > OpTime
      <4>. HIDE DEF l, m, a
      <4>. QED  BY <1>3, <1>4, Constants
    <3>4. l + b > Heartbeat + OpTime /\ l + a > 2 * OpTime =>
            m + beat'["renew"] > Heartbeat + OpTime /\ m + (a + 1) > 2 * OpTime
      <4>. HIDE DEF l, m, a, b
      <4>1. (beat'["renew"] = Heartbeat /\ b = Heartbeat) \/ beat'["renew"] = b + 1
        BY <1>2, ZenonT(30) DEF b
      <4>. QED  BY <1>3, <1>4, <3>1, <4>1, Constants
    <3>5. CASE Awaited(h.seed, h.id)
      BY <3>1, <3>2, <3>3, <3>5, ZenonT(30) DEF Safe
    <3>6. CASE ~Awaited(h.seed, h.id)
      BY <2>1, <3>1, <3>2, <3>4, <3>6, ZenonT(30) DEF Safe
    <3>. QED  BY <3>5, <3>6, ZenonT(30)
  <2>2. CASE ~Busy("renew")
    <3>1. op["renew"] = Idle /\ op'["renew"] = Idle /\ beat'["renew"] = b + 1
      BY <1>1, <1>2, <2>2, ZenonT(30)
    <3>2. ~Awaited(h.seed, h.id) /\ ~Awaited(h.seed, h.id)' /\ ~Busy("renew")'
      BY <3>1, IdleFields, ZenonT(30) DEF Awaited, Busy
    <3>3. l + b > Heartbeat + OpTime => m + (b + 1) > Heartbeat + OpTime
      <4>. HIDE DEF l, m, b
      <4>. QED  BY <1>3, <1>4, Constants
    <3>. QED  BY <3>1, <3>2, <3>3, ZenonT(30) DEF Safe
  <2>. QED  BY <2>1, <2>2, ZenonT(30)
<1>. QED  BY <1>0, <1>3, <1>5, <1>6, <1>7, ZenonT(30) DEF Secure

LEMMA LeaseStep ==
    ASSUME TypeInv, TypeInv', LeaseInv, [Next]_vars
    PROVE  LeaseInv'
<1>. USE DEF counters
<1>0. /\ op \in [Threads -> Op] /\ store \in [Seeds -> Registry] /\ LateOK
      /\ beat \in [Tickers -> 0 .. Heartbeat]
  BY ZenonT(30) DEF TypeInv, OpsOK
<1>1. ASSUME NEW req, ReqOK(req), req.kind # "none", AppCall(req)
      PROVE  LeaseInv'
  <2>1. /\ op'["app"] = Running(req) /\ op'["renew"] = op["renew"]
        /\ Running(req).waiting = Seeds
    BY <1>0, <1>1, RunningFields, Constants, ZenonT(30) DEF AppCall, Start
  <2>2. store' = store /\ hosted' = hosted /\ beat' = beat /\ heard' = heard
    BY <1>1, ZenonT(30) DEF AppCall
  <2>3. ASSUME NEW h \in heard
        PROVE  Fresh(h)' /\ Secure(h)'
    <3>1. h.seed \in Seeds /\ store[h.seed][h.id].left \in Nat /\ Secure(h)
      BY HeardFields, ZenonT(30) DEF LeaseInv
    <3>2. Fresh(h)'
      BY <2>1, <3>1, ZenonT(30) DEF Fresh
    <3>3. Secure(h)'
      BY <2>1, <2>2, <3>1, SecureStays
    <3>. QED  BY <3>2, <3>3, ZenonT(30)
  <2>. QED  BY <2>2, <2>3, ZenonT(30) DEF LeaseInv
<1>2. ASSUME op'["app"] = op["app"], op'["renew"] = op["renew"],
             beat'["renew"] = beat["renew"], hosted' = hosted,
             \A h \in heard' :
               /\ h \in heard
               /\ store[h.seed][h.id].left > 0 =>
                    /\ store'[h.seed][h.id].v = store[h.seed][h.id].v
                    /\ store'[h.seed][h.id].left \in Nat
                    /\ store'[h.seed][h.id].left >= store[h.seed][h.id].left
      PROVE  LeaseInv'
  <2>. SUFFICES ASSUME NEW h \in heard' PROVE Fresh(h)' /\ Secure(h)'
    BY ZenonT(30) DEF LeaseInv
  <2>1. /\ h \in heard
        /\ store[h.seed][h.id].left > 0 =>
             /\ store'[h.seed][h.id].v = store[h.seed][h.id].v
             /\ store'[h.seed][h.id].left \in Nat
             /\ store'[h.seed][h.id].left >= store[h.seed][h.id].left
    BY <1>2, ZenonT(30)
  <2>2. Fresh(h) /\ Secure(h)
    BY <2>1, ZenonT(30) DEF LeaseInv
  <2>3. store[h.seed][h.id].left + op["app"].age >= TTL => store[h.seed][h.id].left > 0
    <3>1. store[h.seed][h.id].left \in Nat /\ OpTime \in Nat /\ Heartbeat \in Nat
      BY <2>1, HeardFields, Constants, ZenonT(30)
    <3>. QED  BY <2>1, <3>1, NotOver
  <2>4. hosted[h.id] = h.v => store[h.seed][h.id].left > 0
    BY <2>1, <2>2, NotOver, ZenonT(30) DEF Secure
  <2>5. Fresh(h)'
    BY <1>2, <2>1, <2>2, <2>3, FreshStays, Zenon
  <2>6. Secure(h)'
    BY <1>2, <2>1, <2>2, <2>4, SecureStays, ZenonT(30)
  <2>. QED  BY <2>5, <2>6, ZenonT(30)
<1>3. ASSUME NEW i \in Checked, ProbePasses(i) \/ ProbeFails(i)
      PROVE  LeaseInv'
  <2>1. i # "app" /\ i # "renew"
    BY <1>3, Constants, ZenonT(30)
  <2>2. op'["app"] = op["app"] /\ op'["renew"] = op["renew"]
    BY <1>0, <1>3, <2>1, Constants, ZenonT(30) DEF ProbePasses, ProbeFails, KeepAlive, Start
  <2>3. beat'["renew"] = beat["renew"]
    BY <1>0, <1>3, <2>1, Constants, ZenonT(30) DEF ProbePasses, ProbeFails, Fire
  <2>4. store' = store /\ hosted' = hosted /\ heard' = heard
    BY <1>3, ZenonT(30) DEF ProbePasses, ProbeFails
  <2>5. \A h \in heard' :
          /\ h \in heard
          /\ store'[h.seed][h.id].v = store[h.seed][h.id].v
          /\ store'[h.seed][h.id].left \in Nat
          /\ store'[h.seed][h.id].left >= store[h.seed][h.id].left
    BY <2>4, HeardFields
  <2>6. hosted' = hosted
    BY <2>4, ZenonT(30)
  <2>. QED  BY <1>2, <2>2, <2>3, <2>5, <2>6, ZenonT(30)
<1>4. ASSUME NEW r \in late, HandleLate(r)
      PROVE  LeaseInv'
  <2>1. r.seed \in Seeds /\ ReqOK(r.req) /\ r.req.kind # "none"
    BY <1>0, ZenonT(30) DEF LateOK
  <2>2. /\ store' = [store EXCEPT ![r.seed] = applied(@, r.req)]
        /\ op' = op /\ beat' = beat /\ hosted' = hosted
    BY <1>4, ZenonT(30) DEF HandleLate
  <2>3. ASSUME NEW h \in heard'
        PROVE  h \in heard /\ (h.seed = r.seed =>
                 ~touches(r.req, h.id) /\ ~cutShort(store[r.seed], r.req, h.id))
    BY <1>4, <2>3, ZenonT(30) DEF HandleLate, HeardAfter
  <2>4. ASSUME NEW h \in heard'
        PROVE  /\ h \in heard
               /\ store'[h.seed][h.id].v = store[h.seed][h.id].v
               /\ store'[h.seed][h.id].left \in Nat
               /\ store'[h.seed][h.id].left >= store[h.seed][h.id].left
    BY <2>1, <2>2, <2>3, <2>4, Kept, Zenon
  <2>. QED  BY <1>2, <2>2, <2>4, ZenonT(30)
<1>5. ASSUME NEW s \in Seeds, RestartSeed(s)
      PROVE  LeaseInv'
  <2>1. /\ op' = op /\ beat' = beat /\ hosted' = hosted
        /\ heard' = {h \in heard : h.seed # s}
        /\ store' = [store EXCEPT ![s] = [id \in Ids |-> Absent]]
    BY <1>5, ZenonT(30) DEF RestartSeed
  <2>2. \A h \in heard : h.seed \in Seeds /\ store[h.seed][h.id].left \in Nat
    BY HeardFields, ZenonT(30)
  <2>3. \A h \in heard' : h \in heard /\ store'[h.seed] = store[h.seed]
    BY <1>0, <2>1, <2>2, ZenonT(30)
  <2>. QED  BY <1>2, <2>1, <2>2, <2>3
<1>6. CASE CrashAgent
  BY <1>6, Zenon DEF CrashAgent, LeaseInv
<1>7. ASSUME NEW s \in Seeds, GC(s)
      PROVE  LeaseInv'
  <2>1. /\ op' = op /\ beat' = beat /\ hosted' = hosted /\ heard' = heard
        /\ store' = [store EXCEPT ![s] =
             [id \in Ids |-> IF store[s][id].left = 0 THEN Absent ELSE store[s][id]]]
    BY <1>7, ZenonT(30) DEF GC
  <2>2. \A h \in heard : h.seed \in Seeds /\ h.id \in Ids /\ store[h.seed][h.id].left \in Nat
    BY HeardFields, ZenonT(30)
  <2>3. \A h \in heard : store[h.seed][h.id].left > 0 =>
          store'[h.seed][h.id] = store[h.seed][h.id]
    BY <1>0, <2>1, <2>2
  <2>4. \A h \in heard : store[h.seed][h.id].left > 0 =>
          /\ store'[h.seed][h.id].v = store[h.seed][h.id].v
          /\ store'[h.seed][h.id].left \in Nat
          /\ store'[h.seed][h.id].left >= store[h.seed][h.id].left
    BY <2>2, <2>3
  <2>. QED  BY <1>2, <2>1, <2>4, ZenonT(30)
<1>8. CASE UNCHANGED vars
  BY <1>8, ZenonT(30) DEF vars, LeaseInv, Fresh, Secure, Safe, Awaited, Busy
<1>9. CASE \/ \E id \in Ids, v \in Versions : AppCall(Register(id, v))
           \/ \E id \in Ids : AppCall(DeregisterService(id))
           \/ AppCall(Deregister) \/ AppCall(RenewNode)
  BY <1>1, <1>9, RequestsOK, Zenon
<1>. QED
  BY <1>3, <1>4, <1>5, <1>6, <1>7, <1>8, <1>9, LeaseOutcome, LeaseRenew,
     LeaseFinish, LeaseTick, ZenonT(30) DEF Next

(* For any number of seeds, of services and of failures, and any timing    *)
(* with a ttl above a heartbeat and two seed timeouts, and above three: a  *)
(* seed that took the registration of a service without checks, and was    *)
(* reached since, keeps it for as long as the agent hosts it.              *)
THEOREM KeepsLease == Spec => []LeaseKept
<1>1. Init => LeaseInv
  BY ZenonT(30) DEF Init, LeaseInv
<1>2. TypeInv /\ LeaseInv => LeaseKept
  BY NotOver, ZenonT(30) DEF LeaseInv, Secure, LeaseKept
<1>3. TypeInv /\ TypeInv' /\ LeaseInv /\ [Next]_vars => LeaseInv'
  BY LeaseStep, ZenonT(30)
<1>. QED  BY TypeInvariant, <1>1, <1>2, <1>3, PTL DEF Spec
=============================================================================
