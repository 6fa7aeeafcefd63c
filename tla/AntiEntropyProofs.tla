------------------------- MODULE AntiEntropyProofs -------------------------
(***************************************************************************)
(* Proofs about AntiEntropy, for any number of seeds, services, versions   *)
(* and failures and any skew of the clocks.                                *)
(***************************************************************************)
EXTENDS AntiEntropy, TLAPS

Answers == [Ids -> Copy \cup {None}]
Pulls == [open: SUBSET Seeds, ok: SUBSET Seeds, got: Answers]

(* The effects of the operators the actions are made of.                   *)

LEMMA NoneIsNoCopy == None \notin Copy
BY AntiEntropyAssumption DEF None, Copy

LEMMA VersionsAreNumbers == \A v \in Versions \cup {0} : v \in Nat
<1>1. Versions \subseteq Nat
  BY AntiEntropyAssumption
<1> QED
  BY <1>1

LEMMA CopiesTyped ==
    ASSUME TypeOK, NEW s \in Seeds, NEW id \in Ids
    PROVE  /\ store[s][id] \in Copy \cup {None}
           /\ pull[s].got[id] \in Copy \cup {None}
           /\ last[id] \in Nat
           /\ \A c \in Copy \cup {None} : c.v \in Nat /\ (c.v = 0 <=> c = None)
<1>1. store[s][id] \in Copy \cup {None} /\ pull[s].got[id] \in Copy \cup {None}
  BY DEF TypeOK
<1>2. last[id] \in Nat
  <2>1. last[id] \in Versions \cup {0}
    BY DEF TypeOK
  <2> QED
    BY <2>1, VersionsAreNumbers
<1>3. \A c \in Copy : c.v \in Nat \ {0}
  BY AntiEntropyAssumption DEF Copy
<1>4. None.v = 0
  BY DEF None
<1> QED
  BY <1>1, <1>2, <1>3, <1>4

LEMMA StampType ==
    ASSUME NEW s \in Seeds, NEW v \in Versions
    PROVE  stamped(s, v) \in Copy
BY AntiEntropyAssumption DEF stamped, Copy, Ages

LEMMA AgedType ==
    ASSUME NEW c \in Copy \cup {None}
    PROVE  /\ aged(c) \in Copy \cup {None}
           /\ aged(c) = None <=> c = None
           /\ aged(c).v = c.v
           /\ c # None => aged(c).age = older(c.age)
<1>1. CASE c = None
  BY <1>1 DEF aged
<1>2. CASE c # None
  <2>1. c \in Copy
    BY <1>2
  <2>2. older(c.age) \in Ages
    BY <2>1, AntiEntropyAssumption DEF older, Copy, Ages
  <2>3. aged(c) = [c EXCEPT !.age = older(c.age)]
    BY <1>2 DEF aged
  <2>4. aged(c) \in Copy /\ aged(c).v = c.v /\ aged(c).age = older(c.age)
    BY <2>1, <2>2, <2>3 DEF Copy
  <2> QED
    BY <1>2, <2>4, NoneIsNoCopy
<1> QED
  BY <1>1, <1>2

LEMMA MergedType ==
    ASSUME NEW base \in Answers, NEW in \in Answers
    PROVE  /\ merged(base, in) \in Answers
           /\ \A id \in Ids :
                /\ merged(base, in)[id] \in {base[id], in[id]}
                /\ merged(base, in)[id] = None
                     <=> base[id] = None /\ in[id] = None
                /\ merged(base, in)[id] # base[id]
                     => in[id] # None /\ (base[id] = None \/ WinsLWW(in[id], base[id]))
BY DEF merged, Answers

LEMMA NoAnswerType == NoAnswer \in Answers /\ NoPull \in Pulls
BY DEF NoAnswer, NoPull, Answers, Pulls

LEMMA LookupType ==
    ASSUME TypeOK, NEW p \in Seeds
    PROVE  /\ Lookup(p) \in Answers
           /\ \A id \in Ids : Lookup(p)[id] # None => Lookup(p)[id] = store[p][id]
BY DEF TypeOK, Lookup, Answers, Has

LEMMA MergeType ==
    ASSUME TypeOK, NEW s \in Seeds
    PROVE  /\ Merge(s) \in Answers
           /\ \A id \in Ids : Merge(s)[id] # store[s][id]
                => /\ pull[s].got[id] # None /\ Merge(s)[id] = pull[s].got[id]
                   /\ store[s][id] = None \/ WinsLWW(pull[s].got[id], store[s][id])
           /\ \A id \in Ids : store[s][id] # None => Merge(s)[id] # None
           /\ \A id \in Ids : pull[s].ok # {} /\ pull[s].got[id] # None
                => Merge(s)[id] # None
<1>1. store[s] \in Answers /\ pull[s].got \in Answers
  BY DEF TypeOK, Answers
<1>2. CASE pull[s].ok = {}
  BY <1>1, <1>2 DEF Merge
<1>3. CASE pull[s].ok # {}
  <2>1. Merge(s) = merged(store[s], pull[s].got)
    BY <1>3 DEF Merge
  <2> QED
    BY <1>1, <2>1, MergedType
<1> QED
  BY <1>2, <1>3
-----------------------------------------------------------------------------
(* Type correctness: each action keeps the types of what it assigns.       *)

LEMMA TypeStep ==
    ASSUME TypeOK, [Next]_vars
    PROVE  TypeOK'
<1> USE DEF Answers, Pulls
<1>0. /\ store \in [Seeds -> Answers]
      /\ pull \in [Seeds -> Pulls]
  BY DEF TypeOK
<1>1. CASE UNCHANGED vars
  BY <1>1 DEF TypeOK, vars
<1>2. ASSUME Next PROVE steady' \subseteq Seeds \X Seeds \X Ids
  BY <1>2 DEF Next, Watched
<1>3. ASSUME Next, NEW id \in Ids, NEW v \in Versions, AppRegister(id, v)
      PROVE  TypeOK'
  <2>1. send("register", id, v) \subseteq
           [to: Seeds, kind: {"register", "remove"}, id: Ids, v: Versions \cup {0}]
    BY DEF send
  <2>2. \A m \in send("register", id, v) : m.kind = "register" => m.v \in Versions
    BY DEF send
  <2> QED
    BY <1>2, <1>3, <2>1, <2>2, AntiEntropyAssumption
    DEF TypeOK, AppRegister, Call
<1>4. ASSUME Next, NEW id \in Ids, AppRemove(id)
      PROVE  TypeOK'
  <2>1. send("remove", id, 0) \subseteq
           [to: Seeds, kind: {"register", "remove"}, id: Ids, v: Versions \cup {0}]
    BY DEF send
  <2>2. \A m \in send("remove", id, 0) : m.kind = "register" => m.v \in Versions
    BY DEF send
  <2> QED
    BY <1>2, <1>4, <2>1, <2>2, AntiEntropyAssumption
    DEF TypeOK, AppRemove, Call
<1>5. ASSUME Next, NEW m \in msgs, Deliver(m)
      PROVE  TypeOK'
  <2>1. m.to \in Seeds /\ m.id \in Ids
    BY DEF TypeOK
  <2>2. (IF m.kind = "register" THEN stamped(m.to, m.v) ELSE None) \in Copy \cup {None}
    BY <2>1, StampType DEF TypeOK
  <2>3. store' \in [Seeds -> [Ids -> Copy \cup {None}]]
    BY <1>5, <2>1, <2>2 DEF TypeOK, Deliver
  <2>4. touched' \in [Ids -> 0 .. Cap]
    BY <1>5, AntiEntropyAssumption DEF TypeOK, Deliver
  <2> QED
    BY <1>2, <1>5, <2>3, <2>4 DEF TypeOK, Deliver, counters
<1>6. ASSUME Next, NEW m \in msgs, Lose(m)
      PROVE  TypeOK'
  BY <1>2, <1>6, AntiEntropyAssumption DEF TypeOK, Lose
<1>7. ASSUME Next, Tick
      PROVE  TypeOK'
  <2>1. store' \in [Seeds -> [Ids -> Copy \cup {None}]]
    BY <1>0, <1>7, AgedType DEF Tick
  <2>2. ASSUME NEW s \in Seeds PROVE pull'[s] \in Pulls
    <3>1. [id \in Ids |-> aged(pull[s].got[id])] \in Answers
      BY <1>0, AgedType
    <3>2. pull'[s] = [pull[s] EXCEPT !.got = [id \in Ids |-> aged(pull[s].got[id])]]
      BY <1>7 DEF Tick
    <3>3. pull[s] \in Pulls
      BY <1>0
    <3> QED
      BY <3>1, <3>2, <3>3
  <2>3. pull' \in [Seeds -> Pulls]
    BY <1>7, <2>2 DEF Tick
  <2>4. touched' \in [Ids -> 0 .. Cap]
    BY <1>7, AntiEntropyAssumption DEF TypeOK, Tick, older
  <2> QED
    BY <1>2, <1>7, <2>1, <2>3, <2>4 DEF TypeOK, Tick, counters
<1>8. ASSUME Next, NEW s \in Seeds, SeedStep(s)
      PROVE  TypeOK'
  <2>1. ASSUME NEW p \in Seeds, PeerAnswers(s, p)
        PROVE  TypeOK'
    <3>1. merged(pull[s].got, Lookup(p)) \in Answers
      BY <1>0, LookupType, MergedType
    <3>2. pull' \in [Seeds -> Pulls]
      BY <1>0, <2>1, <3>1 DEF PeerAnswers
    <3> QED
      BY <1>2, <1>8, <2>1, <3>2 DEF TypeOK, PeerAnswers, counters
  <2>2. ASSUME NEW p \in Seeds, PeerFails(s, p)
        PROVE  TypeOK'
    <3>0. pull[s] \in Pulls /\ pull[s].open \ {p} \in SUBSET Seeds
      BY <1>0
    <3>1. [pull[s] EXCEPT !.open = pull[s].open \ {p}] \in Pulls
      BY <3>0
    <3>2. pull' \in [Seeds -> Pulls]
      BY <1>0, <2>2, <3>1 DEF PeerFails
    <3>3. failures' \in 0 .. MaxFailures
      BY <2>2, AntiEntropyAssumption DEF TypeOK, PeerFails
    <3> QED
      BY <1>2, <1>8, <2>2, <3>2, <3>3 DEF TypeOK, PeerFails
  <2>3. CASE Joined(s)
    <3>1. store' \in [Seeds -> Answers]
      BY <1>0, <2>3, MergeType DEF Joined
    <3> QED
      BY <1>2, <1>8, <2>3, <3>1 DEF TypeOK, Joined, counters
  <2>4. CASE markReady(s)
    <3>1. pull' \in [Seeds -> Pulls]
      BY <1>0, <2>4, NoAnswerType DEF markReady
    <3> QED
      BY <1>2, <1>8, <2>4, <3>1 DEF TypeOK, markReady, counters
  <2>5. ASSUME ask(s) PROVE pull' \in [Seeds -> Pulls]
    BY <1>0, <2>5, NoAnswerType DEF ask, peersOf
  <2>6. CASE SyncTick(s)
    BY <1>2, <1>8, <2>5, <2>6 DEF TypeOK, SyncTick, counters
  <2>7. CASE syncDone(s)
    <3>1. store' \in [Seeds -> Answers]
      BY <1>0, <2>7, MergeType DEF syncDone
    <3>2. pull' \in [Seeds -> Pulls]
      BY <1>0, <2>7, NoAnswerType DEF syncDone
    <3> QED
      BY <1>2, <1>8, <2>7, <3>1, <3>2 DEF TypeOK, syncDone, counters
  <2>8. CASE Crash(s)
    <3>1. store' \in [Seeds -> Answers] /\ pull' \in [Seeds -> Pulls]
      BY <1>0, <2>8, NoAnswerType DEF Crash
    <3> QED
      BY <1>2, <1>8, <2>8, <3>1, AntiEntropyAssumption DEF TypeOK, Crash
  <2>9. CASE Boot(s)
    BY <1>2, <1>8, <2>5, <2>9 DEF TypeOK, Boot, counters
  <2>10. CASE GC(s)
    <3>1. store' \in [Seeds -> Answers]
      BY <1>0, <2>10 DEF GC, Has
    <3> QED
      BY <1>2, <1>8, <2>10, <3>1 DEF TypeOK, GC, counters
  <2>11. ASSUME NEW id \in Ids, Renew(s, id)
         PROVE  TypeOK'
    <3>1. store[s][id] \in Copy
      BY <2>11 DEF TypeOK, Renew, Has
    <3>2. stamped(s, store[s][id].v) \in Copy
      BY <3>1, StampType DEF Copy
    <3>3. store' \in [Seeds -> Answers]
      BY <1>0, <2>11, <3>2 DEF Renew
    <3>4. touched' \in [Ids -> 0 .. Cap]
      BY <2>11, AntiEntropyAssumption DEF TypeOK, Renew
    <3> QED
      BY <1>2, <1>8, <2>11, <3>3, <3>4 DEF TypeOK, Renew, counters
  <2> QED
    BY <1>8, <2>1, <2>2, <2>3, <2>4, <2>6, <2>7, <2>8, <2>9, <2>10, <2>11
    DEF SeedStep
<1> QED
  BY <1>1, <1>3, <1>4, <1>5, <1>6, <1>7, <1>8 DEF Next, Step

(* The ages, the answers under way and the messages always have their      *)
(* types, whatever the agents, the seeds and the syncers do.               *)
THEOREM TypeInvariant == Spec => []TypeOK
<1>1. Init => TypeOK
  BY AntiEntropyAssumption, NoAnswerType
  DEF Init, TypeOK, Answers, Pulls
<1> QED
  BY <1>1, TypeStep, PTL DEF Spec
-----------------------------------------------------------------------------
(* Where a copy comes from.  A copy a seed has after a step other than a   *)
(* tick is the one it had, one stamped by a client's write, or the winner  *)
(* of a pull; an answer under way is the one it was or a peer's copy.      *)

Stays(s, id) == store'[s][id] = store[s][id] /\ touched'[id] \in {touched[id], 0}

Written(s, id) ==
    /\ touched'[id] = 0
    /\ \/ store[s][id] # None /\ store'[s][id] = stamped(s, store[s][id].v)
       \/ \E m \in msgs : /\ m.kind = "register" /\ m.id = id
                          /\ store'[s][id] = stamped(s, m.v)

Pulled(s, id) ==
    /\ touched'[id] = touched[id]
    /\ store'[s][id] = pull[s].got[id]
    /\ store[s][id] = None \/ WinsLWW(pull[s].got[id], store[s][id])

LEMMA StoreEffect ==
    ASSUME TypeOK, Next, ~Tick, NEW s \in Seeds, NEW id \in Ids,
           store'[s][id] # None
    PROVE  Stays(s, id) \/ Written(s, id) \/ Pulled(s, id)
<1> USE DEF Stays, Written, Pulled
<1>1. CASE UNCHANGED store /\ UNCHANGED touched
  BY <1>1
<1>2. ASSUME NEW m \in msgs, Deliver(m)
      PROVE  Stays(s, id) \/ Written(s, id) \/ Pulled(s, id)
  <2>1. m.to \in Seeds /\ m.id \in Ids
    BY DEF TypeOK
  <2>2. CASE m.to = s /\ m.id = id
    <3>1. m.kind = "register"
      BY <1>2, <2>2 DEF Deliver, TypeOK
    <3> QED
      BY <1>2, <2>1, <2>2, <3>1 DEF Deliver, TypeOK
  <2>3. CASE ~(m.to = s /\ m.id = id)
    BY <1>2, <2>1, <2>3 DEF Deliver, TypeOK
  <2> QED
    BY <2>2, <2>3
<1>3. ASSUME NEW t \in Seeds, Joined(t) \/ syncDone(t)
      PROVE  Stays(s, id) \/ Written(s, id) \/ Pulled(s, id)
  <2>1. store' = [store EXCEPT ![t] = Merge(t)] /\ touched' = touched
    BY <1>3 DEF Joined, syncDone
  <2>2. CASE t = s
    BY <2>1, <2>2, MergeType DEF TypeOK
  <2>3. CASE t # s
    BY <2>1, <2>3 DEF TypeOK
  <2> QED
    BY <2>2, <2>3
<1>4. ASSUME NEW t \in Seeds, Crash(t) \/ GC(t)
      PROVE  Stays(s, id)
  <2>1. touched' = touched
    BY <1>4 DEF Crash, GC
  <2>2. CASE Crash(t)
    <3>1. store' = [store EXCEPT ![t] = NoAnswer]
      BY <2>2 DEF Crash
    <3>2. t # s
      BY <3>1 DEF TypeOK, NoAnswer
    <3> QED
      BY <2>1, <3>1, <3>2 DEF TypeOK
  <2>3. CASE GC(t)
    BY <2>1, <2>3 DEF GC, TypeOK
  <2> QED
    BY <1>4, <2>2, <2>3
<1>5. ASSUME NEW t \in Seeds, NEW x \in Ids, Renew(t, x)
      PROVE  Stays(s, id) \/ Written(s, id)
  BY <1>5 DEF Renew, TypeOK, Has
<1>6. ASSUME NEW t \in Seeds, SeedStep(t)
      PROVE  Stays(s, id) \/ Written(s, id) \/ Pulled(s, id)
  <2>1. ASSUME NEW p \in Seeds, PeerAnswers(t, p) \/ PeerFails(t, p)
        PROVE  UNCHANGED store /\ UNCHANGED touched
    BY <2>1 DEF PeerAnswers, PeerFails
  <2>2. CASE markReady(t) \/ SyncTick(t) \/ Boot(t)
    BY <2>2 DEF markReady, SyncTick, Boot
  <2> QED
    BY <1>1, <1>3, <1>4, <1>5, <1>6, <2>1, <2>2 DEF SeedStep
<1>7. ASSUME NEW x \in Ids, AppRemove(x) \/ \E v \in Versions : AppRegister(x, v)
      PROVE  UNCHANGED store /\ UNCHANGED touched
  BY <1>7 DEF AppRemove, AppRegister, Call
<1>8. ASSUME NEW m \in msgs, Lose(m)
      PROVE  UNCHANGED store /\ UNCHANGED touched
  BY <1>8 DEF Lose
<1> QED
  BY <1>1, <1>2, <1>6, <1>7, <1>8 DEF Next, Step

LEMMA PullEffect ==
    ASSUME TypeOK, Next, ~Tick, NEW s \in Seeds, NEW id \in Ids,
           pull'[s].got[id] # None
    PROVE  /\ touched'[id] \in {touched[id], 0}
           /\ \/ pull'[s].got[id] = pull[s].got[id]
              \/ \E p \in Seeds : pull'[s].got[id] = store[p][id]
<1>0. pull \in [Seeds -> Pulls]
  BY DEF TypeOK, Pulls, Answers
<1>1. CASE pull' = pull /\ UNCHANGED touched
  BY <1>1
<1>2. ASSUME NEW t \in Seeds, NEW p \in Seeds, PeerAnswers(t, p)
      PROVE  /\ touched' = touched
             /\ \/ pull'[s].got[id] = pull[s].got[id]
                \/ pull'[s].got[id] = store[p][id]
  <2>1. CASE t = s
    <3>1. pull'[s].got = merged(pull[s].got, Lookup(p))
      BY <1>0, <1>2, <2>1 DEF PeerAnswers, Pulls
    <3>2. pull[s].got \in Answers
      BY <1>0 DEF Pulls
    <3>3. pull'[s].got[id] \in {pull[s].got[id], Lookup(p)[id]}
      BY <3>1, <3>2, LookupType, MergedType
    <3> QED
      BY <1>2, <3>3, LookupType DEF PeerAnswers
  <2>2. CASE t # s
    BY <1>0, <1>2, <2>2 DEF PeerAnswers
  <2> QED
    BY <2>1, <2>2
<1>3. ASSUME NEW t \in Seeds, NEW p \in Seeds, PeerFails(t, p)
      PROVE  touched' = touched /\ pull'[s].got[id] = pull[s].got[id]
  BY <1>0, <1>3 DEF PeerFails, Pulls
<1>4. ASSUME NEW t \in Seeds, Crash(t) \/ Boot(t) \/ SyncTick(t) \/ markReady(t)
                                 \/ syncDone(t)
      PROVE  touched' = touched /\ pull'[s].got[id] = pull[s].got[id]
  BY <1>0, <1>4 DEF Crash, Boot, SyncTick, markReady, syncDone, ask, NoPull, NoAnswer
<1>5. ASSUME NEW t \in Seeds, SeedStep(t)
      PROVE  /\ touched'[id] \in {touched[id], 0}
             /\ \/ pull'[s].got[id] = pull[s].got[id]
                \/ \E p \in Seeds : pull'[s].got[id] = store[p][id]
  <2>1. CASE Joined(t) \/ GC(t)
    BY <2>1 DEF Joined, GC
  <2>2. ASSUME NEW x \in Ids, Renew(t, x)
        PROVE  pull' = pull /\ touched'[id] \in {touched[id], 0}
    BY <2>2 DEF Renew, TypeOK
  <2> QED
    BY <1>2, <1>3, <1>4, <1>5, <2>1, <2>2 DEF SeedStep
<1>6. ASSUME NEW x \in Ids, AppRemove(x) \/ \E v \in Versions : AppRegister(x, v)
      PROVE  pull' = pull /\ UNCHANGED touched
  BY <1>6 DEF AppRemove, AppRegister, Call
<1>7. ASSUME NEW m \in msgs, Deliver(m) \/ Lose(m)
      PROVE  pull' = pull /\ touched'[id] \in {touched[id], 0}
  BY <1>7 DEF Deliver, Lose, TypeOK
<1> QED
  BY <1>1, <1>5, <1>6, <1>7 DEF Next, Step

LEMMA TickEffect ==
    ASSUME TypeOK, Tick
    PROVE  \A s \in Seeds, id \in Ids :
             /\ store'[s][id] = aged(store[s][id])
             /\ pull'[s].got[id] = aged(pull[s].got[id])
             /\ touched'[id] = older(touched[id])
<1>1. pull \in [Seeds -> Pulls]
  BY DEF TypeOK, Pulls, Answers
<1>2. ASSUME NEW s \in Seeds
      PROVE  pull'[s].got = [id \in Ids |-> aged(pull[s].got[id])]
  <2>1. pull'[s] = [pull[s] EXCEPT !.got = [id \in Ids |-> aged(pull[s].got[id])]]
    BY DEF Tick
  <2> QED
    BY <1>1, <2>1 DEF Pulls
<1>3. \A s \in Seeds : store'[s] = [id \in Ids |-> aged(store[s][id])]
  BY DEF Tick
<1>4. touched' = [id \in Ids |-> older(touched[id])]
  BY DEF Tick
<1> QED
  BY <1>2, <1>3, <1>4
-----------------------------------------------------------------------------
(* Gossip keeps leases.  The invariant speaks of every copy, in a registry *)
(* or under way: its stamp is not later than the last write or renewal, up *)
(* to what a clock may be ahead.                                           *)

NotNewer(c, id) == c # None => c.age >= touched[id] - MaxSkew

StampsReal ==
    \A s \in Seeds, id \in Ids :
        NotNewer(store[s][id], id) /\ NotNewer(pull[s].got[id], id)

LEMMA StampsStep ==
    ASSUME TypeOK, StampsReal, [Next]_vars
    PROVE  StampsReal'
<1> USE DEF StampsReal, NotNewer
<1>1. CASE UNCHANGED vars
  BY <1>1 DEF vars
<1>2. CASE Tick
  <2> SUFFICES ASSUME NEW s \in Seeds, NEW id \in Ids
               PROVE  NotNewer(store[s][id], id)' /\ NotNewer(pull[s].got[id], id)'
    OBVIOUS
  <2>1. /\ store[s][id] \in Copy \cup {None} /\ pull[s].got[id] \in Copy \cup {None}
        /\ touched[id] \in 0 .. Cap
    BY DEF TypeOK
  <2>2. \A c \in Copy \cup {None} :
           c # None /\ c.age >= touched[id] - MaxSkew
             => aged(c).age >= older(touched[id]) - MaxSkew
    <3> SUFFICES ASSUME NEW c \in Copy, c.age >= touched[id] - MaxSkew
                 PROVE  older(c.age) >= older(touched[id]) - MaxSkew
      BY AgedType
    <3> QED
      BY <2>1, AntiEntropyAssumption DEF older, Copy, Ages
  <2> QED
    BY <1>2, <2>1, <2>2, TickEffect, AgedType
<1>3. CASE Next /\ ~Tick
  <2> SUFFICES ASSUME NEW s \in Seeds, NEW id \in Ids
               PROVE  NotNewer(store[s][id], id)' /\ NotNewer(pull[s].got[id], id)'
    OBVIOUS
  <2>0. /\ store[s][id] \in Copy \cup {None} /\ pull[s].got[id] \in Copy \cup {None}
        /\ \A p \in Seeds : store[p][id] \in Copy \cup {None}
        /\ touched[id] \in 0 .. Cap
        /\ Skew[s] \in 0 .. MaxSkew /\ MaxSkew \in Nat
    BY AntiEntropyAssumption DEF TypeOK
  <2>1. \A c \in Copy : c.age \in Int
    BY AntiEntropyAssumption DEF Copy, Ages
  <2>2. \A v : stamped(s, v).age = -Skew[s]
    BY DEF stamped
  <2>3. ASSUME store'[s][id] # None
        PROVE  store'[s][id].age >= touched'[id] - MaxSkew
    <3>1. CASE Stays(s, id)
      BY <2>0, <2>1, <2>3, <3>1 DEF Stays
    <3>2. CASE Written(s, id)
      BY <2>0, <2>2, <3>2 DEF Written
    <3>3. CASE Pulled(s, id)
      BY <2>0, <2>1, <2>3, <3>3 DEF Pulled
    <3> QED
      BY <1>3, <2>3, <3>1, <3>2, <3>3, StoreEffect
  <2>4. ASSUME pull'[s].got[id] # None
        PROVE  pull'[s].got[id].age >= touched'[id] - MaxSkew
    BY <1>3, <2>0, <2>1, <2>4, PullEffect
  <2> QED
    BY <2>3, <2>4
<1> QED
  BY <1>1, <1>2, <1>3

(* No seed shows a service longer than a lease and the difference of two   *)
(* clocks after the last write or renewal that any seed took: Merge passes *)
(* on the stamp it was given, so gossip does not refresh leases.           *)
THEOREM GossipKeepsLeases == Spec => []GossipKeepsLease
<1>1. Init => StampsReal
  BY DEF Init, StampsReal, NotNewer, NoAnswer, NoPull
<1>2. TypeOK /\ StampsReal => GossipKeepsLease
  <2> SUFFICES ASSUME TypeOK, StampsReal, NEW s \in Seeds, NEW id \in Ids,
                      Has(s, id), ~expired(s, store[s][id])
               PROVE  touched[id] <= Life + MaxSkew - Skew[s]
    BY DEF GossipKeepsLease
  <2>1. store[s][id] \in Copy /\ touched[id] \in 0 .. Cap
    BY DEF TypeOK, Has
  <2>2. store[s][id].age >= touched[id] - MaxSkew
    BY DEF StampsReal, NotNewer, Has
  <2>3. store[s][id].age + Skew[s] <= Life
    BY <2>1, AntiEntropyAssumption DEF expired, Copy, Ages
  <2> QED
    BY <2>1, <2>2, <2>3, AntiEntropyAssumption DEF Copy, Ages
<1> QED
  BY <1>1, <1>2, TypeInvariant, StampsStep, PTL DEF Spec
-----------------------------------------------------------------------------
(* The newer copy wins.  A copy anywhere is of a version that has been     *)
(* registered, and a registration on its way is of the version hosted.     *)

VersionsKnown ==
    /\ \A id \in Ids : hosted[id] \in {0, last[id]}
    /\ \A m \in msgs : m.kind = "register" => m.v = hosted[m.id]
    /\ \A s \in Seeds, id \in Ids :
         store[s][id].v <= last[id] /\ pull[s].got[id].v <= last[id]

LEMMA CallEffect ==
    ASSUME TypeOK, Next, ~(UNCHANGED <<hosted, last>> /\ msgs' \subseteq msgs)
    PROVE  /\ UNCHANGED <<store, pull>>
           /\ \E id \in Ids :
                /\ ~\E m \in msgs : m.id = id
                /\ \/ \E v \in Versions :
                        /\ last[id] < v
                        /\ hosted' = [hosted EXCEPT ![id] = v]
                        /\ last' = [last EXCEPT ![id] = v]
                        /\ msgs' = msgs \cup send("register", id, v)
                   \/ /\ hosted' = [hosted EXCEPT ![id] = 0]
                      /\ last' = last
                      /\ msgs' = msgs \cup send("remove", id, 0)
<1>1. ASSUME NEW s \in Seeds, SeedStep(s)
      PROVE  UNCHANGED <<hosted, last, msgs>>
  BY <1>1 DEF SeedStep, PeerAnswers, PeerFails, Joined, markReady, SyncTick,
              syncDone, Crash, Boot, GC, Renew
<1>2. ASSUME NEW m \in msgs, Deliver(m) \/ Lose(m)
      PROVE  UNCHANGED <<hosted, last>> /\ msgs' \subseteq msgs
  BY <1>2 DEF Deliver, Lose
<1>3. ASSUME Tick PROVE FALSE
  BY <1>3 DEF Tick
<1>4. PICK id \in Ids : AppRemove(id) \/ \E v \in Versions : AppRegister(id, v)
  BY <1>1, <1>2, <1>3 DEF Next, Step
<1> QED
  BY <1>4 DEF AppRemove, AppRegister, Call

LEMMA VersionsStep ==
    ASSUME TypeOK, VersionsKnown, [Next]_vars
    PROVE  VersionsKnown'
<1>0. /\ \A id \in Ids : last[id] \in Nat
      /\ \A s \in Seeds, id \in Ids :
           store[s][id].v \in Nat /\ pull[s].got[id].v \in Nat
  <2>1. \A id \in Ids : last[id] \in Nat
    <3>1. \A id \in Ids : last[id] \in Versions \cup {0}
      BY DEF TypeOK
    <3> QED
      BY <3>1, VersionsAreNumbers
  <2> QED
    BY <2>1, CopiesTyped
<1>1. CASE UNCHANGED vars
  BY <1>1 DEF vars, VersionsKnown
<1>2. CASE Next /\ ~(UNCHANGED <<hosted, last>> /\ msgs' \subseteq msgs)
  <2>1. PICK id \in Ids :
          /\ ~\E m \in msgs : m.id = id
          /\ \/ \E v \in Versions :
                  /\ last[id] < v
                  /\ hosted' = [hosted EXCEPT ![id] = v]
                  /\ last' = [last EXCEPT ![id] = v]
                  /\ msgs' = msgs \cup send("register", id, v)
             \/ /\ hosted' = [hosted EXCEPT ![id] = 0]
                /\ last' = last
                /\ msgs' = msgs \cup send("remove", id, 0)
    BY <1>2, CallEffect
  <2>2. UNCHANGED <<store, pull>>
    BY <1>2, CallEffect
  <2>3. ASSUME NEW v \in Versions, last[id] < v,
               hosted' = [hosted EXCEPT ![id] = v],
               last' = [last EXCEPT ![id] = v],
               msgs' = msgs \cup send("register", id, v)
        PROVE  VersionsKnown'
    <3>1. \A x \in Ids : hosted'[x] \in {0, last'[x]} /\ last'[x] >= last[x]
      BY <1>0, <2>3, AntiEntropyAssumption DEF VersionsKnown, TypeOK
    <3>2. \A m \in msgs' : m.kind = "register" => m.v = hosted'[m.id]
      <4>1. \A m \in msgs : m.id \in Ids /\ m.id # id
        BY <2>1 DEF TypeOK
      <4>2. \A m \in send("register", id, v) : m.id = id /\ m.v = v
        BY DEF send
      <4> QED
        BY <2>3, <4>1, <4>2 DEF VersionsKnown, TypeOK
    <3>3. \A x \in Ids : last'[x] \in Nat
      BY <1>0, <2>3, AntiEntropyAssumption DEF TypeOK
    <3> QED
      BY <1>0, <2>2, <3>1, <3>2, <3>3 DEF VersionsKnown
  <2>4. ASSUME hosted' = [hosted EXCEPT ![id] = 0],
               last' = last,
               msgs' = msgs \cup send("remove", id, 0)
        PROVE  VersionsKnown'
    <3>1. \A m \in msgs' : m.kind = "register" => m.v = hosted'[m.id]
      <4>1. \A m \in msgs : m.id \in Ids /\ m.id # id
        BY <2>1 DEF TypeOK
      <4>2. \A m \in send("remove", id, 0) : m.kind = "remove"
        BY DEF send
      <4> QED
        BY <2>4, <4>1, <4>2 DEF VersionsKnown, TypeOK
    <3> QED
      BY <2>2, <2>4, <3>1 DEF VersionsKnown, TypeOK
  <2> QED
    BY <2>1, <2>3, <2>4
<1>3. CASE Next /\ UNCHANGED <<hosted, last>> /\ msgs' \subseteq msgs
  <2> SUFFICES ASSUME NEW s \in Seeds, NEW id \in Ids
               PROVE  /\ store'[s][id].v <= last[id]
                      /\ pull'[s].got[id].v <= last[id]
    BY <1>3 DEF VersionsKnown
  <2>1. CASE Tick
    <3>1. store'[s][id] = aged(store[s][id]) /\ pull'[s].got[id] = aged(pull[s].got[id])
      BY <2>1, TickEffect
    <3>2. store'[s][id].v = store[s][id].v /\ pull'[s].got[id].v = pull[s].got[id].v
      BY <3>1, AgedType, CopiesTyped
    <3> QED
      BY <3>2 DEF VersionsKnown
  <2>2. CASE ~Tick
    <3>0. None.v = 0 /\ \A v : stamped(s, v).v = v
      BY DEF None, stamped
    <3>1. ASSUME store'[s][id] # None PROVE store'[s][id].v <= last[id]
      <4>1. CASE Stays(s, id) \/ Pulled(s, id)
        BY <4>1 DEF Stays, Pulled, VersionsKnown
      <4>2. CASE Written(s, id)
        <5>1. hosted[id] <= last[id]
          BY <1>0 DEF VersionsKnown
        <5>2. \A m \in msgs : m.kind = "register" /\ m.id = id => m.v = hosted[id]
          BY DEF VersionsKnown
        <5>3. store[s][id].v <= last[id]
          BY DEF VersionsKnown
        <5> QED
          BY <3>0, <4>2, <5>1, <5>2, <5>3 DEF Written
      <4> QED
        BY <1>3, <2>2, <3>1, <4>1, <4>2, StoreEffect
    <3>2. ASSUME pull'[s].got[id] # None PROVE pull'[s].got[id].v <= last[id]
      BY <1>3, <2>2, <3>2, PullEffect DEF VersionsKnown
    <3> QED
      BY <1>0, <3>0, <3>1, <3>2
  <2> QED
    BY <2>1, <2>2
<1> QED
  BY <1>1, <1>2, <1>3

(* When every registration of a service carries a higher generation than   *)
(* the one before, as native clients number them, a seed that has the      *)
(* version the agent hosts never goes back to an older one: neither a peer *)
(* nor an old snapshot can undo a write.                                   *)
THEOREM LiveWritesStay ==
    ASSUME \A v, w \in Versions : v < w => Gen[v] < Gen[w]
    PROVE  Spec => LiveWriteKept
<1>1. Init => VersionsKnown
  BY DEF Init, VersionsKnown, NoAnswer, NoPull, None
<1>2. TypeOK /\ VersionsKnown /\ [Next]_vars
        => [\A s \in Seeds, id \in Ids :
              /\ hosted[id] # 0 /\ hosted'[id] = hosted[id]
              /\ store[s][id].v = hosted[id] /\ store'[s][id] # None
              => store'[s][id].v = hosted[id]]_vars
  <2> SUFFICES ASSUME TypeOK, VersionsKnown, Next,
                      NEW s \in Seeds, NEW id \in Ids,
                      hosted[id] # 0, hosted'[id] = hosted[id],
                      store[s][id].v = hosted[id], store'[s][id] # None
               PROVE  store'[s][id].v = hosted[id]
    OBVIOUS
  <2>0. store[s][id] # None
    BY DEF None
  <2>1. CASE Tick
    <3>1. store'[s][id] = aged(store[s][id])
      BY <2>1, TickEffect
    <3> QED
      BY <3>1, AgedType, CopiesTyped
  <2>2. CASE ~Tick
    <3>1. CASE Stays(s, id)
      BY <3>1 DEF Stays
    <3>2. CASE Written(s, id)
      <4>1. \A m \in msgs : m.kind = "register" /\ m.id = id => m.v = hosted[id]
        BY DEF VersionsKnown
      <4>2. \A v : stamped(s, v).v = v
        BY DEF stamped
      <4> QED
        BY <3>2, <4>1, <4>2 DEF Written
    <3>3. CASE Pulled(s, id)
      <4> DEFINE c == pull[s].got[id]
                 d == store[s][id]
      <4>1. c \in Copy /\ d \in Copy
        BY <2>0, <3>3, CopiesTyped DEF Pulled
      <4>2. c.v \in Versions /\ d.v \in Versions /\ c.v \in Nat /\ d.v \in Nat
        BY <4>1, AntiEntropyAssumption DEF Copy
      <4>3. Gen[c.v] \in Nat /\ Gen[d.v] \in Nat
        BY <4>2, AntiEntropyAssumption
      <4>4. c.v <= d.v
        BY <4>2 DEF VersionsKnown
      <4>5. Gen[c.v] >= Gen[d.v]
        BY <2>0, <3>3, <4>3 DEF Pulled, WinsLWW
      <4>6. ~(c.v < d.v)
        <5>1. \A v, w \in Versions : v < w => Gen[v] < Gen[w]
          OBVIOUS
        <5>2. c.v < d.v => Gen[c.v] < Gen[d.v]
          BY Zenon, <4>2, <5>1
        <5>. HIDE DEF c, d
        <5>. QED  BY <4>3, <4>5, <5>2
      <4> QED
        BY <3>3, <4>2, <4>4, <4>6 DEF Pulled
    <3> QED
      BY <2>2, <3>1, <3>2, <3>3, StoreEffect
  <2> QED
    BY <2>1, <2>2
<1> QED
  BY <1>1, <1>2, TypeInvariant, VersionsStep, PTL DEF Spec, LiveWriteKept
-----------------------------------------------------------------------------
(* The join snapshot.  While seed s joins, what a peer that has answered   *)
(* has had all along is in the answer; once merged, it is in the registry. *)

MergedIsClosed == \A s \in Seeds : phase[s] = "merged" => pull[s].open = {}

JoinInv ==
    \A x \in steady : x[2] \in pull[x[1]].ok
        => /\ phase[x[1]] = "joining" => pull[x[1]].got[x[3]] # None
           /\ phase[x[1]] = "merged" => Has(x[1], x[3])

LEMMA MergedStep ==
    ASSUME TypeOK, MergedIsClosed, [Next]_vars
    PROVE  MergedIsClosed'
<1> USE DEF MergedIsClosed
<1>0. /\ pull \in [Seeds -> Pulls]
      /\ phase \in [Seeds -> {"down", "joining", "merged", "ready"}]
  BY DEF TypeOK, Pulls, Answers
<1>1. CASE UNCHANGED vars
  BY <1>1 DEF vars
<1>2. CASE Tick
  <2>1. \A s \in Seeds : pull'[s] =
           [pull[s] EXCEPT !.got = [y \in Ids |-> aged(pull[s].got[y])]]
    BY <1>2 DEF Tick
  <2>2. \A s \in Seeds : pull'[s].open = pull[s].open
    BY <1>0, <2>1 DEF Pulls
  <2> QED
    BY <1>2, <2>2 DEF Tick
<1>3. ASSUME NEW s \in Seeds, SeedStep(s)
      PROVE  MergedIsClosed'
  <2>1. ASSUME NEW p \in Seeds, PeerAnswers(s, p) \/ PeerFails(s, p)
        PROVE  MergedIsClosed'
    BY <1>0, <2>1 DEF PeerAnswers, PeerFails, Pulls
  <2>2. CASE Joined(s) \/ markReady(s) \/ syncDone(s) \/ Crash(s)
    BY <1>0, <2>2 DEF Joined, markReady, syncDone, Crash
  <2>3. CASE SyncTick(s) \/ Boot(s)
    BY <1>0, <2>3 DEF SyncTick, Boot, ask
  <2>4. CASE GC(s) \/ \E id \in Ids : Renew(s, id)
    BY <2>4 DEF GC, Renew
  <2> QED
    BY <1>3, <2>1, <2>2, <2>3, <2>4 DEF SeedStep
<1>4. ASSUME NEW id \in Ids, AppRemove(id) \/ \E v \in Versions : AppRegister(id, v)
      PROVE  phase' = phase /\ pull' = pull
  BY <1>4 DEF AppRemove, AppRegister, Call
<1>5. ASSUME NEW m \in msgs, Deliver(m) \/ Lose(m)
      PROVE  phase' = phase /\ pull' = pull
  BY <1>5 DEF Deliver, Lose
<1> QED
  BY <1>1, <1>2, <1>3, <1>4, <1>5 DEF Next, Step

(* How a step other than a tick moves the phase and the pull of seed s.    *)
LEMMA JoinEffect ==
    ASSUME TypeOK, Next, ~Tick, NEW s \in Seeds,
           phase'[s] \in {"joining", "merged"}
    PROVE  \/ phase'[s] = phase[s] /\ pull'[s].ok = pull[s].ok
                /\ pull'[s].got = pull[s].got
           \/ phase[s] = "down" /\ pull'[s].ok = {}
           \/ phase[s] = "joining" /\ Joined(s)
           \/ phase'[s] = phase[s] /\ \E p \in Seeds : PeerAnswers(s, p)
<1>0. /\ pull \in [Seeds -> Pulls]
      /\ phase \in [Seeds -> {"down", "joining", "merged", "ready"}]
  BY DEF TypeOK, Pulls, Answers
<1>1. CASE phase' = phase /\ pull' = pull
  BY <1>1
<1>2. ASSUME NEW t \in Seeds, SeedStep(t), t # s
      PROVE  phase'[s] = phase[s] /\ pull'[s] = pull[s]
  BY <1>0, <1>2 DEF SeedStep, PeerAnswers, PeerFails, Joined, markReady, SyncTick,
                    syncDone, Crash, Boot, GC, Renew, ask
<1>3. ASSUME NEW p \in Seeds, PeerFails(s, p)
      PROVE  phase'[s] = phase[s] /\ pull'[s].ok = pull[s].ok
               /\ pull'[s].got = pull[s].got
  BY <1>0, <1>3 DEF PeerFails, Pulls
<1>4. CASE SyncTick(s) \/ syncDone(s) \/ markReady(s) \/ Crash(s)
  BY <1>0, <1>4 DEF SyncTick, syncDone, markReady, Crash
<1>5. CASE Boot(s)
  BY <1>0, <1>5 DEF Boot, ask, NoPull, Up
<1>6. CASE GC(s) \/ \E id \in Ids : Renew(s, id)
  BY <1>1, <1>6 DEF GC, Renew
<1>7. CASE Joined(s)
  BY <1>7 DEF Joined
<1>8. ASSUME NEW p \in Seeds, PeerAnswers(s, p)
      PROVE  phase'[s] = phase[s]
  BY <1>8 DEF PeerAnswers
<1>9. CASE SeedStep(s)
  BY <1>3, <1>4, <1>5, <1>6, <1>7, <1>8, <1>9 DEF SeedStep
<1>10. ASSUME NEW id \in Ids, AppRemove(id) \/ \E v \in Versions : AppRegister(id, v)
       PROVE  phase' = phase /\ pull' = pull
  BY <1>10 DEF AppRemove, AppRegister, Call
<1>11. ASSUME NEW m \in msgs, Deliver(m) \/ Lose(m)
       PROVE  phase' = phase /\ pull' = pull
  BY <1>11 DEF Deliver, Lose
<1> QED
  BY <1>1, <1>2, <1>9, <1>10, <1>11 DEF Next, Step

LEMMA JoinStep ==
    ASSUME TypeOK, MergedIsClosed, JoinInv, [Next]_vars
    PROVE  JoinInv'
<1>1. CASE UNCHANGED vars
  BY <1>1 DEF vars, JoinInv, Has
<1>2. CASE Next
  <2> SUFFICES ASSUME NEW x \in steady', x[2] \in pull'[x[1]].ok
               PROVE  /\ phase'[x[1]] = "joining" => pull'[x[1]].got[x[3]] # None
                      /\ phase'[x[1]] = "merged" => store'[x[1]][x[3]] # None
    BY DEF JoinInv, Has
  <2> DEFINE s == x[1]  p == x[2]  id == x[3]
  <2>1. /\ s \in Seeds /\ p \in Seeds /\ id \in Ids
        /\ phase'[s] \in {"joining", "merged"}
        /\ phase[s] = "down" \/ x \in steady
        /\ store'[p][id] # None
        /\ store'[p][id].age + Skew[p] <= Life
        /\ ~(store[s][id] # None /\ store'[s][id] = None)
    BY <1>2 DEF Next, Watched, Has
  <2> HIDE DEF s, p, id
  <2>2. x \in steady => (p \in pull[s].ok
           => /\ phase[s] = "joining" => pull[s].got[id] # None
              /\ phase[s] = "merged" => store[s][id] # None)
    BY DEF JoinInv, Has, s, p, id
  <2>3. p \in pull'[s].ok
    BY DEF s, p
  <2>4. CASE Tick
    <3>1. phase' = phase /\ pull'[s].ok = pull[s].ok
      <4>1. pull'[s] = [pull[s] EXCEPT !.got = [y \in Ids |-> aged(pull[s].got[y])]]
        BY <2>1, <2>4 DEF Tick
      <4> QED
        BY <2>1, <2>4, <4>1 DEF Tick, TypeOK
    <3>2. pull'[s].got[id] = aged(pull[s].got[id]) /\ store'[s][id] = aged(store[s][id])
      BY <2>1, <2>4, TickEffect
    <3>3. pull'[s].got[id] = None <=> pull[s].got[id] = None
      BY <2>1, <3>2, AgedType, CopiesTyped
    <3>4. store'[s][id] = None <=> store[s][id] = None
      BY <2>1, <3>2, AgedType, CopiesTyped
    <3> QED
      BY <2>1, <2>2, <2>3, <3>1, <3>3, <3>4 DEF s, p, id
  <2>5. CASE ~Tick
    <3>1. CASE phase'[s] = phase[s] /\ pull'[s].ok = pull[s].ok
                 /\ pull'[s].got = pull[s].got
      BY <2>1, <2>2, <2>3, <3>1 DEF s, p, id
    <3>2. CASE phase[s] = "down" /\ pull'[s].ok = {}
      BY <2>3, <3>2
    <3>3. CASE phase[s] = "joining" /\ Joined(s)
      <4>1. /\ phase'[s] = "merged" /\ pull' = pull
            /\ store'[s] = Merge(s)
        BY <2>1, <3>3 DEF Joined, TypeOK
      <4>2. pull[s].got[id] # None /\ pull[s].ok # {}
        BY <2>1, <2>2, <2>3, <3>3, <4>1
      <4>3. Merge(s)[id] # None
        BY <2>1, <4>2, MergeType
      <4> QED
        BY <4>1, <4>3 DEF s, id
    <3>4. ASSUME phase'[s] = phase[s], NEW q \in Seeds, PeerAnswers(s, q)
          PROVE  /\ phase'[s] = "joining" => pull'[s].got[id] # None
                 /\ phase'[s] = "merged" => store'[s][id] # None
      <4>1. /\ pull'[s].ok = pull[s].ok \cup {q}
            /\ pull'[s].got = merged(pull[s].got, Lookup(q))
            /\ store' = store
        BY <2>1, <3>4 DEF PeerAnswers, TypeOK
      <4>2. pull[s].got \in Answers
        BY <2>1 DEF TypeOK, Answers
      <4>3. \A y \in Ids : pull'[s].got[y] = None
                            <=> pull[s].got[y] = None /\ Lookup(q)[y] = None
        BY <4>1, <4>2, LookupType, MergedType
      <4>4. CASE p = q
        <5>1. Lookup(q)[id] = store[q][id] /\ store[q][id] # None
          <6>1. ~expired(q, store[q][id])
            BY <2>1, <4>1, <4>4, CopiesTyped, AntiEntropyAssumption
            DEF expired, Copy, Ages
          <6> QED
            BY <2>1, <4>1, <4>4, <6>1 DEF Lookup, Has
        <5>2. pull'[s].got[id] # None
          BY <2>1, <4>3, <5>1
        <5>3. phase[s] # "merged"
          BY <2>1, <3>4 DEF PeerAnswers, MergedIsClosed
        <5> QED
          BY <3>4, <5>2, <5>3
      <4>5. CASE p # q
        BY <2>1, <2>2, <2>3, <3>4, <4>1, <4>3, <4>5
      <4> QED
        BY <4>4, <4>5
    <3> QED
      BY <1>2, <2>1, <2>5, <3>1, <3>2, <3>3, <3>4, JoinEffect DEF s, id
  <2> QED
    BY <2>4, <2>5
<1> QED
  BY <1>1, <1>2

(* A seed that reports ready after a join snapshot has every service that  *)
(* a peer which answered has had since the join began.                     *)
THEOREM JoinIsComplete == Spec => []JoinComplete
<1>1. Init => JoinInv /\ MergedIsClosed
  BY DEF Init, JoinInv, MergedIsClosed
<1>2. JoinInv => JoinComplete
  BY DEF JoinInv, JoinComplete
<1> QED
  BY <1>1, <1>2, TypeInvariant, MergedStep, JoinStep, PTL DEF Spec
=============================================================================
