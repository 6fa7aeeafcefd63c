--------------------------- MODULE RegistryProofs ---------------------------
(***************************************************************************)
(* Proofs about Registry and about the push path SeedWatch builds on it,   *)
(* for every set of nodes, ids, names, clients and peers, every batch,     *)
(* query and channel capacity, and every bound.                            *)
(***************************************************************************)
EXTENDS SeedWatch, FiniteSetTheorems, TLAPS

(* Time for the provers.                                                   *)
USE SMTT(30), ZenonT(30)

-----------------------------------------------------------------------------
(* What the helpers build has the type of what it is stored in.            *)

LEMMA DefOfType == ASSUME NEW item \in Item PROVE defOf(item) \in Def
BY LeaseAssumption, ZenonT(30) DEF Item, defOf, Def, clampTTL

LEMMA EventTypes ==
    ASSUME NEW r \in Ref, NEW meta \in Metas, NEW s \in Service
    PROVE  /\ putEvent(r, meta, s) \in Event
           /\ deleteEvent(r, meta, s) \in Event
BY ZenonT(30) DEF putEvent, deleteEvent, entryEvent, Event, Service, leaseState,
       HealthStates, Passing, Critical

LEMMA NewServiceType ==
    ASSUME NEW def \in Def, index \in Nat
    PROVE  newService(def) \in Service
BY DEF newService, Service, HealthStates, Passing

LEMMA ItemsOfType ==
    ASSUME NEW reg \in Registrations, now \in Nat
    PROVE  itemsOf(reg) \in Seq(Item)
<1>1. /\ reg.node \in Nodes /\ reg.meta \in Metas /\ reg.gen \in Nat
      /\ reg.services \in Seq(Input)
  BY RegistryAssumption, ZenonT(30)
<1>2. ASSUME NEW i \in 1 .. Len(reg.services)
      PROVE  itemsOf(reg)[i] \in Item
  <2>1. reg.services[i] \in Input
    BY <1>1
  <2>2. <<reg.node, IF reg.services[i].id = NoId THEN reg.services[i].name
                    ELSE reg.services[i].id>> \in Ref
    BY <1>1, <2>1, RegistryAssumption, ZenonT(30) DEF Input, Ref
  <2>. QED  BY <1>1, <2>1, <2>2, ZenonT(30) DEF Input, Item, itemsOf
<1>3. itemsOf(reg) \in [1 .. Len(reg.services) -> Item]
  BY Zenon, <1>2 DEF itemsOf
<1>. QED  BY <1>1, <1>3
-----------------------------------------------------------------------------
(* The type invariant is inductive together with what the loops rely on:   *)
(* every service still to visit is stored, the services of the node being  *)
(* deregistered are all still to visit, the node of a registration being   *)
(* processed is known, and a GC pass judges leases at an instant that has  *)
(* come.  That only finitely many services are stored makes the size count *)
(* a number.                                                               *)

LoopOK ==
    /\ call.todo \subseteq Stored
    /\ call.op = "Deregister" =>
         /\ call.node \in Nodes
         /\ \A r \in Stored : r[1] = call.node => r \in call.todo
    /\ call.op = "Register" =>
         \A i \in 1 .. Len(call.rest) : nodes[call.rest[i].ref[1]] # NoMeta
    /\ call.at <= now

TypeInv == TypeOK /\ NodesCover /\ LoopOK /\ IsFiniteSet(Stored)

LEMMA PutInLoopType ==
    ASSUME TypeOK, NEW r \in Ref, NEW meta \in Metas, NEW s \in Service,
           NEW size \in Nat, NEW more \in Seq(Item),
           putInLoop(r, meta, s, size, more)
    PROVE  /\ svc' \in [Ref -> Service \cup {NoSvc}]
           /\ byName' \in [Names -> SUBSET Ref]
           /\ index' \in Nat
           /\ call' \in CallType
           /\ newest' \in [Ref -> Event \cup {NoEvent}]
           /\ Stored' = Stored \cup {r}
           /\ call'.op = call.op /\ call'.node = call.node
           /\ call'.todo = call.todo /\ call'.at = call.at
           /\ call'.rest = more
<1>1. putEvent(r, meta, s) \in Event
  BY EventTypes, ZenonT(30)
<1>2. putEvent(r, meta, s).ref = r
  BY ZenonT(30) DEF putEvent, entryEvent
<1>3. svc' = [svc EXCEPT ![r] = s] /\ index' = index + 1
  BY ZenonT(30) DEF putInLoop
<1>4. byName' \in [Names -> SUBSET Ref]
  <2>1. CASE svc[r] = NoSvc
    BY Zenon, <2>1 DEF putInLoop, indexName, TypeOK
  <2>2. CASE svc[r] # NoSvc
    BY Zenon, <2>2 DEF putInLoop, indexName, unindexName, TypeOK
  <2>. QED  BY <2>1, <2>2, ZenonT(30)
<1>5. call' = [call EXCEPT !.size = size, !.rest = more,
                           !.events = Append(@, putEvent(r, meta, s))]
  BY ZenonT(30) DEF putInLoop
<1>6. newest' = [newest EXCEPT ![r] = putEvent(r, meta, s)]
  BY <1>2, ZenonT(30) DEF putInLoop, Announce
<1>7. call' \in CallType /\ call'.op = call.op /\ call'.node = call.node
      /\ call'.todo = call.todo /\ call'.at = call.at /\ call'.rest = more
  <2>1. Append(call.events, putEvent(r, meta, s)) \in Seq(Event)
    BY <1>1 DEF TypeOK, CallType
  <2>2. call \in CallType
    BY ZenonT(30) DEF TypeOK
  <2>3. \A ev \in Seq(Event) :
          LET c == [call EXCEPT !.size = size, !.rest = more, !.events = ev]
          IN  /\ c \in CallType /\ c.op = call.op /\ c.node = call.node
              /\ c.todo = call.todo /\ c.at = call.at /\ c.rest = more
    BY Zenon, <2>2 DEF CallType
  <2>4. call' = [call EXCEPT !.size = size, !.rest = more,
                     !.events = Append(call.events, putEvent(r, meta, s))]
    BY <1>5, ZenonT(30)
  <2>. QED  BY Zenon, <2>1, <2>3, <2>4
<1>8. Stored' = Stored \cup {r}
  BY <1>3, AbsentAssumption, ZenonT(30) DEF TypeOK, Stored
<1>. QED  BY <1>1, <1>3, <1>4, <1>6, <1>7, <1>8 DEF TypeOK

LEMMA DeleteInLoopType ==
    ASSUME TypeOK, NodesCover, NEW r \in Stored, deleteInLoop(r)
    PROVE  /\ svc' \in [Ref -> Service \cup {NoSvc}]
           /\ byName' \in [Names -> SUBSET Ref]
           /\ index' \in Nat
           /\ call' \in CallType
           /\ newest' \in [Ref -> Event \cup {NoEvent}]
           /\ Stored' = Stored \ {r}
           /\ call'.op = call.op /\ call'.node = call.node
           /\ call'.todo = call.todo \ {r} /\ call'.at = call.at
           /\ call'.rest = call.rest
<1> DEFINE d == [svc[r] EXCEPT !.modifyIndex = index + 1]
           e == deleteEvent(r, nodes[r[1]], d)
<1>0. r \in Ref /\ svc[r] \in Service /\ nodes[r[1]] \in Metas
  BY ZenonT(30) DEF TypeOK, NodesCover, Stored, Ref
<1>1. d \in Service
  BY <1>0 DEF TypeOK, Service
<1>2. e \in Event /\ e.ref = r
  <2>1. e \in Event
    BY <1>0, <1>1, EventTypes, ZenonT(30)
  <2>2. e.ref = r
    BY ZenonT(30) DEF deleteEvent, entryEvent
  <2>. QED  BY <2>1, <2>2, ZenonT(30)
<1>3. /\ svc' = [svc EXCEPT ![r] = NoSvc] /\ index' = index + 1
      /\ byName' = [byName EXCEPT ![svc[r].def.name] = @ \ {r}]
      /\ call' = [call EXCEPT !.todo = @ \ {r}, !.events = Append(@, e)]
  BY ZenonT(30) DEF deleteInLoop, unindexName
<1>4. newest' = [newest EXCEPT ![r] = e]
  BY Zenon, <1>2 DEF deleteInLoop, Announce
<1>5. call' \in CallType /\ call'.op = call.op /\ call'.node = call.node
      /\ call'.todo = call.todo \ {r} /\ call'.at = call.at
      /\ call'.rest = call.rest
  <2>1. Append(call.events, e) \in Seq(Event)
    BY <1>2 DEF TypeOK, CallType
  <2>2. call \in CallType
    BY ZenonT(30) DEF TypeOK
  <2>3. \A ev \in Seq(Event) :
          LET c == [call EXCEPT !.todo = call.todo \ {r}, !.events = ev]
          IN  /\ c \in CallType /\ c.op = call.op /\ c.node = call.node
              /\ c.todo = call.todo \ {r} /\ c.at = call.at
              /\ c.rest = call.rest
    BY Zenon, <2>2 DEF CallType
  <2>4. call' = [call EXCEPT !.todo = call.todo \ {r},
                             !.events = Append(call.events, e)]
    BY <1>3, ZenonT(30)
  <2>. QED  BY Zenon, <2>1, <2>3, <2>4
<1>6. Stored' = Stored \ {r}
  BY <1>3, ZenonT(30) DEF TypeOK, Stored
<1>. HIDE DEF d, e
<1>7. /\ svc' \in [Ref -> Service \cup {NoSvc}]
      /\ newest' \in [Ref -> Event \cup {NoEvent}]
      /\ index' \in Nat
  BY <1>0, <1>2, <1>3, <1>4 DEF TypeOK
<1>8. byName' \in [Names -> SUBSET Ref]
  BY Zenon, <1>0, <1>3 DEF TypeOK
<1>. QED  BY <1>5, <1>6, <1>7, <1>8, ZenonT(30)

LEMMA StoredSame == ASSUME UNCHANGED svc PROVE Stored' = Stored
BY ZenonT(30) DEF Stored

LEMMA IdleType ==
    /\ Idle \in CallType
    /\ Idle.op = "idle" /\ Idle.todo = {} /\ Idle.at = 0
BY DEF Idle, CallType

LEMMA QueueType ==
    ASSUME TypeOK, NEW es \in Seq(Event), queue(es)
    PROVE  pending' \in SUBSET Seq(Event)
BY ZenonT(30) DEF queue, TypeOK

LEMMA UnlockType ==
    ASSUME TypeOK, unlock
    PROVE  /\ call' \in CallType /\ pending' \in SUBSET Seq(Event)
           /\ call'.op = "idle" /\ call'.todo = {} /\ call'.at = 0
<1>1. call.events \in Seq(Event)
  BY ZenonT(30) DEF TypeOK, CallType
<1>2. pending' \in SUBSET Seq(Event)
  BY <1>1, QueueType, ZenonT(30) DEF unlock
<1>. QED  BY <1>2, IdleType, ZenonT(30) DEF unlock

(* The first item of a loop's input, and what remains of it.               *)
LEMMA HeadAndTail ==
    ASSUME NEW s \in Seq(Item), s # <<>>
    PROVE  /\ Head(s) \in Item /\ Head(s) = s[1] /\ 1 \in 1 .. Len(s)
           /\ Tail(s) \in Seq(Item)
           /\ \A i \in 1 .. Len(Tail(s)) :
                 i + 1 \in 1 .. Len(s) /\ Tail(s)[i] = s[i + 1]
OBVIOUS

(* A step that only puts the item at the head of a loop's input.           *)
LEMMA PutStepType ==
    ASSUME TypeInv, NEW r \in Ref, NEW meta \in Metas, NEW s \in Service,
           NEW size \in Nat, call.rest # <<>>,
           call.op \in {"Register", "Merge"},
           putInLoop(r, meta, s, size, Tail(call.rest)),
           nodes' \in [Nodes -> Metas \cup {NoMeta}], nodes'[r[1]] # NoMeta,
           \A n \in Nodes : nodes[n] # NoMeta => nodes'[n] # NoMeta,
           UNCHANGED <<now, pending>>
    PROVE  TypeInv'
<1>1. call.rest \in Seq(Item)
  BY ZenonT(30) DEF TypeInv, TypeOK, CallType
<1>2. Tail(call.rest) \in Seq(Item)
  BY <1>1, HeadAndTail, ZenonT(30)
<1>. DEFINE more == Tail(call.rest)
<1>3. /\ svc' \in [Ref -> Service \cup {NoSvc}]
      /\ byName' \in [Names -> SUBSET Ref]
      /\ index' \in Nat
      /\ call' \in CallType
      /\ newest' \in [Ref -> Event \cup {NoEvent}]
      /\ Stored' = Stored \cup {r}
      /\ call'.op = call.op /\ call'.node = call.node
      /\ call'.todo = call.todo /\ call'.at = call.at
      /\ call'.rest = more
  <2>1. TypeOK
    BY Zenon DEF TypeInv
  <2>. HIDE DEF more
  <2>2. more \in Seq(Item) /\ putInLoop(r, meta, s, size, more)
    BY Zenon, <1>2 DEF more
  <2>. QED  BY <2>1, <2>2, PutInLoopType
<1>. HIDE DEF more
<1>4. TypeOK'
  BY <1>3, ZenonT(30) DEF TypeInv, TypeOK
<1>7. IsFiniteSet(Stored')
  BY <1>3, FS_AddElement, ZenonT(30) DEF TypeInv
<1>5. NodesCover'
  BY <1>3, ZenonT(30) DEF TypeInv, TypeOK, NodesCover, Stored, Ref
<1>6. LoopOK'
  <2>1. call'.todo \subseteq Stored' /\ call'.at <= now'
    BY <1>3, ZenonT(30) DEF TypeInv, LoopOK
  <2>2. ASSUME call'.op = "Register", NEW i \in 1 .. Len(call'.rest)
        PROVE  nodes'[call'.rest[i].ref[1]] # NoMeta
    <3>1. i + 1 \in 1 .. Len(call.rest) /\ call'.rest[i] = call.rest[i + 1]
      BY <1>1, <1>3, <2>2, HeadAndTail DEF more
    <3>2. call.rest[i + 1] \in Item
      BY <1>1, <3>1
    <3>3. call.rest[i + 1].ref[1] \in Nodes
      BY <3>2, ZenonT(30) DEF Item, Ref
    <3>. QED  BY <1>3, <2>2, <3>1, <3>3, ZenonT(30) DEF TypeInv, LoopOK
  <2>3. call'.op # "Deregister"
    BY <1>3, ZenonT(30)
  <2>. QED  BY <2>1, <2>2, <2>3, ZenonT(30) DEF LoopOK
<1>. QED  BY <1>4, <1>5, <1>6, <1>7, ZenonT(30) DEF TypeInv

(* A step that leaves the services alone and drops the head of the input.  *)
LEMMA SkipStepType ==
    ASSUME TypeInv, call.rest # <<>>, call.op \in {"Register", "Merge"},
           call' = [call EXCEPT !.rest = Tail(call.rest)],
           svc' \in [Ref -> Service \cup {NoSvc}], Stored' = Stored,
           nodes' \in [Nodes -> Metas \cup {NoMeta}],
           \A n \in Nodes : nodes[n] # NoMeta => nodes'[n] # NoMeta,
           UNCHANGED <<now, byName, index, pending, newest>>
    PROVE  TypeInv'
<1>1. call \in CallType /\ call.rest \in Seq(Item)
  BY ZenonT(30) DEF TypeInv, TypeOK, CallType
<1>2. Tail(call.rest) \in Seq(Item)
  BY <1>1, HeadAndTail, ZenonT(30)
<1>. DEFINE more == Tail(call.rest)
<1>3. /\ call' \in CallType
      /\ call'.op = call.op /\ call'.node = call.node
      /\ call'.todo = call.todo /\ call'.at = call.at
      /\ call'.rest = more
  <2>. HIDE DEF more
  <2>1. \A m \in Seq(Item) :
          LET c == [call EXCEPT !.rest = m]
          IN  /\ c \in CallType /\ c.op = call.op /\ c.node = call.node
              /\ c.todo = call.todo /\ c.at = call.at /\ c.rest = m
    BY Zenon, <1>1 DEF CallType
  <2>. QED  BY Zenon, <1>2, <2>1 DEF more
<1>. HIDE DEF more
<1>4. TypeOK'
  BY <1>3, ZenonT(30) DEF TypeInv, TypeOK
<1>7. IsFiniteSet(Stored')
  BY ZenonT(30) DEF TypeInv
<1>5. NodesCover'
  BY ZenonT(30) DEF TypeInv, TypeOK, NodesCover, Stored, Ref
<1>6. LoopOK'
  <2>1. call'.todo \subseteq Stored' /\ call'.at <= now'
    BY <1>3, ZenonT(30) DEF TypeInv, LoopOK
  <2>2. ASSUME call'.op = "Register", NEW i \in 1 .. Len(call'.rest)
        PROVE  nodes'[call'.rest[i].ref[1]] # NoMeta
    <3>1. i + 1 \in 1 .. Len(call.rest) /\ call'.rest[i] = call.rest[i + 1]
      BY <1>1, <1>3, <2>2, HeadAndTail, ZenonT(30) DEF more
    <3>2. call.rest[i + 1] \in Item
      BY <1>1, <3>1
    <3>3. call.rest[i + 1].ref[1] \in Nodes
      BY <3>2, ZenonT(30) DEF Item, Ref
    <3>. QED  BY <1>3, <2>2, <3>1, <3>3, ZenonT(30) DEF TypeInv, LoopOK
  <2>3. call'.op # "Deregister"
    BY <1>3, ZenonT(30)
  <2>. QED  BY <2>1, <2>2, <2>3, ZenonT(30) DEF LoopOK
<1>. QED  BY <1>4, <1>5, <1>6, <1>7, ZenonT(30) DEF TypeInv
-----------------------------------------------------------------------------
(* One lemma per kind of step.                                             *)

LEMMA RegisterStepType ==
    ASSUME TypeInv, RegisterService
    PROVE  TypeInv'
<1>. DEFINE item == Head(call.rest)
            r == item.ref
            def == defOf(item)
<1>1. call.op = "Register" /\ call.rest # <<>> /\ UNCHANGED <<now, nodes>>
  BY ZenonT(30) DEF RegisterService
<1>2. call.rest \in Seq(Item) /\ call.size \in Nat
  BY ZenonT(30) DEF TypeInv, TypeOK, CallType
<1>3. item \in Item /\ item = call.rest[1] /\ 1 \in 1 .. Len(call.rest)
  BY <1>1, <1>2, HeadAndTail, ZenonT(30)
<1>4. def \in Def
  BY <1>3, DefOfType, ZenonT(30)
<1>5. r \in Ref /\ r[1] \in Nodes /\ item.meta \in Metas
  BY <1>3, ZenonT(30) DEF Item, Ref
<1>6. nodes[r[1]] # NoMeta
  BY <1>1, <1>3, ZenonT(30) DEF TypeInv, LoopOK
<1>7. \/ RegisterNew(item, def) \/ RegisterFull(item)
      \/ RegisterChanged(item, def) \/ RegisterSame(item, def)
  BY ZenonT(30) DEF RegisterService
<1>. HIDE DEF item, def
<1>8. CASE RegisterNew(item, def)
  <2>1. newService(def) \in Service
    BY <1>4, NewServiceType, ZenonT(30) DEF TypeInv, TypeOK
  <2>2. putInLoop(r, item.meta, newService(def), call.size + 1, Tail(call.rest))
    BY <1>8, ZenonT(30) DEF RegisterNew
  <2>3. UNCHANGED <<now, pending>> /\ nodes' = nodes
    BY <1>1, <1>8, ZenonT(30) DEF RegisterNew
  <2>4. nodes \in [Nodes -> Metas \cup {NoMeta}]
    BY ZenonT(30) DEF TypeInv, TypeOK
  <2>. QED  BY <1>1, <1>2, <1>5, <1>6, <2>1, <2>2, <2>3, <2>4, PutStepType
<1>9. CASE RegisterFull(item)
  <2>1. unlock /\ UNCHANGED <<now, nodes, svc, byName, index, newest>>
    BY <1>1, <1>9, ZenonT(30) DEF RegisterFull
  <2>2. /\ call' \in CallType /\ pending' \in SUBSET Seq(Event)
        /\ call'.op = "idle" /\ call'.todo = {} /\ call'.at = 0
    BY <2>1, UnlockType, ZenonT(30) DEF TypeInv
  <2>. QED  BY <2>1, <2>2 DEF TypeInv, TypeOK, NodesCover, LoopOK, Stored
<1>10. CASE RegisterChanged(item, def)
  <2>. DEFINE s == [svc[r] EXCEPT !.def = def, !.lastState = Passing,
                                  !.modifyIndex = index + 1]
  <2>0. svc[r] \in Service /\ index + 1 \in Nat
    BY <1>5, <1>10 DEF RegisterChanged, TypeInv, TypeOK
  <2>1. s \in Service
    BY Zenon, <1>4, <2>0 DEF Service, HealthStates
  <2>2. putInLoop(r, item.meta, s, call.size, Tail(call.rest))
    BY <1>10, ZenonT(30) DEF RegisterChanged
  <2>3. UNCHANGED <<now, pending>> /\ nodes' = nodes
    BY <1>1, <1>10, ZenonT(30) DEF RegisterChanged
  <2>4. nodes \in [Nodes -> Metas \cup {NoMeta}]
    BY DEF TypeInv, TypeOK
  <2>. HIDE DEF s
  <2>. QED  BY <1>1, <1>2, <1>5, <1>6, <2>1, <2>2, <2>3, <2>4, PutStepType, ZenonT(30)
<1>11. CASE RegisterSame(item, def)
  <2>1. svc[r] \in Service /\ def.lastSeen \in Nat
    BY <1>4, <1>5, <1>11, ZenonT(30) DEF RegisterSame, TypeInv, TypeOK, Def
  <2>2. svc' = [svc EXCEPT ![r] = [svc[r] EXCEPT !.def =
                                     [svc[r].def EXCEPT !.lastSeen = def.lastSeen]]]
    BY <1>11, ZenonT(30) DEF RegisterSame
  <2>3. [svc[r] EXCEPT !.def = [svc[r].def EXCEPT !.lastSeen = def.lastSeen]]
          \in Service
    BY <2>1, ZenonT(30) DEF Service, Def
  <2>4. svc' \in [Ref -> Service \cup {NoSvc}] /\ Stored' = Stored
    BY <1>5, <1>11, <2>2, <2>3, AbsentAssumption
       DEF RegisterSame, TypeInv, TypeOK, Stored
  <2>5. call' = [call EXCEPT !.rest = Tail(call.rest)]
    BY <1>11, ZenonT(30) DEF RegisterSame
  <2>6. UNCHANGED <<now, byName, index, pending, newest>> /\ nodes' = nodes
    BY <1>1, <1>11, ZenonT(30) DEF RegisterSame
  <2>7. nodes \in [Nodes -> Metas \cup {NoMeta}]
    BY DEF TypeInv, TypeOK
  <2>. QED  BY <1>1, <2>4, <2>5, <2>6, <2>7, SkipStepType, ZenonT(30)
<1>. QED  BY <1>7, <1>8, <1>9, <1>10, <1>11, ZenonT(30)

LEMMA MergeStepType ==
    ASSUME TypeInv, MergeEntry
    PROVE  TypeInv'
<1>. DEFINE item == Head(call.rest)
            r == item.ref
            def == defOf(item)
<1>1. call.op = "Merge" /\ call.rest # <<>> /\ UNCHANGED <<now, pending>>
      /\ nodes' = [nodes EXCEPT ![r[1]] = item.meta]
  BY ZenonT(30) DEF MergeEntry
<1>2. call.rest \in Seq(Item) /\ call.size \in Nat
      /\ nodes \in [Nodes -> Metas \cup {NoMeta}]
  BY ZenonT(30) DEF TypeInv, TypeOK, CallType
<1>3. item \in Item
  BY <1>1, <1>2, HeadAndTail, ZenonT(30)
<1>4. def \in Def
  BY <1>3, DefOfType, ZenonT(30)
<1>5. r \in Ref /\ r[1] \in Nodes /\ item.meta \in Metas
  BY <1>3, ZenonT(30) DEF Item, Ref
<1>6. MergeNew(item, def) \/ MergeWins(item, def) \/ MergeSkip(item, def)
  BY ZenonT(30) DEF MergeEntry
<1>. HIDE DEF item, def
<1>7. /\ nodes' \in [Nodes -> Metas \cup {NoMeta}] /\ nodes'[r[1]] # NoMeta
      /\ \A n \in Nodes : nodes[n] # NoMeta => nodes'[n] # NoMeta
  BY <1>1, <1>2, <1>5, RegistryAssumption, ZenonT(30)
<1>8. CASE MergeNew(item, def)
  <2>1. newService(def) \in Service
    BY <1>4, NewServiceType DEF TypeInv, TypeOK
  <2>2. putInLoop(r, item.meta, newService(def), call.size + 1, Tail(call.rest))
    BY <1>8, ZenonT(30) DEF MergeNew
  <2>. QED  BY <1>1, <1>2, <1>5, <1>7, <2>1, <2>2, PutStepType
<1>9. CASE MergeWins(item, def)
  <2>. DEFINE s == [svc[r] EXCEPT !.def = def, !.modifyIndex = index + 1]
  <2>0. svc[r] \in Service /\ index + 1 \in Nat
    BY <1>5, <1>9 DEF MergeWins, TypeInv, TypeOK
  <2>1. s \in Service
    BY Zenon, <1>4, <2>0 DEF Service
  <2>2. putInLoop(r, item.meta, s, call.size, Tail(call.rest))
    BY <1>9, ZenonT(30) DEF MergeWins
  <2>. HIDE DEF s
  <2>. QED  BY <1>1, <1>2, <1>5, <1>7, <2>1, <2>2, PutStepType, ZenonT(30)
<1>10. CASE MergeSkip(item, def)
  <2>1. /\ call' = [call EXCEPT !.rest = Tail(call.rest)]
        /\ UNCHANGED <<now, byName, index, pending, newest>> /\ svc' = svc
    BY <1>1, <1>10, ZenonT(30) DEF MergeSkip
  <2>2. svc' \in [Ref -> Service \cup {NoSvc}] /\ Stored' = Stored
    BY <2>1, ZenonT(30) DEF TypeInv, TypeOK, Stored
  <2>. QED  BY <1>1, <1>7, <2>1, <2>2, SkipStepType, ZenonT(30)
<1>. QED  BY <1>6, <1>8, <1>9, <1>10, ZenonT(30)

(* What the caller that takes the lock writes into `call'.                *)
LEMMA BeginItemsType ==
    ASSUME NEW op \in {"Register", "Merge"}, NEW size \in Nat,
           NEW items \in Seq(Item)
    PROVE  [Idle EXCEPT !.op = op, !.size = size, !.rest = items] \in CallType
<1>. DEFINE I == Idle
<1>1. I \in CallType
  BY IdleType, ZenonT(30)
<1>. HIDE DEF I
<1>2. [I EXCEPT !.op = op, !.size = size, !.rest = items] \in CallType
  BY Zenon, <1>1 DEF CallType
<1>. QED  BY <1>2, ZenonT(30) DEF I

LEMMA BeginDeregisterType ==
    ASSUME NEW n \in Nodes, NEW todo \in SUBSET Ref
    PROVE  [Idle EXCEPT !.op = "Deregister", !.node = n, !.todo = todo]
             \in CallType
<1>. DEFINE I == Idle
<1>1. I \in CallType
  BY IdleType, ZenonT(30)
<1>. HIDE DEF I
<1>2. [I EXCEPT !.op = "Deregister", !.node = n, !.todo = todo] \in CallType
  BY Zenon, <1>1 DEF CallType
<1>. QED  BY <1>2, ZenonT(30) DEF I

LEMMA BeginGCType ==
    ASSUME NEW t \in Nat, NEW todo \in SUBSET Ref
    PROVE  [Idle EXCEPT !.op = "GC", !.at = t, !.todo = todo] \in CallType
<1>. DEFINE I == Idle
<1>1. I \in CallType
  BY IdleType, ZenonT(30)
<1>. HIDE DEF I
<1>2. [I EXCEPT !.op = "GC", !.at = t, !.todo = todo] \in CallType
  BY Zenon, <1>1 DEF CallType
<1>. QED  BY <1>2, ZenonT(30) DEF I

LEMMA BeginStepType ==
    ASSUME TypeInv, call = Idle,
           \/ \E reg \in Registrations : Register(reg)
           \/ \E entries \in PeerBatches : Merge(entries)
           \/ \E n \in Nodes : Deregister(n)
           \/ GC
    PROVE  TypeInv'
<1>0. sizeLocked \in Nat
  BY FS_CardinalityType, ZenonT(30) DEF TypeInv, sizeLocked
<1>1. CASE \E reg \in Registrations : Register(reg)
  <2>1. PICK reg \in Registrations : Register(reg)
    BY <1>1, ZenonT(30)
  <2>2. /\ nodes' = [nodes EXCEPT ![reg.node] = reg.meta]
        /\ call' = [Idle EXCEPT !.op = "Register", !.size = sizeLocked,
                                !.rest = itemsOf(reg)]
        /\ UNCHANGED <<now, svc, byName, index, pending, newest>>
    BY Zenon, <2>1 DEF Register
  <2>3. itemsOf(reg) \in Seq(Item)
    BY ItemsOfType, ZenonT(30) DEF TypeInv, TypeOK
  <2>4. reg.node \in Nodes /\ reg.meta \in Metas
        /\ reg.services \in Seq(Input)
    BY RegistryAssumption, ZenonT(30)
  <2>5. /\ call' \in CallType /\ call'.op = "Register" /\ call'.todo = {}
        /\ call'.at = 0 /\ call'.rest = itemsOf(reg)
    BY Zenon, <1>0, <2>2, <2>3, BeginItemsType DEF Idle
  <2>6. /\ nodes' \in [Nodes -> Metas \cup {NoMeta}]
        /\ nodes'[reg.node] # NoMeta
        /\ \A n \in Nodes : nodes[n] # NoMeta => nodes'[n] # NoMeta
    BY <2>2, <2>4, RegistryAssumption, ZenonT(30) DEF TypeInv, TypeOK
  <2>7. \A i \in 1 .. Len(itemsOf(reg)) : itemsOf(reg)[i].ref[1] = reg.node
    BY <2>4 DEF itemsOf
  <2>8. TypeOK'
    BY <2>2, <2>5, <2>6, ZenonT(30) DEF TypeInv, TypeOK
  <2>9. NodesCover'
    BY <2>2, <2>6, ZenonT(30) DEF TypeInv, TypeOK, NodesCover, Stored, Ref
  <2>10. LoopOK'
    BY <2>2, <2>5, <2>6, <2>7 DEF TypeInv, TypeOK, LoopOK
  <2>11. Stored' = Stored
    BY <2>2, StoredSame, ZenonT(30)
  <2>. QED  BY <2>8, <2>9, <2>10, <2>11, ZenonT(30) DEF TypeInv
<1>2. CASE \E entries \in PeerBatches : Merge(entries)
  <2>1. PICK entries \in PeerBatches : Merge(entries)
    BY <1>2, ZenonT(30)
  <2>2. /\ call' = [Idle EXCEPT !.op = "Merge", !.size = sizeLocked,
                                !.rest = entries]
        /\ UNCHANGED <<now, nodes, svc, byName, index, pending, newest>>
    BY Zenon, <2>1 DEF Merge
  <2>3. entries \in Seq(Item)
    BY RegistryAssumption, ZenonT(30)
  <2>4. /\ call' \in CallType /\ call'.op = "Merge" /\ call'.todo = {}
        /\ call'.at = 0
    BY Zenon, <1>0, <2>2, <2>3, BeginItemsType DEF Idle
  <2>. QED  BY <2>2, <2>4 DEF TypeInv, TypeOK, LoopOK, NodesCover, Stored
<1>3. CASE \E n \in Nodes : Deregister(n)
  <2>1. PICK n \in Nodes : Deregister(n)
    BY <1>3, ZenonT(30)
  <2>2. /\ call' = [Idle EXCEPT !.op = "Deregister", !.node = n,
                                !.todo = {r \in Stored : r[1] = n}]
        /\ UNCHANGED <<now, nodes, svc, byName, index, pending, newest>>
    BY Zenon, <2>1 DEF Deregister
  <2>3. {r \in Stored : r[1] = n} \in SUBSET Ref
    BY ZenonT(30) DEF Stored
  <2>4. call' \in CallType
    BY Zenon, <2>2, <2>3, BeginDeregisterType
  <2>5. /\ call'.op = "Deregister" /\ call'.node = n
        /\ call'.todo = {r \in Stored : r[1] = n} /\ call'.at = 0
    BY <2>2, ZenonT(30) DEF Idle
  <2>6. Stored' = Stored
    BY <2>2, StoredSame, ZenonT(30)
  <2>. QED  BY <2>2, <2>4, <2>5, <2>6 DEF TypeInv, TypeOK, LoopOK, NodesCover
<1>4. CASE GC
  <2>1. /\ call' = [Idle EXCEPT !.op = "GC", !.at = now, !.todo = Stored]
        /\ UNCHANGED <<now, nodes, svc, byName, index, pending, newest>>
    BY <1>4, ZenonT(30) DEF GC
  <2>2. Stored \in SUBSET Ref /\ now \in Nat
    BY ZenonT(30) DEF Stored, TypeInv, TypeOK
  <2>3. call' \in CallType
    BY Zenon, <2>1, <2>2, BeginGCType
  <2>4. call'.op = "GC" /\ call'.todo = Stored /\ call'.at = now
    BY <2>1, ZenonT(30) DEF Idle
  <2>5. Stored' = Stored
    BY <2>1, StoredSame, ZenonT(30)
  <2>. QED
    BY <2>1, <2>2, <2>3, <2>4, <2>5 DEF TypeInv, TypeOK, LoopOK, NodesCover
<1>. QED  BY <1>1, <1>2, <1>3, <1>4, ZenonT(30)

LEMMA EndStepType ==
    ASSUME TypeInv, RegisterDone \/ MergeDone \/ DeregisterDone \/ GCDone
    PROVE  TypeInv'
<1>1. unlock /\ UNCHANGED <<now, svc, byName, index, newest>>
  BY ZenonT(30) DEF RegisterDone, MergeDone, DeregisterDone, GCDone
<1>2. /\ call' \in CallType /\ pending' \in SUBSET Seq(Event)
      /\ call'.op = "idle" /\ call'.todo = {} /\ call'.at = 0
  BY <1>1, UnlockType, ZenonT(30) DEF TypeInv
<1>3. nodes' \in [Nodes -> Metas \cup {NoMeta}] /\ NodesCover'
  <2>1. CASE RegisterDone \/ MergeDone
    BY <1>1, <2>1, ZenonT(30) DEF RegisterDone, MergeDone, TypeInv, TypeOK, NodesCover,
                      Stored
  <2>2. CASE DeregisterDone
    <3>1. \A r \in Stored : r[1] # call.node
      BY <2>2, ZenonT(30) DEF DeregisterDone, TypeInv, LoopOK
    <3>2. nodes' = [nodes EXCEPT ![call.node] = NoMeta]
      BY <2>2, ZenonT(30) DEF DeregisterDone
    <3>. QED  BY Zenon, <1>1, <3>1, <3>2
               DEF TypeInv, TypeOK, NodesCover, Stored, Ref
  <2>3. CASE GCDone
    BY <1>1, <2>3, ZenonT(30) DEF GCDone, TypeInv, TypeOK, NodesCover, Stored, Ref
  <2>. QED  BY <2>1, <2>2, <2>3, ZenonT(30)
<1>4. Stored' = Stored
  BY <1>1, StoredSame, ZenonT(30)
<1>. QED  BY <1>1, <1>2, <1>3, <1>4 DEF TypeInv, TypeOK, LoopOK

(* One service is replaced by another.                                     *)
LEMMA PutOneType ==
    ASSUME TypeInv, call = Idle, NEW r \in Stored, NEW s \in Service,
           putOne(r, s)
    PROVE  TypeInv'
<1>0. r \in Ref /\ nodes[r[1]] \in Metas
  BY ZenonT(30) DEF TypeInv, TypeOK, NodesCover, Stored, Ref
<1>. DEFINE e == putEvent(r, nodes[r[1]], s)
<1>1. e \in Event /\ e.ref = r
  BY <1>0, EventTypes, ZenonT(30) DEF putEvent, entryEvent
<1>2. /\ svc' = [svc EXCEPT ![r] = s] /\ index' = index + 1
      /\ queue(<<e>>) /\ Announce(e)
      /\ UNCHANGED <<now, nodes, byName, call>>
  BY ZenonT(30) DEF putOne
<1>. HIDE DEF e
<1>3. pending' \in SUBSET Seq(Event)
  <2>1. <<e>> \in Seq(Event)
    BY <1>1
  <2>. QED  BY Zenon, <1>2, <2>1, QueueType DEF TypeInv
<1>4. newest' = [newest EXCEPT ![r] = e]
  BY <1>1, <1>2, ZenonT(30) DEF Announce
<1>5. Stored' = Stored
  BY <1>0, <1>2, AbsentAssumption, ZenonT(30) DEF Stored, TypeInv, TypeOK
<1>6. TypeOK'
  BY <1>0, <1>1, <1>2, <1>3, <1>4 DEF TypeInv, TypeOK
<1>. QED  BY <1>2, <1>5, <1>6, ZenonT(30) DEF TypeInv, NodesCover, LoopOK

LEMMA SingleStepType ==
    ASSUME TypeInv,
           \/ \E n \in Nodes, ids \in RenewArgs : Renew(n, ids)
           \/ \E r \in FailRefs : Fail(r)
           \/ \E r \in Ref, enabled \in BOOLEAN : SetMaintenance(r, enabled)
           \/ \E r \in Ref : DeregisterService(r)
    PROVE  TypeInv'
<1>a. index \in Nat /\ now \in Nat /\ svc \in [Ref -> Service \cup {NoSvc}]
  BY Zenon DEF TypeInv, TypeOK
<1>0. /\ index \in Nat /\ index + 1 \in Nat /\ now \in Nat
      /\ svc \in [Ref -> Service \cup {NoSvc}]
  BY <1>a
<1>1. CASE \E n \in Nodes, ids \in RenewArgs : Renew(n, ids)
  <2>1. PICK n \in Nodes, ids \in RenewArgs : Renew(n, ids)
    BY <1>1, ZenonT(30)
  <2>. DEFINE renew(r) == [svc[r] EXCEPT !.def.lastSeen = now, !.failed = FALSE]
  <2>2. PICK renewed \in SUBSET Stored :
          svc' = [r \in Ref |-> IF r \in renewed THEN renew(r) ELSE svc[r]]
    BY Zenon, <2>1 DEF Renew
  <2>3. ASSUME NEW r \in Stored PROVE renew(r) \in Service
    BY Zenon, <1>0, <2>3 DEF Stored, Service, Def
  <2>. HIDE DEF renew
  <2>4. svc' \in [Ref -> Service \cup {NoSvc}] /\ Stored' = Stored
    BY <1>0, <2>2, <2>3, AbsentAssumption, ZenonT(30) DEF Stored
  <2>5. UNCHANGED <<now, nodes, byName, index, call, pending, newest>>
    BY Zenon, <2>1 DEF Renew
  <2>. QED  BY <2>4, <2>5, ZenonT(30) DEF TypeInv, TypeOK, NodesCover, LoopOK
<1>2. CASE \E r \in FailRefs : Fail(r)
  <2>1. PICK r \in FailRefs : Fail(r)
    BY <1>2, ZenonT(30)
  <2>2. r \in Stored /\ svc[r] \in Service /\ call = Idle
    BY Zenon, <1>0, <2>1, RegistryAssumption DEF Fail, Stored
  <2>. DEFINE s == [svc[r] EXCEPT !.failed = TRUE, !.modifyIndex = index + 1]
  <2>3. s \in Service
    <3>1. index + 1 \in Nat /\ svc[r] \in Service
      BY <1>0, <2>2, ZenonT(30)
    <3>. QED  BY <3>1, Zenon DEF Service
  <2>4. putOne(r, s)
    BY Zenon, <2>1 DEF Fail
  <2>. HIDE DEF s
  <2>. QED  BY <2>2, <2>3, <2>4, PutOneType, ZenonT(30)
<1>3. CASE \E r \in Ref, enabled \in BOOLEAN : SetMaintenance(r, enabled)
  <2>1. PICK r \in Ref, enabled \in BOOLEAN : SetMaintenance(r, enabled)
    BY <1>3, ZenonT(30)
  <2>2. r \in Stored /\ svc[r] \in Service /\ call = Idle
    BY Zenon, <1>0, <2>1 DEF SetMaintenance, Stored
  <2>. DEFINE s == [svc[r] EXCEPT !.maintenance = enabled,
                                  !.modifyIndex = index + 1]
  <2>3. s \in Service
    <3>1. index + 1 \in Nat /\ svc[r] \in Service
      BY <1>0, <2>2, ZenonT(30)
    <3>. QED  BY <3>1, Zenon DEF Service
  <2>4. putOne(r, s)
    BY Zenon, <2>1 DEF SetMaintenance
  <2>. HIDE DEF s
  <2>. QED  BY <2>2, <2>3, <2>4, PutOneType, ZenonT(30)
<1>4. CASE \E r \in Ref : DeregisterService(r)
  <2>1. PICK r \in Ref : DeregisterService(r)
    BY <1>4, ZenonT(30)
  <2>2. /\ r \in Stored /\ svc[r] \in Service /\ call = Idle
        /\ nodes[r[1]] \in Metas
    BY <1>0, <2>1 DEF DeregisterService, Stored, TypeInv, TypeOK, NodesCover, Ref
  <2>. DEFINE d == [svc[r] EXCEPT !.modifyIndex = index + 1]
              e == deleteEvent(r, nodes[r[1]], d)
  <2>3. d \in Service
    BY <1>0, <2>2, ZenonT(30) DEF Service
  <2>4. e \in Event /\ e.ref = r
    BY Zenon, <2>2, <2>3, EventTypes DEF deleteEvent, entryEvent
  <2>5. /\ queue(<<e>>) /\ Announce(e)
        /\ svc' = [svc EXCEPT ![r] = NoSvc]
        /\ byName' = [byName EXCEPT ![svc[r].def.name] = @ \ {r}]
        /\ index' = index + 1
        /\ nodes' = IF \E q \in Stored \ {r} : q[1] = r[1] THEN nodes
                    ELSE [nodes EXCEPT ![r[1]] = NoMeta]
        /\ UNCHANGED <<now, call>>
    BY <2>1, ZenonT(30) DEF DeregisterService, unindexName
  <2>. HIDE DEF d, e
  <2>6. pending' \in SUBSET Seq(Event)
    <3>1. <<e>> \in Seq(Event)
      BY <2>4
    <3>. QED  BY Zenon, <2>5, <3>1, QueueType DEF TypeInv
  <2>7. newest' = [newest EXCEPT ![r] = e]
    BY <2>4, <2>5, ZenonT(30) DEF Announce
  <2>8. Stored' = Stored \ {r}
    BY <1>0, <2>5, ZenonT(30) DEF Stored
  <2>9. nodes' \in [Nodes -> Metas \cup {NoMeta}] /\ NodesCover'
    BY <2>5, <2>8, ZenonT(30) DEF TypeInv, TypeOK, NodesCover, Ref, Stored
  <2>10. TypeOK'
    <3>1. svc' \in [Ref -> Service \cup {NoSvc}] /\ index' \in Nat
      BY <1>0, <2>5, ZenonT(30)
    <3>2. newest' \in [Ref -> Event \cup {NoEvent}]
      BY <2>4, <2>7, ZenonT(30) DEF TypeInv, TypeOK
    <3>3. byName' \in [Names -> SUBSET Ref]
      BY Zenon, <2>5 DEF TypeInv, TypeOK
    <3>. QED  BY <2>5, <2>6, <2>9, <3>1, <3>2, <3>3, ZenonT(30) DEF TypeInv, TypeOK
  <2>11. IsFiniteSet(Stored')
    BY <2>8, FS_RemoveElement, ZenonT(30) DEF TypeInv
  <2>12. LoopOK'
    BY <2>2, <2>5, <2>8, IdleType, ZenonT(30) DEF TypeInv, LoopOK
  <2>. QED  BY <2>9, <2>10, <2>11, <2>12, ZenonT(30) DEF TypeInv
<1>. QED  BY <1>1, <1>2, <1>3, <1>4, ZenonT(30)

(* GC finds a service to announce.                                         *)
LEMMA VisitStepType ==
    ASSUME TypeInv, NEW r \in Ref, DeregisterNext(r) \/ GCNext(r)
    PROVE  TypeInv'
<1>0. /\ r \in call.todo /\ r \in Stored /\ call.op \in {"Deregister", "GC"}
      /\ UNCHANGED <<now, nodes, pending>>
      /\ svc[r] \in Service /\ nodes[r[1]] \in Metas /\ call \in CallType
  BY ZenonT(30) DEF DeregisterNext, GCNext, TypeInv, LoopOK, TypeOK, NodesCover, Stored, Ref
<1>1. CASE deleteInLoop(r)
  <2>1. /\ svc' \in [Ref -> Service \cup {NoSvc}]
        /\ byName' \in [Names -> SUBSET Ref]
        /\ index' \in Nat
        /\ call' \in CallType
        /\ newest' \in [Ref -> Event \cup {NoEvent}]
        /\ Stored' = Stored \ {r}
        /\ call'.op = call.op /\ call'.node = call.node
        /\ call'.todo = call.todo \ {r} /\ call'.at = call.at
        /\ call'.rest = call.rest
    BY <1>0, <1>1, DeleteInLoopType, ZenonT(30) DEF TypeInv
  <2>2. IsFiniteSet(Stored')
    BY <2>1, FS_RemoveElement, ZenonT(30) DEF TypeInv
  <2>3. TypeOK'
    BY <1>0, <2>1, ZenonT(30) DEF TypeInv, TypeOK
  <2>4. NodesCover' /\ LoopOK'
    BY <1>0, <2>1, ZenonT(30) DEF TypeInv, NodesCover, LoopOK
  <2>. QED  BY <2>2, <2>3, <2>4, ZenonT(30) DEF TypeInv
<1>2. CASE GCNext(r) /\ GCTransition(r)
  <2>. DEFINE s == [svc[r] EXCEPT !.lastState = leaseState(svc[r], call.at),
                                  !.modifyIndex = index + 1]
              e == putEvent(r, nodes[r[1]], s)
  <2>1. leaseState(svc[r], call.at) \in HealthStates /\ index + 1 \in Nat
    <3>1. leaseState(svc[r], call.at) \in HealthStates
      BY ZenonT(30) DEF leaseState, HealthStates
    <3>2. index \in Nat
      BY Zenon DEF TypeInv, TypeOK
    <3>. QED  BY <3>1, <3>2
  <2>2. s \in Service
    BY Zenon, <1>0, <2>1 DEF Service
  <2>3. e \in Event /\ e.ref = r
    BY Zenon, <1>0, <2>2, EventTypes DEF putEvent, entryEvent
  <2>4. /\ svc' = [svc EXCEPT ![r] = s] /\ index' = index + 1
        /\ call' = [call EXCEPT !.todo = call.todo \ {r},
                                !.events = Append(call.events, e)]
        /\ Announce(e) /\ byName' = byName
    BY <1>2, ZenonT(30) DEF GCTransition
  <2>. HIDE DEF s, e
  <2>5. newest' = [newest EXCEPT ![r] = e]
    BY <2>3, <2>4, ZenonT(30) DEF Announce
  <2>6. Append(call.events, e) \in Seq(Event)
    BY <1>0, <2>3 DEF CallType
  <2>7. \A ev \in Seq(Event) :
          LET c == [call EXCEPT !.todo = call.todo \ {r}, !.events = ev]
          IN  /\ c \in CallType /\ c.op = call.op /\ c.at = call.at
              /\ c.todo = call.todo \ {r}
    BY Zenon, <1>0 DEF CallType
  <2>8. /\ call' \in CallType /\ call'.op = call.op /\ call'.at = call.at
        /\ call'.todo = call.todo \ {r}
    BY Zenon, <2>4, <2>6, <2>7
  <2>9. Stored' = Stored
    BY <1>0, <2>2, <2>4, AbsentAssumption, ZenonT(30) DEF TypeInv, TypeOK, Stored
  <2>10. TypeOK'
    <3>1. svc' \in [Ref -> Service \cup {NoSvc}]
      BY <2>2, <2>4, ZenonT(30) DEF TypeInv, TypeOK
    <3>2. newest' \in [Ref -> Event \cup {NoEvent}]
      BY <2>3, <2>5, ZenonT(30) DEF TypeInv, TypeOK
    <3>. QED  BY <1>0, <2>1, <2>4, <2>8, <3>1, <3>2, ZenonT(30) DEF TypeInv, TypeOK
  <2>11. call.op = "GC"
    BY <1>2, ZenonT(30) DEF GCNext
  <2>. QED  BY <1>0, <2>8, <2>9, <2>10, <2>11, ZenonT(30) DEF TypeInv, NodesCover, LoopOK
<1>3. CASE GCNext(r) /\ GCKeep(r)
  <2>1. /\ call' = [call EXCEPT !.todo = call.todo \ {r}]
        /\ UNCHANGED <<svc, byName, index, newest>> /\ call.op = "GC"
    BY <1>3, ZenonT(30) DEF GCKeep, GCNext
  <2>2. /\ call' \in CallType /\ call'.op = call.op /\ call'.at = call.at
        /\ call'.todo = call.todo \ {r}
    BY <1>0, <2>1, ZenonT(30) DEF CallType
  <2>3. Stored' = Stored
    BY <2>1, StoredSame, ZenonT(30)
  <2>. QED  BY <1>0, <2>1, <2>2, <2>3, ZenonT(30) DEF TypeInv, TypeOK, NodesCover, LoopOK
<1>. QED  BY <1>1, <1>2, <1>3, ZenonT(30) DEF DeregisterNext, GCNext, GCReap
-----------------------------------------------------------------------------
(* TypeInv is an invariant: the registry stays well typed, and a service   *)
(* never outlives its node, whatever clients, peers and the GC loop do.    *)
THEOREM TypeInvariant == Spec => [](TypeOK /\ NodesCover /\ TypeInv)
<1>1. Init => TypeInv
  <2>. SUFFICES ASSUME Init PROVE TypeInv
    BY ZenonT(30)
  <2>1. Stored = {}
    BY ZenonT(30) DEF Init, Stored
  <2>2. TypeOK
    BY IdleType, RegistryAssumption, ZenonT(30) DEF Init, TypeOK
  <2>3. NodesCover /\ LoopOK
    BY <2>1, IdleType DEF Init, NodesCover, LoopOK
  <2>. QED  BY <2>1, <2>2, <2>3, FS_EmptySet, ZenonT(30) DEF TypeInv
<1>2. TypeInv /\ [Next]_vars => TypeInv'
  <2>. SUFFICES ASSUME TypeInv, [Next]_vars PROVE TypeInv'
    BY ZenonT(30)
  <2>1. CASE \/ \E reg \in Registrations : Register(reg)
             \/ \E entries \in PeerBatches : Merge(entries)
             \/ \E n \in Nodes : Deregister(n)
             \/ GC
    BY Zenon, <2>1, BeginStepType DEF Register, Merge, Deregister, GC
  <2>2. CASE RegisterService
    BY <2>2, RegisterStepType, ZenonT(30)
  <2>3. CASE MergeEntry
    BY <2>3, MergeStepType, ZenonT(30)
  <2>4. CASE RegisterDone \/ MergeDone \/ DeregisterDone \/ GCDone
    BY <2>4, EndStepType, ZenonT(30)
  <2>5. CASE \/ \E n \in Nodes, ids \in RenewArgs : Renew(n, ids)
             \/ \E r \in FailRefs : Fail(r)
             \/ \E r \in Ref, enabled \in BOOLEAN : SetMaintenance(r, enabled)
             \/ \E r \in Ref : DeregisterService(r)
    BY <2>5, SingleStepType, ZenonT(30)
  <2>6. CASE \E r \in Ref : DeregisterNext(r) \/ GCNext(r)
    BY <2>6, VisitStepType, ZenonT(30)
  <2>7. CASE (\E batch \in pending : emit(batch)) \/ UNCHANGED vars
    <3>1. /\ pending' \in SUBSET Seq(Event)
          /\ UNCHANGED <<now, nodes, svc, byName, index, call, newest>>
      BY <2>7, ZenonT(30) DEF emit, vars, TypeInv, TypeOK
    <3>2. Stored' = Stored
      BY <3>1, StoredSame, ZenonT(30)
    <3>. QED  BY <3>1, <3>2, ZenonT(30) DEF TypeInv, TypeOK, NodesCover, LoopOK
  <2>8. CASE Tick
    <3>1. now' = now + 1 /\ UNCHANGED <<nodes, svc, byName, index, call,
                                        pending, newest>>
      BY <2>8, ZenonT(30) DEF Tick
    <3>2. Stored' = Stored
      BY <3>1, StoredSame, ZenonT(30)
    <3>3. call.at \in Nat /\ now \in Nat
      BY ZenonT(30) DEF TypeInv, TypeOK, CallType
    <3>. QED  BY <3>1, <3>2, <3>3 DEF TypeInv, TypeOK, NodesCover, LoopOK
  <2>. QED
    BY <2>1, <2>2, <2>3, <2>4, <2>5, <2>6, <2>7, <2>8, ZenonT(30) DEF Next, Operation
<1>. QED  BY <1>1, <1>2, PTL DEF Spec, TypeInv
-----------------------------------------------------------------------------
(* Every step of the registry does one of three things to the services,    *)
(* the name index, the change index and the events: it puts one service,   *)
(* deletes one, or at most refreshes leases.                               *)

PutEffect(r, s) ==
    /\ svc' = [svc EXCEPT ![r] = s]
    /\ index' = index + 1
    /\ \E meta \in Metas : newest' = [newest EXCEPT ![r] = putEvent(r, meta, s)]
    /\ s.modifyIndex = index + 1
    /\ s.createIndex = IF svc[r] = NoSvc THEN index + 1 ELSE svc[r].createIndex
    /\ \/ /\ svc[r] = NoSvc
          /\ byName' = indexName(byName, r, s.def.name)
       \/ /\ svc[r] # NoSvc
          /\ byName' = indexName(unindexName(byName, r, svc[r].def.name),
                                 r, s.def.name)
       \/ /\ svc[r] # NoSvc /\ s.def.name = svc[r].def.name
          /\ byName' = byName

DeleteEffect(r) ==
    /\ svc' = [svc EXCEPT ![r] = NoSvc]
    /\ index' = index + 1
    /\ \E meta \in Metas, s \in Service :
         newest' = [newest EXCEPT ![r] = deleteEvent(r, meta, s)]
    /\ byName' = unindexName(byName, r, svc[r].def.name)

SameButLease(a, b) ==
    /\ a = NoSvc <=> b = NoSvc
    /\ a # NoSvc => /\ ~changed(a.def, b.def)
                    /\ a.maintenance = b.maintenance
                    /\ a.createIndex = b.createIndex
                    /\ a.modifyIndex = b.modifyIndex

TouchEffect ==
    /\ \A r \in Ref : SameButLease(svc[r], svc'[r])
    /\ UNCHANGED <<byName, index, newest>>

LEMMA PutInLoopEffect ==
    ASSUME NEW r \in Ref, NEW meta \in Metas, NEW s \in Service, NEW size,
           NEW more, putInLoop(r, meta, s, size, more),
           s.modifyIndex = index + 1,
           s.createIndex = IF svc[r] = NoSvc THEN index + 1
                           ELSE svc[r].createIndex
    PROVE  PutEffect(r, s)
<1>1. putEvent(r, meta, s).ref = r
  BY ZenonT(30) DEF putEvent, entryEvent
<1>2. newest' = [newest EXCEPT ![r] = putEvent(r, meta, s)]
  BY <1>1, ZenonT(30) DEF putInLoop, Announce
<1>3. /\ svc' = [svc EXCEPT ![r] = s] /\ index' = index + 1
      /\ byName' = indexName(IF svc[r] = NoSvc THEN byName
                             ELSE unindexName(byName, r, svc[r].def.name),
                             r, s.def.name)
  BY ZenonT(30) DEF putInLoop
<1>4. CASE svc[r] = NoSvc
  BY Zenon, <1>2, <1>3, <1>4 DEF PutEffect
<1>5. CASE svc[r] # NoSvc
  BY Zenon, <1>2, <1>3, <1>5 DEF PutEffect
<1>. QED  BY <1>4, <1>5, ZenonT(30)

LEMMA DeleteInLoopEffect ==
    ASSUME TypeInv, NEW r \in Stored, deleteInLoop(r)
    PROVE  DeleteEffect(r)
<1>. DEFINE d == [svc[r] EXCEPT !.modifyIndex = index + 1]
<1>1. r \in Ref /\ svc[r] \in Service /\ nodes[r[1]] \in Metas /\ index + 1 \in Nat
  BY DEF TypeInv, TypeOK, NodesCover, Stored, Ref
<1>2. d \in Service
  BY <1>1, ZenonT(30) DEF Service
<1>3. deleteEvent(r, nodes[r[1]], d).ref = r
  BY ZenonT(30) DEF deleteEvent, entryEvent
<1>4. newest' = [newest EXCEPT ![r] = deleteEvent(r, nodes[r[1]], d)]
  BY Zenon, <1>3 DEF deleteInLoop, Announce
<1>. HIDE DEF d
<1>. QED  BY Zenon, <1>1, <1>2, <1>4 DEF deleteInLoop, DeleteEffect

LEMMA UnchangedEffect ==
    ASSUME UNCHANGED <<svc, byName, index, newest>>
    PROVE  TouchEffect
BY ZenonT(30) DEF TouchEffect, SameButLease, changed

LEMMA PutOneEffect ==
    ASSUME TypeInv, NEW r \in Stored, NEW s \in Service,
           svc' = [svc EXCEPT ![r] = s], index' = index + 1, byName' = byName,
           Announce(putEvent(r, nodes[r[1]], s)),
           s.def = svc[r].def, s.createIndex = svc[r].createIndex,
           s.modifyIndex = index + 1
    PROVE  PutEffect(r, s)
<1>1. r \in Ref /\ nodes[r[1]] \in Metas /\ svc[r] # NoSvc
  BY ZenonT(30) DEF TypeInv, TypeOK, NodesCover, Stored, Ref
<1>2. putEvent(r, nodes[r[1]], s).ref = r
  BY ZenonT(30) DEF putEvent, entryEvent
<1>3. newest' = [newest EXCEPT ![r] = putEvent(r, nodes[r[1]], s)]
  BY <1>2, ZenonT(30) DEF Announce
<1>. QED  BY Zenon, <1>1, <1>3 DEF PutEffect

LEMMA RegisterEffect ==
    ASSUME TypeInv, RegisterService \/ MergeEntry
    PROVE  (\E r \in Ref, s \in Service : PutEffect(r, s)) \/ TouchEffect
<1>. DEFINE item == Head(call.rest)
            r == item.ref
            def == defOf(item)
<1>1. call.rest # <<>> /\ call.rest \in Seq(Item)
  BY ZenonT(30) DEF RegisterService, MergeEntry, TypeInv, TypeOK, CallType
<1>2. item \in Item
  BY <1>1, HeadAndTail, ZenonT(30)
<1>3. def \in Def
  BY <1>2, DefOfType, ZenonT(30)
<1>4. r \in Ref /\ item.meta \in Metas
  BY <1>2, ZenonT(30) DEF Item
<1>5. \/ RegisterNew(item, def) \/ RegisterFull(item)
      \/ RegisterChanged(item, def) \/ RegisterSame(item, def)
      \/ MergeNew(item, def) \/ MergeWins(item, def) \/ MergeSkip(item, def)
  BY Zenon DEF RegisterService, MergeEntry
<1>6. index \in Nat /\ index + 1 \in Nat /\ svc \in [Ref -> Service \cup {NoSvc}]
  BY DEF TypeInv, TypeOK
<1>. HIDE DEF item, def
<1>7. CASE RegisterNew(item, def) \/ MergeNew(item, def)
  <2>. DEFINE s == newService(def)
  <2>1. s \in Service
    BY <1>3, <1>6, NewServiceType, ZenonT(30)
  <2>2. svc[r] = NoSvc /\ putInLoop(r, item.meta, s, call.size + 1, Tail(call.rest))
    BY <1>7, ZenonT(30) DEF RegisterNew, MergeNew
  <2>3. s.modifyIndex = index + 1 /\ s.createIndex = index + 1
    BY ZenonT(30) DEF newService
  <2>. HIDE DEF s
  <2>. QED  BY <1>4, <2>1, <2>2, <2>3, PutInLoopEffect, ZenonT(30)
<1>8. CASE RegisterChanged(item, def)
  <2>. DEFINE s == [svc[r] EXCEPT !.def = def, !.lastState = Passing,
                                  !.modifyIndex = index + 1]
  <2>1. svc[r] # NoSvc /\ svc[r] \in Service
    BY <1>4, <1>6, <1>8, ZenonT(30) DEF RegisterChanged
  <2>2. /\ s \in Service /\ s.modifyIndex = index + 1
        /\ s.createIndex = svc[r].createIndex
    BY Zenon, <1>3, <1>6, <2>1 DEF Service, HealthStates
  <2>3. putInLoop(r, item.meta, s, call.size, Tail(call.rest))
    BY <1>8, ZenonT(30) DEF RegisterChanged
  <2>. HIDE DEF s
  <2>. QED  BY <1>4, <2>1, <2>2, <2>3, PutInLoopEffect, ZenonT(30)
<1>9. CASE MergeWins(item, def)
  <2>. DEFINE s == [svc[r] EXCEPT !.def = def, !.modifyIndex = index + 1]
  <2>1. svc[r] # NoSvc /\ svc[r] \in Service
    BY <1>4, <1>6, <1>9, ZenonT(30) DEF MergeWins
  <2>2. /\ s \in Service /\ s.modifyIndex = index + 1
        /\ s.createIndex = svc[r].createIndex
    BY Zenon, <1>3, <1>6, <2>1 DEF Service
  <2>3. putInLoop(r, item.meta, s, call.size, Tail(call.rest))
    BY <1>9, ZenonT(30) DEF MergeWins
  <2>. HIDE DEF s
  <2>. QED  BY <1>4, <2>1, <2>2, <2>3, PutInLoopEffect
<1>10. CASE RegisterSame(item, def)
  <2>1. svc[r] # NoSvc /\ svc[r] \in Service
    BY <1>4, <1>6, <1>10, ZenonT(30) DEF RegisterSame
  <2>. DEFINE s == [svc[r] EXCEPT !.def = [svc[r].def EXCEPT !.lastSeen = def.lastSeen]]
  <2>2. svc' = [svc EXCEPT ![r] = s] /\ UNCHANGED <<byName, index, newest>>
    BY <1>10, ZenonT(30) DEF RegisterSame
  <2>3. s \in Service
    BY <1>3, <2>1, ZenonT(30) DEF Service, Def
  <2>4. SameButLease(svc[r], s)
    <3>1. s # NoSvc
      BY <2>3, AbsentAssumption, ZenonT(30)
    <3>. QED  BY <2>1, <3>1, ZenonT(30) DEF SameButLease, changed, Service, Def
  <2>5. \A q \in Ref : q # r => SameButLease(svc[q], svc[q])
    BY ZenonT(30) DEF SameButLease, changed
  <2>. HIDE DEF s
  <2>. QED  BY <1>4, <1>6, <2>2, <2>4, <2>5, ZenonT(30) DEF TouchEffect
<1>11. CASE RegisterFull(item) \/ MergeSkip(item, def)
  BY <1>11, UnchangedEffect, ZenonT(30) DEF RegisterFull, MergeSkip
<1>. QED  BY <1>5, <1>7, <1>8, <1>9, <1>10, <1>11, ZenonT(30)

LEMMA SingleEffect ==
    ASSUME TypeInv,
           \/ \E n \in Nodes, ids \in RenewArgs : Renew(n, ids)
           \/ \E r \in FailRefs : Fail(r)
           \/ \E r \in Ref, enabled \in BOOLEAN : SetMaintenance(r, enabled)
           \/ \E r \in Ref : DeregisterService(r)
           \/ \E r \in Ref : DeregisterNext(r) \/ GCNext(r)
    PROVE  \/ \E r \in Ref, s \in Service : PutEffect(r, s)
           \/ \E r \in Ref : r \in Stored /\ DeleteEffect(r)
           \/ TouchEffect
<1>0. /\ index \in Nat /\ index + 1 \in Nat /\ now \in Nat
      /\ svc \in [Ref -> Service \cup {NoSvc}]
  BY DEF TypeInv, TypeOK
<1>1. CASE \E n \in Nodes, ids \in RenewArgs : Renew(n, ids)
  <2>1. PICK n \in Nodes, ids \in RenewArgs : Renew(n, ids)
    BY <1>1, ZenonT(30)
  <2>. DEFINE renew(r) == [svc[r] EXCEPT !.def.lastSeen = now, !.failed = FALSE]
  <2>2. PICK renewed \in SUBSET Stored :
          svc' = [r \in Ref |-> IF r \in renewed THEN renew(r) ELSE svc[r]]
    BY Zenon, <2>1 DEF Renew
  <2>3. ASSUME NEW r \in Stored PROVE SameButLease(svc[r], renew(r))
    <3>1. renew(r) \in Service /\ svc[r] \in Service
      BY Zenon, <1>0, <2>3 DEF Stored, Service, Def
    <3>2. renew(r) # NoSvc /\ svc[r] # NoSvc
      BY <3>1, AbsentAssumption, ZenonT(30)
    <3>. QED  BY <3>1, <3>2, ZenonT(30) DEF SameButLease, changed, Service, Def
  <2>4. \A r \in Ref : SameButLease(svc[r], svc[r])
    BY ZenonT(30) DEF SameButLease, changed
  <2>. HIDE DEF renew
  <2>5. UNCHANGED <<byName, index, newest>>
    BY Zenon, <2>1 DEF Renew
  <2>. QED  BY <2>2, <2>3, <2>4, <2>5, ZenonT(30) DEF TouchEffect
<1>2. CASE \E r \in FailRefs : Fail(r)
  <2>1. PICK r \in FailRefs : Fail(r)
    BY <1>2, ZenonT(30)
  <2>2. r \in Ref /\ r \in Stored /\ svc[r] \in Service
    BY Zenon, <1>0, <2>1, RegistryAssumption DEF Fail, Stored
  <2>. DEFINE s == [svc[r] EXCEPT !.failed = TRUE, !.modifyIndex = index + 1]
  <2>3. s \in Service
    BY <1>0, <2>2, Zenon DEF Service
  <2>4. /\ s.modifyIndex = index + 1 /\ s.def = svc[r].def
        /\ s.createIndex = svc[r].createIndex
    BY <2>2, ZenonT(30) DEF Service
  <2>5. putOne(r, s)
    BY Zenon, <2>1 DEF Fail
  <2>. HIDE DEF s
  <2>. QED  BY Zenon, <2>2, <2>3, <2>4, <2>5, PutOneEffect DEF putOne
<1>3. CASE \E r \in Ref, enabled \in BOOLEAN : SetMaintenance(r, enabled)
  <2>1. PICK r \in Ref, enabled \in BOOLEAN : SetMaintenance(r, enabled)
    BY <1>3, ZenonT(30)
  <2>2. r \in Stored /\ svc[r] \in Service
    BY Zenon, <1>0, <2>1 DEF SetMaintenance, Stored
  <2>. DEFINE s == [svc[r] EXCEPT !.maintenance = enabled,
                                  !.modifyIndex = index + 1]
  <2>3. s \in Service
    BY <1>0, <2>1, <2>2, Zenon DEF Service
  <2>4. /\ s.modifyIndex = index + 1 /\ s.def = svc[r].def
        /\ s.createIndex = svc[r].createIndex
    BY <2>2, ZenonT(30) DEF Service
  <2>5. putOne(r, s)
    BY Zenon, <2>1 DEF SetMaintenance
  <2>. HIDE DEF s
  <2>. QED  BY Zenon, <2>2, <2>3, <2>4, <2>5, PutOneEffect DEF putOne
<1>4. CASE \E r \in Ref : DeregisterService(r)
  <2>1. PICK r \in Ref : DeregisterService(r)
    BY <1>4, ZenonT(30)
  <2>2. r \in Stored /\ svc[r] \in Service /\ nodes[r[1]] \in Metas
    BY <1>0, <2>1, ZenonT(30) DEF DeregisterService, Stored, TypeInv, TypeOK, NodesCover, Ref
  <2>. DEFINE d == [svc[r] EXCEPT !.modifyIndex = index + 1]
              e == deleteEvent(r, nodes[r[1]], d)
  <2>3. d \in Service
    BY <1>0, <2>2, ZenonT(30) DEF Service
  <2>4. e.ref = r
    BY ZenonT(30) DEF deleteEvent, entryEvent
  <2>5. newest' = [newest EXCEPT ![r] = e]
    BY Zenon, <2>1, <2>4 DEF DeregisterService, Announce
  <2>. HIDE DEF d
  <2>6. DeleteEffect(r)
    BY Zenon, <2>1, <2>2, <2>3, <2>5 DEF DeregisterService, DeleteEffect
  <2>. QED  BY <2>2, <2>6, ZenonT(30)
<1>5. CASE \E r \in Ref : DeregisterNext(r) \/ GCNext(r)
  <2>1. PICK r \in Ref : DeregisterNext(r) \/ GCNext(r)
    BY <1>5, ZenonT(30)
  <2>2. r \in Stored /\ svc[r] \in Service
    BY Zenon, <1>0, <2>1 DEF DeregisterNext, GCNext, TypeInv, LoopOK, Stored
  <2>3. CASE deleteInLoop(r)
    BY <2>2, <2>3, DeleteInLoopEffect, ZenonT(30)
  <2>4. CASE GCTransition(r)
    <3>. DEFINE s == [svc[r] EXCEPT !.lastState = leaseState(svc[r], call.at),
                                    !.modifyIndex = index + 1]
    <3>1. leaseState(svc[r], call.at) \in HealthStates
      BY ZenonT(30) DEF leaseState, HealthStates
    <3>2. s \in Service
      BY Zenon, <1>0, <2>2, <3>1 DEF Service
    <3>3. /\ s.modifyIndex = index + 1 /\ s.def = svc[r].def
          /\ s.createIndex = svc[r].createIndex
      BY <2>2, ZenonT(30) DEF Service
    <3>4. /\ svc' = [svc EXCEPT ![r] = s] /\ index' = index + 1
          /\ byName' = byName /\ Announce(putEvent(r, nodes[r[1]], s))
      BY <2>4, ZenonT(30) DEF GCTransition
    <3>. HIDE DEF s
    <3>. QED  BY Zenon, <2>2, <3>2, <3>3, <3>4, PutOneEffect
  <2>5. CASE GCKeep(r)
    BY <2>5, UnchangedEffect, ZenonT(30) DEF GCKeep
  <2>. QED  BY Zenon, <2>1, <2>3, <2>4, <2>5 DEF DeregisterNext, GCNext, GCReap
<1>. QED  BY <1>1, <1>2, <1>3, <1>4, <1>5, ZenonT(30)

LEMMA StepEffect ==
    ASSUME TypeInv, [Next]_vars
    PROVE  \/ \E r \in Ref, s \in Service : PutEffect(r, s)
           \/ \E r \in Ref : r \in Stored /\ DeleteEffect(r)
           \/ TouchEffect
<1>1. CASE RegisterService \/ MergeEntry
  BY <1>1, RegisterEffect, ZenonT(30)
<1>2. CASE \/ \E n \in Nodes, ids \in RenewArgs : Renew(n, ids)
           \/ \E r \in FailRefs : Fail(r)
           \/ \E r \in Ref, enabled \in BOOLEAN : SetMaintenance(r, enabled)
           \/ \E r \in Ref : DeregisterService(r)
           \/ \E r \in Ref : DeregisterNext(r) \/ GCNext(r)
  BY <1>2, SingleEffect, ZenonT(30)
<1>3. CASE \/ \E reg \in Registrations : Register(reg)
           \/ \E entries \in PeerBatches : Merge(entries)
           \/ \E n \in Nodes : Deregister(n)
           \/ GC \/ RegisterDone \/ MergeDone \/ DeregisterDone \/ GCDone
           \/ \E batch \in pending : emit(batch)
           \/ Tick \/ UNCHANGED vars
  <2>1. UNCHANGED <<svc, byName, index, newest>>
    BY Zenon, <1>3 DEF Register, Merge, Deregister, GC, RegisterDone, MergeDone,
                DeregisterDone, GCDone, emit, Tick, vars
  <2>. QED  BY <2>1, UnchangedEffect, ZenonT(30)
<1>. QED  BY <1>1, <1>2, <1>3, ZenonT(30) DEF Next, Operation
-----------------------------------------------------------------------------
LEMMA StoredEffects ==
    ASSUME TypeInv
    PROVE  /\ \A r \in Ref, s \in Service : PutEffect(r, s) =>
                 Stored' = Stored \cup {r} /\ svc'[r] = s
                 /\ \A q \in Ref : q # r => svc'[q] = svc[q]
           /\ \A r \in Ref : DeleteEffect(r) =>
                 Stored' = Stored \ {r}
                 /\ \A q \in Ref : q # r => svc'[q] = svc[q]
           /\ TouchEffect => Stored' = Stored
<1>1. svc \in [Ref -> Service \cup {NoSvc}]
  BY ZenonT(30) DEF TypeInv, TypeOK
<1>2. ASSUME NEW r \in Ref, NEW s \in Service, PutEffect(r, s)
      PROVE  Stored' = Stored \cup {r} /\ svc'[r] = s
             /\ \A q \in Ref : q # r => svc'[q] = svc[q]
  <2>1. svc' = [svc EXCEPT ![r] = s]
    BY <1>2, ZenonT(30) DEF PutEffect
  <2>. QED  BY <1>1, <2>1, AbsentAssumption, ZenonT(30) DEF Stored
<1>3. ASSUME NEW r \in Ref, DeleteEffect(r)
      PROVE  Stored' = Stored \ {r}
             /\ \A q \in Ref : q # r => svc'[q] = svc[q]
  <2>1. svc' = [svc EXCEPT ![r] = NoSvc]
    BY <1>3, ZenonT(30) DEF DeleteEffect
  <2>. QED  BY <1>1, <2>1, ZenonT(30) DEF Stored
<1>4. TouchEffect => Stored' = Stored
  BY ZenonT(30) DEF TouchEffect, SameButLease, Stored
<1>. QED  BY <1>2, <1>3, <1>4, ZenonT(30)

(* The name index is exact in every reachable state, for any number of     *)
(* nodes, ids and names and any mix of registrations, merges, renames,     *)
(* removals and GC passes (store.go, byName).                              *)
THEOREM NameIndexExact == Spec => []ByNameExact
<1>1. Init => ByNameExact
  BY ZenonT(30) DEF Init, ByNameExact, Stored
<1>2. TypeInv /\ ByNameExact /\ [Next]_vars => ByNameExact'
  <2>. SUFFICES ASSUME TypeInv, ByNameExact, [Next]_vars,
                       NEW name \in Names
                PROVE  byName'[name] = {r \in Stored' : svc'[r].def.name = name}
    BY ZenonT(30) DEF ByNameExact
  <2>0. /\ byName \in [Names -> SUBSET Ref]
        /\ svc \in [Ref -> Service \cup {NoSvc}] /\ Stored \subseteq Ref
        /\ byName[name] = {r \in Stored : svc[r].def.name = name}
        /\ \A r \in Ref : svc[r] # NoSvc => svc[r].def.name \in Names
    BY ZenonT(30) DEF TypeInv, TypeOK, ByNameExact, Stored, Service, Def
  <2>1. CASE \E r \in Ref, s \in Service : PutEffect(r, s)
    <3>1. PICK r \in Ref, s \in Service : PutEffect(r, s)
      BY <2>1, ZenonT(30)
    <3>2. Stored' = Stored \cup {r} /\ svc'[r] = s
          /\ \A q \in Ref : q # r => svc'[q] = svc[q]
      BY <3>1, StoredEffects, ZenonT(30)
    <3>3. s.def.name \in Names
      BY SMTT(20) DEF Service, Def
    <3>4. byName'[name] = (byName[name] \ {r})
                            \cup (IF s.def.name = name THEN {r} ELSE {})
      <4>1. svc[r] = NoSvc => r \notin byName[name]
        BY <2>0, ZenonT(30) DEF Stored
      <4>2. svc[r] # NoSvc => (r \in byName[name] <=> svc[r].def.name = name)
        BY <2>0, ZenonT(30) DEF Stored
      <4>3. CASE /\ svc[r] = NoSvc
                 /\ byName' = [byName EXCEPT ![s.def.name] = @ \cup {r}]
        BY <2>0, <3>3, <4>1, <4>3, ZenonT(30)
      <4>4. CASE /\ svc[r] # NoSvc
                 /\ byName' = [[byName EXCEPT ![svc[r].def.name] = @ \ {r}]
                                 EXCEPT ![s.def.name] = @ \cup {r}]
        BY <2>0, <3>3, <4>2, <4>4, ZenonT(30)
      <4>5. CASE /\ svc[r] # NoSvc /\ s.def.name = svc[r].def.name
                 /\ byName' = byName
        BY <2>0, <4>2, <4>5, ZenonT(30)
      <4>. QED  BY <3>1, <4>3, <4>4, <4>5, ZenonT(30) DEF PutEffect, indexName, unindexName
    <3>. QED  BY <2>0, <3>2, <3>4, ZenonT(30)
  <2>2. CASE \E r \in Ref : r \in Stored /\ DeleteEffect(r)
    <3>1. PICK r \in Ref : r \in Stored /\ DeleteEffect(r)
      BY <2>2, ZenonT(30)
    <3>2. Stored' = Stored \ {r} /\ \A q \in Ref : q # r => svc'[q] = svc[q]
      BY <3>1, StoredEffects, ZenonT(30)
    <3>3. byName'[name] = byName[name] \ {r}
      BY <2>0, <3>1, ZenonT(30) DEF DeleteEffect, unindexName, Stored
    <3>. QED  BY <2>0, <3>2, <3>3, ZenonT(30)
  <2>3. CASE TouchEffect
    <3>1. Stored' = Stored
      BY <2>3, StoredEffects, ZenonT(30)
    <3>2. \A r \in Stored : svc'[r].def.name = svc[r].def.name
      BY <2>0, <2>3, ZenonT(30) DEF TouchEffect, SameButLease, changed, Stored
    <3>. QED  BY <2>0, <2>3, <3>1, <3>2, ZenonT(30) DEF TouchEffect
  <2>. QED  BY <2>1, <2>2, <2>3, StepEffect, ZenonT(30)
<1>. QED  BY <1>1, <1>2, TypeInvariant, PTL DEF Spec

IndexInv == IndexDiscipline /\ index >= StartIndex

(* Indexes are handed out once: CreateIndex and ModifyIndex stay in order  *)
(* and within the past, and no two services share a ModifyIndex.           *)
THEOREM IndexesDisciplined == Spec => []IndexDiscipline
<1>1. Init => IndexInv
  BY RegistryAssumption DEF Init, IndexInv, IndexDiscipline, Stored
<1>2. TypeInv /\ IndexInv /\ [Next]_vars => IndexInv'
  <2>. SUFFICES ASSUME TypeInv, IndexDiscipline, index >= StartIndex, [Next]_vars
                PROVE  IndexDiscipline' /\ index' >= StartIndex
    BY ZenonT(30) DEF IndexInv
  <2>0. /\ index \in Nat /\ StartIndex \in Nat /\ Stored \subseteq Ref
        /\ \A r \in Stored : svc[r].createIndex \in Nat
                             /\ svc[r].modifyIndex \in Nat
    BY RegistryAssumption, ZenonT(30) DEF TypeInv, TypeOK, Stored, Service
  <2>1. CASE \E r \in Ref, s \in Service : PutEffect(r, s)
    <3>1. PICK r \in Ref, s \in Service : PutEffect(r, s)
      BY SMTT(20), <2>1
    <3>2. Stored' = Stored \cup {r} /\ svc'[r] = s
          /\ \A q \in Ref : q # r => svc'[q] = svc[q]
      BY <3>1, StoredEffects, ZenonT(30)
    <3>3. /\ index' = index + 1 /\ s.modifyIndex = index + 1
          /\ s.createIndex = IF svc[r] = NoSvc THEN index + 1
                             ELSE svc[r].createIndex
      BY <3>1, ZenonT(30) DEF PutEffect
    <3>4. svc[r] # NoSvc => r \in Stored
      BY ZenonT(30) DEF Stored
    <3>. QED  BY <2>0, <3>2, <3>3, <3>4 DEF IndexDiscipline
  <2>2. CASE \E r \in Ref : r \in Stored /\ DeleteEffect(r)
    <3>1. PICK r \in Ref : r \in Stored /\ DeleteEffect(r)
      BY <2>2, ZenonT(30)
    <3>2. Stored' = Stored \ {r} /\ \A q \in Ref : q # r => svc'[q] = svc[q]
      BY <3>1, StoredEffects, ZenonT(30)
    <3>3. index' = index + 1
      BY <3>1, ZenonT(30) DEF DeleteEffect
    <3>. QED  BY <2>0, <3>2, <3>3 DEF IndexDiscipline
  <2>3. CASE TouchEffect
    <3>1. Stored' = Stored /\ index' = index
      BY <2>3, StoredEffects, ZenonT(30) DEF TouchEffect
    <3>2. \A r \in Stored : /\ svc'[r].createIndex = svc[r].createIndex
                            /\ svc'[r].modifyIndex = svc[r].modifyIndex
      BY <2>0, <2>3, ZenonT(30) DEF TouchEffect, SameButLease, Stored
    <3>. QED  BY <3>1, <3>2 DEF IndexDiscipline
  <2>. QED  BY <2>1, <2>2, <2>3, StepEffect, ZenonT(30)
<1>3. IndexInv => IndexDiscipline
  BY ZenonT(30) DEF IndexInv
<1>. QED  BY <1>1, <1>2, <1>3, TypeInvariant, PTL DEF Spec

(* A service whose definition or drain flag changes moves to an index not  *)
(* used before, and keeps its CreateIndex.                                 *)
THEOREM ModifyIndexMoves == Spec => ModifyIndexTracks
<1>1. TypeInv /\ [Next]_vars =>
        \A r \in Ref :
          (r \in Stored /\ r \in Stored') =>
             /\ svc'[r].createIndex = svc[r].createIndex
             /\ (changed(svc[r].def, svc'[r].def)
                   \/ svc[r].maintenance # svc'[r].maintenance)
                  => svc'[r].modifyIndex > index
  <2>. SUFFICES ASSUME TypeInv, [Next]_vars, NEW r \in Ref,
                       r \in Stored, r \in Stored'
                PROVE  /\ svc'[r].createIndex = svc[r].createIndex
                       /\ (changed(svc[r].def, svc'[r].def)
                             \/ svc[r].maintenance # svc'[r].maintenance)
                            => svc'[r].modifyIndex > index
    BY ZenonT(30)
  <2>0. svc[r] # NoSvc /\ index \in Nat
    BY ZenonT(30) DEF Stored, TypeInv, TypeOK
  <2>1. CASE svc'[r] = svc[r]
    BY <2>1, ZenonT(30) DEF changed
  <2>2. CASE \E q \in Ref, s \in Service : PutEffect(q, s)
    <3>1. PICK q \in Ref, s \in Service : PutEffect(q, s)
      BY <2>2, ZenonT(30)
    <3>2. svc'[q] = s /\ (q # r => svc'[r] = svc[r])
      BY <3>1, StoredEffects, ZenonT(30)
    <3>3. CASE q = r
      BY <2>0, <3>1, <3>2, <3>3 DEF PutEffect
    <3>. QED  BY <2>1, <3>2, <3>3, ZenonT(30)
  <2>3. CASE \E q \in Ref : q \in Stored /\ DeleteEffect(q)
    <3>1. PICK q \in Ref : q \in Stored /\ DeleteEffect(q)
      BY <2>3, ZenonT(30)
    <3>2. q # r /\ (q # r => svc'[r] = svc[r])
      BY <3>1, StoredEffects, ZenonT(30)
    <3>. QED  BY <2>1, <3>2, ZenonT(30)
  <2>4. CASE TouchEffect
    BY <2>0, <2>4, ZenonT(30) DEF TouchEffect, SameButLease
  <2>. QED  BY <2>2, <2>3, <2>4, StepEffect, ZenonT(30)
<1>. QED  BY <1>1, TypeInvariant, PTL DEF Spec, ModifyIndexTracks

(* The newest event created about a service tells whether it is stored     *)
(* and, if it is, all a reader can see of it except the heartbeat time and *)
(* the time-derived health.                                                *)
THEOREM EventsTellRegistry == Spec => []EventsDescribeRegistry
<1>1. Init => EventsDescribeRegistry
  BY ZenonT(30) DEF Init, EventsDescribeRegistry, Stored
<1>2. TypeInv /\ EventsDescribeRegistry /\ [Next]_vars => EventsDescribeRegistry'
  <2>. SUFFICES ASSUME TypeInv, EventsDescribeRegistry, [Next]_vars, NEW r \in Ref
                PROVE  /\ r \in Stored' <=>
                            (newest'[r] # NoEvent /\ newest'[r].type = "put")
                       /\ r \in Stored' =>
                            /\ ~changed(newest'[r].def, svc'[r].def)
                            /\ newest'[r].maintenance = svc'[r].maintenance
                            /\ newest'[r].index = svc'[r].modifyIndex
    BY ZenonT(30) DEF EventsDescribeRegistry
  <2>0. newest \in [Ref -> Event \cup {NoEvent}]
    BY ZenonT(30) DEF TypeInv, TypeOK
  <2>1. /\ r \in Stored <=> (newest[r] # NoEvent /\ newest[r].type = "put")
        /\ r \in Stored => /\ ~changed(newest[r].def, svc[r].def)
                           /\ newest[r].maintenance = svc[r].maintenance
                           /\ newest[r].index = svc[r].modifyIndex
    BY SMTT(20) DEF EventsDescribeRegistry
  <2>2. CASE \E q \in Ref, s \in Service : PutEffect(q, s)
    <3>1. PICK q \in Ref, s \in Service : PutEffect(q, s)
      BY <2>2, ZenonT(30)
    <3>2. PICK meta \in Metas : newest' = [newest EXCEPT ![q] = putEvent(q, meta, s)]
      BY Zenon, <3>1 DEF PutEffect
    <3>3. /\ Stored' = Stored \cup {q} /\ svc'[q] = s
          /\ q # r => svc'[r] = svc[r]
      BY <3>1, StoredEffects, ZenonT(30)
    <3>4. CASE q = r
      <4>. DEFINE e == putEvent(r, meta, s)
      <4>1. e \in Event /\ e.type = "put" /\ e.def = s.def
            /\ e.maintenance = s.maintenance /\ e.index = s.modifyIndex
        BY SMTT(20), EventTypes DEF putEvent, entryEvent
      <4>2. e # NoEvent
        BY <4>1, AbsentAssumption, ZenonT(30)
      <4>3. newest'[r] = e
        BY <2>0, <3>2, <3>4, ZenonT(30)
      <4>. HIDE DEF e
      <4>4. ~changed(s.def, s.def)
        BY ZenonT(30) DEF changed
      <4>. QED  BY SMTT(20), <3>3, <3>4, <4>1, <4>2, <4>3, <4>4
    <3>5. CASE q # r
      <4>1. newest'[r] = newest[r] /\ (r \in Stored' <=> r \in Stored)
        BY <2>0, <3>2, <3>3, <3>5, ZenonT(30)
      <4>. QED  BY Zenon, <2>1, <3>3, <3>5, <4>1
    <3>. QED  BY <3>4, <3>5, ZenonT(30)
  <2>3. CASE \E q \in Ref : q \in Stored /\ DeleteEffect(q)
    <3>1. PICK q \in Ref : q \in Stored /\ DeleteEffect(q)
      BY <2>3, ZenonT(30)
    <3>2. PICK meta \in Metas, s \in Service :
            newest' = [newest EXCEPT ![q] = deleteEvent(q, meta, s)]
      BY Zenon, <3>1 DEF DeleteEffect
    <3>3. Stored' = Stored \ {q} /\ (q # r => svc'[r] = svc[r])
      BY Zenon, <3>1, StoredEffects
    <3>4. CASE q = r
      <4>1. deleteEvent(q, meta, s).type = "delete"
        BY ZenonT(30) DEF deleteEvent, entryEvent
      <4>2. newest'[r].type = "delete"
        BY SMTT(20), <2>0, <3>2, <3>4, <4>1
      <4>. QED  BY <3>3, <3>4, <4>2, ZenonT(30)
    <3>5. CASE q # r
      <4>1. newest'[r] = newest[r] /\ (r \in Stored' <=> r \in Stored)
        BY <2>0, <3>2, <3>3, <3>5, ZenonT(30)
      <4>. QED  BY Zenon, <2>1, <3>3, <3>5, <4>1
    <3>. QED  BY Zenon, <3>4, <3>5
  <2>4. CASE TouchEffect
    <3>1. Stored' = Stored /\ newest' = newest
      BY <2>4, StoredEffects, ZenonT(30) DEF TouchEffect
    <3>2. r \in Stored => /\ ~changed(svc[r].def, svc'[r].def)
                          /\ svc[r].maintenance = svc'[r].maintenance
                          /\ svc[r].modifyIndex = svc'[r].modifyIndex
      BY <2>4, ZenonT(30) DEF TouchEffect, SameButLease, Stored
    <3>. QED  BY Zenon, <2>1, <3>1, <3>2 DEF changed
  <2>. QED  BY Zenon, <2>2, <2>3, <2>4, StepEffect
<1>. QED  BY <1>1, <1>2, TypeInvariant, PTL DEF Spec

(* GC removes a service only when its lease is past TTL and grace at that  *)
(* very moment, although it judges every service at the instant the pass   *)
(* began.                                                                  *)
THEOREM LeaseIsHonoured == Spec => LeaseHonoured
<1>1. TypeInv /\ [Next]_vars =>
        \A r \in Ref : (r \in Stored /\ r \notin Stored' /\ call.op = "GC")
                          => leaseExpired(svc[r], now)
  <2>. SUFFICES ASSUME TypeInv, [Next]_vars, NEW r \in Ref, r \in Stored,
                       r \notin Stored', call.op = "GC"
                PROVE  leaseExpired(svc[r], now)
    BY ZenonT(30)
  <2>0. /\ svc \in [Ref -> Service \cup {NoSvc}] /\ svc[r] # NoSvc
        /\ svc'[r] = NoSvc /\ call # Idle
    BY IdleType, ZenonT(30) DEF TypeInv, TypeOK, Stored
  <2>1. PICK q \in Ref : GCNext(q)
    <3>1. ~UNCHANGED svc
      BY <2>0, ZenonT(30)
    <3>. QED
      BY Zenon, <2>0, <3>1 DEF Next, Operation, Register, RegisterService, RegisterDone, Merge,
         MergeEntry, MergeDone, Renew, Fail, SetMaintenance, DeregisterService,
         Deregister, DeregisterNext, DeregisterDone, GC, GCDone, emit, Tick, vars
  <2>2. GCReap(q) /\ q = r
    <3>1. ~GCKeep(q)
      BY <2>0, ZenonT(30) DEF GCKeep
    <3>2. ~GCTransition(q)
      <4>1. SUFFICES ASSUME GCTransition(q) PROVE FALSE
        BY ZenonT(30)
      <4>. DEFINE s == [svc[q] EXCEPT !.lastState = leaseState(svc[q], call.at),
                                      !.modifyIndex = index + 1]
      <4>2. svc' = [svc EXCEPT ![q] = s]
        BY SMTT(20), <4>1 DEF GCTransition
      <4>3. svc[q] \in Service /\ index + 1 \in Nat
        <5>1. q \in call.todo
          BY Zenon, <2>1 DEF GCNext
        <5>2. call.todo \subseteq Stored
          BY Zenon DEF TypeInv, LoopOK
        <5>3. svc[q] # NoSvc
          BY Zenon, <5>1, <5>2 DEF Stored
        <5>4. index \in Nat
          BY Zenon DEF TypeInv, TypeOK
        <5>. QED  BY <2>0, <5>3, <5>4
      <4>4. leaseState(svc[q], call.at) \in HealthStates
        BY ZenonT(30) DEF leaseState, HealthStates
      <4>5. s \in Service
        BY Zenon, <4>3, <4>4 DEF Service
      <4>. HIDE DEF s
      <4>. QED  BY <2>0, <4>2, <4>5, AbsentAssumption, ZenonT(30)
    <3>3. GCReap(q)
      BY <2>1, <3>1, <3>2, ZenonT(30) DEF GCNext
    <3>4. svc' = [svc EXCEPT ![q] = NoSvc]
      BY <3>3, ZenonT(30) DEF GCReap, deleteInLoop
    <3>. QED  BY <2>0, <3>3, <3>4, ZenonT(30)
  <2>3. leaseExpired(svc[r], call.at)
    BY <2>2, ZenonT(30) DEF GCReap
  <2>4. /\ call.at \in Nat /\ now \in Nat /\ call.at <= now
        /\ svc[r] \in Service
    BY Zenon, <2>0 DEF TypeInv, TypeOK, LoopOK, CallType
  <2>5. svc[r].def.lastSeen \in Nat /\ svc[r].def.ttl \in Nat
    BY <2>4, ZenonT(30) DEF Service, Def
  <2>. QED  BY <2>3, <2>4, <2>5, LeaseAssumption DEF leaseExpired
<1>. QED  BY <1>1, TypeInvariant, PTL DEF Spec, LeaseHonoured

(* The size a registration or a merge counts is the size of the registry.  *)
CapInv ==
    /\ CapRespected
    /\ call.op \in {"Register", "Merge"} => call.size = sizeLocked

(* A step that stores nothing new keeps the cap.                           *)
LEMMA CapShrinks ==
    ASSUME TypeInv, CapRespected, Stored' \subseteq Stored
    PROVE  CapRespected'
<1>1. IsFiniteSet(Stored) /\ MaxServices \in Nat
  BY RegistryAssumption, ZenonT(30) DEF TypeInv
<1>2. Cardinality(Stored') <= Cardinality(Stored)
  BY <1>1, FS_Subset, ZenonT(30)
<1>3. Cardinality(Stored) \in Nat /\ Cardinality(Stored') \in Nat
  BY <1>1, FS_Subset, FS_CardinalityType, ZenonT(30)
<1>. QED  BY <1>1, <1>2, <1>3 DEF CapRespected, sizeLocked

LEMMA PutInLoopSize ==
    ASSUME call \in CallType, NEW r, NEW meta, NEW s, NEW size, NEW more,
           putInLoop(r, meta, s, size, more)
    PROVE  call'.size = size
BY ZenonT(30) DEF putInLoop, CallType

(* One item of a registration or of a merge: the count moves with the set  *)
(* of stored services.                                                     *)
LEMMA CapItem ==
    ASSUME TypeInv, CapInv, RegisterService \/ MergeEntry
    PROVE  CapInv'
<1>. DEFINE item == Head(call.rest)
            r == item.ref
            def == defOf(item)
            more == Tail(call.rest)
<1>1. /\ call.rest # <<>> /\ call.rest \in Seq(Item)
      /\ call.op \in {"Register", "Merge"}
  BY ZenonT(30) DEF RegisterService, MergeEntry, TypeInv, TypeOK, CallType
<1>2. item \in Item /\ more \in Seq(Item)
  BY <1>1, HeadAndTail, ZenonT(30)
<1>3. def \in Def
  BY <1>2, DefOfType, ZenonT(30)
<1>4. r \in Ref /\ item.meta \in Metas
  BY <1>2, ZenonT(30) DEF Item
<1>5. \/ RegisterNew(item, def) \/ RegisterFull(item)
      \/ RegisterChanged(item, def) \/ RegisterSame(item, def)
      \/ MergeNew(item, def) \/ MergeWins(item, def) \/ MergeSkip(item, def)
  BY Zenon DEF RegisterService, MergeEntry
<1>6. /\ TypeOK /\ svc \in [Ref -> Service \cup {NoSvc}] /\ IsFiniteSet(Stored)
      /\ call \in CallType /\ MaxServices \in Nat
      /\ index \in Nat /\ index + 1 \in Nat
  BY RegistryAssumption DEF TypeInv, TypeOK
<1>7. /\ call.size = sizeLocked /\ call.size \in Nat /\ call.size + 1 \in Nat
  BY <1>1, <1>6 DEF CapInv, CallType
<1>. HIDE DEF item, def, more
<1>8. CASE RegisterNew(item, def) \/ MergeNew(item, def)
  <2>. DEFINE s == newService(def)
  <2>1. s \in Service
    BY <1>3, <1>6, NewServiceType, ZenonT(30)
  <2>2. /\ svc[r] = NoSvc /\ ~atCapacity(call.size)
        /\ putInLoop(r, item.meta, s, call.size + 1, more)
    BY <1>8, ZenonT(30) DEF RegisterNew, MergeNew, more
  <2>. HIDE DEF s
  <2>3. Stored' = Stored \cup {r}
    BY <1>2, <1>4, <1>6, <1>7, <2>1, <2>2, PutInLoopType, ZenonT(30)
  <2>4. call'.size = call.size + 1
    BY <1>6, <2>2, PutInLoopSize, ZenonT(30)
  <2>5. r \notin Stored
    BY <2>2, ZenonT(30) DEF Stored
  <2>6. Cardinality(Stored \cup {r}) = Cardinality(Stored) + 1
    BY <1>6, <2>5, FS_AddElement, ZenonT(30)
  <2>7. sizeLocked' = sizeLocked + 1
    BY <2>3, <2>6, ZenonT(30) DEF sizeLocked
  <2>. QED  BY <1>6, <1>7, <2>2, <2>4, <2>7 DEF CapInv, CapRespected, atCapacity
<1>9. ASSUME NEW s \in Service, svc[r] # NoSvc,
             putInLoop(r, item.meta, s, call.size, more)
      PROVE  CapInv'
  <2>1. Stored' = Stored \cup {r}
    BY <1>2, <1>4, <1>6, <1>7, <1>9, PutInLoopType, ZenonT(30)
  <2>2. call'.size = call.size
    BY <1>6, <1>9, PutInLoopSize, ZenonT(30)
  <2>3. Stored' = Stored
    BY <1>4, <1>9, <2>1, ZenonT(30) DEF Stored
  <2>. QED  BY <1>7, <2>2, <2>3, ZenonT(30) DEF CapInv, CapRespected, sizeLocked
<1>10. CASE RegisterChanged(item, def)
  <2>. DEFINE s == [svc[r] EXCEPT !.def = def, !.lastState = Passing,
                                  !.modifyIndex = index + 1]
  <2>1. svc[r] # NoSvc /\ svc[r] \in Service
    BY <1>4, <1>6, <1>10, ZenonT(30) DEF RegisterChanged
  <2>2. s \in Service
    BY Zenon, <1>3, <1>6, <2>1 DEF Service, HealthStates
  <2>3. putInLoop(r, item.meta, s, call.size, more)
    BY <1>10, ZenonT(30) DEF RegisterChanged, more
  <2>. HIDE DEF s
  <2>. QED  BY <1>9, <2>1, <2>2, <2>3, ZenonT(30)
<1>11. CASE MergeWins(item, def)
  <2>. DEFINE s == [svc[r] EXCEPT !.def = def, !.modifyIndex = index + 1]
  <2>1. svc[r] # NoSvc /\ svc[r] \in Service
    BY <1>4, <1>6, <1>11, ZenonT(30) DEF MergeWins
  <2>2. s \in Service
    BY Zenon, <1>3, <1>6, <2>1 DEF Service
  <2>3. putInLoop(r, item.meta, s, call.size, more)
    BY <1>11, ZenonT(30) DEF MergeWins, more
  <2>. HIDE DEF s
  <2>. QED  BY <1>9, <2>1, <2>2, <2>3
<1>12. CASE RegisterSame(item, def) \/ MergeSkip(item, def)
  <2>1. call'.size = call.size
    BY <1>6, <1>12, ZenonT(30) DEF RegisterSame, MergeSkip, CallType
  <2>2. Stored' = Stored
    <3>1. CASE RegisterSame(item, def)
      <4>. DEFINE s == [svc[r] EXCEPT !.def = [svc[r].def EXCEPT !.lastSeen = def.lastSeen]]
      <4>1. svc[r] \in Service /\ svc' = [svc EXCEPT ![r] = s]
        BY <1>4, <1>6, <3>1, ZenonT(30) DEF RegisterSame
      <4>2. s \in Service
        BY <1>3, <4>1, ZenonT(30) DEF Service, Def
      <4>. HIDE DEF s
      <4>. QED  BY <1>4, <1>6, <4>1, <4>2, AbsentAssumption, ZenonT(30) DEF Stored
    <3>. QED  BY <1>12, <3>1, ZenonT(30) DEF MergeSkip, Stored
  <2>. QED  BY <1>7, <2>1, <2>2, ZenonT(30) DEF CapInv, CapRespected, sizeLocked
<1>13. CASE RegisterFull(item)
  <2>1. call' = Idle /\ UNCHANGED svc
    BY <1>13, ZenonT(30) DEF RegisterFull, unlock
  <2>2. Stored' = Stored
    BY <2>1, StoredSame, ZenonT(30)
  <2>. QED  BY <2>1, <2>2, ZenonT(30) DEF CapInv, CapRespected, sizeLocked, Idle
<1>. QED  BY <1>5, <1>8, <1>10, <1>11, <1>12, <1>13, ZenonT(30)

(* The cap on the number of services holds in every state, in the middle   *)
(* of a batch too, although Register and Merge read the size once and      *)
(* count on their own (store.go, sizeLocked).                              *)
THEOREM CapIsKept == Spec => []CapRespected
<1>1. Init => CapInv
  <2>. SUFFICES ASSUME Init PROVE CapInv
    OBVIOUS
  <2>1. Stored = {} /\ call.op = "idle"
    BY ZenonT(30) DEF Init, Stored, Idle
  <2>. QED  BY <2>1, FS_EmptySet, RegistryAssumption DEF CapInv, CapRespected, sizeLocked
<1>2. TypeInv /\ CapInv /\ [Next]_vars => CapInv'
  <2>. SUFFICES ASSUME TypeInv, CapInv, [Next]_vars PROVE CapInv'
    BY ZenonT(30)
  <2>0. Idle \in CallType /\ call \in CallType
    BY IdleType, ZenonT(30) DEF TypeInv, TypeOK
  <2>1. CASE RegisterService \/ MergeEntry
    BY <2>1, CapItem, ZenonT(30)
  <2>2. CASE \/ \E reg \in Registrations : Register(reg)
             \/ \E entries \in PeerBatches : Merge(entries)
    <3>1. UNCHANGED svc
      BY Zenon, <2>2 DEF Register, Merge
    <3>2. call'.size = sizeLocked
      <4>1. CASE \E reg \in Registrations : Register(reg)
        BY <2>0, <4>1, ZenonT(30) DEF Register, CallType
      <4>2. CASE \E entries \in PeerBatches : Merge(entries)
        BY <2>0, <4>2, ZenonT(30) DEF Merge, CallType
      <4>. QED  BY <2>2, <4>1, <4>2, ZenonT(30)
    <3>3. Stored' = Stored
      BY <3>1, StoredSame, ZenonT(30)
    <3>. QED  BY <3>2, <3>3, ZenonT(30) DEF CapInv, CapRespected, sizeLocked
  <2>3. CASE \/ \E n \in Nodes : Deregister(n)
             \/ GC \/ RegisterDone \/ MergeDone \/ DeregisterDone \/ GCDone
    <3>1. UNCHANGED svc /\ call'.op \in {"idle", "Deregister", "GC"}
      <4>0. CASE \E n \in Nodes : Deregister(n)
        BY <2>0, <4>0, ZenonT(30) DEF Deregister, CallType
      <4>1. CASE GC
        BY <2>0, <4>1, ZenonT(30) DEF GC, CallType
      <4>2. CASE RegisterDone \/ MergeDone \/ DeregisterDone \/ GCDone
        <5>1. UNCHANGED svc /\ unlock
          BY Zenon, <4>2 DEF RegisterDone, MergeDone, DeregisterDone, GCDone
        <5>. QED  BY <5>1, ZenonT(30) DEF unlock, Idle
      <4>. QED  BY <2>3, <4>0, <4>1, <4>2, ZenonT(30)
    <3>2. Stored' = Stored
      BY <3>1, StoredSame, ZenonT(30)
    <3>. QED  BY <3>1, <3>2, ZenonT(30) DEF CapInv, CapRespected, sizeLocked
  <2>4. CASE (\E batch \in pending : emit(batch)) \/ Tick \/ UNCHANGED vars
    <3>1. UNCHANGED <<svc, call>>
      BY <2>4, ZenonT(30) DEF emit, Tick, vars
    <3>2. Stored' = Stored
      BY <3>1, StoredSame, ZenonT(30)
    <3>. QED  BY <3>1, <3>2, ZenonT(30) DEF CapInv, CapRespected, sizeLocked
  <2>5. CASE \/ \E n \in Nodes, ids \in RenewArgs : Renew(n, ids)
             \/ \E r \in FailRefs : Fail(r)
             \/ \E r \in Ref, enabled \in BOOLEAN : SetMaintenance(r, enabled)
             \/ \E r \in Ref : DeregisterService(r)
    <3>1. call = Idle /\ call' = call
      BY Zenon, <2>5 DEF Renew, Fail, SetMaintenance, DeregisterService, putOne
    <3>2. Stored' \subseteq Stored
      <4>0. svc \in [Ref -> Service \cup {NoSvc}]
        BY ZenonT(30) DEF TypeInv, TypeOK
      <4>1. CASE \E n \in Nodes, ids \in RenewArgs : Renew(n, ids)
        <5>1. PICK n \in Nodes, ids \in RenewArgs : Renew(n, ids)
          BY <4>1, ZenonT(30)
        <5>2. PICK renewed \in SUBSET Stored :
                svc' = [q \in Ref |-> IF q \in renewed
                          THEN [svc[q] EXCEPT !.def.lastSeen = now, !.failed = FALSE]
                          ELSE svc[q]]
          BY Zenon, <5>1 DEF Renew
        <5>3. \A q \in Ref : q \notin renewed => svc'[q] = svc[q]
          BY Zenon, <5>2
        <5>. QED  BY <5>3, ZenonT(30) DEF Stored
      <4>2. CASE \/ \E r \in FailRefs : Fail(r)
                 \/ \E r \in Ref, enabled \in BOOLEAN : SetMaintenance(r, enabled)
                 \/ \E r \in Ref : DeregisterService(r)
        <5>1. \E r \in Ref : \E s : svc[r] # NoSvc /\ svc' = [svc EXCEPT ![r] = s]
          BY Zenon, <4>2, RegistryAssumption DEF Fail, SetMaintenance, DeregisterService, putOne
        <5>. QED  BY <4>0, <5>1, ZenonT(30) DEF Stored
      <4>. QED  BY <2>5, <4>1, <4>2, ZenonT(30)
    <3>. QED  BY <3>1, <3>2, CapShrinks, ZenonT(30) DEF CapInv, Idle
  <2>6. CASE \E r \in Ref : DeregisterNext(r) \/ GCNext(r)
    <3>1. PICK r \in Ref : DeregisterNext(r) \/ GCNext(r)
      BY <2>6, ZenonT(30)
    <3>2. svc[r] # NoSvc /\ svc \in [Ref -> Service \cup {NoSvc}] /\ call \in CallType
      BY <3>1, ZenonT(30) DEF DeregisterNext, GCNext, TypeInv, TypeOK, LoopOK, Stored
    <3>3. call'.op = call.op /\ call.op \in {"Deregister", "GC"}
      <4>1. CASE DeregisterNext(r)
        BY <2>0, <4>1, ZenonT(30) DEF DeregisterNext, deleteInLoop, CallType
      <4>2. CASE GCNext(r)
        <5>1. CASE GCReap(r)
          BY <2>0, <4>2, <5>1, ZenonT(30) DEF GCNext, GCReap, deleteInLoop, CallType
        <5>2. CASE GCTransition(r)
          BY <2>0, <4>2, <5>2, ZenonT(30) DEF GCNext, GCTransition, CallType
        <5>3. CASE GCKeep(r)
          BY <2>0, <4>2, <5>3, ZenonT(30) DEF GCNext, GCKeep, CallType
        <5>. QED  BY Zenon, <4>2, <5>1, <5>2, <5>3 DEF GCNext
      <4>. QED  BY <3>1, <4>1, <4>2, ZenonT(30)
    <3>4. \/ \E s : svc' = [svc EXCEPT ![r] = s]
          \/ UNCHANGED svc
      BY <3>1, ZenonT(30) DEF DeregisterNext, GCNext, GCReap, GCTransition, GCKeep, deleteInLoop
    <3>5. Stored' \subseteq Stored
      BY <3>2, <3>4, ZenonT(30) DEF Stored
    <3>. QED  BY <3>3, <3>5, CapShrinks, ZenonT(30) DEF CapInv
  <2>. QED
    BY <2>1, <2>2, <2>3, <2>4, <2>5, <2>6, ZenonT(30) DEF Next, Operation
<1>3. CapInv => CapRespected
  BY ZenonT(30) DEF CapInv
<1>. QED  BY <1>1, <1>2, <1>3, TypeInvariant, PTL DEF Spec

(* The registry implements the abstract catalogue, for any clients, peers  *)
(* and GC passes: Register, Merge, Renew, Fail, SetMaintenance and the     *)
(* removals of store.go show readers one change per index.                 *)
THEOREM RegistryImplementsCatalog == Spec => ImplementsCatalog
<1>1. Init => C!Init
  BY ZenonT(30) DEF Init, C!Init, catalog
<1>2. TypeInv /\ [Next]_vars => [C!Next]_<<catalog, index>>
  <2>. SUFFICES ASSUME TypeInv, [Next]_vars
                PROVE  [C!Next]_<<catalog, index>>
    BY ZenonT(30)
  <2>. DEFINE listed(s) == [view |-> view(s), rev |-> s.modifyIndex]
  <2>0. /\ svc \in [Ref -> Service \cup {NoSvc}] /\ index \in Nat
    BY ZenonT(30) DEF TypeInv, TypeOK
  <2>d. ASSUME NEW s \in Service
        PROVE  listed(s) \in Listed /\ listed(s) # NoSvc
    <3>1. view(s) \in View /\ s.modifyIndex \in Nat
      BY ZenonT(30) DEF view, View, Service, Def
    <3>2. listed(s) \in Listed
      BY <3>1, ZenonT(30) DEF Listed
    <3>. QED  BY <3>2, AbsentAssumption, ZenonT(30)
  <2>a. \A r \in Ref : catalog[r] = IF svc[r] = NoSvc THEN NoSvc
                                    ELSE listed(svc[r])
    BY ZenonT(30) DEF catalog
  <2>b. \A r \in Ref : catalog'[r] = IF svc'[r] = NoSvc THEN NoSvc
                                     ELSE listed(svc'[r])
    BY ZenonT(30) DEF catalog
  <2>c. /\ catalog = [r \in Ref |-> catalog[r]]
        /\ catalog' = [r \in Ref |-> catalog'[r]]
    BY ZenonT(30) DEF catalog
  <2>1. CASE \E r \in Ref, s \in Service : PutEffect(r, s)
    <3>1. PICK r \in Ref, s \in Service : PutEffect(r, s)
      BY <2>1, ZenonT(30)
    <3>2. svc'[r] = s /\ \A q \in Ref : q # r => svc'[q] = svc[q]
      BY <3>1, StoredEffects, ZenonT(30)
    <3>3. s.modifyIndex = index + 1 /\ index' = index + 1
      BY <3>1, ZenonT(30) DEF PutEffect
    <3>4. catalog'[r] = listed(s)
      BY Zenon, <2>b, <3>2, AbsentAssumption
    <3>5. \A q \in Ref : q # r => catalog'[q] = catalog[q]
      BY Zenon, <2>a, <2>b, <3>2
    <3>6. /\ listed(s) # NoSvc /\ listed(s).view \in View
          /\ listed(s).rev = index + 1
      BY <2>d, <3>3, ZenonT(30) DEF Listed
    <3>. HIDE DEF listed
    <3>7. catalog' = [catalog EXCEPT ![r] = catalog'[r]]
      BY <2>c, <3>5, Zenon
    <3>8. C!Put(r)
      BY <3>3, <3>4, <3>6, <3>7, ZenonT(30) DEF C!Put
    <3>. QED  BY <3>8, ZenonT(30) DEF C!Next
  <2>2. CASE \E r \in Ref : r \in Stored /\ DeleteEffect(r)
    <3>1. PICK r \in Ref : r \in Stored /\ DeleteEffect(r)
      BY <2>2, ZenonT(30)
    <3>2. Stored' = Stored \ {r} /\ \A q \in Ref : q # r => svc'[q] = svc[q]
      BY <3>1, StoredEffects, ZenonT(30)
    <3>3. svc[r] \in Service /\ svc[r] # NoSvc /\ svc'[r] = NoSvc
          /\ index' = index + 1
      BY <2>0, <3>1, <3>2, ZenonT(30) DEF Stored, DeleteEffect
    <3>4. catalog[r] # NoSvc /\ catalog'[r] = NoSvc
      BY Zenon, <2>a, <2>b, <2>d, <3>3
    <3>5. \A q \in Ref : q # r => catalog'[q] = catalog[q]
      BY Zenon, <2>a, <2>b, <3>2
    <3>6. catalog' = [catalog EXCEPT ![r] = NoSvc]
      BY <2>c, <3>4, <3>5, Zenon
    <3>7. C!Delete(r)
      BY <3>3, <3>4, <3>6, ZenonT(30) DEF C!Delete
    <3>. QED  BY <3>7, ZenonT(30) DEF C!Next
  <2>3. CASE TouchEffect
    <3>1. ASSUME NEW r \in Ref PROVE catalog'[r] = catalog[r]
      <4>1. SameButLease(svc[r], svc'[r])
        BY <2>3, ZenonT(30) DEF TouchEffect
      <4>2. svc[r] # NoSvc => listed(svc'[r]) = listed(svc[r])
        BY Zenon, <4>1 DEF SameButLease, changed, view
      <4>3. svc[r] = NoSvc <=> svc'[r] = NoSvc
        BY <4>1, ZenonT(30) DEF SameButLease
      <4>. HIDE DEF listed
      <4>. QED  BY <2>a, <2>b, <4>2, <4>3, ZenonT(30)
    <3>2. catalog' = catalog
      BY <2>c, <3>1, Zenon
    <3>. QED  BY <2>3, <3>2, ZenonT(30) DEF TouchEffect
  <2>. QED  BY <2>1, <2>2, <2>3, StepEffect, ZenonT(30)
<1>. QED  BY <1>1, <1>2, TypeInvariant, PTL DEF Spec, ImplementsCatalog, C!Spec
-----------------------------------------------------------------------------
(* The push path of a seed.  What a step of the registry does to the       *)
(* events that are still to be handed to the watcher: it gathers one in    *)
(* the loop that holds the lock, queues one, queues those of the loop that *)
(* ends, or leaves them alone.                                             *)

Gathers(e) ==
    /\ call'.events = Append(call.events, e) /\ pending' = pending
    /\ newest' = [newest EXCEPT ![e.ref] = e]

QueuesOne(e) ==
    /\ call'.events = call.events /\ queue(<<e>>)
    /\ newest' = [newest EXCEPT ![e.ref] = e]

Flushes == call'.events = <<>> /\ queue(call.events) /\ newest' = newest

Silent == call'.events = call.events /\ UNCHANGED <<pending, newest>>

EventEffect ==
    \/ \E e \in Event : Gathers(e) \/ QueuesOne(e)
    \/ Flushes \/ Silent

LEMMA PutGathers ==
    ASSUME TypeInv, NEW r \in Ref, NEW meta \in Metas, NEW s \in Service,
           NEW size, NEW more, putInLoop(r, meta, s, size, more), UNCHANGED pending
    PROVE  EventEffect
<1>. DEFINE e == putEvent(r, meta, s)
<1>1. e \in Event
  BY EventTypes
<1>2. call \in CallType
  BY DEF TypeInv, TypeOK
<1>. HIDE DEF e
<1>3. /\ call' = [call EXCEPT !.size = size, !.rest = more, !.events = Append(@, e)]
      /\ newest' = [newest EXCEPT ![e.ref] = e]
  BY ZenonT(30) DEF putInLoop, Announce, e
<1>4. call'.events = Append(call.events, e)
  BY <1>2, <1>3 DEF CallType
<1>. QED  BY <1>1, <1>3, <1>4, ZenonT(30) DEF EventEffect, Gathers

LEMMA DeleteGathers ==
    ASSUME TypeInv, NEW r \in Stored, deleteInLoop(r), UNCHANGED pending
    PROVE  EventEffect
<1>. DEFINE d == [svc[r] EXCEPT !.modifyIndex = index + 1]
            e == deleteEvent(r, nodes[r[1]], d)
<1>1. r \in Ref /\ svc[r] \in Service /\ nodes[r[1]] \in Metas /\ index + 1 \in Nat
  BY DEF TypeInv, TypeOK, NodesCover, Stored, Ref
<1>2. d \in Service
  BY <1>1 DEF Service
<1>3. e \in Event
  BY <1>1, <1>2, EventTypes, ZenonT(30)
<1>4. call \in CallType
  BY DEF TypeInv, TypeOK
<1>. HIDE DEF d, e
<1>5. /\ call' = [call EXCEPT !.todo = @ \ {r}, !.events = Append(@, e)]
      /\ newest' = [newest EXCEPT ![e.ref] = e]
  BY ZenonT(30) DEF deleteInLoop, Announce, d, e
<1>6. call'.events = Append(call.events, e)
  BY <1>4, <1>5 DEF CallType
<1>. QED  BY <1>3, <1>5, <1>6, ZenonT(30) DEF EventEffect, Gathers

LEMMA PutOneQueues ==
    ASSUME TypeInv, NEW r \in Stored, NEW s \in Service, putOne(r, s)
    PROVE  EventEffect
<1>. DEFINE e == putEvent(r, nodes[r[1]], s)
<1>1. r \in Ref /\ nodes[r[1]] \in Metas
  BY DEF TypeInv, TypeOK, NodesCover, Stored, Ref
<1>2. e \in Event
  BY <1>1, EventTypes
<1>3. queue(<<e>>) /\ newest' = [newest EXCEPT ![e.ref] = e] /\ call' = call
  BY ZenonT(30) DEF putOne, Announce
<1>. HIDE DEF e
<1>. QED  BY <1>2, <1>3, ZenonT(30) DEF EventEffect, QueuesOne

LEMMA UnlockFlushes ==
    ASSUME unlock, UNCHANGED newest
    PROVE  EventEffect
<1>1. call'.events = <<>>
  BY DEF unlock, Idle
<1>. QED  BY <1>1, ZenonT(30) DEF unlock, EventEffect, Flushes

LEMMA ItemEvents ==
    ASSUME TypeInv, RegisterService \/ MergeEntry
    PROVE  EventEffect
<1>. DEFINE item == Head(call.rest)
            r == item.ref
            def == defOf(item)
<1>1. call.rest # <<>> /\ call.rest \in Seq(Item) /\ call \in CallType
  BY DEF RegisterService, MergeEntry, TypeInv, TypeOK, CallType
<1>2. item \in Item
  BY <1>1, HeadAndTail
<1>3. def \in Def
  BY <1>2, DefOfType
<1>4. r \in Ref /\ item.meta \in Metas
  BY <1>2 DEF Item
<1>5. \/ RegisterNew(item, def) \/ RegisterFull(item)
      \/ RegisterChanged(item, def) \/ RegisterSame(item, def)
      \/ /\ MergeNew(item, def) \/ MergeWins(item, def) \/ MergeSkip(item, def)
         /\ UNCHANGED pending
  BY ZenonT(30) DEF RegisterService, MergeEntry
<1>6. index \in Nat /\ index + 1 \in Nat /\ svc \in [Ref -> Service \cup {NoSvc}]
  BY DEF TypeInv, TypeOK
<1>. HIDE DEF item, def
<1>7. CASE RegisterNew(item, def) \/ (MergeNew(item, def) /\ UNCHANGED pending)
  <2>1. newService(def) \in Service
    BY <1>3, <1>6, NewServiceType
  <2>2. /\ putInLoop(r, item.meta, newService(def), call.size + 1, Tail(call.rest))
        /\ UNCHANGED pending
    BY <1>7, ZenonT(30) DEF RegisterNew, MergeNew
  <2>. QED  BY <1>4, <2>1, <2>2, PutGathers, ZenonT(30)
<1>8. CASE RegisterChanged(item, def)
  <2>. DEFINE s == [svc[r] EXCEPT !.def = def, !.lastState = Passing,
                                  !.modifyIndex = index + 1]
  <2>1. svc[r] # NoSvc /\ svc[r] \in Service
    BY <1>4, <1>6, <1>8 DEF RegisterChanged
  <2>2. s \in Service
    BY <1>3, <1>6, <2>1, ZenonT(30) DEF Service, HealthStates
  <2>3. putInLoop(r, item.meta, s, call.size, Tail(call.rest)) /\ UNCHANGED pending
    BY <1>8, ZenonT(30) DEF RegisterChanged
  <2>. HIDE DEF s
  <2>. QED  BY <1>4, <2>2, <2>3, PutGathers, ZenonT(30)
<1>9. CASE MergeWins(item, def) /\ UNCHANGED pending
  <2>. DEFINE s == [svc[r] EXCEPT !.def = def, !.modifyIndex = index + 1]
  <2>1. svc[r] # NoSvc /\ svc[r] \in Service
    BY <1>4, <1>6, <1>9 DEF MergeWins
  <2>2. s \in Service
    BY <1>3, <1>6, <2>1, ZenonT(30) DEF Service
  <2>3. putInLoop(r, item.meta, s, call.size, Tail(call.rest))
    BY <1>9, ZenonT(30) DEF MergeWins
  <2>. HIDE DEF s
  <2>. QED  BY <1>4, <1>9, <2>2, <2>3, PutGathers, ZenonT(30)
<1>10. CASE RegisterSame(item, def) \/ (MergeSkip(item, def) /\ UNCHANGED pending)
  <2>1. /\ call' = [call EXCEPT !.rest = Tail(@)]
        /\ UNCHANGED <<pending, newest>>
    BY <1>10, ZenonT(30) DEF RegisterSame, MergeSkip
  <2>2. call'.events = call.events
    BY <1>1, <2>1 DEF CallType
  <2>. QED  BY <2>1, <2>2, ZenonT(30) DEF EventEffect, Silent
<1>11. CASE RegisterFull(item)
  BY <1>11, UnlockFlushes, ZenonT(30) DEF RegisterFull
<1>. QED  BY <1>5, <1>7, <1>8, <1>9, <1>10, <1>11, ZenonT(30)

LEMMA SingleEvents ==
    ASSUME TypeInv,
           \/ \E n \in Nodes, ids \in RenewArgs : Renew(n, ids)
           \/ \E r \in FailRefs : Fail(r)
           \/ \E r \in Ref, enabled \in BOOLEAN : SetMaintenance(r, enabled)
           \/ \E r \in Ref : DeregisterService(r)
    PROVE  EventEffect
<1>0. /\ index + 1 \in Nat /\ svc \in [Ref -> Service \cup {NoSvc}]
  BY DEF TypeInv, TypeOK
<1>1. CASE \E n \in Nodes, ids \in RenewArgs : Renew(n, ids)
  <2>1. UNCHANGED <<call, pending, newest>>
    BY <1>1, ZenonT(30) DEF Renew
  <2>. QED  BY <2>1, ZenonT(30) DEF EventEffect, Silent
<1>2. CASE \E r \in FailRefs : Fail(r)
  <2>1. PICK r \in FailRefs : Fail(r)
    BY <1>2
  <2>2. r \in Stored /\ svc[r] \in Service
    BY <1>0, <2>1, RegistryAssumption, ZenonT(30) DEF Fail, Stored
  <2>. DEFINE s == [svc[r] EXCEPT !.failed = TRUE, !.modifyIndex = index + 1]
  <2>3. s \in Service
    BY <1>0, <2>2, ZenonT(30) DEF Service
  <2>4. putOne(r, s)
    BY <2>1, ZenonT(30) DEF Fail
  <2>. HIDE DEF s
  <2>. QED  BY <2>2, <2>3, <2>4, PutOneQueues, ZenonT(30)
<1>3. CASE \E r \in Ref, enabled \in BOOLEAN : SetMaintenance(r, enabled)
  <2>1. PICK r \in Ref, enabled \in BOOLEAN : SetMaintenance(r, enabled)
    BY <1>3
  <2>2. r \in Stored /\ svc[r] \in Service
    BY <1>0, <2>1, ZenonT(30) DEF SetMaintenance, Stored
  <2>. DEFINE s == [svc[r] EXCEPT !.maintenance = enabled, !.modifyIndex = index + 1]
  <2>3. s \in Service
    BY <1>0, <2>1, <2>2, ZenonT(30) DEF Service
  <2>4. putOne(r, s)
    BY <2>1, ZenonT(30) DEF SetMaintenance
  <2>. HIDE DEF s
  <2>. QED  BY <2>2, <2>3, <2>4, PutOneQueues, ZenonT(30)
<1>4. CASE \E r \in Ref : DeregisterService(r)
  <2>1. PICK r \in Ref : DeregisterService(r)
    BY <1>4
  <2>2. r \in Stored /\ svc[r] \in Service /\ nodes[r[1]] \in Metas
    BY <1>0, <2>1 DEF DeregisterService, Stored, TypeInv, TypeOK, NodesCover, Ref
  <2>. DEFINE d == [svc[r] EXCEPT !.modifyIndex = index + 1]
              e == deleteEvent(r, nodes[r[1]], d)
  <2>3. d \in Service
    BY <1>0, <2>2 DEF Service
  <2>4. e \in Event
    BY <2>1, <2>2, <2>3, EventTypes, ZenonT(30)
  <2>5. queue(<<e>>) /\ newest' = [newest EXCEPT ![e.ref] = e] /\ call' = call
    BY <2>1, ZenonT(30) DEF DeregisterService, Announce
  <2>. HIDE DEF e
  <2>. QED  BY <2>4, <2>5, ZenonT(30) DEF EventEffect, QueuesOne
<1>. QED  BY <1>1, <1>2, <1>3, <1>4

LEMMA VisitEvents ==
    ASSUME TypeInv, NEW r \in Ref, DeregisterNext(r) \/ GCNext(r)
    PROVE  EventEffect
<1>1. /\ index + 1 \in Nat /\ svc \in [Ref -> Service \cup {NoSvc}] /\ call \in CallType
  BY DEF TypeInv, TypeOK
<1>2. r \in Stored /\ svc[r] \in Service /\ UNCHANGED pending
  BY <1>1, ZenonT(30) DEF DeregisterNext, GCNext, TypeInv, LoopOK, Stored
<1>3. CASE deleteInLoop(r)
  BY <1>2, <1>3, DeleteGathers, ZenonT(30)
<1>4. CASE GCTransition(r)
  <2>. DEFINE s == [svc[r] EXCEPT !.lastState = leaseState(svc[r], call.at),
                                  !.modifyIndex = index + 1]
              e == putEvent(r, nodes[r[1]], s)
  <2>1. leaseState(svc[r], call.at) \in HealthStates /\ nodes[r[1]] \in Metas
    BY <1>2 DEF leaseState, HealthStates, TypeInv, TypeOK, NodesCover, Ref
  <2>2. s \in Service
    BY <1>1, <1>2, <2>1, ZenonT(30) DEF Service
  <2>3. e \in Event
    BY <2>1, <2>2, EventTypes, ZenonT(30)
  <2>4. /\ call' = [call EXCEPT !.todo = @ \ {r}, !.events = Append(@, e)]
        /\ newest' = [newest EXCEPT ![e.ref] = e]
    BY <1>4, ZenonT(30) DEF GCTransition, Announce
  <2>. HIDE DEF e
  <2>5. call'.events = Append(call.events, e)
    BY <1>1, <2>4 DEF CallType
  <2>. QED  BY <1>2, <2>3, <2>4, <2>5, ZenonT(30) DEF EventEffect, Gathers
<1>5. CASE GCKeep(r)
  <2>1. call' = [call EXCEPT !.todo = @ \ {r}] /\ UNCHANGED newest
    BY <1>5, ZenonT(30) DEF GCKeep
  <2>2. call'.events = call.events
    BY <1>1, <2>1 DEF CallType
  <2>. QED  BY <1>2, <2>1, <2>2, ZenonT(30) DEF EventEffect, Silent
<1>. QED  BY <1>3, <1>4, <1>5, ZenonT(30) DEF DeregisterNext, GCNext, GCReap

LEMMA OperationEvents ==
    ASSUME TypeInv, Operation \/ Tick
    PROVE  EventEffect
<1>1. CASE RegisterService \/ MergeEntry
  BY <1>1, ItemEvents
<1>2. CASE \/ \E n \in Nodes, ids \in RenewArgs : Renew(n, ids)
           \/ \E r \in FailRefs : Fail(r)
           \/ \E r \in Ref, enabled \in BOOLEAN : SetMaintenance(r, enabled)
           \/ \E r \in Ref : DeregisterService(r)
  BY <1>2, SingleEvents
<1>3. CASE \E r \in Ref : DeregisterNext(r) \/ GCNext(r)
  BY <1>3, VisitEvents
<1>4. CASE RegisterDone \/ MergeDone \/ DeregisterDone \/ GCDone
  BY <1>4, UnlockFlushes, ZenonT(30) DEF RegisterDone, MergeDone, DeregisterDone, GCDone
<1>5. CASE \/ \E reg \in Registrations : Register(reg)
           \/ \E entries \in PeerBatches : Merge(entries)
           \/ \E n \in Nodes : Deregister(n)
           \/ GC
  <2>1. call = Idle /\ UNCHANGED <<pending, newest>>
    BY <1>5, ZenonT(30) DEF Register, Merge, Deregister, GC
  <2>2. call'.events = <<>>
    BY <1>5, ZenonT(30) DEF Register, Merge, Deregister, GC, Idle
  <2>. QED  BY <2>1, <2>2 DEF EventEffect, Silent, Idle
<1>6. CASE Tick
  BY <1>6, ZenonT(30) DEF Tick, EventEffect, Silent
<1>. QED  BY <1>1, <1>2, <1>3, <1>4, <1>5, <1>6, ZenonT(30) DEF Operation
-----------------------------------------------------------------------------
(* An event waits while some batch still to be emitted has it; only Notify *)
(* ends that, and a new event waits.                                       *)

Waits(e, batches, events) ==
    \E b \in batches \cup {events} : \E i \in 1 .. Len(b) : b[i] = e

LEMMA NotWaiting ==
    ASSUME NEW e
    PROVE  notified(e) <=> ~Waits(e, pending, call.events)
BY ZenonT(30) DEF notified, Waits, Undelivered

LEMMA EventsWait ==
    ASSUME TypeInv, EventEffect
    PROVE  /\ \A e : Waits(e, pending, call.events) => Waits(e, pending', call'.events)
           /\ \A r \in Ref : newest'[r] # newest[r] =>
                newest'[r].ref = r /\ Waits(newest'[r], pending', call'.events)
<1>1. call.events \in Seq(Event) /\ newest \in [Ref -> Event \cup {NoEvent}]
  BY DEF TypeInv, TypeOK, CallType
<1>2. ASSUME NEW e \in Event, Gathers(e)
      PROVE  /\ \A x : Waits(x, pending, call.events) => Waits(x, pending', call'.events)
             /\ \A r \in Ref : newest'[r] # newest[r] =>
                  newest'[r].ref = r /\ Waits(newest'[r], pending', call'.events)
  <2>1. /\ Len(call'.events) = Len(call.events) + 1
        /\ \A i \in 1 .. Len(call.events) : call'.events[i] = call.events[i]
        /\ call'.events[Len(call.events) + 1] = e
        /\ Len(call.events) \in Nat
    BY <1>1, <1>2 DEF Gathers
  <2>2. \A i \in 1 .. Len(call.events) : i \in 1 .. Len(call'.events)
    BY <2>1
  <2>3. \A x : (\E i \in 1 .. Len(call.events) : call.events[i] = x)
                 => \E i \in 1 .. Len(call'.events) : call'.events[i] = x
    BY <2>1, <2>2, ZenonT(30)
  <2>4. \A x : Waits(x, pending, call.events) => Waits(x, pending', call'.events)
    BY <1>2, <2>3, ZenonT(30) DEF Waits, Gathers
  <2>5. Len(call.events) + 1 \in 1 .. Len(call'.events)
    BY <2>1
  <2>6. Waits(e, pending', call'.events)
    BY <2>1, <2>5, ZenonT(30) DEF Waits
  <2>7. \A r \in Ref : newest'[r] # newest[r] => r = e.ref /\ newest'[r] = e
    BY <1>1, <1>2 DEF Gathers, Event
  <2>. QED  BY <2>4, <2>6, <2>7, ZenonT(30)
<1>3. ASSUME NEW e \in Event, QueuesOne(e)
      PROVE  /\ \A x : Waits(x, pending, call.events) => Waits(x, pending', call'.events)
             /\ \A r \in Ref : newest'[r] # newest[r] =>
                  newest'[r].ref = r /\ Waits(newest'[r], pending', call'.events)
  <2>1. pending' = pending \cup {<<e>>} /\ call'.events = call.events
    BY <1>3 DEF QueuesOne, queue
  <2>2. \A x : Waits(x, pending, call.events) => Waits(x, pending', call'.events)
    BY <2>1, ZenonT(30) DEF Waits
  <2>3. 1 \in 1 .. Len(<<e>>) /\ <<e>>[1] = e
    OBVIOUS
  <2>4. Waits(e, pending', call'.events)
    BY <2>1, <2>3, ZenonT(30) DEF Waits
  <2>5. \A r \in Ref : newest'[r] # newest[r] => r = e.ref /\ newest'[r] = e
    BY <1>1, <1>3 DEF QueuesOne, Event
  <2>. QED  BY <2>2, <2>4, <2>5, ZenonT(30)
<1>4. ASSUME Flushes
      PROVE  \A x : Waits(x, pending, call.events) => Waits(x, pending', call'.events)
  <2>1. pending' = IF call.events = <<>> THEN pending ELSE pending \cup {call.events}
    BY <1>4, ZenonT(30) DEF Flushes, queue
  <2>2. CASE call.events = <<>>
    BY <2>1, <2>2, <1>4, ZenonT(30) DEF Waits, Flushes
  <2>3. CASE call.events # <<>>
    BY <2>1, <2>3, ZenonT(30) DEF Waits
  <2>. QED  BY <2>2, <2>3
<1>5. ASSUME Silent
      PROVE  \A x : Waits(x, pending, call.events) => Waits(x, pending', call'.events)
  BY <1>5, ZenonT(30) DEF Silent, Waits
<1>. QED  BY <1>2, <1>3, <1>4, <1>5, ZenonT(30) DEF EventEffect, Flushes, Silent
-----------------------------------------------------------------------------
(* The watcher's steps are steps of the registry, or leave it alone.       *)

LEMMA WatchStepsRegistry ==
    ASSUME [WatchNext]_<<vars, watchVars>>
    PROVE  [Next]_vars
<1>1. CASE Operation \/ Tick
  BY <1>1, ZenonT(30) DEF Next
<1>2. ASSUME NEW batch \in pending, Notify(batch)
      PROVE  Next
  BY <1>2, ZenonT(30) DEF Next, Notify
<1>3. CASE UNCHANGED vars
  BY <1>3
<1>. QED
  BY <1>1, <1>2, <1>3, ZenonT(30)
     DEF WatchNext, Deliver, Subscribe, Snapshot, SendEntry, SendDone, SendEvent, Disconnect

(* A seed with its push path is a registry: what holds of the registry     *)
(* alone holds of it.                                                      *)
THEOREM WatchKeepsRegistry == WatchSpec => Spec
<1>1. WatchInit => Init
  BY ZenonT(30) DEF WatchInit
<1>2. [WatchNext]_<<vars, watchVars>> => [Next]_vars
  BY WatchStepsRegistry
<1>. QED  BY <1>1, <1>2, PTL DEF WatchSpec, Spec
-----------------------------------------------------------------------------
(* The shape of the streams.                                               *)

Shape(s) ==
    /\ s = [pc |-> s.pc, q |-> s.q, chan |-> s.chan, toSend |-> s.toSend,
            set |-> s.set, last |-> s.last, snap |-> s.snap,
            hidden |-> s.hidden, got |-> s.got, dropped |-> s.dropped]
    /\ s.chan \in Seq(Delivery)

StreamsOK ==
    /\ stream = [c \in Clients |-> stream[c]]
    /\ \A c \in Clients : Shape(stream[c])
    /\ delivering \subseteq SUBSET Delivery
    /\ wIndex \in Nat

(* Every history event is filed under the service it is about.             *)
NewestOK == \A r \in Ref : newest[r] # NoEvent => newest[r].ref = r

(* A stream changes at one client only.                                    *)
OneStream(c, s) ==
    /\ stream' = [stream EXCEPT ![c] = s]
    /\ Shape(s)

LEMMA OneStreamKeeps ==
    ASSUME StreamsOK, NEW c \in Clients, NEW s, OneStream(c, s),
           UNCHANGED <<delivering, wIndex>>
    PROVE  /\ StreamsOK'
           /\ stream'[c] = s
           /\ \A x \in Clients : x # c => stream'[x] = stream[x]
<1>1. stream' = [x \in Clients |-> IF x = c THEN s ELSE stream[x]]
  BY DEF OneStream, StreamsOK
<1>2. \A x \in Clients : stream'[x] = IF x = c THEN s ELSE stream[x]
  BY <1>1, ZenonT(30)
<1>3. stream' = [x \in Clients |-> stream'[x]]
  BY <1>1, <1>2
<1>. QED  BY <1>2, <1>3, ZenonT(30) DEF OneStream, StreamsOK
-----------------------------------------------------------------------------
(* NoMissedChange with its state as parameters: what stream s of client c  *)
(* asks of service r when e is the last event about it, and what it has or *)
(* is about to receive.                                                    *)

Asked(s, e, r) ==
    /\ s.pc \in {"snapshot", "live"} /\ ~s.dropped
    /\ e # NoEvent /\ eventMatches(s.q, e)
    /\ e.type = "put" \/ \E x \in s.snap : x[1] = r

Brought(x, s, sets, c) ==
    \/ x \in s.got \/ x \in s.snap \/ x \in s.hidden
    \/ \E i \in 1 .. Len(s.chan) : x = <<s.chan[i].ev.ref, s.chan[i].ev.index>>
    \/ \E ds \in sets : \E d \in ds : d.to = c /\ x = <<d.ev.ref, d.ev.index>>

AllBrought ==
    \A c \in Clients : \A r \in Ref :
        Asked(stream[c], newest[r], r) /\ ~Waits(newest[r], pending, call.events)
          => Brought(<<r, newest[r].index>>, stream[c], delivering, c)

LEMMA BroughtMeans ==
    ASSUME AllBrought
    PROVE  NoMissedChange
<1>1. SUFFICES ASSUME NEW c \in Clients, NEW r \in Ref,
                      stream[c].pc \in {"snapshot", "live"}, ~stream[c].dropped,
                      newest[r] # NoEvent, notified(newest[r]),
                      eventMatches(stream[c].q, newest[r]),
                      newest[r].type = "put" \/ \E x \in stream[c].snap : x[1] = r
               PROVE  <<r, newest[r].index>> \in coming(c) \cup stream[c].hidden
  BY ZenonT(30) DEF NoMissedChange
<1>2. Asked(stream[c], newest[r], r)
  BY <1>1, ZenonT(30) DEF Asked
<1>3. ~Waits(newest[r], pending, call.events)
  BY <1>1, NotWaiting, ZenonT(30)
<1>4. Brought(<<r, newest[r].index>>, stream[c], delivering, c)
  BY <1>2, <1>3, ZenonT(30) DEF AllBrought
<1>. QED  BY <1>4, ZenonT(30) DEF Brought, coming, inFlight

WatchInv == StreamsOK /\ NewestOK /\ AllBrought

RegistryInv == TypeInv /\ ByNameExact /\ EventsDescribeRegistry

LEMMA WatchStarts ==
    ASSUME WatchInit
    PROVE  WatchInv
<1>1. <<>> \in Seq(Delivery)
  OBVIOUS
<1>2. Shape(NoStream)
  BY <1>1, ZenonT(30) DEF Shape, NoStream
<1>3. \A c \in Clients : stream[c] = NoStream
  BY ZenonT(30) DEF WatchInit
<1>4. StreamsOK
  BY <1>2, <1>3 DEF WatchInit, StreamsOK
<1>5. NewestOK
  BY DEF WatchInit, Init, NewestOK
<1>6. NoStream.pc = "off"
  BY DEF NoStream
<1>7. AllBrought
  BY <1>3, <1>6 DEF AllBrought, Asked
<1>. QED  BY <1>4, <1>5, <1>7 DEF WatchInv

(* The registry works: a new event waits, so nothing new is owed.          *)
LEMMA RegistryWatched ==
    ASSUME RegistryInv, WatchInv, Operation \/ Tick, UNCHANGED watchVars
    PROVE  WatchInv'
<1>1. UNCHANGED <<wIndex, stream, delivering>>
  BY ZenonT(30) DEF watchVars
<1>2. /\ \A e : Waits(e, pending, call.events) => Waits(e, pending', call'.events)
      /\ \A r \in Ref : newest'[r] # newest[r] =>
           newest'[r].ref = r /\ Waits(newest'[r], pending', call'.events)
  BY OperationEvents, EventsWait, ZenonT(30) DEF RegistryInv
<1>3. StreamsOK'
  BY <1>1, ZenonT(30) DEF WatchInv, StreamsOK
<1>4. NewestOK'
  BY <1>2, ZenonT(30) DEF WatchInv, NewestOK
<1>5. AllBrought'
  BY <1>1, <1>2, ZenonT(30) DEF WatchInv, AllBrought
<1>. QED  BY <1>3, <1>4, <1>5 DEF WatchInv

(* Notify: what it stops waiting for is on its way to every stream that    *)
(* asked for it.                                                           *)
LEMMA NotifyWatched ==
    ASSUME RegistryInv, WatchInv, NEW batch \in pending, Notify(batch)
    PROVE  WatchInv'
<1>. DEFINE ds == UNION {deliveriesOf(numbered(batch)[i]) : i \in 1 .. Len(batch)}
<1>1. /\ pending' = pending \ {batch} /\ UNCHANGED <<call, newest, stream>>
      /\ wIndex' = wIndex + Len(batch)
      /\ delivering' = IF ds = {} THEN delivering ELSE delivering \cup {ds}
  BY ZenonT(30) DEF Notify, emit
<1>2. batch \in Seq(Event) /\ wIndex \in Nat /\ delivering \subseteq SUBSET Delivery
  BY DEF RegistryInv, TypeInv, TypeOK, WatchInv, StreamsOK
<1>3. \A i \in 1 .. Len(batch) :
         numbered(batch)[i] = [ev |-> batch[i], index |-> wIndex + i]
  BY ZenonT(30) DEF numbered
<1>4. \A i \in 1 .. Len(batch) : batch[i] \in Event /\ wIndex + i \in Nat
  BY <1>2
<1>5. ASSUME NEW i \in 1 .. Len(batch)
      PROVE  deliveriesOf(numbered(batch)[i]) =
               {[to |-> c, ev |-> batch[i], index |-> wIndex + i] :
                  c \in {x \in Subscribed : eventMatches(stream[x].q, batch[i])}}
  <2>. DEFINE n == numbered(batch)[i]
  <2>0. n = [ev |-> batch[i], index |-> wIndex + i]
    BY <1>3, ZenonT(30)
  <2>. HIDE DEF n
  <2>1. n.ev = batch[i] /\ n.index = wIndex + i
    BY <2>0
  <2>2. deliveriesOf(n) =
               {[to |-> c, ev |-> n.ev, index |-> n.index] :
                  c \in {x \in Subscribed : eventMatches(stream[x].q, n.ev)}}
    BY ZenonT(30) DEF deliveriesOf
  <2>. QED  BY <2>1, <2>2, ZenonT(30) DEF n
<1>6. ASSUME NEW i \in 1 .. Len(batch)
      PROVE  deliveriesOf(numbered(batch)[i]) \in SUBSET Delivery
  <2>1. ASSUME NEW c \in Subscribed
        PROVE  [to |-> c, ev |-> batch[i], index |-> wIndex + i] \in Delivery
    BY <1>4 DEF Delivery, Subscribed
  <2>2. ASSUME NEW d \in deliveriesOf(numbered(batch)[i])
        PROVE  d \in Delivery
    <3>1. PICK c \in Subscribed : d = [to |-> c, ev |-> batch[i], index |-> wIndex + i]
      BY <1>5, <2>2, ZenonT(30)
    <3>. QED  BY <2>1, <3>1
  <2>. QED  BY <2>2, ZenonT(30)
<1>7. ds \in SUBSET Delivery
  BY <1>6, ZenonT(30)
<1>8. ASSUME NEW c \in Subscribed, NEW i \in 1 .. Len(batch),
             eventMatches(stream[c].q, batch[i])
      PROVE  [to |-> c, ev |-> batch[i], index |-> wIndex + i] \in ds
  <2>1. [to |-> c, ev |-> batch[i], index |-> wIndex + i]
           \in deliveriesOf(numbered(batch)[i])
    BY <1>5, <1>8, ZenonT(30)
  <2>. QED  BY <2>1, ZenonT(30)
<1>. HIDE DEF ds
<1>9. StreamsOK'
  <2>1. Len(batch) \in Nat
    BY <1>2
  <2>2. wIndex' \in Nat
    BY <1>1, <1>2, <2>1
  <2>3. delivering' \subseteq SUBSET Delivery
    BY <1>1, <1>2, <1>7, ZenonT(30)
  <2>. QED  BY <1>1, <2>2, <2>3, ZenonT(30) DEF WatchInv, StreamsOK
<1>10. ASSUME NEW c \in Clients, NEW r \in Ref, Asked(stream[c], newest[r], r),
              ~Waits(newest[r], pending', call.events)
       PROVE  Brought(<<r, newest[r].index>>, stream[c], delivering', c)
  <2>1. \A x \in delivering : x \in delivering'
    BY <1>1, ZenonT(30)
  <2>2. CASE Waits(newest[r], pending, call.events)
    <3>1. PICK i \in 1 .. Len(batch) : batch[i] = newest[r]
      BY <1>1, <1>10, <2>2, ZenonT(30) DEF Waits
    <3>2. c \in Subscribed /\ eventMatches(stream[c].q, batch[i])
      BY <1>10, <3>1 DEF Asked, Subscribed
    <3>3. newest[r].ref = r
      BY <1>10 DEF WatchInv, NewestOK, Asked
    <3>. DEFINE d == [to |-> c, ev |-> batch[i], index |-> wIndex + i]
    <3>4. d \in ds
      BY <1>8, <3>2, ZenonT(30)
    <3>5. d.to = c /\ d.ev = newest[r]
      BY <3>1
    <3>. HIDE DEF d
    <3>6. ds \in delivering'
      BY <1>1, <3>4, ZenonT(30)
    <3>. QED  BY <3>3, <3>4, <3>5, <3>6, ZenonT(30) DEF Brought
  <2>3. CASE ~Waits(newest[r], pending, call.events)
    <3>1. Brought(<<r, newest[r].index>>, stream[c], delivering, c)
      BY <1>10, <2>3, ZenonT(30) DEF WatchInv, AllBrought
    <3>. QED  BY <2>1, <3>1, ZenonT(30) DEF Brought
  <2>. QED  BY <2>2, <2>3
<1>11. AllBrought'
  BY <1>1, <1>10, ZenonT(30) DEF AllBrought
<1>12. NewestOK'
  BY <1>1, ZenonT(30) DEF WatchInv, NewestOK
<1>. QED  BY <1>9, <1>11, <1>12 DEF WatchInv
-----------------------------------------------------------------------------
(* A step that changes one stream and not the registry keeps the invariant *)
(* when that stream is not owed more than it has, or is about to have.     *)
LEMMA OneStreamWatched ==
    ASSUME WatchInv, NEW c \in Clients, NEW s, OneStream(c, s),
           UNCHANGED <<vars, delivering, wIndex>>,
           \A r \in Ref :
               Asked(s, newest[r], r) /\ ~Waits(newest[r], pending, call.events)
                 => Brought(<<r, newest[r].index>>, s, delivering, c)
    PROVE  WatchInv'
<1>1. UNCHANGED <<newest, pending, call>>
  BY ZenonT(30) DEF vars
<1>2. /\ StreamsOK' /\ stream'[c] = s
      /\ \A x \in Clients : x # c => stream'[x] = stream[x]
  BY OneStreamKeeps, ZenonT(30) DEF WatchInv
<1>3. NewestOK'
  BY <1>1, ZenonT(30) DEF WatchInv, NewestOK
<1>4. AllBrought'
  BY <1>1, <1>2, ZenonT(30) DEF WatchInv, AllBrought
<1>. QED  BY <1>2, <1>3, <1>4 DEF WatchInv

(* What a stream was owed before, it has.                                  *)
LEMMA HadBrought ==
    ASSUME WatchInv, NEW c \in Clients, NEW r \in Ref,
           Asked(stream[c], newest[r], r), ~Waits(newest[r], pending, call.events)
    PROVE  Brought(<<r, newest[r].index>>, stream[c], delivering, c)
BY ZenonT(30) DEF WatchInv, AllBrought

LEMMA StreamShape ==
    ASSUME WatchInv, NEW c \in Clients
    PROVE  /\ Shape(stream[c]) /\ stream[c].chan \in Seq(Delivery)
BY ZenonT(30) DEF WatchInv, StreamsOK, Shape

-----------------------------------------------------------------------------
(* Assigning one field of a stream leaves the others alone.                *)
LEMMA SetsPc ==
    ASSUME NEW s, Shape(s), NEW x
    PROVE  LET t == [s EXCEPT !.pc = x]
           IN  /\ Shape(t) /\ t.pc = x
               /\ t.q = s.q /\ t.chan = s.chan /\ t.toSend = s.toSend
               /\ t.set = s.set /\ t.last = s.last /\ t.snap = s.snap
               /\ t.hidden = s.hidden /\ t.got = s.got /\ t.dropped = s.dropped
BY DEF Shape

LEMMA SetsQ ==
    ASSUME NEW s, Shape(s), NEW x
    PROVE  LET t == [s EXCEPT !.q = x]
           IN  /\ Shape(t) /\ t.q = x
               /\ t.pc = s.pc /\ t.chan = s.chan /\ t.toSend = s.toSend
               /\ t.set = s.set /\ t.last = s.last /\ t.snap = s.snap
               /\ t.hidden = s.hidden /\ t.got = s.got /\ t.dropped = s.dropped
BY DEF Shape

LEMMA SetsChan ==
    ASSUME NEW s, Shape(s), NEW x \in Seq(Delivery)
    PROVE  LET t == [s EXCEPT !.chan = x]
           IN  /\ Shape(t) /\ t.chan = x
               /\ t.pc = s.pc /\ t.q = s.q /\ t.toSend = s.toSend
               /\ t.set = s.set /\ t.last = s.last /\ t.snap = s.snap
               /\ t.hidden = s.hidden /\ t.got = s.got /\ t.dropped = s.dropped
BY DEF Shape

LEMMA SetsToSend ==
    ASSUME NEW s, Shape(s), NEW x
    PROVE  LET t == [s EXCEPT !.toSend = x]
           IN  /\ Shape(t) /\ t.toSend = x
               /\ t.pc = s.pc /\ t.q = s.q /\ t.chan = s.chan
               /\ t.set = s.set /\ t.last = s.last /\ t.snap = s.snap
               /\ t.hidden = s.hidden /\ t.got = s.got /\ t.dropped = s.dropped
BY DEF Shape

LEMMA SetsSet ==
    ASSUME NEW s, Shape(s), NEW x
    PROVE  LET t == [s EXCEPT !.set = x]
           IN  /\ Shape(t) /\ t.set = x
               /\ t.pc = s.pc /\ t.q = s.q /\ t.chan = s.chan
               /\ t.toSend = s.toSend /\ t.last = s.last /\ t.snap = s.snap
               /\ t.hidden = s.hidden /\ t.got = s.got /\ t.dropped = s.dropped
BY DEF Shape

LEMMA SetsLast ==
    ASSUME NEW s, Shape(s), NEW x
    PROVE  LET t == [s EXCEPT !.last = x]
           IN  /\ Shape(t) /\ t.last = x
               /\ t.pc = s.pc /\ t.q = s.q /\ t.chan = s.chan
               /\ t.toSend = s.toSend /\ t.set = s.set /\ t.snap = s.snap
               /\ t.hidden = s.hidden /\ t.got = s.got /\ t.dropped = s.dropped
BY DEF Shape

LEMMA SetsSnap ==
    ASSUME NEW s, Shape(s), NEW x
    PROVE  LET t == [s EXCEPT !.snap = x]
           IN  /\ Shape(t) /\ t.snap = x
               /\ t.pc = s.pc /\ t.q = s.q /\ t.chan = s.chan
               /\ t.toSend = s.toSend /\ t.set = s.set /\ t.last = s.last
               /\ t.hidden = s.hidden /\ t.got = s.got /\ t.dropped = s.dropped
BY DEF Shape

LEMMA SetsHidden ==
    ASSUME NEW s, Shape(s), NEW x
    PROVE  LET t == [s EXCEPT !.hidden = x]
           IN  /\ Shape(t) /\ t.hidden = x
               /\ t.pc = s.pc /\ t.q = s.q /\ t.chan = s.chan
               /\ t.toSend = s.toSend /\ t.set = s.set /\ t.last = s.last
               /\ t.snap = s.snap /\ t.got = s.got /\ t.dropped = s.dropped
BY DEF Shape

LEMMA SetsGot ==
    ASSUME NEW s, Shape(s), NEW x
    PROVE  LET t == [s EXCEPT !.got = x]
           IN  /\ Shape(t) /\ t.got = x
               /\ t.pc = s.pc /\ t.q = s.q /\ t.chan = s.chan
               /\ t.toSend = s.toSend /\ t.set = s.set /\ t.last = s.last
               /\ t.snap = s.snap /\ t.hidden = s.hidden /\ t.dropped = s.dropped
BY DEF Shape

LEMMA SetsDropped ==
    ASSUME NEW s, Shape(s), NEW x
    PROVE  LET t == [s EXCEPT !.dropped = x]
           IN  /\ Shape(t) /\ t.dropped = x
               /\ t.pc = s.pc /\ t.q = s.q /\ t.chan = s.chan
               /\ t.toSend = s.toSend /\ t.set = s.set /\ t.last = s.last
               /\ t.snap = s.snap /\ t.hidden = s.hidden /\ t.got = s.got
BY DEF Shape

LEMMA SubscribeWatched ==
    ASSUME WatchInv, NEW c \in Clients, NEW q, Subscribe(c, q)
    PROVE  WatchInv'
<1>. DEFINE old == stream[c]
            s == [old EXCEPT !.pc = "subscribed", !.q = q]
<1>1. stream' = [stream EXCEPT ![c] = s] /\ UNCHANGED <<vars, delivering, wIndex>>
  BY DEF Subscribe
<1>2. Shape(old)
  BY StreamShape, ZenonT(30)
<1>. HIDE DEF old
<1>. DEFINE t == [old EXCEPT !.pc = "subscribed"]
<1>a. s = [t EXCEPT !.q = q]
  BY ZenonT(30)
<1>b. Shape(t) /\ t.pc = "subscribed"
  BY <1>2, SetsPc
<1>. HIDE DEF s, t
<1>3. Shape(s) /\ s.pc = "subscribed"
  BY <1>a, <1>b, SetsQ, ZenonT(30)
<1>. HIDE DEF s
<1>4. \A r \in Ref : ~Asked(s, newest[r], r)
  BY <1>3 DEF Asked
<1>. QED  BY <1>1, <1>3, <1>4, OneStreamWatched, ZenonT(30) DEF OneStream

LEMMA DisconnectWatched ==
    ASSUME WatchInv, NEW c \in Clients, Disconnect(c)
    PROVE  WatchInv'
<1>. DEFINE s == [NoStream EXCEPT !.pc = "closed"]
<1>1. stream' = [stream EXCEPT ![c] = s] /\ UNCHANGED <<vars, delivering, wIndex>>
  BY ZenonT(30) DEF Disconnect
<1>2. NoStream.chan \in Seq(Delivery)
  BY DEF NoStream
<1>3. NoStream = [pc |-> NoStream.pc, q |-> NoStream.q, chan |-> NoStream.chan,
                  toSend |-> NoStream.toSend, set |-> NoStream.set,
                  last |-> NoStream.last, snap |-> NoStream.snap,
                  hidden |-> NoStream.hidden, got |-> NoStream.got,
                  dropped |-> NoStream.dropped]
  BY ZenonT(30) DEF NoStream
<1>4. Shape(s) /\ s.pc = "closed"
  BY <1>2, <1>3 DEF Shape
<1>. HIDE DEF s
<1>5. \A r \in Ref : ~Asked(s, newest[r], r)
  BY <1>4 DEF Asked
<1>. QED  BY <1>1, <1>4, <1>5, OneStreamWatched, ZenonT(30) DEF OneStream

(* A stream that goes on with what it had is owed and has what it was owed *)
(* and had.                                                                *)
LEMMA SendDoneWatched ==
    ASSUME WatchInv, NEW c \in Clients, SendDone(c)
    PROVE  WatchInv'
<1>1. PICK old, n : old = stream[c] /\ n = CurrentIndex(old.q)
  BY ZenonT(30)
<1>t. PICK t : t = [old EXCEPT !.pc = "live"]
  BY ZenonT(30)
<1>s. PICK s : s = [t EXCEPT !.last = n]
  BY ZenonT(30)
<1>2. stream' = [stream EXCEPT ![c] = s] /\ UNCHANGED <<vars, delivering, wIndex>>
  BY <1>1, <1>t, <1>s, ZenonT(30) DEF SendDone
<1>3. Shape(old) /\ old.pc = "snapshot"
  BY <1>1, StreamShape, ZenonT(30) DEF SendDone
<1>4. /\ Shape(t) /\ t.q = old.q /\ t.got = old.got /\ t.snap = old.snap
      /\ t.hidden = old.hidden /\ t.chan = old.chan /\ t.dropped = old.dropped
  BY <1>3, <1>t, SetsPc
<1>5. /\ Shape(s) /\ s.q = old.q /\ s.got = old.got /\ s.snap = old.snap
      /\ s.hidden = old.hidden /\ s.chan = old.chan /\ s.dropped = old.dropped
  BY <1>4, <1>s, SetsLast
<1>6. ASSUME NEW r \in Ref, Asked(s, newest[r], r),
             ~Waits(newest[r], pending, call.events)
      PROVE  Brought(<<r, newest[r].index>>, s, delivering, c)
  <2>1. Asked(old, newest[r], r)
    BY <1>3, <1>5, <1>6, ZenonT(30) DEF Asked
  <2>2. Brought(<<r, newest[r].index>>, old, delivering, c)
    BY <1>1, <1>6, <2>1, HadBrought, ZenonT(30)
  <2>. QED  BY <1>5, <2>2, ZenonT(30) DEF Brought
<1>. QED  BY <1>2, <1>5, <1>6, OneStreamWatched, ZenonT(30) DEF OneStream

(* What receive leaves alone.                                              *)
LEMMA ReceiveShape ==
    ASSUME NEW s, Shape(s), NEW e, NEW idx
    PROVE  LET t == receive(s, e, idx)
           IN  /\ Shape(t) /\ t.pc = s.pc /\ t.q = s.q /\ t.chan = s.chan
               /\ t.snap = s.snap /\ t.hidden = s.hidden /\ t.got = s.got
               /\ t.dropped = s.dropped
<1>. DEFINE m == [s.set EXCEPT ![e.ref] = IF e.type = "put" THEN view(e) ELSE NoSvc]
            v == [s EXCEPT !.set = m]
            t == receive(s, e, idx)
<1>1. t = [v EXCEPT !.last = idx]
  BY ZenonT(30) DEF receive
<1>. HIDE DEF m, t
<1>2. /\ Shape(v) /\ v.pc = s.pc /\ v.q = s.q /\ v.chan = s.chan
      /\ v.snap = s.snap /\ v.hidden = s.hidden /\ v.got = s.got
      /\ v.dropped = s.dropped
  BY DEF Shape
<1>. HIDE DEF v
<1>3. /\ Shape(t) /\ t.pc = s.pc /\ t.q = s.q /\ t.chan = s.chan
      /\ t.snap = s.snap /\ t.hidden = s.hidden /\ t.got = s.got
      /\ t.dropped = s.dropped
  BY <1>1, <1>2 DEF Shape
<1>. QED  BY <1>3, ZenonT(30) DEF t

LEMMA SendEntryWatched ==
    ASSUME WatchInv, NEW c \in Clients, SendEntry(c)
    PROVE  WatchInv'
<1>1. PICK old, rest, put, n :
        /\ old = stream[c]
        /\ stream' = [stream EXCEPT ![c] = [receive(old, put, n) EXCEPT !.toSend = rest]]
  BY ZenonT(30) DEF SendEntry
<1>s. PICK t, s : t = receive(old, put, n) /\ s = [t EXCEPT !.toSend = rest]
  BY ZenonT(30)
<1>2. stream' = [stream EXCEPT ![c] = s] /\ UNCHANGED <<vars, delivering, wIndex>>
  BY <1>1, <1>s, ZenonT(30) DEF SendEntry
<1>3. Shape(old) /\ old.pc = "snapshot"
  BY <1>1, StreamShape, ZenonT(30) DEF SendEntry
<1>4. /\ Shape(t) /\ t.q = old.q /\ t.got = old.got /\ t.snap = old.snap
      /\ t.hidden = old.hidden /\ t.chan = old.chan /\ t.dropped = old.dropped
  BY <1>s, <1>3, ReceiveShape
<1>5. /\ Shape(s) /\ s.q = old.q /\ s.got = old.got /\ s.snap = old.snap
      /\ s.hidden = old.hidden /\ s.chan = old.chan /\ s.dropped = old.dropped
  BY <1>s, <1>4, SetsToSend
<1>6. ASSUME NEW r \in Ref, Asked(s, newest[r], r),
             ~Waits(newest[r], pending, call.events)
      PROVE  Brought(<<r, newest[r].index>>, s, delivering, c)
  <2>1. Asked(old, newest[r], r)
    BY <1>3, <1>5, <1>6, ZenonT(30) DEF Asked
  <2>2. Brought(<<r, newest[r].index>>, old, delivering, c)
    BY <1>1, <1>6, <2>1, HadBrought, ZenonT(30)
  <2>. QED  BY <1>5, <2>2, ZenonT(30) DEF Brought
<1>. QED  BY <1>2, <1>5, <1>6, OneStreamWatched, ZenonT(30) DEF OneStream

(* Sending the head of the channel.                                        *)
Sent(s, e, idx, tail, g) ==
    [receive(s, e, idx) EXCEPT !.chan = tail, !.got = g]

LEMMA SentShape ==
    ASSUME NEW s, Shape(s), NEW e, NEW idx, NEW tail \in Seq(Delivery), NEW g,
           NEW t, t = Sent(s, e, idx, tail, g)
    PROVE  /\ Shape(t) /\ t.pc = s.pc /\ t.q = s.q /\ t.chan = tail
           /\ t.snap = s.snap /\ t.hidden = s.hidden /\ t.got = g
           /\ t.dropped = s.dropped
<1>1. PICK w : w = receive(s, e, idx)
  BY ZenonT(30)
<1>2. /\ Shape(w) /\ w.pc = s.pc /\ w.q = s.q
      /\ w.snap = s.snap /\ w.hidden = s.hidden /\ w.dropped = s.dropped
  BY <1>1, ReceiveShape
<1>3. PICK v : v = [w EXCEPT !.chan = tail]
  BY ZenonT(30)
<1>4. /\ Shape(v) /\ v.pc = s.pc /\ v.q = s.q /\ v.chan = tail
      /\ v.snap = s.snap /\ v.hidden = s.hidden /\ v.dropped = s.dropped
  BY <1>2, <1>3, SetsChan
<1>5. PICK u : u = [v EXCEPT !.got = g]
  BY ZenonT(30)
<1>6. /\ Shape(u) /\ u.pc = s.pc /\ u.q = s.q /\ u.chan = tail
      /\ u.snap = s.snap /\ u.hidden = s.hidden /\ u.got = g
      /\ u.dropped = s.dropped
  BY <1>4, <1>5 DEF Shape
<1>7. t = u
  BY <1>1, <1>3, <1>5, ZenonT(30) DEF Sent
<1>. QED  BY <1>6, <1>7

(* What leaves a queue is its head; the rest stays.                        *)
LEMMA TailKeeps ==
    ASSUME NEW S, NEW q \in Seq(S), q # <<>>
    PROVE  /\ Tail(q) \in Seq(S)
           /\ \A i \in 1 .. Len(q) :
                q[i] = Head(q) \/ \E j \in 1 .. Len(Tail(q)) : Tail(q)[j] = q[i]
<1>1. /\ Tail(q) \in Seq(S) /\ Len(q) \in Nat \ {0}
      /\ Len(Tail(q)) = Len(q) - 1 /\ Head(q) = q[1]
      /\ \A j \in 1 .. Len(q) - 1 : Tail(q)[j] = q[j + 1]
  OBVIOUS
<1>2. ASSUME NEW i \in 1 .. Len(q), i # 1
      PROVE  i - 1 \in 1 .. Len(Tail(q)) /\ Tail(q)[i - 1] = q[i]
  BY <1>1, <1>2
<1>3. ASSUME NEW i \in 1 .. Len(q), i = 1
      PROVE  q[i] = Head(q)
  BY <1>1, <1>3, ZenonT(30)
<1>. QED  BY <1>1, <1>2, <1>3, ZenonT(30)

(* The head of the channel moves to what was received.                     *)
LEMMA SendEventWatched ==
    ASSUME WatchInv, NEW c \in Clients, SendEvent(c)
    PROVE  WatchInv'
<1>1. PICK old, d, tail, g, ev, n :
        /\ old = stream[c] /\ d = Head(old.chan) /\ tail = Tail(old.chan)
        /\ ev = d.ev /\ n = d.index /\ g = old.got \cup {<<ev.ref, ev.index>>}
  BY ZenonT(30)
<1>s. PICK s : s = Sent(old, ev, n, tail, g)
  BY ZenonT(30)
<1>2. stream' = [stream EXCEPT ![c] = s] /\ UNCHANGED <<vars, delivering, wIndex>>
  BY <1>1, <1>s, ZenonT(30) DEF SendEvent, Sent
<1>3. Shape(old) /\ old.chan \in Seq(Delivery) /\ old.chan # <<>>
  BY <1>1, StreamShape, ZenonT(30) DEF SendEvent
<1>4. /\ tail \in Seq(Delivery)
      /\ \A i \in 1 .. Len(old.chan) :
           old.chan[i] = d \/ \E j \in 1 .. Len(tail) : tail[j] = old.chan[i]
  BY <1>1, <1>3, TailKeeps, ZenonT(30)
<1>5. /\ Shape(s) /\ s.q = old.q /\ s.snap = old.snap
      /\ s.got = g /\ s.hidden = old.hidden /\ s.chan = tail
      /\ s.dropped = old.dropped /\ s.pc = old.pc
  BY <1>3, <1>4, <1>s, SentShape, SMT
<1>6. ASSUME NEW r \in Ref, Asked(s, newest[r], r),
             ~Waits(newest[r], pending, call.events)
      PROVE  Brought(<<r, newest[r].index>>, s, delivering, c)
  <2>1. Asked(old, newest[r], r)
    BY <1>5, <1>6, ZenonT(30) DEF Asked
  <2>2. Brought(<<r, newest[r].index>>, old, delivering, c)
    BY <1>6, <2>1, <1>1, HadBrought, ZenonT(30)
  <2>. DEFINE v == <<r, newest[r].index>>
  <2>3. CASE v \in old.got \/ v \in old.snap \/ v \in old.hidden
    BY <1>1, <1>5, <2>3 DEF Brought
  <2>4. CASE \E i \in 1 .. Len(old.chan) :
                v = <<old.chan[i].ev.ref, old.chan[i].ev.index>>
    <3>1. PICK i \in 1 .. Len(old.chan) :
                v = <<old.chan[i].ev.ref, old.chan[i].ev.index>>
      BY <2>4, ZenonT(30)
    <3>2. CASE old.chan[i] = d
      <4>1. v \in s.got
        BY <1>1, <1>5, <3>1, <3>2, ZenonT(30)
      <4>. QED  BY <4>1, ZenonT(30) DEF Brought
    <3>3. CASE old.chan[i] # d
      BY <1>4, <1>5, <3>1, <3>3, ZenonT(30) DEF Brought
    <3>. QED  BY <3>2, <3>3
  <2>5. CASE \E ds \in delivering : \E x \in ds :
                x.to = c /\ v = <<x.ev.ref, x.ev.index>>
    BY <2>5, ZenonT(30) DEF Brought
  <2>. QED  BY <2>2, <2>3, <2>4, <2>5, ZenonT(30) DEF Brought
<1>. QED  BY <1>2, <1>5, <1>6, OneStreamWatched, ZenonT(30) DEF OneStream

(* A delivery goes to the channel, or its stream counts as overflowed.     *)
LEMMA DeliverWatched ==
    ASSUME WatchInv, NEW ds \in delivering, NEW d \in ds, Deliver(ds, d)
    PROVE  WatchInv'
<1>. DEFINE c == d.to
            old == stream[c]
            new == IF old.pc = "closed" THEN old
                   ELSE IF Len(old.chan) < Buffer
                        THEN [old EXCEPT !.chan = Append(@, d)]
                        ELSE [old EXCEPT !.dropped = TRUE]
<1>1. /\ delivering' = (delivering \ {ds}) \cup ({ds \ {d}} \ {{}})
      /\ stream' = [stream EXCEPT ![c] = new]
      /\ UNCHANGED <<vars, wIndex>>
  BY ZenonT(30) DEF Deliver
<1>2. d \in Delivery /\ c \in Clients /\ delivering \subseteq SUBSET Delivery
  BY DEF WatchInv, StreamsOK, Delivery
<1>3. Shape(old) /\ old.chan \in Seq(Delivery)
  BY <1>2, StreamShape
<1>4. Append(old.chan, d) \in Seq(Delivery)
  BY <1>2, <1>3
<1>. HIDE DEF c, old
<1>5. /\ Shape(new) /\ new.q = old.q /\ new.pc = old.pc /\ new.got = old.got
      /\ new.snap = old.snap /\ new.hidden = old.hidden
      /\ \/ old.pc = "closed"
         \/ new.chan = Append(old.chan, d) /\ new.dropped = old.dropped
         \/ new.dropped = TRUE
  BY <1>3, <1>4, ZenonT(30) DEF Shape
<1>6. \A i \in 1 .. Len(old.chan) :
         i \in 1 .. Len(Append(old.chan, d)) /\ Append(old.chan, d)[i] = old.chan[i]
  BY <1>3
<1>7. /\ Len(old.chan) + 1 \in 1 .. Len(Append(old.chan, d))
      /\ Append(old.chan, d)[Len(old.chan) + 1] = d
  BY <1>3
<1>. HIDE DEF new
<1>8. stream' = [x \in Clients |-> IF x = c THEN new ELSE stream[x]]
  BY <1>1, <1>2 DEF WatchInv, StreamsOK
<1>9. \A x \in Clients : stream'[x] = IF x = c THEN new ELSE stream[x]
  BY <1>8, ZenonT(30)
<1>10. stream' = [x \in Clients |-> stream'[x]]
  BY <1>8, <1>9
<1>11. delivering' \subseteq SUBSET Delivery
  BY <1>1, <1>2
<1>12. StreamsOK'
  BY <1>1, <1>5, <1>9, <1>10, <1>11, ZenonT(30) DEF WatchInv, StreamsOK
<1>13. UNCHANGED <<newest, pending, call>>
  BY <1>1, ZenonT(30) DEF vars
<1>14. NewestOK'
  BY <1>13, ZenonT(30) DEF WatchInv, NewestOK
<1>15. \A es \in delivering : \A e \in es : e = d \/ \E fs \in delivering' : e \in fs
  <2>1. ASSUME NEW es \in delivering, NEW e \in es, e # d
        PROVE  \E fs \in delivering' : e \in fs
    <3>1. CASE es = ds
      <4>1. e \in ds \ {d} /\ ds \ {d} \in delivering'
        BY <1>1, <2>1, <3>1
      <4>. QED  BY <4>1, ZenonT(30)
    <3>2. CASE es # ds
      <4>1. es \in delivering'
        BY <1>1, <2>1, <3>2
      <4>. QED  BY <2>1, <4>1, ZenonT(30)
    <3>. QED  BY <3>1, <3>2
  <2>. QED  BY <2>1, ZenonT(30)
<1>16. ASSUME NEW x \in Clients, NEW r \in Ref, Asked(stream'[x], newest[r], r),
              ~Waits(newest[r], pending, call.events)
       PROVE  Brought(<<r, newest[r].index>>, stream'[x], delivering', x)
  <2>1. CASE x # c
    <3>1. stream'[x] = stream[x]
      BY <1>9, <2>1, ZenonT(30)
    <3>2. Brought(<<r, newest[r].index>>, stream[x], delivering, x)
      BY <1>16, <3>1, HadBrought, ZenonT(30)
    <3>. QED  BY <1>15, <2>1, <3>1, <3>2, ZenonT(30) DEF Brought, c
  <2>2. CASE x = c
    <3>1. stream'[x] = new /\ old = stream[x]
      BY <1>9, <2>2, ZenonT(30) DEF old
    <3>2. old.pc # "closed" /\ new.dropped # TRUE
      BY <1>5, <1>16, <3>1, ZenonT(30) DEF Asked
    <3>3. new.chan = Append(old.chan, d) /\ new.dropped = old.dropped
      BY <1>5, <3>2, ZenonT(30)
    <3>4. Asked(old, newest[r], r)
      BY <1>5, <1>16, <3>1, <3>3, ZenonT(30) DEF Asked
    <3>5. Brought(<<r, newest[r].index>>, old, delivering, x)
      BY <1>16, <3>1, <3>4, HadBrought, ZenonT(30)
    <3>6. \A i \in 1 .. Len(old.chan) :
             i \in 1 .. Len(new.chan) /\ new.chan[i] = old.chan[i]
      BY <1>6, <3>3, ZenonT(30)
    <3>7. \E i \in 1 .. Len(new.chan) : new.chan[i] = d
      BY <1>7, <3>3, ZenonT(30)
    <3>. DEFINE v == <<r, newest[r].index>>
    <3>8. CASE v \in old.got \/ v \in old.snap \/ v \in old.hidden
      BY <1>5, <3>1, <3>8, ZenonT(30) DEF Brought
    <3>9. CASE \E i \in 1 .. Len(old.chan) :
                  v = <<old.chan[i].ev.ref, old.chan[i].ev.index>>
      BY <3>1, <3>6, <3>9, ZenonT(30) DEF Brought
    <3>10. CASE \E es \in delivering : \E e \in es :
                   e.to = x /\ v = <<e.ev.ref, e.ev.index>>
      BY <1>15, <3>1, <3>7, <3>10, ZenonT(30) DEF Brought
    <3>. QED  BY <3>5, <3>8, <3>9, <3>10, ZenonT(30) DEF Brought
  <2>. QED  BY <2>1, <2>2
<1>17. AllBrought'
  BY <1>13, <1>16, ZenonT(30) DEF AllBrought
<1>. QED  BY <1>12, <1>14, <1>17 DEF WatchInv

(* What Lookup lists, from the registry's own indexes.                     *)
LEMMA LookupLists ==
    ASSUME RegistryInv, NEW q, q.name \in Names, NEW r \in Stored,
           q.name = svc[r].def.name, matches(r, q)
    PROVE  entry(r) \in Lookup(q)
<1>1. q.name # NoId
  BY RegistryAssumption
<1>2. r \in byName[q.name] /\ svc[r] # NoSvc
  BY DEF RegistryInv, ByNameExact, Stored
<1>. QED  BY <1>1, <1>2, ZenonT(30) DEF Lookup

LEMMA LookupStored ==
    ASSUME NEW q, NEW e \in Lookup(q), e.ref \in Ref
    PROVE  e.ref \in Stored
<1>1. PICK x : svc[x] # NoSvc /\ e = entry(x)
  BY ZenonT(30) DEF Lookup
<1>2. e.ref = x
  BY <1>1 DEF entry
<1>. QED  BY <1>1, <1>2, ZenonT(30) DEF Stored

(* The snapshot lists the last version of every service the stream asked   *)
(* for, or counts it among those it leaves out.                            *)
LEMMA SnapshotWatched ==
    ASSUME RegistryInv, WatchInv, NEW c \in Clients, Snapshot(c)
    PROVE  WatchInv'
<1>. DEFINE old == stream[c]
            found == Lookup(old.q)
            snap == {<<e.ref, e.modifyIndex>> : e \in found}
            hidden == {<<r, svc[r].modifyIndex>> : r \in unlisted}
            t == [old EXCEPT !.pc = "snapshot"]
            u == [t EXCEPT !.toSend = found]
            v == [u EXCEPT !.snap = snap]
            s == [v EXCEPT !.hidden = hidden]
<1>1. /\ stream' = [stream EXCEPT ![c] =
            [old EXCEPT !.pc = "snapshot", !.toSend = found, !.snap = snap,
                        !.hidden = hidden]]
      /\ UNCHANGED <<vars, delivering, wIndex>>
  BY ZenonT(30) DEF Snapshot
<1>2. [old EXCEPT !.pc = "snapshot", !.toSend = found, !.snap = snap,
                  !.hidden = hidden] = s
  BY ZenonT(30)
<1>3. Shape(old)
  BY StreamShape, ZenonT(30)
<1>. HIDE DEF old, found, snap, hidden
<1>5. Shape(t) /\ t.q = old.q
  BY <1>3, SetsPc
<1>. HIDE DEF t
<1>6. Shape(u) /\ u.q = old.q
  BY <1>5, SetsToSend
<1>. HIDE DEF u
<1>7. Shape(v) /\ v.q = old.q /\ v.snap = snap
  BY <1>6, SetsSnap
<1>. HIDE DEF v
<1>8. Shape(s) /\ s.q = old.q /\ s.snap = snap /\ s.hidden = hidden
  BY <1>7, SetsHidden
<1>. HIDE DEF s
<1>9. ASSUME NEW r \in Ref, Asked(s, newest[r], r)
      PROVE  Brought(<<r, newest[r].index>>, s, delivering, c)
  <2>1. r \in Stored
    <3>1. CASE newest[r].type = "put"
      BY <1>9, <3>1, ZenonT(30) DEF Asked, RegistryInv, EventsDescribeRegistry
    <3>2. CASE \E x \in s.snap : x[1] = r
      <4>1. PICK x \in snap : x[1] = r
        BY <1>8, <3>2, ZenonT(30)
      <4>2. PICK e \in found : x = <<e.ref, e.modifyIndex>>
        BY <4>1, ZenonT(30) DEF snap
      <4>3. e.ref = r
        BY <4>1, <4>2
      <4>. QED  BY <4>2, <4>3, LookupStored, ZenonT(30) DEF found
    <3>. QED  BY <1>9, <3>1, <3>2, ZenonT(30) DEF Asked
  <2>2. /\ ~changed(newest[r].def, svc[r].def)
        /\ newest[r].index = svc[r].modifyIndex
    BY <2>1, ZenonT(30) DEF RegistryInv, EventsDescribeRegistry
  <2>3. CASE r \in unlisted
    <3>1. <<r, newest[r].index>> \in hidden
      BY <2>2, <2>3, ZenonT(30) DEF hidden
    <3>. QED  BY <1>8, <3>1, ZenonT(30) DEF Brought
  <2>4. CASE r \notin unlisted
    <3>1. ~leaseExpired(svc[r], now) /\ nodes[r[1]] = newest[r].meta
      BY <2>1, <2>4, ZenonT(30) DEF unlisted
    <3>2. newest[r].def.name = svc[r].def.name /\ newest[r].def.data = svc[r].def.data
      BY <2>2, ZenonT(30) DEF changed
    <3>3. eventMatches(old.q, newest[r])
      BY <1>8, <1>9, ZenonT(30) DEF Asked
    <3>4. matches(r, old.q) /\ old.q.name = svc[r].def.name
      BY <3>1, <3>2, <3>3, ZenonT(30) DEF eventMatches, matches
    <3>5. svc[r].def.name \in Names
      BY <2>1 DEF RegistryInv, TypeInv, TypeOK, Stored, Service, Def
    <3>6. entry(r) \in found
      BY <2>1, <3>4, <3>5, LookupLists, ZenonT(30) DEF found
    <3>7. <<entry(r).ref, entry(r).modifyIndex>> \in snap
      BY <3>6, ZenonT(30) DEF snap
    <3>8. entry(r).ref = r /\ entry(r).modifyIndex = svc[r].modifyIndex
      BY DEF entry
    <3>9. <<r, newest[r].index>> \in snap
      BY <2>2, <3>7, <3>8, ZenonT(30)
    <3>. QED  BY <1>8, <3>9, ZenonT(30) DEF Brought
  <2>. QED  BY <2>3, <2>4
<1>10. OneStream(c, s)
  BY <1>1, <1>2, <1>8, ZenonT(30) DEF OneStream
<1>. QED  BY <1>1, <1>9, <1>10, OneStreamWatched, ZenonT(30)

LEMMA StepWatched ==
    ASSUME RegistryInv, WatchInv, [WatchNext]_<<vars, watchVars>>
    PROVE  WatchInv'
<1>1. CASE (Operation \/ Tick) /\ UNCHANGED watchVars
  BY <1>1, RegistryWatched, ZenonT(30)
<1>2. ASSUME NEW batch \in pending, Notify(batch)
      PROVE  WatchInv'
  BY <1>2, NotifyWatched, ZenonT(30)
<1>3. ASSUME NEW ds \in delivering, NEW d \in ds, Deliver(ds, d)
      PROVE  WatchInv'
  BY <1>3, DeliverWatched, ZenonT(30)
<1>4. ASSUME NEW c \in Clients, NEW q \in Queries, Subscribe(c, q)
      PROVE  WatchInv'
  BY <1>4, SubscribeWatched, ZenonT(30)
<1>5. ASSUME NEW c \in Clients,
             Snapshot(c) \/ SendEntry(c) \/ SendDone(c) \/ SendEvent(c) \/ Disconnect(c)
      PROVE  WatchInv'
  BY <1>5, SnapshotWatched, SendEntryWatched, SendDoneWatched, SendEventWatched,
     DisconnectWatched, ZenonT(30)
<1>6. CASE UNCHANGED <<vars, watchVars>>
  <2>1. UNCHANGED <<stream, delivering, wIndex, newest, pending, call>>
    BY <1>6, ZenonT(30) DEF vars, watchVars
  <2>. QED  BY <2>1, ZenonT(30) DEF WatchInv, StreamsOK, NewestOK, AllBrought
<1>. QED  BY <1>1, <1>2, <1>3, <1>4, <1>5, <1>6, ZenonT(30) DEF WatchNext

(* A stream misses no change it asked for ("Subscribe before snapshotting  *)
(* so no change between the two is missed", service.go:130), for any       *)
(* number of streams, services, writers and deliveries under way.          *)
THEOREM WatchMissesNothing == WatchSpec => []NoMissedChange
<1>1. WatchInit => WatchInv
  BY WatchStarts
<1>2. RegistryInv /\ WatchInv /\ [WatchNext]_<<vars, watchVars>> => WatchInv'
  BY StepWatched
<1>3. TypeInv /\ ByNameExact /\ EventsDescribeRegistry => RegistryInv
  BY DEF RegistryInv
<1>4. WatchInv => NoMissedChange
  BY BroughtMeans DEF WatchInv
<1>. QED  BY <1>1, <1>2, <1>3, <1>4, WatchKeepsRegistry, TypeInvariant, NameIndexExact,
             EventsTellRegistry, PTL DEF WatchSpec
=============================================================================
