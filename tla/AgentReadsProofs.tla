-------------------------- MODULE AgentReadsProofs --------------------------
(***************************************************************************)
(* Proofs about AgentReads, for any queries, answers, clients and streams, *)
(* any maximal age and any fan-out: type correctness, StalenessBounded,    *)
(* ClientIndexMonotone and StreamBlockedIsCurrent.                         *)
(***************************************************************************)
EXTENDS AgentReads, TLAPS

(* Time for the provers.                                                   *)
USE SMTT(30), ZenonT(30)

Fetching == {"fetch", "answered", "notify", "got"}
Places == {"idle", "next", "ready", "off", "closed", "wait", "read"} \cup Fetching
Reader == [pc: Places, had: BOOLEAN, direct: BOOLEAN,
           val: Answers \cup {NoAnswer}, lag: Nat]
Holding == [q: Queries, idx: Nat, data: Answers \cup {NoAnswer},
            first: BOOLEAN, missed: BOOLEAN, life: Nat, regressed: BOOLEAN]

(* Where each kind of reader can be, and that one with an answer has it.   *)
PlaceOK(p) ==
    /\ p = Refresher =>
         /\ proc[p].pc \in {"idle", "next"} \cup Fetching
         /\ proc[p].pc \in Fetching => todo # {}
    /\ p \in Clients => proc[p].pc \in {"ready", "wait", "read"} \cup Fetching
    /\ p \in Streams =>
         /\ proc[p].pc \in {"off", "closed", "wait", "read"} \cup Fetching
         /\ ~proc[p].direct
    /\ proc[p].pc \in {"answered", "notify", "got"} => proc[p].val \in Answers

TypeInv ==
    /\ truth \in [Queries -> Answers]
    /\ cache \in [Queries -> Entry \cup {NoEntry}]
    /\ wIndex \in Nat /\ nameIndex \in [Names -> 0 .. wIndex]
    /\ saved \in Nat /\ flushing \in BOOLEAN
    /\ todo \subseteq Queries /\ crashes \in Nat
    /\ proc \in [Procs -> Reader] /\ held \in [Holders -> Holding]
    /\ \A p \in Procs : PlaceOK(p)

(* How old an answer can be on its way through the cache: an entry is      *)
(* older than its age by the fan-out that filled it, at most.              *)
Lags ==
    /\ \A q \in Queries :
         cache[q].val # NoAnswer => cache[q].lag <= cache[q].age + FetchTime
    /\ \A p \in Procs :
         /\ proc[p].pc \in {"answered", "notify"} => proc[p].lag <= FetchTime
         /\ proc[p].pc = "got" => proc[p].lag < MaxAge + FetchTime

(* What a client holds is no newer than the index of its query.            *)
ClientsBehind ==
    \A c \in Clients :
        /\ held[c].life <= crashes /\ ~held[c].regressed
        /\ held[c].life = crashes => held[c].idx <= CurrentIndex(held[c].q)

(* What `changed' compares of an answer: no data counts as no instance.    *)
key(v) == IF v = NoAnswer THEN 0 ELSE v[1]

(* The index of a stream is still the one of its query, and no change of   *)
(* it is about to be announced.                                            *)
UpToDate(s) ==
    /\ held[s].idx > 1 /\ held[s].idx = CurrentIndex(held[s].q)
    /\ Announced(held[s].q)

(* A stream that is up to date has read, or has sent, what the cache has.  *)
StreamCurrent(s) ==
    /\ held[s].q.name \in Names /\ held[s].idx <= CurrentIndex(held[s].q)
    /\ UpToDate(s) =>
         /\ proc[s].pc = "got" => key(proc[s].val) = key(cache[held[s].q].val)
         /\ proc[s].pc = "wait" /\ ~held[s].first /\ ~held[s].missed =>
              key(held[s].data) = key(cache[held[s].q].val)

StreamOK(s) ==
    /\ ~held[s].first => held[s].data \in Answers
    /\ proc[s].pc \notin {"off", "closed"} => StreamCurrent(s)

StreamsInv == \A s \in Streams : StreamOK(s)
-----------------------------------------------------------------------------
(* The index arithmetic.                                                   *)

LEMMA MinOfTwo ==
    ASSUME NEW a \in Nat, NEW b \in Nat
    PROVE  Min({a, b}) = IF a <= b THEN a ELSE b
<1>. DEFINE m == IF a <= b THEN a ELSE b
<1>1. m \in {a, b} /\ \A y \in {a, b} : m =< y
  OBVIOUS
<1>2. \A x \in {a, b} : (\A y \in {a, b} : x =< y) => x = m
  OBVIOUS
<1>. QED  BY <1>1, <1>2, ZenonT(30) DEF Min

(* One change of one name takes the next index for that name and leaves    *)
(* the others (NotifyNames, watcher.go).                                   *)
LEMMA OneChange ==
    ASSUME NEW idx \in Nat, NEW nameIdx \in [Names -> Nat], NEW name
    PROVE  keysAfter(idx, nameIdx, <<name>>) =
               [n \in Names |-> IF n = name THEN idx + 1 ELSE nameIdx[n]]
<1>. DEFINE at(n) == {i \in 1 .. Len(<<name>>) : <<name>>[i] = n}
<1>1. Max({1}) = 1
  <2>1. \A x \in {1} : (\A y \in {1} : x >= y) => x = 1
    BY ZenonT(30)
  <2>2. 1 \in {1} /\ \A y \in {1} : 1 >= y
    OBVIOUS
  <2>. QED  BY <2>1, <2>2, ZenonT(30) DEF Max
<1>2. 1 .. Len(<<name>>) = {1} /\ <<name>>[1] = name
  OBVIOUS
<1>3. ASSUME NEW n \in Names
      PROVE  (IF at(n) = {} THEN nameIdx[n] ELSE idx + Max(at(n)))
                 = IF n = name THEN idx + 1 ELSE nameIdx[n]
  <2>1. at(n) = IF n = name THEN {1} ELSE {}
    BY <1>2, ZenonT(30)
  <2>. QED  BY <2>1, <1>1, ZenonT(30)
<1>. QED  BY <1>3, ZenonT(30) DEF keysAfter

LEMMA IndexType ==
    ASSUME TypeInv, NEW q \in Queries
    PROVE  CurrentIndex(q) \in Nat \ {0}
BY DEF TypeInv, CurrentIndex, currentIndexLocked, atLeastOne

LEMMA NotifyEffect ==
    ASSUME TypeInv, NEW p \in Procs, NotifyNames(p)
    PROVE  /\ wIndex' = wIndex + 1
           /\ nameIndex' = [n \in Names |->
                IF n = Query(p).name THEN wIndex + 1 ELSE nameIndex[n]]
<1>1. nameIndex \in [Names -> Nat] /\ wIndex \in Nat
  BY DEF TypeInv
<1>. DEFINE name == Query(p).name
<1>2. wIndex' = wIndex + 1 /\ nameIndex' = keysAfter(wIndex, nameIndex, <<name>>)
  BY ZenonT(30) DEF NotifyNames
<1>. HIDE DEF name
<1>3. nameIndex' = [n \in Names |-> IF n = name THEN wIndex + 1 ELSE nameIndex[n]]
  BY <1>1, <1>2, OneChange
<1>. QED  BY <1>2, <1>3, ZenonT(30) DEF name

LEMMA IndexTypeNext ==
    ASSUME TypeInv', NEW q \in Queries
    PROVE  CurrentIndex(q)' \in Nat \ {0}
BY DEF TypeInv, CurrentIndex, currentIndexLocked, atLeastOne

(* No change of the watcher takes the index of any query back.             *)
LEMMA IndexMoves ==
    ASSUME TypeInv, NEW p \in Procs, Query(p) \in Queries, NotifyNames(p),
           NEW q \in Queries
    PROVE  /\ CurrentIndex(q) <= CurrentIndex(q)'
           /\ q.name \in Names /\ q.name = Query(p).name =>
                CurrentIndex(q)' = wIndex + 1
           /\ q.name \in Names /\ q.name # Query(p).name =>
                CurrentIndex(q)' = CurrentIndex(q) \/ CurrentIndex(q)' = wIndex + 1
<1>1. nameIndex \in [Names -> Nat] /\ wIndex \in Nat
  BY DEF TypeInv
<1>2. /\ wIndex' = wIndex + 1
      /\ nameIndex' = [n \in Names |->
                         IF n = Query(p).name THEN wIndex + 1 ELSE nameIndex[n]]
  BY NotifyEffect, ZenonT(30)
<1>3. \A n \in Names : nameIndex[n] <= wIndex
  BY DEF TypeInv
<1>. HIDE DEF Query
<1>. QED  BY <1>1, <1>2, <1>3 DEF CurrentIndex, currentIndexLocked, atLeastOne
-----------------------------------------------------------------------------
(* Type correctness.                                                       *)

LEMMA QueryType ==
    ASSUME TypeInv, NEW p \in Procs, proc[p].pc \in Fetching \cup {"read"}
    PROVE  Query(p) \in Queries
<1>1. CASE p = Refresher
  <2>1. todo # {} /\ todo \subseteq Queries
    BY <1>1, ZenonT(30) DEF TypeInv, PlaceOK, Fetching
  <2>2. PICK q \in todo : TRUE
    BY <2>1, ZenonT(30)
  <2>3. (CHOOSE r \in todo : TRUE) \in todo
    BY <2>2, ZenonT(30)
  <2>. QED  BY <1>1, <2>1, <2>3, ZenonT(30) DEF Query
<1>2. CASE p # Refresher
  BY <1>2, ZenonT(30) DEF TypeInv, Query, Procs, Holders, Holding
<1>. QED  BY <1>1, <1>2, ZenonT(30)

(* The record of a reader that moves; every other stays where it is.       *)
Moved(p, new) == proc' = [proc EXCEPT ![p] = new]

LEMMA QuietType ==
    ASSUME NEW where \in Places
    PROVE  Quiet(where) \in Reader /\ Quiet(where).pc = where
           /\ ~Quiet(where).direct
BY ZenonT(30) DEF Quiet, Reader

LEMMA FetchAnswerMoves ==
    ASSUME TypeInv, NEW p \in Procs, FetchAnswer(p)
    PROVE  \E new \in Reader :
             /\ Moved(p, new) /\ new.pc = "answered" /\ new.lag = 0
             /\ new.val = truth[Query(p)] /\ new.val \in Answers
             /\ new.direct <=> proc[p].direct
<1>. DEFINE new == [proc[p] EXCEPT !.pc = "answered", !.val = truth[Query(p)],
                                   !.lag = 0]
<1>1. proc[p] \in Reader /\ proc[p].pc = "fetch"
  BY ZenonT(30) DEF TypeInv, FetchAnswer
<1>2. Query(p) \in Queries
  BY <1>1, QueryType, ZenonT(30) DEF Fetching
<1>3. truth[Query(p)] \in Answers
  BY <1>2, ZenonT(30) DEF TypeInv
<1>. HIDE DEF Query
<1>4. new \in Reader /\ new.pc = "answered" /\ new.lag = 0
      /\ new.val = truth[Query(p)] /\ (new.direct <=> proc[p].direct)
  BY <1>1, <1>3, ZenonT(30) DEF Reader, Places, Fetching
<1>5. Moved(p, new)
  BY <1>1, ZenonT(30) DEF FetchAnswer, Moved, TypeInv, Reader
<1>. QED  BY <1>3, <1>4, <1>5, ZenonT(30)

LEMMA FetchStoreMoves ==
    ASSUME TypeInv, NEW p \in Procs, FetchStore(p)
    PROVE  \E new \in Reader :
             /\ Moved(p, new)
             /\ new.pc = IF ~proc[p].direct
                            /\ changed(cache[Query(p)].val, proc[p].val)
                         THEN "notify" ELSE "got"
             /\ new.lag = proc[p].lag /\ new.val = proc[p].val
             /\ new.direct <=> proc[p].direct
<1>. DEFINE news == ~proc[p].direct /\ changed(cache[Query(p)].val, proc[p].val)
            to == IF news THEN "notify" ELSE "got"
            new == [proc[p] EXCEPT !.pc = to]
<1>1. proc[p] \in Reader
  BY ZenonT(30) DEF TypeInv
<1>2. proc' = [proc EXCEPT ![p].pc = to]
  BY ZenonT(30) DEF FetchStore
<1>3. to \in Places
  BY ZenonT(30) DEF Places, Fetching
<1>. HIDE DEF to
<1>4. new \in Reader /\ new.pc = to /\ new.lag = proc[p].lag
      /\ new.val = proc[p].val /\ (new.direct <=> proc[p].direct)
  BY <1>1, <1>3, ZenonT(30) DEF Reader
<1>5. Moved(p, new)
  BY <1>1, <1>2, ZenonT(30) DEF Moved, TypeInv, Reader
<1>. QED  BY <1>4, <1>5, ZenonT(30) DEF to

LEMMA NotifyMoves ==
    ASSUME TypeInv, NEW p \in Procs, NotifyNames(p)
    PROVE  \E new \in Reader :
             /\ Moved(p, new) /\ new.pc = "got" /\ new.lag = proc[p].lag
             /\ new.val = proc[p].val
             /\ new.direct <=> proc[p].direct
<1>. DEFINE new == [proc[p] EXCEPT !.pc = "got"]
<1>1. proc[p] \in Reader
  BY DEF TypeInv
<1>2. new \in Reader /\ new.pc = "got" /\ new.lag = proc[p].lag
      /\ new.val = proc[p].val /\ (new.direct <=> proc[p].direct)
  BY <1>1, ZenonT(30) DEF Reader, Places, Fetching
<1>3. Moved(p, new)
  BY <1>1, ZenonT(30) DEF NotifyNames, Moved, TypeInv, Reader
<1>. QED  BY <1>2, <1>3, ZenonT(30)

LEMMA ReadCachedMoves ==
    ASSUME TypeInv, NEW p \in Procs, ReadCached(p)
    PROVE  \E new \in Reader :
             /\ Moved(p, new) /\ new.pc = "got"
             /\ new.lag = cache[Query(p)].lag /\ new.val = cache[Query(p)].val
             /\ new.val \in Answers
             /\ new.direct <=> proc[p].direct
<1>. DEFINE new == [proc[p] EXCEPT !.pc = "got", !.val = cache[Query(p)].val,
                                   !.lag = cache[Query(p)].lag]
<1>1. proc[p] \in Reader /\ proc[p].pc = "read"
  BY ZenonT(30) DEF TypeInv, ReadCached
<1>2. Query(p) \in Queries
  BY <1>1, QueryType, ZenonT(30)
<1>3. cache[Query(p)] \in Entry
  BY <1>2 DEF TypeInv, ReadCached, fresh, NoEntry
<1>. HIDE DEF Query
<1>4. cache[Query(p)].val \in Answers /\ cache[Query(p)].lag \in Nat
  BY <1>3, ReadsAssumption DEF Entry
<1>5. new \in Reader /\ new.pc = "got" /\ new.lag = cache[Query(p)].lag
      /\ new.val = cache[Query(p)].val /\ (new.direct <=> proc[p].direct)
  BY <1>1, <1>4, ZenonT(30) DEF Reader, Places, Fetching
<1>6. Moved(p, new)
  BY <1>1, ZenonT(30) DEF ReadCached, Moved, TypeInv, Reader
<1>. QED  BY <1>4, <1>5, <1>6, ZenonT(30)

LEMMA FetchStartMoves ==
    ASSUME TypeInv, NEW p \in Procs, FetchStart(p)
    PROVE  \E new \in Reader :
             /\ Moved(p, new) /\ new.pc = "fetch"
             /\ new.direct <=> proc[p].direct
<1>. DEFINE seen == ~proc[p].direct /\ cache[Query(p)].val # NoAnswer
            new == [proc[p] EXCEPT !.pc = "fetch", !.had = seen]
<1>1. proc[p] \in Reader
  BY DEF TypeInv
<1>2. proc' = [proc EXCEPT ![p].pc = "fetch", ![p].had = seen]
  BY ZenonT(30) DEF FetchStart
<1>3. seen \in BOOLEAN
  BY ZenonT(30)
<1>. HIDE DEF seen
<1>4. new \in Reader /\ new.pc = "fetch" /\ (new.direct <=> proc[p].direct)
  BY <1>1, <1>3, ZenonT(30) DEF Reader, Places, Fetching
<1>5. Moved(p, new)
  BY <1>1, <1>2, ZenonT(30) DEF Moved, TypeInv, Reader
<1>. QED  BY <1>4, <1>5, ZenonT(30)

LEMMA OthersStay ==
    ASSUME TypeInv, NEW p \in Procs, NEW new \in Reader, Moved(p, new)
    PROVE  /\ proc' \in [Procs -> Reader] /\ proc'[p] = new
           /\ \A r \in Procs \ {p} : proc'[r] = proc[r]
BY ZenonT(30) DEF TypeInv, Moved

(* What a reader may move to.                                              *)
PlaceFor(p, new, left) ==
    /\ p = Refresher =>
         /\ new.pc \in {"idle", "next"} \cup Fetching
         /\ new.pc \in Fetching => left # {}
    /\ p \in Clients => new.pc \in {"ready", "wait", "read"} \cup Fetching
    /\ p \in Streams =>
         /\ new.pc \in {"off", "closed", "wait", "read"} \cup Fetching
         /\ ~new.direct
    /\ new.pc \in {"answered", "notify", "got"} => new.val \in Answers
    /\ new.pc \in {"answered", "notify"} => new.lag <= FetchTime
    /\ new.pc = "got" => new.lag < MaxAge + FetchTime

(* The part of the invariant that is about the readers.                    *)
ReadersInv ==
    /\ proc \in [Procs -> Reader]
    /\ \A p \in Procs :
         /\ PlaceOK(p)
         /\ proc[p].pc \in {"answered", "notify"} => proc[p].lag <= FetchTime
         /\ proc[p].pc = "got" => proc[p].lag < MaxAge + FetchTime

LEMMA ReaderMoves ==
    ASSUME TypeInv, Lags, NEW p \in Procs, NEW new \in Reader, Moved(p, new),
           todo' = todo \/ p = Refresher, PlaceFor(p, new, todo')
    PROVE  ReadersInv'
<1>1. /\ proc' \in [Procs -> Reader] /\ proc'[p] = new
      /\ \A r \in Procs \ {p} : proc'[r] = proc[r]
  BY OthersStay, ZenonT(30)
<1>2. ASSUME NEW r \in Procs
      PROVE  /\ PlaceOK(r)'
             /\ proc'[r].pc \in {"answered", "notify"} => proc'[r].lag <= FetchTime
             /\ proc'[r].pc = "got" => proc'[r].lag < MaxAge + FetchTime
  <2>1. CASE r = p
    BY <1>1, <2>1, ZenonT(30) DEF PlaceFor, PlaceOK
  <2>2. CASE r # p
    <3>1. proc'[r] = proc[r] /\ (r = Refresher => todo' = todo)
      BY <1>1, <2>2, ZenonT(30)
    <3>2. PlaceOK(r)'
      BY <3>1, ZenonT(30) DEF TypeInv, PlaceOK
    <3>. QED  BY <3>1, <3>2, ZenonT(30) DEF Lags
  <2>. QED  BY <2>1, <2>2, ZenonT(30)
<1>. QED  BY <1>1, <1>2, ZenonT(30) DEF ReadersInv

LEMMA GotoMoves ==
    ASSUME TypeInv, Lags, NEW p \in Procs, NEW where \in Places, Goto(p, where),
           where \notin {"answered", "notify", "got"},
           todo' = todo \/ p = Refresher,
           p = Refresher => /\ where \in {"idle", "next", "fetch"}
                            /\ where = "fetch" => todo' # {},
           p \in Clients => where \in {"ready", "wait", "read"},
           p \in Streams => where \in {"off", "closed", "wait", "read"}
    PROVE  ReadersInv'
<1>1. Quiet(where) \in Reader /\ Quiet(where).pc = where /\ ~Quiet(where).direct
  BY QuietType, ZenonT(30)
<1>2. Moved(p, Quiet(where))
  BY ZenonT(30) DEF Goto, Moved
<1>3. PlaceFor(p, Quiet(where), todo')
  BY <1>1, ZenonT(30) DEF PlaceFor, Fetching
<1>. QED  BY <1>1, <1>2, <1>3, ReaderMoves, ZenonT(30)

(* The rest of the invariant.                                              *)
DataInv ==
    /\ truth \in [Queries -> Answers]
    /\ cache \in [Queries -> Entry \cup {NoEntry}]
    /\ wIndex \in Nat /\ nameIndex \in [Names -> 0 .. wIndex]
    /\ saved \in Nat /\ flushing \in BOOLEAN
    /\ todo \subseteq Queries /\ crashes \in Nat
    /\ held \in [Holders -> Holding]
    /\ \A q \in Queries :
         cache[q].val # NoAnswer => cache[q].lag <= cache[q].age + FetchTime

LEMMA TwoParts == TypeInv /\ Lags <=> ReadersInv /\ DataInv
BY ZenonT(30) DEF TypeInv, Lags, ReadersInv, DataInv

LEMMA Types == ReadersInv /\ DataInv => TypeOK /\ StalenessBounded
BY ZenonT(30) DEF ReadersInv, DataInv, TypeOK, StalenessBounded, PlaceOK, Fetching,
       Procs, Holders, Reader, Holding

LEMMA InitTypes == Init => ReadersInv /\ DataInv
<1>. SUFFICES ASSUME Init PROVE ReadersInv /\ DataInv
  BY ZenonT(30)
<1>. USE ReadsAssumption
<1>1. ASSUME NEW q \in Queries PROVE Fresh(q) \in Holding
  BY ZenonT(30) DEF Fresh, Holding
<1>2. DataInv
  <2>1. held \in [Holders -> Holding]
    BY <1>1 DEF Init
  <2>2. /\ cache \in [Queries -> Entry \cup {NoEntry}]
        /\ \A q \in Queries : cache[q].val = NoAnswer
    BY ZenonT(30) DEF Init, NoEntry
  <2>3. nameIndex \in [Names -> 0 .. wIndex]
    BY DEF Init
  <2>4. truth \in [Queries -> Answers]
    BY ZenonT(30) DEF Init, Empty
  <2>5. flushing \in BOOLEAN
    BY ZenonT(30) DEF Init
  <2>6. wIndex \in Nat /\ saved \in Nat /\ todo = {} /\ crashes = 0
    BY ZenonT(30) DEF Init
  <2>. QED  BY <2>1, <2>2, <2>3, <2>4, <2>5, <2>6, ZenonT(30) DEF DataInv
<1>3. ASSUME NEW p \in Procs
      PROVE  /\ proc[p] \in Reader /\ PlaceOK(p)
             /\ proc[p].pc \notin {"answered", "notify", "got"}
  <2>. DEFINE where == IF p \in Clients THEN "ready"
                       ELSE IF p = Refresher THEN "idle" ELSE "off"
  <2>1. proc[p] = Quiet(where) /\ where \in Places
    BY ZenonT(30) DEF Init, Places
  <2>2. proc[p] \in Reader /\ proc[p].pc = where /\ ~proc[p].direct
    BY <2>1, QuietType, ZenonT(30)
  <2>. QED  BY <2>2, ZenonT(30) DEF PlaceOK, Fetching
<1>4. proc \in [Procs -> Reader]
  BY <1>3, ZenonT(30) DEF Init
<1>. QED  BY <1>2, <1>3, <1>4, ZenonT(30) DEF ReadersInv
-----------------------------------------------------------------------------
(* What the steps of a holder leave in its hands.                          *)

Handed(h, new) == held' = [held EXCEPT ![h] = new]

LEMMA HandedType ==
    ASSUME TypeInv, NEW h \in Holders, NEW new \in Holding, Handed(h, new)
    PROVE  /\ held' \in [Holders -> Holding] /\ held'[h] = new
           /\ \A r \in Holders \ {h} : held'[r] = held[r]
BY ZenonT(30) DEF TypeInv, Handed

LEMMA RespondHands ==
    ASSUME TypeInv, NEW c \in Clients, Respond(c)
    PROVE  \E new \in Holding :
             /\ Handed(c, new) /\ new.q = held[c].q /\ new.life = crashes
             /\ new.idx = CurrentIndex(held[c].q)
             /\ new.regressed <=> held[c].regressed \/
                   (CurrentIndex(held[c].q) < held[c].idx /\ held[c].life = crashes)
<1>. DEFINE back == held[c].regressed \/
                   (CurrentIndex(held[c].q) < held[c].idx /\ held[c].life = crashes)
            index == CurrentIndex(held[c].q)
            new == [held[c] EXCEPT !.data = proc[c].val, !.idx = index,
                                   !.life = crashes, !.regressed = back]
<1>1. held[c] \in Holding /\ c \in Holders /\ c \in Procs
  BY ZenonT(30) DEF TypeInv, Holders, Procs
<1>2. index \in Nat /\ crashes \in Nat
  BY <1>1, IndexType, ZenonT(30) DEF Holding, TypeInv
<1>3. proc[c].val \in Answers \cup {NoAnswer}
  BY <1>1, ZenonT(30) DEF TypeInv, Reader
<1>4. held' = [held EXCEPT ![c].data = proc[c].val, ![c].idx = index,
                           ![c].life = crashes, ![c].regressed = back]
  BY ZenonT(30) DEF Respond
<1>5. back \in BOOLEAN
  <2>1. held[c].regressed \in BOOLEAN
    BY <1>1, ZenonT(30) DEF Holding
  <2>. QED  BY <2>1, ZenonT(30)
<1>. HIDE DEF back, index
<1>6. new \in Holding /\ new.q = held[c].q /\ new.life = crashes
      /\ new.idx = index /\ (new.regressed <=> back)
  BY <1>1, <1>2, <1>3, <1>5, ZenonT(30) DEF Holding
<1>7. Handed(c, new)
  BY <1>1, <1>4, ZenonT(30) DEF Handed, Holding, TypeInv
<1>. QED  BY <1>6, <1>7, ZenonT(30) DEF back, index

LEMMA FailHands ==
    ASSUME TypeInv, NEW p \in Holders, FetchFail(p)
    PROVE  \E new \in Holding :
             /\ Handed(p, new) /\ new.q = held[p].q /\ new.life = held[p].life
             /\ new.idx = held[p].idx /\ new.data = held[p].data
             /\ new.first <=> held[p].first
             /\ new.regressed <=> held[p].regressed
             /\ p \in Streams => new.missed
<1>. DEFINE miss == IF p \in Streams THEN TRUE ELSE held[p].missed
            new == [held[p] EXCEPT !.missed = miss]
<1>1. held[p] \in Holding
  BY ZenonT(30) DEF TypeInv, Holders, Procs
<1>2. p # Refresher /\ p \in Procs
  BY ReadsAssumption, ZenonT(30) DEF Holders, Procs
<1>3. miss \in BOOLEAN
  BY <1>1, ZenonT(30) DEF Holding
<1>4. Handed(p, new)
  <2>1. CASE p \in Streams
    <3>1. held' = [held EXCEPT ![p].missed = TRUE]
      BY <1>2, <2>1, ReadsAssumption, ZenonT(30) DEF FetchFail
    <3>2. miss = TRUE
      BY <2>1, ZenonT(30)
    <3>. HIDE DEF miss
    <3>. QED  BY <1>1, <3>1, <3>2, ZenonT(30) DEF Handed, Holding, TypeInv
  <2>2. CASE p \in Clients
    <3>1. held' = held
      BY <1>2, <2>2, ReadsAssumption, ZenonT(30) DEF FetchFail
    <3>2. miss = held[p].missed
      BY <2>2, ReadsAssumption, ZenonT(30)
    <3>. HIDE DEF miss
    <3>3. new = held[p]
      BY <1>1, <3>2, ZenonT(30) DEF Holding
    <3>4. held = [held EXCEPT ![p] = held[p]]
      BY ZenonT(30) DEF TypeInv
    <3>. QED  BY <3>1, <3>3, <3>4, ZenonT(30) DEF Handed
  <2>. QED  BY <2>1, <2>2, ZenonT(30) DEF Holders
<1>5. p \in Streams => miss
  BY ZenonT(30)
<1>. HIDE DEF miss
<1>6. /\ new \in Holding /\ new.q = held[p].q /\ new.life = held[p].life
      /\ new.idx = held[p].idx /\ new.data = held[p].data
      /\ new.first <=> held[p].first
      /\ new.regressed <=> held[p].regressed
      /\ new.missed <=> miss
  BY <1>1, <1>3, ZenonT(30) DEF Holding
<1>. QED  BY <1>4, <1>5, <1>6, ZenonT(30)

LEMMA WaitHands ==
    ASSUME TypeInv, NEW s \in Streams, WaitStream(s)
    PROVE  \E new \in Holding :
             /\ Handed(s, new) /\ new.q = held[s].q /\ new.data = held[s].data
             /\ new.idx = CurrentIndex(held[s].q)
             /\ new.first <=> held[s].first
<1>. DEFINE index == CurrentIndex(held[s].q)
            new == [held[s] EXCEPT !.idx = index]
<1>1. held[s] \in Holding
  BY ZenonT(30) DEF TypeInv, Holders
<1>2. index \in Nat
  BY <1>1, IndexType, ZenonT(30) DEF Holding
<1>3. held' = [held EXCEPT ![s].idx = index]
  BY ZenonT(30) DEF WaitStream
<1>. HIDE DEF index
<1>4. /\ new \in Holding /\ new.q = held[s].q /\ new.data = held[s].data
      /\ new.idx = index /\ (new.first <=> held[s].first)
  BY <1>1, <1>2, ZenonT(30) DEF Holding
<1>5. Handed(s, new)
  BY <1>1, <1>3, ZenonT(30) DEF Handed, Holding, TypeInv
<1>. QED  BY <1>4, <1>5, ZenonT(30) DEF index

LEMMA SendHands ==
    ASSUME TypeInv, NEW s \in Streams, Send(s)
    PROVE  \E new \in Holding :
             /\ Handed(s, new) /\ new.q = held[s].q /\ new.idx = held[s].idx
             /\ ~new.first /\ ~new.missed
             /\ new.data = IF ~held[s].first /\ held[s].data[1] = proc[s].val[1]
                           THEN held[s].data ELSE proc[s].val
<1>. DEFINE sent == IF ~held[s].first /\ held[s].data[1] = proc[s].val[1]
                    THEN held[s].data ELSE proc[s].val
            new == [held[s] EXCEPT !.first = FALSE, !.missed = FALSE,
                                   !.data = sent]
<1>1. held[s] \in Holding /\ proc[s] \in Reader
  BY ZenonT(30) DEF TypeInv, Holders, Procs
<1>2. sent \in Answers \cup {NoAnswer}
  BY <1>1, ZenonT(30) DEF Holding, Reader
<1>3. held' = [held EXCEPT ![s].first = FALSE, ![s].missed = FALSE,
                           ![s].data = sent]
  BY <1>1, ZenonT(30) DEF Send, Holding, TypeInv, Holders
<1>. HIDE DEF sent
<1>4. /\ new \in Holding /\ new.q = held[s].q /\ new.idx = held[s].idx
      /\ ~new.first /\ ~new.missed /\ new.data = sent
  BY <1>1, <1>2, ZenonT(30) DEF Holding
<1>5. Handed(s, new)
  BY <1>1, <1>3, ZenonT(30) DEF Handed, Holding, TypeInv
<1>. QED  BY <1>4, <1>5, ZenonT(30) DEF sent
-----------------------------------------------------------------------------
(* The steps preserve the invariant.                                       *)

LEMMA FetchTypes ==
    ASSUME ReadersInv, DataInv, NEW p \in Procs,
           FetchAnswer(p) \/ FetchStore(p) \/ NotifyNames(p)
             \/ ReadCached(p) \/ FetchStart(p)
    PROVE  ReadersInv' /\ DataInv'
<1>. USE ReadsAssumption
<1>0. TypeInv /\ Lags
  BY TwoParts, ZenonT(30)
<1>00. PlaceOK(p) /\ proc[p] \in Reader
  BY ZenonT(30) DEF ReadersInv
<1>1. CASE FetchAnswer(p)
  <2>1. PICK new \in Reader :
             /\ Moved(p, new) /\ new.pc = "answered" /\ new.lag = 0
             /\ new.val = truth[Query(p)] /\ new.val \in Answers
             /\ new.direct <=> proc[p].direct
    BY <1>0, <1>1, FetchAnswerMoves, ZenonT(30)
  <2>2. PlaceFor(p, new, todo') /\ todo' = todo
    BY <1>1, <1>00, <2>1 DEF PlaceFor, PlaceOK, FetchAnswer, Fetching
  <2>3. ReadersInv'
    BY <1>0, <2>1, <2>2, ReaderMoves, ZenonT(30)
  <2>. QED  BY <1>1, <2>3, ZenonT(30) DEF FetchAnswer, DataInv
<1>2. CASE FetchStore(p)
  <2>. DEFINE news == ~proc[p].direct /\ changed(cache[Query(p)].val, proc[p].val)
  <2>1. PICK new \in Reader :
             /\ Moved(p, new) /\ new.pc = IF news THEN "notify" ELSE "got"
             /\ new.lag = proc[p].lag /\ new.val = proc[p].val
             /\ new.direct <=> proc[p].direct
    BY <1>0, <1>2, FetchStoreMoves, ZenonT(30)
  <2>2. proc[p].pc = "answered" /\ todo' = todo
    BY <1>2, ZenonT(30) DEF FetchStore
  <2>3. proc[p].lag <= FetchTime /\ proc[p].lag \in Nat /\ proc[p].val \in Answers
    BY <1>00, <2>2, ZenonT(30) DEF ReadersInv, Reader, PlaceOK
  <2>4. PlaceFor(p, new, todo')
    <3>. HIDE DEF news
    <3>. QED  BY <1>00, <2>1, <2>2, <2>3 DEF PlaceFor, PlaceOK, Fetching
  <2>5. ReadersInv'
    BY <1>0, <2>1, <2>2, <2>4, ReaderMoves, ZenonT(30)
  <2>6. CASE proc[p].direct
    BY <1>2, <2>5, <2>6, ZenonT(30) DEF FetchStore, DataInv
  <2>7. CASE ~proc[p].direct
    <3>. DEFINE entry == [val |-> proc[p].val, age |-> 0, lag |-> proc[p].lag]
    <3>1. cache' = [cache EXCEPT ![Query(p)] = entry]
      BY <1>2, <2>7, ZenonT(30) DEF FetchStore
    <3>2. entry \in Entry /\ entry.lag <= entry.age + FetchTime
      BY <2>3 DEF Entry
    <3>. HIDE DEF entry, Query
    <3>3. /\ cache' \in [Queries -> Entry \cup {NoEntry}]
          /\ \A q \in Queries : cache'[q].val # NoAnswer =>
               cache'[q].lag <= cache'[q].age + FetchTime
      BY <3>1, <3>2, ZenonT(30) DEF DataInv
    <3>. QED  BY <1>2, <2>5, <3>3, ZenonT(30) DEF FetchStore, DataInv
  <2>. QED  BY <2>6, <2>7, ZenonT(30)
<1>3. CASE NotifyNames(p)
  <2>1. PICK new \in Reader :
             /\ Moved(p, new) /\ new.pc = "got" /\ new.lag = proc[p].lag
             /\ new.val = proc[p].val
             /\ new.direct <=> proc[p].direct
    BY <1>0, <1>3, NotifyMoves, ZenonT(30)
  <2>2. proc[p].pc = "notify" /\ todo' = todo
    BY <1>3, ZenonT(30) DEF NotifyNames
  <2>3. proc[p].lag <= FetchTime /\ proc[p].lag \in Nat /\ proc[p].val \in Answers
    BY <1>00, <2>2, ZenonT(30) DEF ReadersInv, Reader, PlaceOK
  <2>4. PlaceFor(p, new, todo')
    BY <1>00, <2>1, <2>2, <2>3 DEF PlaceFor, PlaceOK, Fetching
  <2>5. ReadersInv'
    BY <1>0, <2>1, <2>2, <2>4, ReaderMoves, ZenonT(30)
  <2>6. wIndex \in Nat /\ nameIndex \in [Names -> Nat]
        /\ \A n \in Names : nameIndex[n] <= wIndex
    BY DEF DataInv
  <2>7. /\ wIndex' = wIndex + 1
        /\ nameIndex' = [n \in Names |->
                           IF n = Query(p).name THEN wIndex + 1 ELSE nameIndex[n]]
    BY <1>0, <1>3, NotifyEffect, ZenonT(30)
  <2>8. wIndex' \in Nat /\ nameIndex' \in [Names -> 0 .. wIndex']
    BY <2>6, <2>7
  <2>. QED  BY <1>3, <2>5, <2>8, ZenonT(30) DEF NotifyNames, DataInv
<1>4. CASE ReadCached(p)
  <2>1. PICK new \in Reader :
             /\ Moved(p, new) /\ new.pc = "got"
             /\ new.lag = cache[Query(p)].lag /\ new.val = cache[Query(p)].val
             /\ new.val \in Answers
             /\ new.direct <=> proc[p].direct
    BY <1>0, <1>4, ReadCachedMoves, ZenonT(30)
  <2>2. proc[p].pc = "read" /\ todo' = todo /\ fresh(Query(p))
    BY <1>4, ZenonT(30) DEF ReadCached
  <2>3. Query(p) \in Queries
    BY <1>0, <2>2, QueryType, ZenonT(30)
  <2>4. new.lag < MaxAge + FetchTime
    <3>. HIDE DEF Query
    <3>1. /\ cache[Query(p)].val # NoAnswer /\ cache[Query(p)].age < MaxAge
          /\ cache[Query(p)] \in Entry
      BY <2>2, <2>3 DEF fresh, DataInv, NoEntry
    <3>2. cache[Query(p)].lag <= cache[Query(p)].age + FetchTime
      BY <2>3, <3>1, ZenonT(30) DEF DataInv
    <3>. QED  BY <2>1, <3>1, <3>2 DEF Entry
  <2>5. PlaceFor(p, new, todo')
    <3>1. p # Refresher
      BY <1>00, <2>2, ZenonT(30) DEF PlaceOK, Fetching
    <3>2. /\ p \in Clients => new.pc \in {"ready", "wait", "read"} \cup Fetching
          /\ p \in Streams => new.pc \in {"off", "closed", "wait", "read"} \cup Fetching
      BY <2>1, ZenonT(30) DEF Fetching
    <3>3. p \in Streams => ~new.direct
      BY <1>00, <2>1, ZenonT(30) DEF PlaceOK
    <3>4. new.pc = "got" /\ new.val \in Answers
      BY <2>1, ZenonT(30)
    <3>. QED  BY <2>4, <3>1, <3>2, <3>3, <3>4, ZenonT(30) DEF PlaceFor
  <2>6. ReadersInv'
    BY <1>0, <2>1, <2>2, <2>5, ReaderMoves, ZenonT(30)
  <2>. QED  BY <1>4, <2>6, ZenonT(30) DEF ReadCached, DataInv
<1>5. CASE FetchStart(p)
  <2>1. PICK new \in Reader : /\ Moved(p, new) /\ new.pc = "fetch"
                              /\ new.direct <=> proc[p].direct
    BY <1>0, <1>5, FetchStartMoves, ZenonT(30)
  <2>2. proc[p].pc = "read" /\ todo' = todo
    BY <1>5, ZenonT(30) DEF FetchStart
  <2>3. p # Refresher
    BY <1>00, <2>2, ZenonT(30) DEF PlaceOK, Fetching
  <2>4. PlaceFor(p, new, todo')
    BY <1>00, <2>1, <2>2, <2>3, ZenonT(30) DEF PlaceFor, PlaceOK, Fetching
  <2>5. ReadersInv'
    BY <1>0, <2>1, <2>2, <2>4, ReaderMoves, ZenonT(30)
  <2>. QED  BY <1>5, <2>5, ZenonT(30) DEF FetchStart, DataInv
<1>. QED  BY <1>1, <1>2, <1>3, <1>4, <1>5, ZenonT(30)

LEMMA RefreshTypes ==
    ASSUME ReadersInv, DataInv,
           Refresh \/ RefreshNext \/ \E p \in Procs : FetchFail(p)
    PROVE  ReadersInv' /\ DataInv'
<1>. USE ReadsAssumption
<1>0. TypeInv /\ Lags /\ Refresher \in Procs
  BY TwoParts, ZenonT(30) DEF Procs
<1>1. CASE Refresh
  <2>1. Goto(Refresher, "next") /\ "next" \in Places
    BY <1>1, ZenonT(30) DEF Refresh, Places
  <2>2. ReadersInv'
    BY <1>0, <2>1, GotoMoves, ZenonT(30)
  <2>. QED  BY <1>1, <2>2, ZenonT(30) DEF Refresh, DataInv
<1>2. CASE RefreshNext
  <2>1. CASE proc[Refresher].pc = "next"
    <3>. DEFINE where == IF todo = {} THEN "idle" ELSE "fetch"
    <3>1. Goto(Refresher, where) /\ where \in Places /\ todo' = todo
      BY <1>2, <2>1, ZenonT(30) DEF RefreshNext, Places, Fetching
    <3>2. where \in {"idle", "next", "fetch"} /\ (where = "fetch" => todo' # {})
      BY <3>1, ZenonT(30)
    <3>3. ReadersInv'
      <4>. HIDE DEF where
      <4>. QED  BY <1>0, <3>1, <3>2, GotoMoves, ZenonT(30)
    <3>. QED  BY <1>2, <3>1, <3>3, ZenonT(30) DEF RefreshNext, DataInv
  <2>2. CASE proc[Refresher].pc # "next"
    <3>1. /\ Goto(Refresher, "next") /\ "next" \in Places
          /\ todo' = todo \ {Query(Refresher)}
      BY <1>2, <2>2, ZenonT(30) DEF RefreshNext, Places
    <3>2. ReadersInv'
      BY <1>0, <3>1, GotoMoves, ZenonT(30)
    <3>. QED  BY <1>2, <3>1, <3>2, ZenonT(30) DEF RefreshNext, DataInv
  <2>. QED  BY <2>1, <2>2, ZenonT(30)
<1>3. ASSUME NEW p \in Procs, FetchFail(p)
      PROVE  ReadersInv' /\ DataInv'
  <2>1. CASE p = Refresher
    <3>1. /\ Goto(Refresher, "next") /\ "next" \in Places
          /\ todo' = todo \ {Query(Refresher)} /\ held' = held
      BY <1>3, <2>1, ZenonT(30) DEF FetchFail, Places
    <3>2. ReadersInv'
      BY <1>0, <3>1, GotoMoves, ZenonT(30)
    <3>. QED  BY <1>3, <3>1, <3>2, ZenonT(30) DEF FetchFail, DataInv
  <2>2. CASE p # Refresher
    <3>. DEFINE where == IF p \in Clients THEN "ready"
                         ELSE IF proc[p].had THEN "closed" ELSE "wait"
    <3>1. p \in Holders /\ (p \in Streams <=> p \notin Clients)
      BY <2>2, ZenonT(30) DEF Procs, Holders
    <3>2. Goto(p, where) /\ where \in Places /\ todo' = todo
      BY <1>3, <2>2, <3>1, ZenonT(30) DEF FetchFail, Places
    <3>3. /\ p \in Clients => where \in {"ready", "wait", "read"}
          /\ p \in Streams => where \in {"off", "closed", "wait", "read"}
          /\ where \notin {"answered", "notify", "got"}
      BY <3>1, ZenonT(30)
    <3>4. ReadersInv'
      <4>. HIDE DEF where
      <4>. QED  BY <1>0, <2>2, <3>2, <3>3, GotoMoves, ZenonT(30)
    <3>5. PICK new \in Holding : Handed(p, new)
      BY <1>0, <1>3, <3>1, FailHands, ZenonT(30)
    <3>6. held' \in [Holders -> Holding]
      BY <1>0, <3>1, <3>5, HandedType, ZenonT(30)
    <3>. QED  BY <1>3, <3>2, <3>4, <3>6, ZenonT(30) DEF FetchFail, DataInv
  <2>. QED  BY <2>1, <2>2, ZenonT(30)
<1>. QED  BY <1>1, <1>2, <1>3, ZenonT(30)

LEMMA ClientTypes ==
    ASSUME ReadersInv, DataInv, NEW c \in Clients,
           (\E mode \in Consistency : Ask(c, mode)) \/ WaitClient(c) \/ Respond(c)
    PROVE  ReadersInv' /\ DataInv'
<1>. USE ReadsAssumption
<1>0. TypeInv /\ Lags /\ c \in Procs /\ c \in Holders /\ c # Refresher
      /\ c \notin Streams
  BY TwoParts, ZenonT(30) DEF Procs, Holders
<1>00. PlaceOK(c) /\ proc[c] \in Reader
  BY <1>0, ZenonT(30) DEF ReadersInv
<1>1. ASSUME NEW mode \in Consistency, Ask(c, mode)
      PROVE  ReadersInv' /\ DataInv'
  <2>. DEFINE where == IF held[c].idx = 0 THEN "read" ELSE "wait"
              direct == (mode = "consistent")
              new == [Quiet(where) EXCEPT !.direct = direct]
  <2>1. Moved(c, new) /\ todo' = todo
    BY <1>1, ZenonT(30) DEF Ask, Moved
  <2>2. where \in {"read", "wait"} /\ direct \in BOOLEAN
    BY ZenonT(30)
  <2>. HIDE DEF where, direct
  <2>3. where \in Places
    BY <2>2, ZenonT(30) DEF Places
  <2>4. new \in Reader /\ new.pc = where
    BY <2>2, <2>3, ZenonT(30) DEF Quiet, Reader
  <2>5. PlaceFor(c, new, todo')
    BY <1>0, <2>2, <2>4, ZenonT(30) DEF PlaceFor, Fetching
  <2>. HIDE DEF new
  <2>6. ReadersInv'
    BY <1>0, <2>1, <2>4, <2>5, ReaderMoves, ZenonT(30)
  <2>. QED  BY <1>1, <2>6, ZenonT(30) DEF Ask, DataInv
<1>2. CASE WaitClient(c)
  <2>. DEFINE new == [proc[c] EXCEPT !.pc = "read"]
  <2>1. new \in Reader /\ new.pc = "read"
    BY <1>00, ZenonT(30) DEF Reader, Places
  <2>2. Moved(c, new) /\ todo' = todo
    BY <1>0, <1>2, ZenonT(30) DEF WaitClient, Moved, TypeInv, Reader
  <2>3. PlaceFor(c, new, todo')
    BY <1>0, <2>1, ZenonT(30) DEF PlaceFor, Fetching
  <2>. HIDE DEF new
  <2>4. ReadersInv'
    BY <1>0, <2>1, <2>2, <2>3, ReaderMoves, ZenonT(30)
  <2>. QED  BY <1>2, <2>4, ZenonT(30) DEF WaitClient, DataInv
<1>3. CASE Respond(c)
  <2>1. Goto(c, "ready") /\ "ready" \in Places /\ todo' = todo
    BY <1>3, ZenonT(30) DEF Respond, Places
  <2>2. ReadersInv'
    BY <1>0, <2>1, GotoMoves, ZenonT(30)
  <2>3. PICK new \in Holding : Handed(c, new)
    BY <1>0, <1>3, RespondHands, ZenonT(30)
  <2>4. held' \in [Holders -> Holding]
    BY <1>0, <2>3, HandedType, ZenonT(30)
  <2>. QED  BY <1>3, <2>2, <2>4, ZenonT(30) DEF Respond, DataInv
<1>. QED  BY <1>1, <1>2, <1>3, ZenonT(30)

LEMMA StreamTypes ==
    ASSUME ReadersInv, DataInv, NEW s \in Streams,
           \/ \E q \in Queries : Open(s, q)
           \/ WaitStream(s) \/ Send(s) \/ Close(s)
    PROVE  ReadersInv' /\ DataInv'
<1>. USE ReadsAssumption
<1>0. TypeInv /\ Lags /\ s \in Procs /\ s \in Holders /\ s # Refresher
      /\ s \notin Clients
  BY TwoParts, ZenonT(30) DEF Procs, Holders
<1>1. ASSUME NEW q \in Queries, Open(s, q)
      PROVE  ReadersInv' /\ DataInv'
  <2>1. Goto(s, "wait") /\ "wait" \in Places /\ todo' = todo
    BY <1>1, ZenonT(30) DEF Open, Places
  <2>2. ReadersInv'
    BY <1>0, <2>1, GotoMoves, ZenonT(30)
  <2>3. Fresh(q) \in Holding /\ Handed(s, Fresh(q))
    BY <1>1, ZenonT(30) DEF Open, Fresh, Holding, Handed
  <2>4. held' \in [Holders -> Holding]
    BY <1>0, <2>3, HandedType, ZenonT(30)
  <2>. QED  BY <1>1, <2>2, <2>4, ZenonT(30) DEF Open, DataInv
<1>2. CASE WaitStream(s)
  <2>1. Goto(s, "read") /\ "read" \in Places /\ todo' = todo
    BY <1>2, ZenonT(30) DEF WaitStream, Places
  <2>2. ReadersInv'
    BY <1>0, <2>1, GotoMoves, ZenonT(30)
  <2>3. PICK new \in Holding : Handed(s, new)
    BY <1>0, <1>2, WaitHands, ZenonT(30)
  <2>4. held' \in [Holders -> Holding]
    BY <1>0, <2>3, HandedType, ZenonT(30)
  <2>. QED  BY <1>2, <2>2, <2>4, ZenonT(30) DEF WaitStream, DataInv
<1>3. CASE Send(s)
  <2>1. Goto(s, "wait") /\ "wait" \in Places /\ todo' = todo
    BY <1>3, ZenonT(30) DEF Send, Places
  <2>2. ReadersInv'
    BY <1>0, <2>1, GotoMoves, ZenonT(30)
  <2>3. PICK new \in Holding : Handed(s, new)
    BY <1>0, <1>3, SendHands, ZenonT(30)
  <2>4. held' \in [Holders -> Holding]
    BY <1>0, <2>3, HandedType
  <2>. QED  BY <1>3, <2>2, <2>4, ZenonT(30) DEF Send, DataInv
<1>4. CASE Close(s)
  <2>1. Goto(s, "closed") /\ "closed" \in Places /\ todo' = todo
    BY <1>4, ZenonT(30) DEF Close, Places
  <2>2. ReadersInv'
    BY <1>0, <2>1, GotoMoves, ZenonT(30)
  <2>. QED  BY <1>4, <2>2, ZenonT(30) DEF Close, DataInv
<1>. QED  BY <1>1, <1>2, <1>3, <1>4, ZenonT(30)

(* Where a crash leaves the readers.                                       *)
AfterCrash(p) == IF p \in Clients THEN "ready"
                 ELSE IF p = Refresher THEN "idle"
                 ELSE IF proc[p].pc = "off" THEN "off" ELSE "closed"

LEMMA CrashMoves ==
    ASSUME Crash, NEW p \in Procs
    PROVE  /\ proc'[p] \in Reader /\ proc'[p].pc = AfterCrash(p)
           /\ ~proc'[p].direct
<1>1. proc'[p] = Quiet(AfterCrash(p)) /\ AfterCrash(p) \in Places
  BY ZenonT(30) DEF Crash, AfterCrash, Places
<1>. QED  BY <1>1, QuietType, ZenonT(30)

LEMMA TickMoves ==
    ASSUME TypeInv, Tick, NEW p \in Procs
    PROVE  /\ proc'[p] \in Reader /\ proc'[p].pc = proc[p].pc
           /\ proc'[p].val = proc[p].val
           /\ proc'[p].direct <=> proc[p].direct
           /\ proc[p].pc # "answered" => proc'[p].lag = proc[p].lag
           /\ proc[p].pc = "answered" => proc'[p].lag <= FetchTime
<1>. DEFINE new == [proc[p] EXCEPT !.lag = @ + 1]
<1>1. proc[p] \in Reader /\ FetchTime \in Nat
  BY ReadsAssumption, ZenonT(30) DEF TypeInv
<1>2. proc'[p] = IF proc[p].pc = "answered" THEN new ELSE proc[p]
  BY ZenonT(30) DEF Tick
<1>3. proc[p].pc = "answered" => proc[p].lag < FetchTime
  BY ZenonT(30) DEF Tick
<1>4. /\ new \in Reader /\ new.pc = proc[p].pc /\ new.val = proc[p].val
      /\ new.direct <=> proc[p].direct
      /\ new.lag = proc[p].lag + 1
  BY <1>1 DEF Reader
<1>. HIDE DEF new
<1>5. CASE proc[p].pc = "answered"
  BY <1>1, <1>2, <1>3, <1>4, <1>5 DEF Reader
<1>6. CASE proc[p].pc # "answered"
  BY <1>1, <1>2, <1>6, ZenonT(30)
<1>. QED  BY <1>5, <1>6, ZenonT(30)

LEMMA TickAges ==
    ASSUME DataInv, Tick, NEW q \in Queries
    PROVE  /\ cache'[q] \in Entry \cup {NoEntry} /\ cache'[q].val = cache[q].val
           /\ cache'[q].val # NoAnswer =>
                cache'[q].lag <= cache'[q].age + FetchTime
<1>. USE ReadsAssumption
<1>1. CASE cache[q].val = NoAnswer
  BY <1>1, ZenonT(30) DEF Tick, NoEntry
<1>2. CASE cache[q].val # NoAnswer
  <2>. DEFINE age == Min({cache[q].age + 1, MaxAge})
              lag == Min({cache[q].lag + 1, MaxAge + FetchTime})
              new == [cache[q] EXCEPT !.age = age, !.lag = lag]
  <2>1. cache[q] \in Entry /\ cache[q].lag <= cache[q].age + FetchTime
    BY <1>2 DEF DataInv, NoEntry
  <2>2. cache'[q] = [cache[q] EXCEPT !.age = Min({@ + 1, MaxAge}),
                                     !.lag = Min({@ + 1, MaxAge + FetchTime})]
    BY <1>2, ZenonT(30) DEF Tick
  <2>3. cache'[q] = new
    BY <2>1, <2>2, ZenonT(30) DEF Entry
  <2>4. cache[q].age \in Nat /\ cache[q].lag \in Nat
    BY <2>1 DEF Entry
  <2>5. /\ age = IF cache[q].age + 1 <= MaxAge THEN cache[q].age + 1 ELSE MaxAge
        /\ lag = IF cache[q].lag + 1 <= MaxAge + FetchTime
                 THEN cache[q].lag + 1 ELSE MaxAge + FetchTime
    BY <2>4, MinOfTwo
  <2>. HIDE DEF age, lag
  <2>6. /\ age \in 0 .. MaxAge /\ lag \in 0 .. MaxAge + FetchTime
        /\ lag <= age + FetchTime
    BY <2>1, <2>4, <2>5
  <2>7. new \in Entry /\ new.age = age /\ new.lag = lag /\ new.val = cache[q].val
    BY <2>1, <2>6, ZenonT(30) DEF Entry
  <2>. HIDE DEF new
  <2>. QED  BY <2>3, <2>6, <2>7, ZenonT(30)
<1>. QED  BY <1>1, <1>2, ZenonT(30)

LEMMA OtherTypes ==
    ASSUME ReadersInv, DataInv,
           \/ FlushStart \/ FlushEnd \/ Crash \/ Tick
           \/ \E q \in Queries, v \in Answers : Change(q, v)
           \/ UNCHANGED vars
    PROVE  ReadersInv' /\ DataInv'
<1>. USE ReadsAssumption
<1>0. TypeInv /\ Lags
  BY TwoParts, ZenonT(30)
<1>1. CASE FlushStart
  <2>1. flushing' \in BOOLEAN
    BY <1>1, ZenonT(30) DEF FlushStart
  <2>2. ReadersInv'
    BY <1>1, ZenonT(30) DEF FlushStart, ReadersInv, PlaceOK
  <2>. QED  BY <1>1, <2>1, <2>2, ZenonT(30) DEF FlushStart, DataInv
<1>2. CASE FlushEnd
  <2>1. flushing' \in BOOLEAN
    BY <1>2, ZenonT(30) DEF FlushEnd
  <2>2. ReadersInv'
    BY <1>2, ZenonT(30) DEF FlushEnd, ReadersInv, PlaceOK
  <2>3. saved' \in Nat
    BY <1>2, ZenonT(30) DEF FlushEnd, DataInv, atLeastOne
  <2>. QED  BY <1>2, <2>1, <2>2, <2>3, ZenonT(30) DEF FlushEnd, DataInv
<1>3. CASE Crash
  <2>1. ASSUME NEW p \in Procs
        PROVE  /\ proc'[p] \in Reader /\ PlaceOK(p)'
               /\ proc'[p].pc \notin {"answered", "notify", "got"}
    BY <1>3, CrashMoves, ZenonT(30) DEF AfterCrash, PlaceOK, Fetching
  <2>2. proc' \in [Procs -> Reader]
    BY <1>3, <2>1, ZenonT(30) DEF Crash
  <2>3. ReadersInv'
    BY <2>1, <2>2, ZenonT(30) DEF ReadersInv
  <2>4. /\ cache' \in [Queries -> Entry \cup {NoEntry}]
        /\ \A q \in Queries : cache'[q].val = NoAnswer
    BY <1>3, ZenonT(30) DEF Crash, NoEntry
  <2>5. wIndex' \in Nat /\ nameIndex' \in [Names -> 0 .. wIndex']
    BY <1>3 DEF Crash, DataInv
  <2>6. flushing' \in BOOLEAN
    BY <1>3, ZenonT(30) DEF Crash
  <2>7. /\ truth' = truth /\ saved' = saved /\ held' = held /\ todo' = {}
        /\ crashes' = crashes + 1
    BY <1>3, ZenonT(30) DEF Crash
  <2>. QED  BY <2>3, <2>4, <2>5, <2>6, <2>7 DEF DataInv
<1>4. CASE Tick
  <2>1. ASSUME NEW p \in Procs
        PROVE  /\ proc'[p] \in Reader /\ PlaceOK(p)'
               /\ proc'[p].pc \in {"answered", "notify"} => proc'[p].lag <= FetchTime
               /\ proc'[p].pc = "got" => proc'[p].lag < MaxAge + FetchTime
    <3>1. /\ proc'[p] \in Reader /\ proc'[p].pc = proc[p].pc
          /\ proc'[p].val = proc[p].val
          /\ proc'[p].direct <=> proc[p].direct
          /\ proc[p].pc # "answered" => proc'[p].lag = proc[p].lag
          /\ proc[p].pc = "answered" => proc'[p].lag <= FetchTime
      BY <1>0, <1>4, TickMoves, ZenonT(30)
    <3>2. todo' = todo
      BY <1>4, ZenonT(30) DEF Tick
    <3>3. PlaceOK(p)'
      BY <3>1, <3>2, ZenonT(30) DEF ReadersInv, PlaceOK
    <3>. QED  BY <3>1, <3>3, ZenonT(30) DEF ReadersInv
  <2>2. proc' \in [Procs -> Reader]
    BY <1>4, <2>1, ZenonT(30) DEF Tick
  <2>3. ReadersInv'
    BY <2>1, <2>2, ZenonT(30) DEF ReadersInv
  <2>4. /\ cache' \in [Queries -> Entry \cup {NoEntry}]
        /\ \A q \in Queries : cache'[q].val # NoAnswer =>
             cache'[q].lag <= cache'[q].age + FetchTime
    <3>1. cache' = [q \in Queries |-> cache'[q]]
      BY <1>4, ZenonT(30) DEF Tick
    <3>. QED  BY <1>4, <3>1, TickAges, ZenonT(30)
  <2>. QED  BY <1>4, <2>3, <2>4, ZenonT(30) DEF Tick, DataInv
<1>5. ASSUME NEW q \in Queries, NEW v \in Answers, Change(q, v)
      PROVE  ReadersInv' /\ DataInv'
  <2>1. ReadersInv'
    BY <1>5, ZenonT(30) DEF Change, ReadersInv, PlaceOK
  <2>. QED  BY <1>5, <2>1, ZenonT(30) DEF Change, DataInv
<1>6. CASE UNCHANGED vars
  BY <1>6, ZenonT(30) DEF vars, ReadersInv, DataInv, PlaceOK
<1>. QED  BY <1>1, <1>2, <1>3, <1>4, <1>5, <1>6, ZenonT(30)

LEMMA StepTypes == ReadersInv /\ DataInv /\ [Next]_vars => ReadersInv' /\ DataInv'
BY FetchTypes, RefreshTypes, ClientTypes, StreamTypes, OtherTypes, ZenonT(30) DEF Next

LEMMA AlwaysTyped == Spec => [](TypeInv /\ Lags)
BY InitTypes, StepTypes, TwoParts, PTL DEF Spec

(* The read side keeps its types.                                          *)
THEOREM TypeInvariant == Spec => []TypeOK
BY InitTypes, StepTypes, Types, PTL DEF Spec

(* A cached read is stale by less than cache_max_age plus the length of    *)
(* the fan-out, however the fan-outs of several readers overtake each      *)
(* other (LookupWithAge, fetch).                                           *)
THEOREM StalenessIsBounded == Spec => []StalenessBounded
BY InitTypes, StepTypes, Types, PTL DEF Spec
-----------------------------------------------------------------------------
(* The index a client sees.                                                *)

(* The index of a query is the same after a step that leaves the watcher.  *)
LEMMA IndexStays ==
    ASSUME wIndex' = wIndex, nameIndex' = nameIndex, NEW q
    PROVE  CurrentIndex(q)' = CurrentIndex(q)
BY ZenonT(30) DEF CurrentIndex

(* Steps that leave the clients' hands alone, and the indexes no lower.    *)
LEMMA ClientsStay ==
    ASSUME TypeInv, TypeInv', ClientsBehind, crashes' = crashes,
           \A c \in Clients :
             /\ held'[c].q = held[c].q /\ held'[c].idx = held[c].idx
             /\ held'[c].life = held[c].life
             /\ held'[c].regressed <=> held[c].regressed,
           \A q \in Queries : CurrentIndex(q) <= CurrentIndex(q)'
    PROVE  ClientsBehind'
<1>1. ASSUME NEW c \in Clients
      PROVE  /\ held'[c].life <= crashes' /\ ~held'[c].regressed
             /\ held'[c].life = crashes' =>
                  held'[c].idx <= CurrentIndex(held[c].q)'
  <2>1. held[c] \in Holding
    BY ZenonT(30) DEF TypeInv, Holders
  <2>2. PICK q \in Queries : q = held[c].q
    BY <2>1, ZenonT(30) DEF Holding
  <2>3. CurrentIndex(q) \in Nat /\ CurrentIndex(q)' \in Nat /\ held[c].idx \in Nat
    BY <2>1, IndexType, IndexTypeNext, ZenonT(30) DEF Holding
  <2>4. /\ held[c].life <= crashes /\ ~held[c].regressed
        /\ held[c].life = crashes => held[c].idx <= CurrentIndex(q)
    BY <2>2, ZenonT(30) DEF ClientsBehind
  <2>5. CurrentIndex(held[c].q)' = CurrentIndex(q)'
    BY <2>2, ZenonT(30) DEF CurrentIndex
  <2>. QED  BY <2>3, <2>4, <2>5
<1>. QED  BY <1>1, ZenonT(30) DEF ClientsBehind

LEMMA ClientsStep ==
    ASSUME TypeInv, TypeInv', ClientsBehind, [Next]_vars
    PROVE  ClientsBehind'
<1>. USE ReadsAssumption
<1>1. ASSUME wIndex' = wIndex, nameIndex' = nameIndex
      PROVE  \A q \in Queries : CurrentIndex(q) <= CurrentIndex(q)'
  BY <1>1, IndexStays, IndexType
<1>2. ASSUME held' = held, wIndex' = wIndex, nameIndex' = nameIndex,
             crashes' = crashes
      PROVE  ClientsBehind'
  BY <1>1, <1>2, ClientsStay, ZenonT(30)
<1>3. ASSUME NEW p \in Procs, NotifyNames(p)
      PROVE  ClientsBehind'
  <2>1. Query(p) \in Queries
    BY <1>3, QueryType, ZenonT(30) DEF NotifyNames, Fetching
  <2>2. \A q \in Queries : CurrentIndex(q) <= CurrentIndex(q)'
    BY <1>3, <2>1, IndexMoves, ZenonT(30)
  <2>3. held' = held /\ crashes' = crashes
    BY <1>3, ZenonT(30) DEF NotifyNames
  <2>. QED  BY <2>2, <2>3, ClientsStay, ZenonT(30)
<1>4. ASSUME NEW p \in Procs, FetchFail(p)
      PROVE  ClientsBehind'
  <2>0. wIndex' = wIndex /\ nameIndex' = nameIndex /\ crashes' = crashes
    BY <1>4, ZenonT(30) DEF FetchFail
  <2>1. CASE p = Refresher
    <3>1. held' = held
      BY <1>4, <2>1, ZenonT(30) DEF FetchFail
    <3>. QED  BY <1>2, <2>0, <3>1, ZenonT(30)
  <2>2. CASE p # Refresher
    <3>1. p \in Holders
      BY <2>2, ZenonT(30) DEF Procs, Holders
    <3>2. PICK new \in Holding :
             /\ Handed(p, new) /\ new.q = held[p].q /\ new.life = held[p].life
             /\ new.idx = held[p].idx /\ new.data = held[p].data
             /\ new.first <=> held[p].first
             /\ new.regressed <=> held[p].regressed
             /\ p \in Streams => new.missed
      BY <1>4, <3>1, FailHands, ZenonT(30)
    <3>3. /\ held'[p] = new
          /\ \A r \in Holders \ {p} : held'[r] = held[r]
      BY <3>1, <3>2, HandedType, ZenonT(30)
    <3>4. ASSUME NEW c \in Clients
          PROVE  /\ held'[c].q = held[c].q /\ held'[c].idx = held[c].idx
                 /\ held'[c].life = held[c].life
                 /\ held'[c].regressed <=> held[c].regressed
      <4>1. CASE c = p
        BY <3>2, <3>3, <4>1, ZenonT(30)
      <4>2. CASE c # p
        BY <3>3, <4>2, ZenonT(30) DEF Holders
      <4>. QED  BY <4>1, <4>2, ZenonT(30)
    <3>. QED  BY <1>1, <2>0, <3>4, ClientsStay, ZenonT(30)
  <2>. QED  BY <2>1, <2>2, ZenonT(30)
<1>5. ASSUME NEW c \in Clients, Respond(c)
      PROVE  ClientsBehind'
  <2>1. PICK new \in Holding :
             /\ Handed(c, new) /\ new.q = held[c].q /\ new.life = crashes
             /\ new.idx = CurrentIndex(held[c].q)
             /\ new.regressed <=> held[c].regressed \/
                   (CurrentIndex(held[c].q) < held[c].idx /\ held[c].life = crashes)
    BY <1>5, RespondHands, ZenonT(30)
  <2>2. c \in Holders /\ held[c] \in Holding
    BY ZenonT(30) DEF Holders, TypeInv
  <2>3. /\ held'[c] = new
        /\ \A r \in Holders \ {c} : held'[r] = held[r]
    BY <2>1, <2>2, HandedType, ZenonT(30)
  <2>4. wIndex' = wIndex /\ nameIndex' = nameIndex /\ crashes' = crashes
    BY <1>5, ZenonT(30) DEF Respond
  <2>5. ASSUME NEW b \in Clients
        PROVE  /\ held'[b].life <= crashes' /\ ~held'[b].regressed
               /\ held'[b].life = crashes' =>
                    held'[b].idx <= CurrentIndex(held[b].q)'
    <3>1. CASE b = c
      <4>1. CurrentIndex(held[c].q) \in Nat /\ held[c].idx \in Nat /\ crashes \in Nat
        BY <2>2, IndexType, ZenonT(30) DEF Holding, TypeInv
      <4>2. CurrentIndex(held[c].q)' = CurrentIndex(held[c].q)
        BY <2>1, <2>3, <2>4, ZenonT(30) DEF CurrentIndex
      <4>3. ~held[c].regressed
            /\ (held[c].life = crashes => held[c].idx <= CurrentIndex(held[c].q))
        BY ZenonT(30) DEF ClientsBehind
      <4>4. ~new.regressed
        BY <2>1, <4>1, <4>3
      <4>. QED  BY <2>1, <2>3, <2>4, <3>1, <4>1, <4>2, <4>4
    <3>2. CASE b # c
      <4>1. held'[b] = held[b]
        BY <2>3, <3>2, ZenonT(30) DEF Holders
      <4>2. CurrentIndex(held[b].q)' = CurrentIndex(held[b].q)
        BY <2>4, <4>1, ZenonT(30) DEF CurrentIndex
      <4>. QED  BY <2>4, <4>1, <4>2, ZenonT(30) DEF ClientsBehind
    <3>. QED  BY <3>1, <3>2, ZenonT(30)
  <2>. QED  BY <2>5, ZenonT(30) DEF ClientsBehind
<1>6. ASSUME NEW s \in Streams, NEW new, Handed(s, new),
             wIndex' = wIndex, nameIndex' = nameIndex, crashes' = crashes
      PROVE  ClientsBehind'
  <2>1. \A c \in Clients : held'[c] = held[c]
    BY <1>6, ZenonT(30) DEF Handed, TypeInv, Holders
  <2>. QED  BY <1>1, <1>6, <2>1, ClientsStay, ZenonT(30)
<1>7. CASE Crash
  <2>1. /\ held' = held /\ crashes' = crashes + 1
        /\ \A c \in Clients : held[c].life <= crashes /\ ~held[c].regressed
    BY <1>7, ZenonT(30) DEF Crash, ClientsBehind
  <2>2. \A c \in Clients : held[c].life \in Nat
    BY ZenonT(30) DEF TypeInv, Holders, Holding
  <2>3. \A c \in Clients : held'[c].life <= crashes' /\ held'[c].life # crashes'
    <3>1. crashes \in Nat
      BY ZenonT(30) DEF TypeInv
    <3>2. ASSUME NEW c \in Clients
          PROVE  held[c].life <= crashes + 1 /\ held[c].life # crashes + 1
      BY <2>1, <2>2, <3>1
    <3>. QED  BY <2>1, <3>2, ZenonT(30)
  <2>. QED  BY <2>1, <2>3, ZenonT(30) DEF ClientsBehind
<1>8. ASSUME NEW s \in Streams, NEW q \in Queries, Open(s, q)
      PROVE  ClientsBehind'
  BY <1>6, <1>8, ZenonT(30) DEF Open, Handed
<1>9. ASSUME NEW s \in Streams, WaitStream(s) \/ Send(s)
      PROVE  ClientsBehind'
  BY <1>6, <1>9, WaitHands, SendHands, ZenonT(30) DEF WaitStream, Send
<1>10. CASE UNCHANGED vars
  BY <1>2, <1>10, ZenonT(30) DEF vars
<1>. QED
  BY <1>2, <1>3, <1>4, <1>5, <1>7, <1>8, <1>9, <1>10, ZenonT(30)
  DEF Next, FetchAnswer, FetchStore, ReadCached, FetchStart, Refresh,
      RefreshNext, Ask, WaitClient, Close, FlushStart, FlushEnd, Tick, Change

(* The index a Consul client sees never goes back while the agent lives,   *)
(* for any number of names that get their own key (NotifyNames,            *)
(* currentIndexLocked).                                                    *)
THEOREM IndexNeverBack == Spec => []ClientIndexMonotone
<1>1. Init => ClientsBehind
  <2>. SUFFICES ASSUME Init, NEW c \in Clients
                PROVE  /\ held[c].life <= crashes /\ ~held[c].regressed
                       /\ held[c].life = crashes =>
                            held[c].idx <= CurrentIndex(held[c].q)
    BY ZenonT(30) DEF ClientsBehind
  <2>1. PICK q \in Queries : held[c] = Fresh(q)
    BY ZenonT(30) DEF Init, Holders
  <2>2. held[c].life = 0 /\ ~held[c].regressed /\ held[c].idx = 0 /\ held[c].q = q
    BY <2>1 DEF Fresh
  <2>3. CurrentIndex(q) \in Nat
    BY InitTypes, TwoParts, IndexType, ZenonT(30)
  <2>. QED  BY <2>2, <2>3 DEF Init
<1>2. ClientsBehind => ClientIndexMonotone
  BY ZenonT(30) DEF ClientsBehind, ClientIndexMonotone
<1>3. TypeInv /\ TypeInv' /\ ClientsBehind /\ [Next]_vars => ClientsBehind'
  BY ClientsStep, ZenonT(30)
<1>. QED  BY AlwaysTyped, <1>1, <1>2, <1>3, PTL DEF Spec
-----------------------------------------------------------------------------
(* The streams.                                                            *)

(* A change of the answer is one `changed' sees, or one of the rest only.  *)
LEMMA ChangedIsKey ==
    ASSUME NEW prev \in Answers \cup {NoAnswer}, NEW cur \in Answers
    PROVE  changed(prev, cur) <=> key(prev) # key(cur)
BY ReadsAssumption, ZenonT(30) DEF changed, key

(* A reader that moves, and is not about to announce a change, announces   *)
(* none: what was not announced before still is not.                       *)
LEMMA AnnouncedStays ==
    ASSUME TypeInv, NEW p \in Procs, NEW new \in Reader, Moved(p, new),
           proc[p].pc # "notify", todo' = todo \/ p = Refresher,
           \A r \in Holders \ {p} : held'[r] = held[r],
           NEW q
    PROVE  Announced(q)' => Announced(q)
<1>1. \A r \in Procs \ {p} : proc'[r] = proc[r]
  BY OthersStay, ZenonT(30)
<1>2. ASSUME NEW r \in Procs, proc[r].pc = "notify", Announced(q)'
      PROVE  Query(r).name # q.name
  <2>1. r # p /\ proc'[r].pc = "notify"
    BY <1>1, <1>2, ZenonT(30)
  <2>2. Query(r)' = Query(r)
    <3>1. CASE r = Refresher
      BY <2>1, <3>1 DEF Query
    <3>2. CASE r # Refresher
      BY <2>1, <3>2, ZenonT(30) DEF Query, Procs, Holders
    <3>. QED  BY <3>1, <3>2, ZenonT(30)
  <2>. QED  BY <1>2, <2>1, <2>2, ZenonT(30) DEF Announced
<1>. QED  BY <1>2, ZenonT(30) DEF Announced

(* A stream that does not move stays current when no index goes back and,  *)
(* if it is still up to date, it was before and its answer has the same    *)
(* key.                                                                    *)
LEMMA KeepsCurrent ==
    ASSUME TypeInv, TypeInv', NEW s \in Streams, StreamOK(s),
           proc'[s].pc = proc[s].pc, proc'[s].val = proc[s].val,
           held'[s] = held[s],
           \A q \in Queries : CurrentIndex(q) <= CurrentIndex(q)',
           \A q \in Queries :
             /\ q = held[s].q /\ q.name \in Names /\ held[s].idx > 1
             /\ held[s].idx <= CurrentIndex(q) /\ held[s].idx = CurrentIndex(q)'
             /\ Announced(q)'
             => /\ held[s].idx = CurrentIndex(q) /\ Announced(q)
                /\ key(cache'[q].val) = key(cache[q].val)
    PROVE  StreamOK(s)'
<1>1. held[s] \in Holding
  BY ZenonT(30) DEF TypeInv, Holders
<1>2. PICK q \in Queries : q = held[s].q
  BY <1>1, ZenonT(30) DEF Holding
<1>3. CurrentIndex(q) \in Nat /\ CurrentIndex(q)' \in Nat /\ held[s].idx \in Nat
  BY <1>1, IndexType, IndexTypeNext, ZenonT(30) DEF Holding
<1>4. /\ CurrentIndex(held[s].q)' = CurrentIndex(q)'
      /\ Announced(held[s].q)' = Announced(q)'
  BY <1>2, ZenonT(30) DEF CurrentIndex, Announced
<1>5. ASSUME proc[s].pc \notin {"off", "closed"}
      PROVE  StreamCurrent(s)'
  <2>1. StreamCurrent(s)
    BY <1>5, ZenonT(30) DEF StreamOK
  <2>2. q.name \in Names /\ held[s].idx <= CurrentIndex(q)
    BY <1>2, <2>1, ZenonT(30) DEF StreamCurrent
  <2>3. held'[s].q.name \in Names /\ held'[s].idx <= CurrentIndex(held[s].q)'
    <3>1. CurrentIndex(q) <= CurrentIndex(q)'
      BY ZenonT(30)
    <3>2. held[s].idx <= CurrentIndex(q)'
      BY <1>3, <2>2, <3>1
    <3>. QED  BY <1>2, <1>4, <2>2, <3>2, ZenonT(30)
  <2>4. ASSUME UpToDate(s)'
        PROVE  UpToDate(s) /\ key(cache'[q].val) = key(cache[q].val)
    <3>1. held[s].idx > 1 /\ held[s].idx = CurrentIndex(q)' /\ Announced(q)'
      BY <1>4, <2>4, ZenonT(30) DEF UpToDate
    <3>2. /\ held[s].idx = CurrentIndex(q) /\ Announced(q)
          /\ key(cache'[q].val) = key(cache[q].val)
      BY <1>2, <2>2, <3>1, ZenonT(30)
    <3>. QED  BY <1>2, <3>1, <3>2, ZenonT(30) DEF UpToDate
  <2>5. ASSUME UpToDate(s)'
        PROVE  /\ proc'[s].pc = "got" => key(proc'[s].val) = key(cache'[held'[s].q].val)
               /\ proc'[s].pc = "wait" /\ ~held'[s].first /\ ~held'[s].missed =>
                    key(held'[s].data) = key(cache'[held'[s].q].val)
    <3>1. UpToDate(s) /\ key(cache'[q].val) = key(cache[q].val)
      BY <2>4, <2>5, ZenonT(30)
    <3>2. /\ proc[s].pc = "got" => key(proc[s].val) = key(cache[q].val)
          /\ proc[s].pc = "wait" /\ ~held[s].first /\ ~held[s].missed =>
               key(held[s].data) = key(cache[q].val)
      BY <1>2, <2>1, <3>1, ZenonT(30) DEF StreamCurrent
    <3>. QED  BY <1>2, <3>1, <3>2, ZenonT(30)
  <2>. QED  BY <2>3, <2>5, ZenonT(30) DEF StreamCurrent
<1>. QED  BY <1>5, ZenonT(30) DEF StreamOK

(* Another reader's step that touches neither the cache nor the watcher.   *)
LEMMA OtherReader ==
    ASSUME TypeInv, TypeInv', NEW p \in Procs, NEW new \in Reader, Moved(p, new),
           proc[p].pc # "notify", todo' = todo \/ p = Refresher,
           \A r \in Holders \ {p} : held'[r] = held[r],
           cache' = cache, wIndex' = wIndex, nameIndex' = nameIndex,
           NEW s \in Streams \ {p}, StreamOK(s)
    PROVE  StreamOK(s)'
<1>1. s \in Procs /\ s \in Holders
  BY ZenonT(30) DEF Procs, Holders
<1>2. proc'[s] = proc[s] /\ held'[s] = held[s]
  BY <1>1, OthersStay, ZenonT(30)
<1>3. \A q \in Queries : CurrentIndex(q) <= CurrentIndex(q)'
  BY IndexStays, IndexType
<1>4. \A q \in Queries : Announced(q)' => Announced(q)
  BY AnnouncedStays, ZenonT(30)
<1>5. \A q \in Queries : CurrentIndex(q)' = CurrentIndex(q)
  BY IndexStays, ZenonT(30)
<1>. QED  BY <1>2, <1>3, <1>4, <1>5, KeepsCurrent, ZenonT(30)

(* The store of an answer: a stream that it concerns finds it unannounced, *)
(* or with the key it knows.                                               *)
LEMMA StoreStep ==
    ASSUME TypeInv, TypeInv', StreamsInv, NEW p \in Procs, FetchStore(p)
    PROVE  StreamsInv'
<1>. DEFINE news == ~proc[p].direct /\ changed(cache[Query(p)].val, proc[p].val)
<1>1. PICK new \in Reader :
             /\ Moved(p, new) /\ new.pc = IF news THEN "notify" ELSE "got"
             /\ new.lag = proc[p].lag /\ new.val = proc[p].val
             /\ new.direct <=> proc[p].direct
  BY FetchStoreMoves, ZenonT(30)
<1>2. /\ proc[p].pc = "answered" /\ todo' = todo /\ held' = held
      /\ wIndex' = wIndex /\ nameIndex' = nameIndex
  BY ZenonT(30) DEF FetchStore
<1>3. proc'[p] = new /\ \A r \in Procs \ {p} : proc'[r] = proc[r]
  BY <1>1, OthersStay, ZenonT(30)
<1>4. Query(p) \in Queries /\ Query(p)' = Query(p)
  BY <1>2, QueryType DEF Fetching, Query
<1>5. proc[p].val \in Answers /\ cache[Query(p)].val \in Answers \cup {NoAnswer}
  <2>1. PlaceOK(p) /\ cache[Query(p)] \in Entry \cup {NoEntry}
    BY <1>4, ZenonT(30) DEF TypeInv
  <2>2. proc[p].val \in Answers
    BY <1>2, <2>1, ZenonT(30) DEF PlaceOK
  <2>. QED  BY <2>1, <2>2 DEF Entry, NoEntry
<1>6. \A q \in Queries : q # Query(p) => cache'[q] = cache[q]
  BY <1>4, ZenonT(30) DEF FetchStore, TypeInv
<1>7. proc[p].direct => cache' = cache
  BY ZenonT(30) DEF FetchStore
<1>8. ~proc[p].direct => cache'[Query(p)].val = proc[p].val
  <2>. DEFINE entry == [val |-> proc[p].val, age |-> 0, lag |-> proc[p].lag]
  <2>1. SUFFICES ASSUME ~proc[p].direct PROVE cache'[Query(p)].val = proc[p].val
    BY ZenonT(30)
  <2>2. cache' = [cache EXCEPT ![Query(p)] = entry]
    BY <2>1, ZenonT(30) DEF FetchStore
  <2>. QED  BY <1>4, <2>2, ZenonT(30) DEF TypeInv
<1>9. ~news => key(cache'[Query(p)].val) = key(cache[Query(p)].val)
  BY <1>5, <1>7, <1>8, ChangedIsKey, ZenonT(30)
<1>. HIDE DEF news
<1>10. \A q \in Queries : /\ CurrentIndex(q)' = CurrentIndex(q)
                          /\ CurrentIndex(q) <= CurrentIndex(q)'
                          /\ Announced(q)' => Announced(q)
  <2>1. \A q \in Queries : Announced(q)' => Announced(q)
    BY <1>1, <1>2, AnnouncedStays, ZenonT(30)
  <2>2. ASSUME NEW q \in Queries
        PROVE  CurrentIndex(q)' = CurrentIndex(q) /\ CurrentIndex(q) \in Nat
    BY <1>2, IndexStays, IndexType, ZenonT(30)
  <2>. QED  BY <2>1, <2>2
<1>11. ASSUME NEW s \in Streams \ {p}
       PROVE  StreamOK(s)'
  <2>1. StreamOK(s) /\ proc'[s] = proc[s] /\ held'[s] = held[s]
    BY <1>2, <1>3, ZenonT(30) DEF StreamsInv, Procs
  <2>2. ASSUME NEW q \in Queries, Announced(q)'
        PROVE  key(cache'[q].val) = key(cache[q].val)
    <3>1. CASE q = Query(p) /\ news
      <4>1. proc'[p].pc = "notify"
        BY <1>1, <1>3, <3>1, ZenonT(30)
      <4>. QED  BY <1>4, <2>2, <3>1, <4>1, ZenonT(30) DEF Announced
    <3>2. CASE q = Query(p) /\ ~news
      BY <1>9, <3>2, ZenonT(30)
    <3>3. CASE q # Query(p)
      BY <1>6, <3>3, ZenonT(30)
    <3>. QED  BY <3>1, <3>2, <3>3, ZenonT(30)
  <2>. QED  BY <1>10, <2>1, <2>2, KeepsCurrent, ZenonT(30)
<1>12. ASSUME p \in Streams
       PROVE  StreamOK(p)'
  <2>1. StreamOK(p) /\ p \in Holders /\ ~proc[p].direct /\ p # Refresher
    BY <1>12, ReadsAssumption, ZenonT(30) DEF StreamsInv, TypeInv, PlaceOK, Holders
  <2>2. Query(p) = held[p].q
    BY <2>1, ZenonT(30) DEF Query
  <2>3. held[p].q.name \in Names /\ held[p].idx <= CurrentIndex(held[p].q)
    BY <1>2, <2>1, ZenonT(30) DEF StreamOK, StreamCurrent
  <2>4. CurrentIndex(held[p].q)' = CurrentIndex(held[p].q)
    BY <1>2, ZenonT(30) DEF CurrentIndex
  <2>5. proc'[p].pc \in {"notify", "got"} /\ proc'[p].val = proc[p].val
    BY <1>1, <1>3, ZenonT(30)
  <2>6. key(proc'[p].val) = key(cache'[held'[p].q].val)
    BY <1>2, <1>8, <2>1, <2>2, <2>5, ZenonT(30)
  <2>7. StreamCurrent(p)'
    BY <1>2, <2>3, <2>4, <2>5, <2>6, ZenonT(30) DEF StreamCurrent
  <2>. QED  BY <1>2, <2>1, <2>7, ZenonT(30) DEF StreamOK
<1>. QED  BY <1>11, <1>12, ZenonT(30) DEF StreamsInv

(* The announcement: the index of every stream on that name moves on.      *)
LEMMA NotifyStep ==
    ASSUME TypeInv, TypeInv', StreamsInv, NEW p \in Procs, NotifyNames(p)
    PROVE  StreamsInv'
<1>1. PICK new \in Reader :
             /\ Moved(p, new) /\ new.pc = "got" /\ new.lag = proc[p].lag
             /\ new.val = proc[p].val
             /\ new.direct <=> proc[p].direct
  BY NotifyMoves, ZenonT(30)
<1>2. /\ proc[p].pc = "notify" /\ todo' = todo /\ held' = held /\ cache' = cache
  BY ZenonT(30) DEF NotifyNames
<1>3. proc'[p] = new /\ \A r \in Procs \ {p} : proc'[r] = proc[r]
  BY <1>1, OthersStay, ZenonT(30)
<1>4. Query(p) \in Queries
  BY <1>2, QueryType, ZenonT(30) DEF Fetching
<1>5. \A q \in Queries :
           /\ CurrentIndex(q) <= CurrentIndex(q)'
           /\ q.name \in Names /\ q.name = Query(p).name =>
                CurrentIndex(q)' = wIndex + 1
           /\ q.name \in Names /\ q.name # Query(p).name =>
                CurrentIndex(q)' = CurrentIndex(q) \/ CurrentIndex(q)' = wIndex + 1
  BY <1>4, IndexMoves, ZenonT(30)
<1>6. ASSUME NEW q \in Queries, NEW i \in Nat, i > 1, i <= CurrentIndex(q)
      PROVE  i < wIndex + 1
  BY <1>6 DEF CurrentIndex, currentIndexLocked, atLeastOne, TypeInv
<1>7. ASSUME NEW s \in Streams \ {p}
      PROVE  StreamOK(s)'
  <2>1. StreamOK(s) /\ proc'[s] = proc[s] /\ held'[s] = held[s]
    BY <1>2, <1>3, ZenonT(30) DEF StreamsInv, Procs
  <2>2. held[s].idx \in Nat
    BY ZenonT(30) DEF TypeInv, Holders, Holding
  <2>3. ASSUME NEW q \in Queries, q.name \in Names, held[s].idx > 1,
               held[s].idx <= CurrentIndex(q), held[s].idx = CurrentIndex(q)',
               Announced(q)'
        PROVE  held[s].idx = CurrentIndex(q) /\ Announced(q)
    <3>1. held[s].idx # wIndex + 1
      <4>1. held[s].idx < wIndex + 1
        BY <1>6, <2>2, <2>3, ZenonT(30)
      <4>. QED  BY <2>2, <4>1 DEF TypeInv
    <3>2. q.name # Query(p).name /\ held[s].idx = CurrentIndex(q)
      BY <1>5, <2>3, <3>1, ZenonT(30)
    <3>3. ASSUME NEW r \in Procs, proc[r].pc = "notify"
          PROVE  Query(r).name # q.name
      <4>1. CASE r = p
        BY <3>2, <4>1, ZenonT(30)
      <4>2. CASE r # p
        <5>1. proc'[r].pc = "notify" /\ Query(r)' = Query(r)
          BY <1>2, <1>3, <3>3, <4>2 DEF Query
        <5>. QED  BY <2>3, <5>1, ZenonT(30) DEF Announced
      <4>. QED  BY <4>1, <4>2, ZenonT(30)
    <3>. QED  BY <3>2, <3>3, ZenonT(30) DEF Announced
  <2>. QED  BY <1>2, <1>5, <2>1, <2>3, KeepsCurrent, ZenonT(30)
<1>8. ASSUME p \in Streams
      PROVE  StreamOK(p)'
  <2>1. StreamOK(p) /\ held[p] \in Holding /\ p # Refresher
    BY <1>8, ReadsAssumption, ZenonT(30) DEF StreamsInv, TypeInv, Holders
  <2>2. PICK q \in Queries : q = held[p].q
    BY <2>1, ZenonT(30) DEF Holding
  <2>3. q.name \in Names /\ held[p].idx <= CurrentIndex(q) /\ held[p].idx \in Nat
    BY <1>2, <2>1, <2>2, ZenonT(30) DEF StreamOK, StreamCurrent, Holding
  <2>4. Query(p) = q
    BY <2>1, <2>2, ZenonT(30) DEF Query
  <2>5. CurrentIndex(q)' = wIndex + 1 /\ CurrentIndex(q) <= CurrentIndex(q)'
    BY <1>5, <2>3, <2>4, ZenonT(30)
  <2>6. CurrentIndex(held[p].q)' = CurrentIndex(q)' /\ CurrentIndex(q) \in Nat
    BY <1>2, <2>2, IndexType, ZenonT(30) DEF CurrentIndex
  <2>7. held'[p].idx <= CurrentIndex(held[p].q)'
    BY <1>2, <2>3, <2>5, <2>6 DEF TypeInv
  <2>8. ~UpToDate(p)'
    <3>1. held[p].idx > 1 => held[p].idx < wIndex + 1
      BY <1>6, <2>3, ZenonT(30)
    <3>2. held[p].idx > 1 => held[p].idx # wIndex + 1
      BY <2>3, <3>1 DEF TypeInv
    <3>. QED  BY <1>2, <2>5, <2>6, <3>2, ZenonT(30) DEF UpToDate
  <2>9. StreamCurrent(p)'
    BY <1>2, <2>2, <2>3, <2>7, <2>8, ZenonT(30) DEF StreamCurrent
  <2>. QED  BY <1>2, <2>1, <2>9, ZenonT(30) DEF StreamOK
<1>. QED  BY <1>7, <1>8 DEF StreamsInv

(* The steps up to the fan-out and back, and those of the refresh loop.    *)
LEMMA ReadStep ==
    ASSUME TypeInv, TypeInv', StreamsInv, NEW p \in Procs,
           FetchAnswer(p) \/ ReadCached(p) \/ FetchStart(p)
    PROVE  StreamsInv'
<1>1. PICK new \in Reader :
        /\ Moved(p, new) /\ new.pc \in {"answered", "got", "fetch"}
        /\ new.pc = "got" => new.val = cache[Query(p)].val
  <2>1. CASE FetchAnswer(p)
    BY <2>1, FetchAnswerMoves, ZenonT(30)
  <2>2. CASE ReadCached(p)
    BY <2>2, ReadCachedMoves, ZenonT(30)
  <2>3. CASE FetchStart(p)
    BY <2>3, FetchStartMoves, ZenonT(30)
  <2>. QED  BY <2>1, <2>2, <2>3, ZenonT(30)
<1>2. /\ proc[p].pc \in {"fetch", "read"} /\ todo' = todo /\ held' = held
      /\ cache' = cache /\ wIndex' = wIndex /\ nameIndex' = nameIndex
  BY ZenonT(30) DEF FetchAnswer, ReadCached, FetchStart
<1>3. ASSUME NEW s \in Streams \ {p}
      PROVE  StreamOK(s)'
  <2>1. StreamOK(s)
    BY ZenonT(30) DEF StreamsInv
  <2>. QED  BY <1>1, <1>2, <2>1, OtherReader, ZenonT(30)
<1>4. ASSUME p \in Streams
      PROVE  StreamOK(p)'
  <2>1. StreamOK(p) /\ p # Refresher
    BY <1>4, ReadsAssumption, ZenonT(30) DEF StreamsInv
  <2>2. StreamCurrent(p)
    BY <1>2, <2>1, ZenonT(30) DEF StreamOK
  <2>3. Query(p) = held[p].q
    BY <2>1, ZenonT(30) DEF Query
  <2>4. proc'[p] = new
    BY <1>1, OthersStay, ZenonT(30)
  <2>5. CurrentIndex(held[p].q)' = CurrentIndex(held[p].q)
    BY <1>2, ZenonT(30) DEF CurrentIndex
  <2>6. StreamCurrent(p)'
    BY <1>1, <1>2, <2>2, <2>3, <2>4, <2>5, ZenonT(30) DEF StreamCurrent
  <2>. QED  BY <1>2, <2>1, <2>6, ZenonT(30) DEF StreamOK
<1>. QED  BY <1>3, <1>4, ZenonT(30) DEF StreamsInv

(* A step of a reader that is no stream.                                   *)
LEMMA OthersStep ==
    ASSUME TypeInv, TypeInv', StreamsInv, NEW p \in Procs \ Streams,
           NEW new \in Reader, Moved(p, new), proc[p].pc # "notify",
           todo' = todo \/ p = Refresher,
           \A r \in Holders \ {p} : held'[r] = held[r],
           cache' = cache, wIndex' = wIndex, nameIndex' = nameIndex
    PROVE  StreamsInv'
<1>1. ASSUME NEW s \in Streams
      PROVE  StreamOK(s)'
  <2>1. s \in Streams \ {p} /\ StreamOK(s)
    BY ZenonT(30) DEF StreamsInv
  <2>. QED  BY <2>1, OtherReader, ZenonT(30)
<1>. QED  BY <1>1, ZenonT(30) DEF StreamsInv

(* A step of the stream p, given that it leaves p in order.                *)
LEMMA OwnStep ==
    ASSUME TypeInv, TypeInv', StreamsInv, NEW p \in Streams, NEW where \in Places,
           Goto(p, where), proc[p].pc # "notify", todo' = todo,
           \A r \in Holders \ {p} : held'[r] = held[r],
           cache' = cache, wIndex' = wIndex, nameIndex' = nameIndex,
           StreamOK(p)'
    PROVE  StreamsInv'
<1>1. p \in Procs /\ Quiet(where) \in Reader /\ Moved(p, Quiet(where))
  BY QuietType, ZenonT(30) DEF Procs, Goto, Moved
<1>2. ASSUME NEW s \in Streams \ {p}
      PROVE  StreamOK(s)'
  <2>1. StreamOK(s)
    BY ZenonT(30) DEF StreamsInv
  <2>. QED  BY <1>1, <2>1, OtherReader, ZenonT(30)
<1>. QED  BY <1>2, ZenonT(30) DEF StreamsInv

LEMMA GotoPlace ==
    ASSUME TypeInv, NEW p \in Procs, NEW where \in Places, Goto(p, where)
    PROVE  proc'[p].pc = where
BY QuietType, ZenonT(30) DEF TypeInv, Goto

LEMMA RefreshStep ==
    ASSUME TypeInv, TypeInv', StreamsInv, Refresh \/ RefreshNext
    PROVE  StreamsInv'
<1>1. Refresher \in Procs \ Streams
  BY ReadsAssumption, ZenonT(30) DEF Procs
<1>2. PICK where \in Places : Goto(Refresher, where)
  BY ZenonT(30) DEF Refresh, RefreshNext, Places, Fetching
<1>3. Quiet(where) \in Reader /\ Moved(Refresher, Quiet(where))
  BY <1>2, QuietType, ZenonT(30) DEF Goto, Moved
<1>4. /\ proc[Refresher].pc # "notify" /\ held' = held /\ cache' = cache
      /\ wIndex' = wIndex /\ nameIndex' = nameIndex
  BY ZenonT(30) DEF Refresh, RefreshNext
<1>. QED  BY <1>1, <1>3, <1>4, OthersStep, ZenonT(30)

LEMMA FailStep ==
    ASSUME TypeInv, TypeInv', StreamsInv, NEW p \in Procs, FetchFail(p)
    PROVE  StreamsInv'
<1>. USE ReadsAssumption
<1>1. PICK where \in {"next", "ready", "closed", "wait"} : Goto(p, where)
  BY ZenonT(30) DEF FetchFail
<1>2. where \in Places
  BY <1>1, ZenonT(30) DEF Places
<1>3. Quiet(where) \in Reader /\ Moved(p, Quiet(where))
  BY <1>1, <1>2, QuietType, ZenonT(30) DEF Goto, Moved
<1>4. /\ proc[p].pc = "fetch" /\ cache' = cache /\ wIndex' = wIndex
      /\ nameIndex' = nameIndex
  BY ZenonT(30) DEF FetchFail
<1>5. CASE p = Refresher
  <2>1. held' = held /\ p \notin Streams
    BY <1>5, ZenonT(30) DEF FetchFail
  <2>. QED  BY <1>3, <1>4, <1>5, <2>1, OthersStep, ZenonT(30)
<1>6. CASE p # Refresher
  <2>1. p \in Holders /\ todo' = todo
    BY <1>6, ZenonT(30) DEF Procs, Holders, FetchFail
  <2>2. PICK new \in Holding :
             /\ Handed(p, new) /\ new.q = held[p].q /\ new.life = held[p].life
             /\ new.idx = held[p].idx /\ new.data = held[p].data
             /\ new.first <=> held[p].first
             /\ new.regressed <=> held[p].regressed
             /\ p \in Streams => new.missed
    BY <2>1, FailHands, ZenonT(30)
  <2>3. /\ held'[p] = new
        /\ \A r \in Holders \ {p} : held'[r] = held[r]
    BY <2>1, <2>2, HandedType, ZenonT(30)
  <2>4. CASE p \notin Streams
    BY <1>3, <1>4, <2>1, <2>3, <2>4, OthersStep, ZenonT(30)
  <2>5. CASE p \in Streams
    <3>1. StreamOK(p) /\ StreamCurrent(p)
      BY <1>4, <2>5, ZenonT(30) DEF StreamsInv, StreamOK
    <3>2. CurrentIndex(held[p].q)' = CurrentIndex(held[p].q)
      BY <1>4, <2>2, <2>3, ZenonT(30) DEF CurrentIndex
    <3>3. proc'[p].pc = where
      BY <1>1, <1>2, GotoPlace, ZenonT(30)
    <3>4. StreamCurrent(p)'
      BY <1>1, <2>2, <2>3, <2>5, <3>1, <3>2, <3>3, ZenonT(30) DEF StreamCurrent
    <3>5. StreamOK(p)'
      BY <2>2, <2>3, <3>1, <3>4, ZenonT(30) DEF StreamOK
    <3>. QED  BY <1>1, <1>2, <1>4, <2>1, <2>3, <2>5, <3>5, OwnStep, ZenonT(30)
  <2>. QED  BY <2>4, <2>5, ZenonT(30)
<1>. QED  BY <1>5, <1>6, ZenonT(30)

LEMMA ClientStep ==
    ASSUME TypeInv, TypeInv', StreamsInv, NEW c \in Clients,
           (\E mode \in Consistency : Ask(c, mode)) \/ WaitClient(c) \/ Respond(c)
    PROVE  StreamsInv'
<1>1. c \in Procs \ Streams /\ c \in Holders
  BY ReadsAssumption, ZenonT(30) DEF Procs, Holders
<1>2. proc' \in [Procs -> Reader]
  BY ZenonT(30) DEF TypeInv
<1>3. Moved(c, proc'[c]) /\ proc'[c] \in Reader
  BY <1>1, <1>2, ZenonT(30) DEF Ask, WaitClient, Respond, Goto, Moved, TypeInv
<1>4. \A r \in Holders \ {c} : held'[r] = held[r]
  <2>1. CASE Respond(c)
    BY <1>1, <2>1, RespondHands, HandedType, ZenonT(30)
  <2>2. CASE ~Respond(c)
    BY <2>2, ZenonT(30) DEF Ask, WaitClient
  <2>. QED  BY <2>1, <2>2, ZenonT(30)
<1>5. /\ proc[c].pc # "notify" /\ todo' = todo /\ cache' = cache
      /\ wIndex' = wIndex /\ nameIndex' = nameIndex
  BY ZenonT(30) DEF Ask, WaitClient, Respond
<1>. QED  BY <1>1, <1>3, <1>4, <1>5, OthersStep, ZenonT(30)

LEMMA StreamStep ==
    ASSUME TypeInv, TypeInv', StreamsInv, NEW s \in Streams,
           \/ \E q \in Queries : Open(s, q)
           \/ WaitStream(s) \/ Send(s) \/ Close(s)
    PROVE  StreamsInv'
<1>0. s \in Procs /\ s \in Holders /\ held[s] \in Holding /\ StreamOK(s)
  BY ZenonT(30) DEF Procs, Holders, TypeInv, StreamsInv
<1>1. ASSUME NEW q \in Queries, Open(s, q)
      PROVE  StreamsInv'
  <2>1. Goto(s, "wait") /\ "wait" \in Places /\ proc[s].pc = "off"
    BY <1>1, ZenonT(30) DEF Open, Places
  <2>2. Fresh(q) \in Holding /\ Handed(s, Fresh(q))
    BY <1>1, ZenonT(30) DEF Open, Fresh, Holding, Handed
  <2>3. held'[s] = Fresh(q) /\ \A r \in Holders \ {s} : held'[r] = held[r]
    BY <1>0, <2>2, HandedType, ZenonT(30)
  <2>4. q.name \in Names
    BY <1>1, ReadsAssumption, ZenonT(30) DEF Open
  <2>5. /\ held'[s].q = q /\ held'[s].idx = 0 /\ held'[s].first
    <3>1. Fresh(q).q = q /\ Fresh(q).idx = 0 /\ Fresh(q).first
      BY ZenonT(30) DEF Fresh
    <3>. QED  BY <2>3, <3>1, ZenonT(30)
  <2>6. CurrentIndex(held[s].q)' \in Nat
    <3>1. CurrentIndex(held[s].q)' = CurrentIndex(q)'
      BY <2>5, ZenonT(30) DEF CurrentIndex
    <3>. QED  BY <3>1, IndexTypeNext, ZenonT(30)
  <2>7. StreamOK(s)'
    <3>1. ~UpToDate(s)'
      <4>1. ~(held'[s].idx > 1)
        BY <2>5
      <4>. QED  BY <4>1, ZenonT(30) DEF UpToDate
    <3>2. held'[s].idx <= CurrentIndex(held[s].q)'
      BY <2>5, <2>6
    <3>. QED  BY <2>4, <2>5, <3>1, <3>2, ZenonT(30) DEF StreamOK, StreamCurrent
  <2>. QED  BY <1>1, <2>1, <2>3, <2>7, OwnStep, ZenonT(30) DEF Open
<1>2. CASE WaitStream(s)
  <2>1. Goto(s, "read") /\ "read" \in Places /\ proc[s].pc = "wait"
    BY <1>2, ZenonT(30) DEF WaitStream, Places
  <2>2. PICK new \in Holding :
             /\ Handed(s, new) /\ new.q = held[s].q /\ new.data = held[s].data
             /\ new.idx = CurrentIndex(held[s].q)
             /\ new.first <=> held[s].first
    BY <1>2, WaitHands, ZenonT(30)
  <2>3. held'[s] = new /\ \A r \in Holders \ {s} : held'[r] = held[r]
    BY <1>0, <2>2, HandedType, ZenonT(30)
  <2>4. proc'[s].pc = "read"
    BY <1>0, <2>1, GotoPlace, ZenonT(30)
  <2>5. CurrentIndex(held[s].q)' = new.idx /\ new.idx \in Nat
    BY <1>2, <2>2, <2>3, ZenonT(30) DEF WaitStream, CurrentIndex, Holding
  <2>6. StreamOK(s)'
    <3>1. StreamCurrent(s)
      BY <1>0, <2>1, ZenonT(30) DEF StreamOK
    <3>2. held'[s].q.name \in Names
      BY <2>2, <2>3, <3>1, ZenonT(30) DEF StreamCurrent
    <3>3. held'[s].idx <= CurrentIndex(held[s].q)'
      <4>1. new.idx <= new.idx
        BY <2>5
      <4>. QED  BY <2>3, <2>5, <4>1, ZenonT(30)
    <3>4. StreamCurrent(s)'
      BY <2>4, <3>2, <3>3, ZenonT(30) DEF StreamCurrent
    <3>. QED  BY <1>0, <2>2, <2>3, <3>4, ZenonT(30) DEF StreamOK
  <2>. QED  BY <1>2, <2>1, <2>3, <2>6, OwnStep, ZenonT(30) DEF WaitStream
<1>3. CASE Send(s)
  <2>1. Goto(s, "wait") /\ "wait" \in Places /\ proc[s].pc = "got"
    BY <1>3, ZenonT(30) DEF Send, Places
  <2>2. PICK new \in Holding :
             /\ Handed(s, new) /\ new.q = held[s].q /\ new.idx = held[s].idx
             /\ ~new.first /\ ~new.missed
             /\ new.data = IF ~held[s].first /\ held[s].data[1] = proc[s].val[1]
                           THEN held[s].data ELSE proc[s].val
    BY <1>3, SendHands, ZenonT(30)
  <2>3. held'[s] = new /\ \A r \in Holders \ {s} : held'[r] = held[r]
    BY <1>0, <2>2, HandedType, ZenonT(30)
  <2>4. /\ cache' = cache /\ wIndex' = wIndex /\ nameIndex' = nameIndex
        /\ todo' = todo
    BY <1>3, ZenonT(30) DEF Send
  <2>5. proc[s].val \in Answers /\ (~held[s].first => held[s].data \in Answers)
    BY <1>0, <2>1, ZenonT(30) DEF TypeInv, PlaceOK, StreamOK
  <2>6. new.data \in Answers /\ key(new.data) = key(proc[s].val)
    BY <2>2, <2>5, ReadsAssumption, ZenonT(30) DEF key
  <2>7. CurrentIndex(held[s].q)' = CurrentIndex(held[s].q)
    BY <2>2, <2>3, <2>4, ZenonT(30) DEF CurrentIndex
  <2>8. UpToDate(s)' => UpToDate(s)
    <3>1. Quiet("wait") \in Reader /\ Moved(s, Quiet("wait"))
      BY <2>1, QuietType, ZenonT(30) DEF Goto, Moved
    <3>2. PICK q : q = held[s].q
      BY ZenonT(30)
    <3>3. Announced(q)' => Announced(q)
      BY <1>0, <2>1, <2>3, <2>4, <3>1, AnnouncedStays, ZenonT(30)
    <3>4. Announced(held[s].q)' = Announced(q)'
      BY <2>2, <2>3, <3>2, ZenonT(30) DEF Announced
    <3>. QED  BY <2>2, <2>3, <2>7, <3>2, <3>3, <3>4, ZenonT(30) DEF UpToDate
  <2>9. StreamCurrent(s)
    BY <1>0, <2>1, ZenonT(30) DEF StreamOK
  <2>10. proc'[s].pc = "wait"
    BY <1>0, <2>1, GotoPlace, ZenonT(30)
  <2>11. StreamCurrent(s)'
    BY <2>1, <2>2, <2>3, <2>4, <2>6, <2>7, <2>8, <2>9, <2>10, ZenonT(30) DEF StreamCurrent
  <2>12. StreamOK(s)'
    BY <2>3, <2>6, <2>11, ZenonT(30) DEF StreamOK
  <2>. QED  BY <2>1, <2>3, <2>4, <2>12, OwnStep, ZenonT(30)
<1>4. CASE Close(s)
  <2>1. Goto(s, "closed") /\ "closed" \in Places /\ proc[s].pc = "wait"
    BY <1>4, ZenonT(30) DEF Close, Places
  <2>2. proc'[s].pc = "closed" /\ held' = held
    BY <1>0, <1>4, <2>1, GotoPlace, ZenonT(30) DEF Close
  <2>3. StreamOK(s)'
    BY <1>0, <2>2, ZenonT(30) DEF StreamOK
  <2>. QED  BY <1>4, <2>1, <2>2, <2>3, OwnStep, ZenonT(30) DEF Close
<1>. QED  BY <1>1, <1>2, <1>3, <1>4, ZenonT(30)

LEMMA OtherStep ==
    ASSUME TypeInv, TypeInv', Lags, StreamsInv,
           \/ FlushStart \/ FlushEnd \/ Crash \/ Tick
           \/ \E q \in Queries, v \in Answers : Change(q, v)
           \/ UNCHANGED vars
    PROVE  StreamsInv'
<1>1. ASSUME \A p \in Procs : /\ proc'[p].pc = proc[p].pc
                              /\ proc'[p].val = proc[p].val,
             \A q \in Queries : cache'[q].val = cache[q].val,
             held' = held, todo' = todo, wIndex' = wIndex, nameIndex' = nameIndex
      PROVE  StreamsInv'
  <2>1. \A q : Announced(q)' => Announced(q)
    BY <1>1, ZenonT(30) DEF Announced, Query
  <2>2. \A q \in Queries : /\ CurrentIndex(q)' = CurrentIndex(q)
                           /\ CurrentIndex(q) <= CurrentIndex(q)'
    <3>1. ASSUME NEW q \in Queries
          PROVE  CurrentIndex(q)' = CurrentIndex(q) /\ CurrentIndex(q) \in Nat
      BY <1>1, IndexStays, IndexType, ZenonT(30)
    <3>. QED  BY <3>1
  <2>3. ASSUME NEW s \in Streams
        PROVE  StreamOK(s)'
    <3>1. StreamOK(s) /\ s \in Procs
      BY ZenonT(30) DEF StreamsInv, Procs
    <3>. QED  BY <1>1, <2>1, <2>2, <3>1, KeepsCurrent, ZenonT(30)
  <2>. QED  BY <2>3, ZenonT(30) DEF StreamsInv
<1>2. CASE Crash
  <2>1. ASSUME NEW s \in Streams
        PROVE  StreamOK(s)'
    <3>1. s \in Procs /\ s \notin Clients /\ s # Refresher /\ StreamOK(s)
      BY ReadsAssumption, ZenonT(30) DEF Procs, StreamsInv
    <3>2. proc'[s].pc \in {"off", "closed"} /\ held' = held
      BY <1>2, <3>1, CrashMoves, ZenonT(30) DEF AfterCrash, Crash
    <3>. QED  BY <3>1, <3>2, ZenonT(30) DEF StreamOK
  <2>. QED  BY <2>1 DEF StreamsInv
<1>3. CASE Tick
  <2>1. DataInv
    BY TwoParts, ZenonT(30)
  <2>2. \A p \in Procs : proc'[p].pc = proc[p].pc /\ proc'[p].val = proc[p].val
    BY <1>3, TickMoves, ZenonT(30)
  <2>3. \A q \in Queries : cache'[q].val = cache[q].val
    BY <1>3, <2>1, TickAges, ZenonT(30)
  <2>. QED  BY <1>1, <1>3, <2>2, <2>3, ZenonT(30) DEF Tick
<1>. QED  BY <1>1, <1>2, <1>3, ZenonT(30) DEF FlushStart, FlushEnd, Change, vars

(* A Watch stream asleep on its index has sent what the cache holds: no    *)
(* wake-up is lost between the store of an answer, its announcement and    *)
(* the reads of any number of streams (Proxy.Watch, fetch, NotifyNames).   *)
THEOREM BlockedIsCurrent == Spec => []StreamBlockedIsCurrent
<1>1. Init => StreamsInv
  <2>. SUFFICES ASSUME Init, NEW s \in Streams PROVE StreamOK(s)
    BY ZenonT(30) DEF StreamsInv
  <2>1. PICK q \in Queries : held[s] = Fresh(q)
    BY ZenonT(30) DEF Init, Holders
  <2>2. held[s].first
    <3>1. Fresh(q).first
      BY ZenonT(30) DEF Fresh
    <3>. QED  BY <2>1, <3>1, ZenonT(30)
  <2>3. proc[s] = Quiet("off")
    BY ReadsAssumption, ZenonT(30) DEF Init, Procs
  <2>4. proc[s].pc = "off"
    <3>1. Quiet("off").pc = "off"
      BY ZenonT(30) DEF Quiet
    <3>. QED  BY <2>3, <3>1, ZenonT(30)
  <2>. QED  BY <2>2, <2>4, ZenonT(30) DEF StreamOK
<1>2. TypeInv /\ TypeInv' /\ Lags /\ StreamsInv /\ [Next]_vars => StreamsInv'
  BY StoreStep, NotifyStep, ReadStep, RefreshStep, FailStep, ClientStep,
     StreamStep, OtherStep, ZenonT(30) DEF Next
<1>3. TypeInv /\ StreamsInv => StreamBlockedIsCurrent
  <2>. SUFFICES ASSUME TypeInv, StreamsInv, NEW s \in Streams,
                       Asleep(s), held[s].idx > 1
                PROVE  held[s].data[1] = cache[held[s].q].val[1]
    BY ZenonT(30) DEF StreamBlockedIsCurrent
  <2>1. /\ proc[s].pc = "wait" /\ ~held[s].first /\ ~held[s].missed
        /\ held[s].idx = CurrentIndex(held[s].q)
        /\ Announced(held[s].q) /\ cache[held[s].q].val # NoAnswer
    BY ZenonT(30) DEF Asleep, wakes
  <2>2. StreamOK(s)
    BY ZenonT(30) DEF StreamsInv
  <2>3. held[s].data \in Answers /\ StreamCurrent(s)
    BY <2>1, <2>2, ZenonT(30) DEF StreamOK
  <2>4. UpToDate(s)
    BY <2>1, ZenonT(30) DEF UpToDate
  <2>5. key(held[s].data) = key(cache[held[s].q].val)
    BY <2>1, <2>3, <2>4, ZenonT(30) DEF StreamCurrent
  <2>. QED  BY <2>1, <2>3, <2>5, ReadsAssumption, ZenonT(30) DEF key
<1>. QED  BY AlwaysTyped, <1>1, <1>2, <1>3, PTL DEF Spec
=============================================================================
