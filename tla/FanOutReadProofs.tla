-------------------------- MODULE FanOutReadProofs --------------------------
(***************************************************************************)
(* Proofs about one cross-seed read, for any set of seeds and instances,   *)
(* any copies on them and any order and loss of the answers: NewestWins    *)
(* and FreshestHealthDecides.                                              *)
(***************************************************************************)
EXTENDS FanOutRead, TLAPS

-----------------------------------------------------------------------------
(* The inductive invariant: the winner of a key is the wire form of one of *)
(* the newest copies that the seeds which answered let through, and an     *)
(* answer is the filtered winners of a read with no outcome open.          *)

ReadTypes ==
    /\ reg \in [Seeds -> [Keys -> Copy \cup {NoCopy}]]
    /\ onlyHealthy \in BOOLEAN /\ remote \in BOOLEAN
    /\ okSeeds \subseteq Seeds
    /\ winners = [k \in Keys |-> winners[k]]

offered(k) == {reg[s][k] : s \in {t \in okSeeds : k \in asked(t)}}

(* w is what MergeLWW keeps of a set of copies.                            *)
WonBy(w, set) ==
    /\ set = {} => w = NoCopy
    /\ set # {} => \E c \in newest(set) : w = wire(c)

WinnersInv == \A k \in Keys : WonBy(winners[k], offered(k))

kept(w) == IF w # NoCopy /\ ~Visible(w) THEN NoCopy ELSE w

ResultInv == Answered =>
    /\ open = {}
    /\ \A k \in Keys : result[k] = kept(winners[k])

ReadInv == ReadTypes /\ WinnersInv /\ ResultInv
-----------------------------------------------------------------------------
(* Lemmas about a copy on the wire.                                        *)

(* Dividing by the unit and multiplying again drops the remainder.         *)
LEMMA WholeSeconds ==
    ASSUME NEW ttl \in Nat
    PROVE  ttlToSeconds(ttl) * TicksPerSecond = wholeSeconds(ttl)
BY ReadAssumption DEF ttlToSeconds, wholeSeconds

(* Health survives its enumeration on the wire.                            *)
LEMMA HealthRoundTrip ==
    ASSUME NEW h \in HealthStates
    PROVE  HealthFromProto(HealthToProto(h)) = h
BY DEF HealthStates, HealthFromProto, HealthToProto, Passing, Critical

(* The wire keeps version, heartbeat, health and maintenance.              *)
LEMMA WireKeeps ==
    ASSUME NEW c \in Copy
    PROVE  /\ wire(c).gen = c.gen /\ wire(c).lastSeen = c.lastSeen
           /\ wire(c).health = c.health /\ wire(c).maintenance = c.maintenance
<1>1. HealthFromProto(HealthToProto(c.health)) = c.health
  BY HealthRoundTrip DEF Copy
<1>. QED
  BY <1>1 DEF wire, EntryFromProto, EntryToProto

(* A copy arrives as the seed holds it, but for the fraction of a second.  *)
LEMMA WireShows ==
    ASSUME NEW c \in Copy
    PROVE  wire(c) = [c EXCEPT !.payload.ttl = wholeSeconds(@)]
<1>. DEFINE p == c.payload
<1>1. p \in Payloads /\ "ttl" \in DOMAIN p /\ p.ttl \in Nat
  BY ReadAssumption DEF Copy
<1>2. [[p EXCEPT !.ttl = ttlToSeconds(@)] EXCEPT !.ttl = @ * TicksPerSecond]
        = [p EXCEPT !.ttl = ttlToSeconds(@) * TicksPerSecond]
  BY <1>1
<1>3. [p EXCEPT !.ttl = ttlToSeconds(@) * TicksPerSecond]
        = [p EXCEPT !.ttl = wholeSeconds(@)]
  BY <1>1, WholeSeconds
<1>4. wire(c).payload = [p EXCEPT !.ttl = wholeSeconds(@)]
  BY <1>2, <1>3 DEF wire, EntryFromProto, EntryToProto
<1>5. wire(c) = [gen |-> c.gen, lastSeen |-> c.lastSeen, payload |-> wire(c).payload,
                 health |-> c.health, maintenance |-> c.maintenance]
  BY WireKeeps DEF wire, EntryFromProto
<1>. QED
  BY <1>4, <1>5 DEF Copy

(* The health filter decides alike before and after the wire.              *)
LEMMA WireVisible ==
    ASSUME NEW c \in Copy
    PROVE  VisiblePassing(wire(c)) <=> VisiblePassing(c)
BY WireKeeps DEF VisiblePassing
-----------------------------------------------------------------------------
(* Lemmas about the merge.                                                 *)

(* The last-writer-wins order decides alike before and after the wire.     *)
LEMMA WireOrder ==
    ASSUME NEW c \in Copy, NEW d \in Copy
    PROVE  WinsLWW(wire(d), wire(c)) <=> WinsLWW(d, c)
BY WireKeeps DEF WinsLWW

(* The order is a strict weak order: who beats a copy that none of a set   *)
(* beats is beaten by none of them either.                                 *)
LEMMA BeatsTheBest ==
    ASSUME NEW c \in Copy, NEW d \in Copy, NEW e \in Copy,
           WinsLWW(d, c), ~WinsLWW(e, c)
    PROVE  ~WinsLWW(e, d)
<1>1. /\ c.gen \in Nat /\ d.gen \in Nat /\ e.gen \in Nat
      /\ c.lastSeen \in Nat /\ d.lastSeen \in Nat /\ e.lastSeen \in Nat
  BY ReadAssumption DEF Copy
<1>. QED
  BY <1>1 DEF WinsLWW

LEMMA BeatsNotItself ==
    ASSUME NEW c \in Copy
    PROVE  ~WinsLWW(c, c)
<1>1. c.gen \in Nat /\ c.lastSeen \in Nat
  BY ReadAssumption DEF Copy
<1>. QED
  BY <1>1 DEF WinsLWW

(* One step of the walk: a copy that comes in takes over from the winner   *)
(* when it beats it, and the winner is then of the larger set.             *)
LEMMA MergeStep ==
    ASSUME NEW S \in SUBSET Copy, NEW w, WonBy(w, S), NEW d \in Copy
    PROVE  WonBy(IF w = NoCopy \/ WinsLWW(wire(d), w) THEN wire(d) ELSE w, S \cup {d})
<1>1. CASE S = {}
  <2>1. w = NoCopy
    BY <1>1 DEF WonBy
  <2>2. d \in newest(S \cup {d})
    BY <1>1, BeatsNotItself DEF newest
  <2>. QED
    BY <2>1, <2>2 DEF WonBy
<1>2. CASE S # {}
  <2>1. PICK c \in newest(S) : w = wire(c)
    BY <1>2 DEF WonBy
  <2>2. c \in S /\ c \in Copy /\ \A e \in S : ~WinsLWW(e, c)
    BY <2>1 DEF newest
  <2>3. w # NoCopy
    BY <2>1, <2>2, NoCopyAssumption
  <2>4. WinsLWW(wire(d), w) <=> WinsLWW(d, c)
    BY <2>1, <2>2, WireOrder
  <2>5. CASE WinsLWW(d, c)
    <3>1. \A e \in S : ~WinsLWW(e, d)
      BY <2>2, <2>5, BeatsTheBest
    <3>2. d \in newest(S \cup {d})
      BY <3>1, BeatsNotItself DEF newest
    <3>. QED
      BY <2>4, <2>5, <3>2 DEF WonBy
  <2>6. CASE ~WinsLWW(d, c)
    <3>1. c \in newest(S \cup {d})
      BY <2>2, <2>6 DEF newest
    <3>. QED
      BY <2>1, <2>3, <2>4, <2>6, <3>1 DEF WonBy
  <2>. QED
    BY <2>5, <2>6
<1>. QED
  BY <1>1, <1>2
-----------------------------------------------------------------------------
(* What the seeds that answered let through is copies.                     *)
LEMMA AskedHeld ==
    ASSUME ReadTypes, NEW s \in Seeds, NEW k \in asked(s)
    PROVE  k \in Keys /\ reg[s][k] \in Copy
BY DEF ReadTypes, asked, askedLocal, askedRemote

LEMMA OfferedCopies ==
    ASSUME ReadTypes, NEW k
    PROVE  offered(k) \in SUBSET Copy
BY AskedHeld DEF offered, ReadTypes

LEMMA StartsRead ==
    ASSUME ReadInit
    PROVE  ReadInv
<1>1. ReadTypes
  BY ReadAssumption DEF ReadInit, ReadTypes
<1>2. WinnersInv
  BY DEF ReadInit, WinnersInv, WonBy, offered
<1>3. ResultInv
  BY DEF ReadInit, ResultInv, Answered
<1>. QED
  BY <1>1, <1>2, <1>3 DEF ReadInv

(* A read asks for the same whatever came in: no step changes the query or *)
(* what the seeds hold.                                                    *)
LEMMA AskStands ==
    ASSUME UNCHANGED <<reg, onlyHealthy, tag, remote>>, NEW s
    PROVE  asked(s)' = asked(s)
BY DEF asked, askedLocal, askedRemote, tagged, Visible

LEMMA KeepsRead ==
    ASSUME ReadInv, [ReadNext]_readVars
    PROVE  ReadInv'
<1>. USE DEF ReadInv
<1>1. ASSUME NEW s \in Seeds, SeedAnswers(s)
      PROVE  ReadInv'
  <2>. DEFINE in == [k \in asked(s) |-> wire(reg[s][k])]
  <2>1. /\ UNCHANGED <<reg, onlyHealthy, tag, remote, result>>
        /\ s \in open /\ okSeeds' = okSeeds \cup {s}
        /\ winners' = MergeLWW(winners, in)
    BY <1>1 DEF SeedAnswers
  <2>2. ReadTypes'
    BY <2>1 DEF ReadTypes, MergeLWW
  <2>3. ASSUME NEW k \in Keys
        PROVE  WonBy(winners'[k], offered(k)')
    <3>1. WonBy(winners[k], offered(k)) /\ offered(k) \in SUBSET Copy
      BY OfferedCopies DEF WinnersInv
    <3>2. offered(k)' = {reg[t][k] : t \in {t \in okSeeds \cup {s} : k \in asked(t)}}
      BY <2>1, AskStands DEF offered
    <3>3. CASE k \in asked(s)
      <4>1. offered(k)' = offered(k) \cup {reg[s][k]}
        BY <3>2, <3>3 DEF offered
      <4>2. winners'[k] = IF winners[k] = NoCopy \/ WinsLWW(wire(reg[s][k]), winners[k])
                          THEN wire(reg[s][k]) ELSE winners[k]
        BY <2>1, <3>3 DEF MergeLWW
      <4>3. reg[s][k] \in Copy
        BY <3>3, AskedHeld
      <4>. QED
        BY <3>1, <4>1, <4>2, <4>3, MergeStep
    <3>4. CASE k \notin asked(s)
      <4>1. offered(k)' = offered(k)
        BY <3>2, <3>4 DEF offered
      <4>2. winners'[k] = winners[k]
        BY <2>1, <3>4 DEF MergeLWW
      <4>. QED
        BY <3>1, <4>1, <4>2
    <3>. QED
      BY <3>3, <3>4
  <2>4. ResultInv'
    BY <2>1 DEF ResultInv, Answered
  <2>. QED
    BY <2>2, <2>3, <2>4 DEF WinnersInv, WonBy, newest
<1>2. ASSUME NEW s \in Seeds, SeedFails(s)
      PROVE  ReadInv'
  <2>1. UNCHANGED <<reg, onlyHealthy, tag, remote, winners, okSeeds, result>> /\ s \in open
    BY <1>2 DEF SeedFails
  <2>2. ReadTypes'
    BY <2>1 DEF ReadTypes
  <2>3. \A k : offered(k)' = offered(k)
    BY <2>1, AskStands DEF offered
  <2>4. ResultInv'
    BY <2>1 DEF ResultInv, Answered
  <2>. QED
    BY <2>1, <2>2, <2>3, <2>4 DEF WinnersInv, WonBy, newest
<1>3. ASSUME Answer
      PROVE  ReadInv'
  <2>1. /\ UNCHANGED <<reg, onlyHealthy, tag, remote, open, winners, okSeeds>>
        /\ open = {}
        /\ result' = [k \in Keys |->
             IF winners[k] # NoCopy /\ ~Visible(winners[k]) THEN NoCopy ELSE winners[k]]
    BY <1>3 DEF Answer
  <2>2. ReadTypes'
    BY <2>1 DEF ReadTypes
  <2>3. \A k : offered(k)' = offered(k)
    BY <2>1, AskStands DEF offered
  <2>4. \A k \in Keys : result'[k] = kept(winners[k])'
    BY <2>1 DEF kept, Visible
  <2>. QED
    BY <2>1, <2>2, <2>3, <2>4 DEF WinnersInv, WonBy, newest, ResultInv
<1>4. CASE UNCHANGED readVars
  <2>1. UNCHANGED <<reg, onlyHealthy, tag, remote, open, winners, okSeeds, result>>
    BY <1>4 DEF readVars
  <2>2. \A k : offered(k)' = offered(k)
    BY <2>1, AskStands DEF offered
  <2>3. ReadTypes' /\ ResultInv'
    BY <2>1 DEF ReadTypes, ResultInv, Answered, kept, Visible
  <2>. QED
    BY <2>1, <2>2, <2>3 DEF WinnersInv, WonBy, newest
<1>. QED
  BY <1>1, <1>2, <1>3, <1>4 DEF ReadNext
-----------------------------------------------------------------------------
(* The winner as the reader sees it is one of the newest copies.           *)
LEMMA WonShown ==
    ASSUME NEW S \in SUBSET Copy, S # {}, NEW w, WonBy(w, S)
    PROVE  \E c \in newest(S) : w = wire(c) /\ c \in Copy /\ w # NoCopy /\ w \in shown({c})
<1>1. PICK c \in newest(S) : w = wire(c)
  BY DEF WonBy
<1>2. c \in Copy
  BY <1>1 DEF newest
<1>. QED
  BY <1>1, <1>2, NoCopyAssumption, WireShows DEF shown

(* A read that filters nothing after the merge shows the newest copy that  *)
(* the answering seeds let through (SeedClient.Lookup, MergeLWW).          *)
LEMMA ReadsNewest ==
    ASSUME ReadInv
    PROVE  NewestWins
<1>. USE DEF ReadInv
<1>1. SUFFICES ASSUME Answered, onlyHealthy => remote, NEW k \in Keys
               PROVE  LET let == {c \in copies(k) : Visible(c)}
                      IN  IF let = {} THEN result[k] = NoCopy
                          ELSE result[k] \in shown(newest(let))
  BY DEF NewestWins
<1>. DEFINE let == {c \in copies(k) : Visible(c)}
<1>2. offered(k) = let
  BY <1>1 DEF offered, copies, asked, askedLocal, askedRemote, Visible, ReadTypes
<1>3. WonBy(winners[k], let) /\ let \in SUBSET Copy
  BY <1>2, OfferedCopies DEF WinnersInv
<1>4. result[k] = kept(winners[k])
  BY <1>1 DEF ResultInv
<1>5. CASE let = {}
  BY <1>3, <1>4, <1>5 DEF WonBy, kept
<1>6. CASE let # {}
  <2>. HIDE DEF let
  <2>1. PICK c \in newest(let) : /\ winners[k] = wire(c) /\ c \in Copy
                                 /\ winners[k] # NoCopy /\ winners[k] \in shown({c})
    BY <1>3, <1>6, WonShown
  <2>2. Visible(c)
    BY <2>1 DEF newest, let
  <2>3. result[k] = winners[k]
    BY <1>4, <2>1, <2>2, WireVisible DEF kept, Visible
  <2>4. result[k] \in shown(newest(let))
    BY <2>1, <2>3 DEF shown
  <2>. QED
    BY <1>6, <2>4 DEF let
<1>. QED
  BY <1>5, <1>6

(* A filtered local read judges an instance by its newest copies only.     *)
LEMMA ReadsFreshest ==
    ASSUME ReadInv
    PROVE  FreshestHealthDecides
<1>. USE DEF ReadInv
<1>1. SUFFICES ASSUME Answered, onlyHealthy, ~remote, NEW k \in Keys
               PROVE  LET best == newest(copies(k))
                      IN  /\ result[k] # NoCopy =>
                               result[k] \in shown({c \in best : VisiblePassing(c)})
                          /\ (best # {} /\ \A c \in best : VisiblePassing(c))
                               => result[k] # NoCopy
  BY DEF FreshestHealthDecides
<1>2. offered(k) = copies(k)
  BY <1>1 DEF offered, copies, asked, askedLocal, ReadTypes
<1>3. WonBy(winners[k], copies(k)) /\ copies(k) \in SUBSET Copy
  BY <1>2, OfferedCopies DEF WinnersInv
<1>4. result[k] = kept(winners[k])
  BY <1>1 DEF ResultInv
<1>5. CASE copies(k) = {}
  <2>1. result[k] = NoCopy /\ newest(copies(k)) = {}
    BY <1>3, <1>4, <1>5 DEF WonBy, kept, newest
  <2>. QED
    BY <2>1
<1>6. CASE copies(k) # {}
  <2>1. PICK c \in newest(copies(k)) : /\ winners[k] = wire(c) /\ c \in Copy
                                       /\ winners[k] # NoCopy /\ winners[k] \in shown({c})
    BY <1>3, <1>6, WonShown
  <2>2. Visible(winners[k]) <=> VisiblePassing(c)
    BY <1>1, <2>1, WireVisible DEF Visible
  <2>3. CASE VisiblePassing(c)
    <3>1. result[k] = winners[k]
      BY <1>4, <2>2, <2>3 DEF kept
    <3>2. result[k] \in shown({d \in newest(copies(k)) : VisiblePassing(d)})
      BY <2>1, <2>3, <3>1 DEF shown
    <3>. QED
      BY <2>1, <3>1, <3>2
  <2>4. CASE ~VisiblePassing(c)
    <3>1. result[k] = NoCopy
      BY <1>4, <2>2, <2>4 DEF kept
    <3>. QED
      BY <2>1, <2>4, <3>1
  <2>. QED
    BY <2>3, <2>4
<1>. QED
  BY <1>5, <1>6
-----------------------------------------------------------------------------
LEMMA ReadHolds == ReadSpec => []ReadInv
<1>1. ReadInit => ReadInv
  BY StartsRead
<1>2. ReadInv /\ [ReadNext]_readVars => ReadInv'
  BY KeepsRead
<1>. QED
  BY <1>1, <1>2, PTL DEF ReadSpec

(* NewestWins for every cluster, whichever seeds answer and in whatever    *)
(* order: the one-pass merge of health.MergeLWW keeps a copy that none of  *)
(* the gathered ones beats, and protoconv brings it over whole.            *)
THEOREM MergesNewest == ReadSpec => []NewestWins
<1>1. ReadInv => NewestWins
  BY ReadsNewest
<1>. QED
  BY <1>1, ReadHolds, PTL

(* FreshestHealthDecides likewise: filtering after the merge               *)
(* (Proxy.directLookup) neither drops an instance for a stale seed's sake  *)
(* nor revives one.                                                        *)
THEOREM FiltersAfterMerge == ReadSpec => []FreshestHealthDecides
<1>1. ReadInv => FreshestHealthDecides
  BY ReadsFreshest
<1>. QED
  BY <1>1, ReadHolds, PTL
=============================================================================
