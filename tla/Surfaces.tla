------------------------------ MODULE Surfaces ------------------------------
(***************************************************************************)
(* What a node answers to the Consul clients it serves: the HTTP reads     *)
(* (internal/consul/handler.go, checks.go, filter.go) and the DNS queries  *)
(* (internal/consuldns/handler.go), both rendered from one cross-seed read *)
(* (FanOutRead).  A request is [api, name, tag, dc, ...]; the surfaces ask *)
(* for every instance of the name, whatever its health, and render what    *)
(* the merge returns.                                                      *)
(*                                                                         *)
(* A key is [node, display, name, ord]: the node's id and its name (""     *)
(* when it has none), the service's name, and the place of the instance in *)
(* the order of ids.  A payload says the address of the instance (NoAddr:  *)
(* the node's), the address and metadata of the node, the tags and one     *)
(* meta value.  An address is [fam, a], fam being "v4", "v6", or "host"    *)
(* for text net.ParseIP rejects.                                           *)
(***************************************************************************)
EXTENDS FanOutRead, DnsNames, Filter

CONSTANTS
    NoAddr,
    Self,           \* this node's id
    LocalDC, RemoteDC,
    ARecordLimit,   \* dns.a_record_limit, 0 for none
    Asks(_),        \* bound: the requests made of a cluster in a given state
    NoReply

VARIABLES
    req, reply      \* the request served and its answer

vars == <<reg, onlyHealthy, tag, remote, open, winners, okSeeds, result, req, reply>>
-----------------------------------------------------------------------------
(* The merged read behind a request.  A datacenter that is neither the     *)
(* local one nor federated is read locally and matches no node; "" is no   *)
(* restriction.                                                            *)

IsRemote(dc) == dc = RemoteDC

entries(name, dc) ==
    IF dc \notin {"", IF remote THEN RemoteDC ELSE LocalDC} THEN {}
    ELSE {k \in Keys : result[k] # NoCopy /\ name \in {"", k.name}}

passing(ks) == {k \in ks : VisiblePassing(result[k])}

ReachableAddress(k) ==
    IF result[k].payload.addr # NoAddr THEN result[k].payload.addr
    ELSE result[k].payload.nodeAddr

DisplayName(k) == IF k.display # "" THEN k.display ELSE k.node
-----------------------------------------------------------------------------
(* The Consul HTTP reads.                                                  *)

(* Mutant of synthChecks: maintenance is not rendered.                     *)
synthChecksBare(k) ==
    {<<"serfHealth", result[k].health>>, <<"service", result[k].health>>}

(* The node's check, the service's, and one more in maintenance.           *)
synthChecks(k) ==
    {<<"serfHealth", result[k].health>>, <<"service", result[k].health>>}
      \cup (IF result[k].maintenance THEN {<<"_service_maintenance", Critical>>}
            ELSE {})

viewOf(k) == [tags |-> result[k].payload.tags, meta |-> result[k].payload.meta,
              statuses |-> {c[2] : c \in synthChecks(k)}]

serviceCheck(k) == IF result[k].maintenance THEN Critical ELSE result[k].health

aggregateStatus(ks) ==
    IF \E k \in ks : result[k].maintenance \/ result[k].health = Critical
    THEN Critical ELSE Passing

(* mergeTags over the instances of a name.                                 *)
catalogServices(ks) ==
    [n \in {k.name : k \in ks} |->
        UNION {result[k].payload.tags : k \in {j \in ks : j.name = n}}]

(* Handler.read: the filter is compiled before anything is asked, and      *)
(* applied to what comes back; no tokens is no filter.                     *)
filtered(ks, toks) ==
    IF toks = <<>> THEN ks
    ELSE {k \in ks : holds(parseFilter(toks).e, viewOf(k))}

OK(body) == [status |-> 200, body |-> body]
Fail(code) == [status |-> code, body |-> {}]

toCatalog(k) == [key |-> k, address |-> ReachableAddress(k)]
toHealth(k) == [key |-> k, address |-> ReachableAddress(k), checks |-> synthChecks(k)]

httpBody(r, ks) ==
    CASE r.api = "catalog/service" -> {toCatalog(k) : k \in ks}
      [] r.api = "catalog/services" -> catalogServices(ks)
      [] r.api = "catalog/nodes" -> {k.node : k \in ks}
      [] r.api = "health/service" ->
           {toHealth(k) : k \in IF r.passing THEN passing(ks) ELSE ks}
      [] r.api = "health/checks" -> {<<k, serviceCheck(k)>> : k \in ks}

(* /v1/health/state/:state takes no filter.                                *)
healthState(r) ==
    {<<k, serviceCheck(k)>> :
       k \in {j \in entries("", r.dc) : r.state \in {"any", serviceCheck(j)}}}

(* The agent's own view: a read that fails is a read that finds nothing.   *)
localEntries == {k \in entries("", "") : k.node = Self}

agentHealthByName(name) ==
    LET matched == {k \in localEntries : k.name = name}
    IN  IF matched = {} THEN Fail(404) ELSE OK(aggregateStatus(matched))

agentChecks == [k \in localEntries |-> synthChecks(k)]

failed == open = {} /\ okSeeds = {}

serveHTTP(r) ==
    CASE r.api = "agent/health" -> IF failed THEN Fail(404) ELSE agentHealthByName(r.name)
      [] r.api = "agent/checks" -> OK(IF failed THEN <<>> ELSE agentChecks)
      [] r.api = "health/state" -> IF failed THEN Fail(500) ELSE OK(healthState(r))
      [] OTHER ->
           IF r.filter # <<>> /\ ~parseFilter(r.filter).ok THEN Fail(400)
           ELSE IF failed THEN Fail(500)
           ELSE OK(httpBody(r, filtered(entries(r.name, r.dc), r.filter)))
-----------------------------------------------------------------------------
(* The DNS surface.  A record is [type, name, data]; a name is labels and  *)
(* the zone they are below.                                                *)

Zones == {"primary", "alt"}
Msg(rcode, answer, extra, soa) ==
    [rcode |-> rcode, answer |-> answer, extra |-> extra, soa |-> soa]
nxdomain(zone) == Msg("NXDOMAIN", {}, {}, {zone})

effectiveDC(dc) == IF dc \in {"", "dc1"} THEN LocalDC ELSE dc

(* addressRR: nothing for an address that is not an IP.                    *)
addressRR(name, addr) ==
    IF addr.fam = "host" THEN {}
    ELSE {[type |-> IF addr.fam = "v4" THEN "A" ELSE "AAAA", name |-> name,
           data |-> addr]}

(* The target and the address it stands for.                               *)
srvTarget(k, dc, zone) ==
    LET addr == ReachableAddress(k)
        node == result[k].payload.nodeAddr
    IN  IF addr = node \/ addr.fam = "host"
        THEN <<[labels |-> <<Label(DisplayName(k)), Label("node"), Label(dc)>>,
                zone |-> zone], node>>
        ELSE <<[labels |-> <<Label(addr.a), Label("addr"), Label(dc)>>,
                zone |-> zone], addr>>

srvAnswer(qname, ks, dc, zone) ==
    LET target(k) == srvTarget(k, dc, zone)
    IN  Msg("NOERROR",
            {[type |-> "SRV", name |-> qname, data |-> target(k)[1]] : k \in ks},
            UNION {addressRR(target(k)[1], target(k)[2]) : k \in ks}, {})

(* The instances are shuffled, so a limit keeps any of them.               *)
appendAddresses(qname, ks, fam, zone) ==
    LET usable == {k \in ks : ReachableAddress(k).fam = fam}
        full == ARecordLimit = 0 \/ Cardinality(usable) <= ARecordLimit
        kept == IF full THEN {usable} ELSE kSubset(ARecordLimit, usable)
    IN  {LET rrs == UNION {addressRR(qname, ReachableAddress(k)) : k \in s}
         IN  Msg("NOERROR", rrs, {}, IF rrs = {} THEN {zone} ELSE {}) : s \in kept}

renderService(qname, qtype, ks, dc, zone) ==
    CASE qtype = "SRV" -> {srvAnswer(qname, ks, dc, zone)}
      [] qtype = "AAAA" -> appendAddresses(qname, ks, "v6", zone)
      [] OTHER -> appendAddresses(qname, ks, "v4", zone)

(* The node of the first healthy instance, in the order of the keys: its   *)
(* metadata, or its address of whichever family it has.                    *)
metaTXT(qname, meta) == {[type |-> "TXT", name |-> qname, data |-> m] : m \in meta}

renderNode(qname, qtype, ks, zone) ==
    {LET pay == result[k].payload
         rrs == IF qtype = "TXT" THEN metaTXT(qname, pay.nodeMeta)
                ELSE addressRR(qname, pay.nodeAddr)
     IN  Msg("NOERROR", rrs, {}, IF rrs = {} THEN {zone} ELSE {}) :
       k \in {j \in ks : \A i \in ks : j.ord <= i.ord}}

(* Mutant of filterNode: the node's id is not tried.                       *)
filterNodeByName(ks, name) == {k \in ks : k.display = name}

filterNode(ks, name) == {k \in ks : name \in {k.display, k.node}}

(* Mutant of healthyAnswer: a name with no healthy instance is unknown.    *)
healthyAnswerNone(r, pq, ks) ==
    LET qname == [labels |-> r.labels, zone |-> r.zone]
        healthy == passing(ks)
    IN  IF healthy = {} THEN {nxdomain(r.zone)}
        ELSE IF pq.kind = "node" THEN renderNode(qname, r.qtype, healthy, r.zone)
        ELSE renderService(qname, r.qtype, healthy, effectiveDC(pq.dc), r.zone)

(* The name exists: nothing healthy is an empty answer with the SOA.       *)
healthyAnswer(r, pq, ks) ==
    LET qname == [labels |-> r.labels, zone |-> r.zone]
        healthy == passing(ks)
    IN  IF healthy = {} THEN {Msg("NOERROR", {}, {}, {r.zone})}
        ELSE IF pq.kind = "node" THEN renderNode(qname, r.qtype, healthy, r.zone)
        ELSE renderService(qname, r.qtype, healthy, effectiveDC(pq.dc), r.zone)

(* Whether a query is answered from the zone data alone.                   *)
zoneOnly(r) ==
    \/ r.zone \notin Zones \/ r.qtype \in {"SOA", "NS"}
    \/ parseName(r.labels).kind = "unknown"

zoneAnswer(r) ==
    CASE r.zone \notin Zones -> nxdomain("primary")
      [] r.zone \in Zones /\ r.qtype \in {"SOA", "NS"} ->
           Msg("NOERROR", {[type |-> r.qtype, name |-> r.zone, data |-> r.zone]}, {}, {})
      [] OTHER -> nxdomain(r.zone)

(* The answers answer may give.                                            *)
answer(r) ==
    LET pq == parseName(r.labels)
        found == entries(IF pq.kind = "node" THEN "" ELSE pq.name, effectiveDC(pq.dc))
        ks == IF pq.kind = "node" THEN filterNode(found, pq.name) ELSE found
    IN  IF zoneOnly(r) THEN {zoneAnswer(r)}
        ELSE IF failed THEN {Msg("SERVFAIL", {}, {}, {})}
        ELSE IF ks = {} THEN {nxdomain(r.zone)}
        ELSE healthyAnswer(r, pq, ks)
-----------------------------------------------------------------------------
(* The read a request makes: none, or one with a tag and a datacenter.     *)
isDNS(r) == r.api = "dns"

readless(r) ==
    IF isDNS(r) THEN zoneOnly(r)
    ELSE r.filter # <<>> /\ ~parseFilter(r.filter).ok

tagOf(r) == IF isDNS(r) THEN parseName(r.labels).tag ELSE r.tag
dcOf(r) == IF isDNS(r) THEN effectiveDC(parseName(r.labels).dc) ELSE r.dc

Serve(r) ==
    /\ IF readless(r) THEN open = Seeds
       ELSE /\ failed \/ Answered
            /\ ~onlyHealthy /\ tag = tagOf(r) /\ remote = IsRemote(dcOf(r))
    /\ req' = r
    /\ reply' \in (IF isDNS(r) THEN answer(r) ELSE {serveHTTP(r)})
    /\ UNCHANGED readVars

Init == ReadInit /\ req = NoReply /\ reply = NoReply

Next ==
    /\ reply = NoReply
    /\ \/ ReadNext /\ UNCHANGED <<req, reply>>
       \/ \E r \in Asks(reg) : Serve(r)

Spec == Init /\ [][Next]_vars
-----------------------------------------------------------------------------
(* Properties.                                                             *)

Replied(api) == reply # NoReply /\ req.api = api
keysIn(body) == {b.key : b \in body}
statusFilter(status) == <<Word("Checks.Status"), Word("=="), Quoted(status)>>

(* The endpoints tell one story about health: what ?passing drops is       *)
(* exactly what shows a critical check (among the checks of its            *)
(* /v1/health/service entry, in /v1/health/checks, in                      *)
(* /v1/health/state/critical, under ?filter=Checks.Status==critical), so   *)
(* "real not-passing visibility" (checks.go:120) hides nothing             *)
(* unexplained.                                                            *)
HiddenIsExplained ==
    Replied("health/service") /\ reply.status = 200 /\ req.passing
      /\ req.filter = <<>> =>
        LET found == entries(req.name, req.dc)
            hidden == found \ keysIn(reply.body)
        IN  /\ hidden = {k \in found : \E c \in toHealth(k).checks : c[2] = Critical}
            /\ hidden = filtered(found, statusFilter(Critical))
            /\ hidden = {k \in found : <<k, Critical>> \in healthState([req EXCEPT !.state = Critical])}
            /\ (hidden = {}) = (aggregateStatus(found) = Passing)

serviceQuery(r) == isDNS(r) /\ ~zoneOnly(r) /\ parseName(r.labels).kind = "service"

(* The DNS and the HTTP surface agree on what there is: a name is          *)
(* NXDOMAIN exactly when the catalog has no instance of it, and an address *)
(* query lists addresses of instances that ?passing shows, of the family   *)
(* asked for: all of them, or as many as a_record_limit allows; "NXDOMAIN  *)
(* for an unknown name; NOERROR + empty + SOA for an existing service with *)
(* no healthy instance" (consul-compat.md:48).                             *)
SurfacesAgree ==
    reply # NoReply /\ serviceQuery(req) /\ ~failed =>
        LET pq == parseName(req.labels)
            found == entries(pq.name, effectiveDC(pq.dc))
            fam == IF req.qtype = "AAAA" THEN "v6" ELSE "v4"
            usable == {k \in passing(found) : ReachableAddress(k).fam = fam}
            addresses == {ReachableAddress(k) : k \in usable}
            told == {rr.data : rr \in reply.answer}
        IN  /\ (reply.rcode = "NXDOMAIN") = (found = {})
            /\ (reply.answer = {}) = (reply.soa # {})
            /\ IF req.qtype = "SRV" THEN (told = {}) = (passing(found) = {})
               ELSE /\ told \subseteq addresses
                    /\ (told = {}) = (addresses = {})
                    /\ IF ARecordLimit \in 1 .. Cardinality(usable) - 1
                       THEN Cardinality(told) <= ARecordLimit
                       ELSE told = addresses

(* What a query for a name, made now under its zone, would answer.         *)
lookup(name) ==
    answer([api |-> "dns", labels |-> name.labels, zone |-> name.zone, qtype |-> "A"])

srvTargets == {rr.data : rr \in {x \in reply.answer : x.type = "SRV"}}

(* Merged instances of one node agree on its address.                      *)
nodeAgrees(k) ==
    \A j \in entries("", "") :
        j.node = k.node => result[j].payload.nodeAddr = result[k].payload.nodeAddr

(* "Records (SOA/NS/SRV targets) are rendered under whichever zone the     *)
(* query arrived on" (consul-compat.md:57): the <node>.node.<dc> target of *)
(* an SRV record is itself a name this server answers, in either zone and  *)
(* for a node known by its id alone, with the very address of the glue.    *)
SrvNodeTargetsResolve ==
    Replied("dns") => \A t \in srvTargets :
        (t.labels[2] = Label("node")
           /\ \A k \in entries("", "") : DisplayName(k) = t.labels[1].text => nodeAgrees(k))
        => \A m \in lookup(t) :
             m.rcode = "NOERROR" /\ m.answer = {x \in reply.extra : x.name = t}

(* "SRV targets always resolve to the service address (<node>.node.<dc>    *)
(* when it inherits the node address, else a synthetic <hexip>.addr.<dc>)" *)
(* (consul-compat.md:47): every target is a name this server answers.      *)
SrvTargetsResolve ==
    Replied("dns") => \A t \in srvTargets : \A m \in lookup(t) : m.rcode = "NOERROR"
-----------------------------------------------------------------------------
(* The grammar of parseFilter's comment, as the set of trees a sequence    *)
(* of tokens may stand for: `not' binds closest, then `and', then `or',    *)
(* both to the left.                                                       *)
RECURSIVE trees(_, _)
trees(level, s) ==
    LET below == [or |-> "and", and |-> "not", not |-> "primary"]
        left(i) == SubSeq(s, 1, i - 1)
        right(i) == SubSeq(s, i + 1, Len(s))
    IN  CASE level \in {"or", "and"} ->
               trees(below[level], s) \cup
               UNION {{[op |-> level, l |-> x, r |-> y] :
                         x \in trees(level, left(i)), y \in trees(below[level], right(i))} :
                      i \in {j \in 1 .. Len(s) : s[j] = Word(level)}}
          [] level = "not" ->
               trees("primary", s) \cup
               (IF s # <<>> /\ s[1] = Word("not")
                THEN {[op |-> "not", l |-> x] : x \in trees("not", Tail(s))} ELSE {})
          [] level = "primary" ->
               IF Len(s) = 3 /\ parsePredicate(s, 1).ok
               THEN {parsePredicate(s, 1).e}
               ELSE IF Len(s) > 2 /\ s[1] = Word("(") /\ s[Len(s)] = Word(")")
               THEN trees("or", SubSeq(s, 2, Len(s) - 1)) ELSE {}

(* A ?filter means what its grammar says: it is refused exactly when no    *)
(* tree derives it, and otherwise selects the entries for which its one    *)
(* tree holds.                                                             *)
FilterMeans ==
    Replied("catalog/service") /\ req.filter # <<>> =>
        LET derived == trees("or", req.filter)
        IN  IF derived = {} THEN reply.status = 400
            ELSE reply.status # 400 /\ \E e \in derived :
                   /\ derived = {e}
                   /\ reply.status = 200 => keysIn(reply.body) =
                        {k \in entries(req.name, req.dc) : holds(e, viewOf(k))}

(* The documented forms of a name (parser.go:47-54).                       *)
spell(f) ==
    LET dcs == CASE f.dc = "" -> <<>>
                 [] f.short -> <<Label(f.dc)>>
                 [] OTHER -> <<Label(f.dc), Label("dc")>>
    IN  CASE f.form = "service" -> <<Label(f.name), Label("service")>> \o dcs
          [] f.form = "tagged" -> <<Label(f.tag), Label(f.name), Label("service")>> \o dcs
          [] f.form = "rfc2782" -> <<Under(f.name), Under(f.tag), Label("service")>> \o dcs
          [] f.form = "rfc2782short" -> <<Under(f.name), Under(f.tag)>> \o dcs
          [] f.form = "node" -> <<Label(f.name), Label("node")>> \o dcs

(* Every documented form of a name is answered as the query it spells,     *)
(* whichever way its datacenter is written, unless a label before the      *)
(* keyword is itself a keyword or reserved.                                *)
NamesMean ==
    Replied("dns") /\ req.form # <<>> /\ req.labels = spell(req.form) =>
        LET f == req.form
            reserved == meshLabels \cup {Label("service"), Label("node")}
            clear == f.form \in {"rfc2782", "rfc2782short"}
                       \/ {Label(f.name), Label(f.tag)} \cap reserved = {}
        IN  clear => parseName(req.labels) =
                       [kind |-> IF f.form = "node" THEN "node" ELSE "service",
                        name |-> f.name, tag |-> f.tag, dc |-> f.dc]
=============================================================================
