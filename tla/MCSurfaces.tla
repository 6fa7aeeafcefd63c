----------------------------- MODULE MCSurfaces -----------------------------
(* Small instances of Surfaces for TLC.                                    *)
EXTENDS Surfaces

CONSTANTS s1, s2, s3

MCSeeds == {s1, s2, s3}

(* Two instances of web, the second on a node without a name, and one of   *)
(* db beside the first.                                                    *)
Key(node, display, name, ord) ==
    [node |-> node, display |-> display, name |-> name, ord |-> ord]
web1 == Key("i1", "n1", "web", 2)
web2 == Key("i2", "", "web", 3)
db1 == Key("i1", "n1", "db", 1)
MCKeys == {web1, web2, db1}

Addr(fam, a) == [fam |-> fam, a |-> a]
Home(k) == Addr("v4", k.node)
Other == Addr("v4", "other")
Pay(addr, home, tags, ttl) ==
    [addr |-> addr, nodeAddr |-> home, nodeMeta |-> {"rack"}, tags |-> tags,
     meta |-> "m", ttl |-> ttl]

MCAddrs(k) == {NoAddr, Home(k), Other, Addr("v6", "six"), Addr("host", "h")}
MCPay(k, addr) == Pay(addr, Home(k), {"t1"}, 3)
MCMoved == Pay(NoAddr, Addr("v6", "i1"), {"t2"}, 2)
MCPayloads == {MCPay(k, a) : k \in MCKeys, a \in UNION {MCAddrs(j) : j \in MCKeys}}
                \cup {MCMoved}

Health == {<<Passing, FALSE>>, <<Critical, FALSE>>, <<Passing, TRUE>>}
MCCopy(gen, seen, pay, h) ==
    [gen |-> gen, lastSeen |-> seen, payload |-> pay, health |-> h[1],
     maintenance |-> h[2]]
Nothing == [k \in MCKeys |-> NoCopy]

(* One instance, in every version, standing or failing, on three seeds.    *)
Standing == {<<Passing, FALSE>>, <<Critical, FALSE>>}
Versions ==
    {NoCopy} \cup {MCCopy(g, t, MCPay(web1, NoAddr), h) :
                   g \in 1 .. 2, t \in 1 .. 2, h \in Standing}
Diverging ==
    {[s \in MCSeeds |-> [Nothing EXCEPT ![web1] = c[s]]] : c \in [MCSeeds -> Versions]}

(* Two instances on one seed, with every address and health.               *)
Variants(k) ==
    {NoCopy} \cup {MCCopy(1, 1, MCPay(k, a), h) : a \in MCAddrs(k), h \in Health}
Pairs(k) ==
    {[s \in MCSeeds |-> IF s = s1 THEN [Nothing EXCEPT ![web1] = c, ![k] = d]
                        ELSE Nothing] :
       c \in Variants(web1), d \in Variants(k)}

(* A node that moved, seen by one seed only.                               *)
Moved ==
    {[s \in MCSeeds |->
        IF s = s1 THEN [Nothing EXCEPT ![web1] = MCCopy(1, 1, MCPay(web1, NoAddr), h),
                                       ![db1] = MCCopy(1, 1, MCPay(db1, NoAddr), h)]
        ELSE IF s = s2 THEN [Nothing EXCEPT ![db1] = MCCopy(2, 1, MCMoved, h)]
        ELSE Nothing] : h \in Health}

(* One instance, for the filters.                                          *)
Plain == [s \in MCSeeds |->
            IF s = s1 THEN [Nothing EXCEPT ![web1] = MCCopy(1, 1, MCPay(web1, NoAddr), <<Passing, TRUE>>)]
            ELSE Nothing]

MCClusters == Diverging \cup Pairs(web2) \cup Pairs(db1) \cup Moved \cup {Plain}
MCTags == {"t1", "web"}
-----------------------------------------------------------------------------
Http(api, name, dc, tg, pass, state, filter) ==
    [api |-> api, name |-> name, dc |-> dc, tag |-> tg, passing |-> pass,
     state |-> state, filter |-> filter]
Dns(labels, zone, qtype, form) ==
    [api |-> "dns", labels |-> labels, zone |-> zone, qtype |-> qtype, form |-> form]
Form(form, name, tg, dc, short) ==
    [form |-> form, name |-> name, tag |-> tg, dc |-> dc, short |-> short]
Spelled(f, zone, qtype) == Dns(spell(f), zone, qtype, f)

Passing1 == Http("health/service", "web", "", "", TRUE, "", <<>>)
SomeHttp ==
    {Passing1, [Passing1 EXCEPT !.passing = FALSE], [Passing1 EXCEPT !.dc = "west"],
     [Passing1 EXCEPT !.tag = "t1"], [Passing1 EXCEPT !.dc = "nowhere"],
     [Passing1 EXCEPT !.api = "catalog/nodes", !.name = ""],
     [Passing1 EXCEPT !.api = "catalog/services", !.name = ""],
     [Passing1 EXCEPT !.api = "health/checks"],
     [Passing1 EXCEPT !.api = "health/state", !.state = "any"],
     [Passing1 EXCEPT !.api = "agent/health"],
     [Passing1 EXCEPT !.api = "agent/checks"]}

SomeDns ==
    {Spelled(Form("service", "web", "", "", FALSE), z, t) :
       z \in {"primary", "alt", "outside"}, t \in {"A", "AAAA", "SRV", "SOA"}}
    \cup {Spelled(Form("node", n, "", "", FALSE), "primary", t) :
            n \in {"n1", "i2"}, t \in {"A", "TXT"}}

(* Every form, with names that are clear and names that are not.           *)
Forms ==
    {Form(f, n, IF f \in {"service", "node"} THEN "" ELSE "t1", dc, short) :
       f \in {"service", "tagged", "rfc2782", "rfc2782short", "node"},
       n \in {"web", "n1", "node", "query", "dc"}, dc \in {"", "dc1", "west", "dc"},
       short \in BOOLEAN}
OddNames ==
    {<<Label("web")>>, <<Label("service")>>, <<Label("a"), Label("b"), Label("web"), Label("service")>>,
     <<Label("web"), Label("service"), Label("x"), Label("y")>>,
     <<Label("n1"), Label("rack"), Label("node")>>}

(* Filters of up to MaxLexemes lexemes, a predicate counting as one.       *)
CONSTANT MaxLexemes
Lexemes ==
    {<<Word(w)>> : w \in {"(", ")", "and", "or", "not"}}
      \cup {<<Quoted("t2"), Word("in"), Word("ServiceTags")>>,
            <<Word("ServiceMeta.k"), Word("!="), Word("other")>>}
Filters ==
    {FlattenSeq(x) : x \in UNION {[1 .. n -> Lexemes] : n \in 1 .. MaxLexemes}}

MCAsks(r) ==
    IF r = Plain
    THEN {Spelled(f, "alt", "A") : f \in Forms} \cup {Dns(l, "primary", "A", <<>>) : l \in OddNames}
           \cup {Http("catalog/service", "web", "", "", FALSE, "", f) : f \in Filters}
    ELSE IF r \in Diverging THEN {Passing1, [Passing1 EXCEPT !.api = "agent/health"]}
    ELSE SomeHttp \cup SomeDns
=============================================================================
