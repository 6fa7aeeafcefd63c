----------------------------- MODULE MCRegistry -----------------------------
(* Small instances of Registry for TLC.                                    *)
EXTENDS Registry

CONSTANTS n1, n2, a, b, dc1, t1, t2

MCNodes == {n1, n2}
MCIds == {a, b}
MCMeta(v) == [dc |-> dc1, v |-> v]
MCMetas == {MCMeta(1), MCMeta(2)}
MCData(v) == [tags |-> IF v = 1 THEN {t1} ELSE {t1, t2}, v |-> v]
MCDatas == {MCData(1), MCData(2)}

In(id, name, v, ttl) == [id |-> id, name |-> name, data |-> MCData(v), ttl |-> ttl]
Reg(n, m, g, ins) == [node |-> n, meta |-> MCMeta(m), gen |-> g, services |-> ins]
Peer(n, id, name, v, g, t) ==
    [ref |-> <<n, id>>, meta |-> MCMeta(2), name |-> name, data |-> MCData(v),
     ttl |-> 1, gen |-> g, lastSeen |-> t]

(* Two services at once, a rename, changed data, an id defaulted to a name.*)
MCRegistrations ==
    {Reg(n1, 1, 1, <<In(NoId, a, 1, 1), In(b, b, 1, 0)>>),
     Reg(n1, 1, 2, <<In(b, a, 2, 1)>>),
     Reg(n2, 1, 1, <<In(a, a, 1, 1)>>)}

(* The second entry may come from a peer whose clock runs ahead.           *)
MCPeerBatches ==
    {<<Peer(n1, a, b, 2, 2, 0), Peer(n2, a, a, 1, 0, 1)>>}

MCRenewArgs == {<<>>, <<a, b>>, <<b>>}
MCFailRefs == {<<n1, a>>, <<n2, a>>}
=============================================================================
