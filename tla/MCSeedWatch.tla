---------------------------- MODULE MCSeedWatch ----------------------------
(* Small instances of SeedWatch for TLC.                                   *)
EXTENDS SeedWatch

CONSTANTS n1, a, b, dc1, t1, c1

MCOneNode == {n1}
MCIds == {a, b}
MCMeta == [dc |-> dc1]
MCMetas == {MCMeta}
MCData(v) == [tags |-> IF v = 3 THEN {} ELSE {t1}, v |-> v]
MCDatas == {MCData(v) : v \in 1 .. 3}
MCClients == {c1}
MCQueries == {[name |-> a, dc |-> NoId, tags |-> {t1}]}

In(id, name, v) == [id |-> id, name |-> name, data |-> MCData(v), ttl |-> 1]
Reg(g, ins) == [node |-> n1, meta |-> MCMeta, gen |-> g, services |-> ins]

(* Two instances of one name registered together, one of them updated or   *)
(* stripped of its tag.                                                    *)
First == Reg(1, <<In(a, a, 1), In(b, a, 1)>>)
Updated == Reg(2, <<In(a, a, 2)>>)
Untagged == Reg(3, <<In(a, a, 3)>>)
MCWatchRegistrations == {First, Updated, Untagged}
MCUpdate == {First, Updated}
MCUntag == {Updated, Untagged}
MCRegisterOnce == {Updated}
MCRenewNode == {<<>>}

MCNone == {}
=============================================================================
