------------------------------ MODULE DnsNames ------------------------------
(***************************************************************************)
(* The names the DNS surface understands (internal/consuldns/parser.go).   *)
(* A name is the sequence of its labels below the served zone; a label is  *)
(* its lower-case text and whether an underscore precedes it.              *)
(***************************************************************************)
EXTENDS Integers, SequencesExt

Label(t) == [text |-> t, under |-> FALSE]
Under(t) == [text |-> t, under |-> TRUE]

meshLabels ==
    {Label(t) : t \in {"connect", "virtual", "ingress", "ns", "ap", "peer",
                       "query", "addr"}}

Unknown == [kind |-> "unknown", name |-> "", tag |-> "", dc |-> ""]

(* [<dc> dc] or the legacy [<dc>]; anything else reads as no datacenter.   *)
dcFromRest(rest) ==
    CASE Len(rest) = 2 /\ rest[2] = Label("dc") -> rest[1].text
      [] Len(rest) = 1 -> rest[1].text
      [] OTHER -> ""

(* Mutant of parseServicePrefix: the labels the other way round.           *)
parseServicePrefixSwapped(before, dc) ==
    CASE Len(before) = 1 ->
           [kind |-> "service", name |-> before[1].text, tag |-> "", dc |-> dc]
      [] Len(before) = 2 ->
           [kind |-> "service", name |-> before[1].text, tag |-> before[2].text,
            dc |-> dc]
      [] OTHER -> Unknown

parseServicePrefix(before, dc) ==
    CASE Len(before) = 1 ->
           [kind |-> "service", name |-> before[1].text, tag |-> "", dc |-> dc]
      [] Len(before) = 2 ->
           [kind |-> "service", name |-> before[2].text, tag |-> before[1].text,
            dc |-> dc]
      [] OTHER -> Unknown

(* RFC2782: the keyword is optional, the protocol label is a tag.          *)
parseRFC2782(labels) ==
    LET rest == SubSeq(labels, 3, Len(labels))
        after == IF rest # <<>> /\ rest[1] = Label("service") THEN Tail(rest)
                 ELSE rest
    IN  [kind |-> "service", name |-> labels[1].text, tag |-> labels[2].text,
         dc |-> dcFromRest(after)]

joined(labels) ==
    FoldLeft(LAMBDA name, l : name \o "." \o l.text, labels[1].text, Tail(labels))

(* The first label that is a keyword or not served decides; a node's name  *)
(* may have several labels.                                                *)
parseName(labels) ==
    LET deciding == {i \in 1 .. Len(labels) :
                       labels[i] \in {Label("service"), Label("node")} \cup meshLabels}
        i == CHOOSE j \in deciding : \A l \in deciding : j <= l
        before == SubSeq(labels, 1, i - 1)
        dc == dcFromRest(SubSeq(labels, i + 1, Len(labels)))
    IN  IF Len(labels) >= 2 /\ labels[1].under /\ labels[2].under
        THEN parseRFC2782(labels)
        ELSE IF deciding = {} THEN Unknown
        ELSE CASE labels[i] = Label("service") -> parseServicePrefix(before, dc)
               [] labels[i] = Label("node") /\ before # <<>> ->
                    [kind |-> "node", name |-> joined(before), tag |-> "", dc |-> dc]
               [] OTHER -> Unknown
=============================================================================
