----------------------------- MODULE WatchIndex -----------------------------
(***************************************************************************)
(* The index arithmetic of watch.Watcher (internal/watch/watcher.go),      *)
(* shared by the seed's streams and the agent's blocking queries: one      *)
(* global index and one index per service name, where 0 stands for a name  *)
(* the watcher has not seen.                                               *)
(***************************************************************************)
EXTENDS Integers, Sequences, FiniteSetsExt

atLeastOne(x) == IF x < 1 THEN 1 ELSE x

(* The index for a query: the key of a name already seen, else the table   *)
(* index.  Keyed by membership, so a list query passes a name that is no   *)
(* key.                                                                    *)
currentIndexLocked(idx, nameIdx, name) ==
    IF name \in DOMAIN nameIdx /\ nameIdx[name] # 0
    THEN atLeastOne(nameIdx[name])
    ELSE atLeastOne(idx)

(* Mutant of keysAfter: every name counts its own changes.                 *)
keysAfterPerName(idx, nameIdx, names) ==
    [n \in DOMAIN nameIdx |->
        nameIdx[n] + Cardinality({i \in 1 .. Len(names) : names[i] = n})]

(* The keys after a batch of changes: each change takes the next index,    *)
(* the last change of a name is the one its key keeps.                     *)
keysAfter(idx, nameIdx, names) ==
    [n \in DOMAIN nameIdx |->
        LET at == {i \in 1 .. Len(names) : names[i] = n}
        IN  IF at = {} THEN nameIdx[n] ELSE idx + Max(at)]
=============================================================================
