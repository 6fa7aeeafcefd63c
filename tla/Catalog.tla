------------------------------ MODULE Catalog ------------------------------
(***************************************************************************)
(* What the registry of a seed promises to a reader that follows it by its *)
(* index (internal/store/store.go, the Store interface): a set of visible  *)
(* service instances that changes one instance at a time, each change at   *)
(* the next index, and nothing visible changes without it.  Heartbeats,    *)
(* locks, the name index and the order of deliveries do not appear.        *)
(***************************************************************************)
EXTENDS Integers

CONSTANTS Services,     \* who may be listed
          Views,        \* what a reader can see of a listed service
          Absent,       \* not listed
          StartRev      \* the index of the empty catalogue

VARIABLES cat, rev

Init ==
    /\ cat = [r \in Services |-> Absent]
    /\ rev = StartRev

(* List r, or show it differently, at the next index.                      *)
Put(r) ==
    /\ rev' = rev + 1
    /\ cat'[r] # Absent
    /\ cat'[r].view \in Views
    /\ cat'[r].rev = rev + 1
    /\ cat' = [cat EXCEPT ![r] = cat'[r]]

Delete(r) ==
    /\ cat[r] # Absent
    /\ rev' = rev + 1
    /\ cat' = [cat EXCEPT ![r] = Absent]

Next == \E r \in Services : Put(r) \/ Delete(r)

Spec == Init /\ [][Next]_<<cat, rev>>
=============================================================================
