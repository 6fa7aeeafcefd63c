------------------------------- MODULE Lease -------------------------------
(***************************************************************************)
(* Pure definitions shared by every module that handles leases: the TTL    *)
(* clamp, the lease-derived health, and the last-writer-wins order         *)
(* (internal/store/store.go, internal/model/model.go).                     *)
(*                                                                         *)
(* Durations and instants are natural numbers of one common unit.          *)
(***************************************************************************)
EXTENDS Integers

CONSTANTS
    DefaultTTL,     \* Options.DefaultTTL, positive after NewMemory
    MinTTL,         \* Options.MinTTL, 0 disables the bound
    MaxTTL,         \* Options.MaxTTL, 0 disables the bound
    GracePeriod     \* Options.GracePeriod

ASSUME LeaseAssumption ==
    /\ DefaultTTL \in Nat \ {0}
    /\ MinTTL \in Nat
    /\ MaxTTL \in Nat
    /\ GracePeriod \in Nat

Passing == "passing"
Critical == "critical"
HealthStates == {Passing, Critical}

(* An unset TTL takes the default; then the lower and the upper bound.     *)
clampTTL(ttl) ==
    LET d == IF ttl <= 0 THEN DefaultTTL ELSE ttl
        e == IF MinTTL > 0 /\ d < MinTTL THEN MinTTL ELSE d
    IN  IF MaxTTL > 0 /\ e > MaxTTL THEN MaxTTL ELSE e

(* lease returns (state, expired); the two results are two operators.      *)
(* A forced failure is critical and never past its grace window.           *)
leaseState(svc, t) ==
    IF ~svc.failed /\ t - svc.def.lastSeen <= svc.def.ttl
    THEN Passing
    ELSE Critical

leaseExpired(svc, t) ==
    ~svc.failed /\ t - svc.def.lastSeen > svc.def.ttl + GracePeriod

(* The data version decides; a later heartbeat breaks a tie.               *)
WinsLWW(d, other) ==
    \/ d.gen > other.gen
    \/ d.gen = other.gen /\ d.lastSeen > other.lastSeen
=============================================================================
