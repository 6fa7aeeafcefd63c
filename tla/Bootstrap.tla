----------------------------- MODULE Bootstrap -----------------------------
(***************************************************************************)
(* Joining a cluster (internal/bootstrap, internal/ratelimit,              *)
(* cmd/yp/bootstrap.go): an operator mints a short-lived token from a      *)
(* seed's configuration, a node presents it to that seed's GetConfig and   *)
(* writes the configuration it is given to a file.                         *)
(*                                                                         *)
(* Time is counted in ticks, TicksPerSecond to the second.  A token is its *)
(* expiry in whole seconds; when it was minted and for how long is kept    *)
(* beside it.  Signatures are left out: a token is minted with the seed's  *)
(* own key, or it is NoToken, which the seed cannot verify.                *)
(***************************************************************************)
EXTENDS Config, Sequences, FiniteSets

CONSTANTS
    TicksPerSecond,
    Hosts,          \* source hosts
    Configs,        \* the files seeds are started with
    TokenTTLs,      \* --ttl, in ticks; 0 when the flag is not given
    Bound(_),       \* bounds, per seed: [asks, tokens, time, starts, writes, locals]
    NoFile

ASSUME BootstrapAssumption ==
    /\ TicksPerSecond \in Nat \ {0} /\ TokenTTLs \subseteq Nat
    /\ Configs \subseteq Document

VARIABLES
    seedCfg,        \* the configuration of the seed, which does not change
    now,            \* the clock of the seed
    counts, resetAt,\* Limiter.counts and resetAt
    tokens,         \* tokens minted so far
    log,            \* history: [host, at, allowed] of every request
    file            \* the joining node's configuration file

bootVars == <<seedCfg, now, counts, resetAt, tokens, log, file>>

second(t) == t \div TicksPerSecond
-----------------------------------------------------------------------------
(* Limiter.Allow, as the limiter it leaves; the request is allowed when    *)
(* its count is within the limit.  The clock starts after the zero time.   *)
limit == seedCfg.bootstrap.rateLimit

(* Mutant of Allow: the window is never moved on.                          *)
AllowStuck(l, h, t) ==
    LET over == t > l.resetAt
        base == IF over THEN [x \in Hosts |-> 0] ELSE l.counts
    IN  [counts |-> [base EXCEPT ![h] = @ + 1], resetAt |-> l.resetAt]

(* Mutant of Allow: every request moves the window on.                     *)
AllowSlides(l, h, t) ==
    LET over == t > l.resetAt
        base == IF over THEN [x \in Hosts |-> 0] ELSE l.counts
    IN  [counts |-> [base EXCEPT ![h] = @ + 1], resetAt |-> t + TicksPerSecond]

Allow(l, h, t) ==
    LET over == t > l.resetAt
        base == IF over THEN [x \in Hosts |-> 0] ELSE l.counts
    IN  [counts |-> [base EXCEPT ![h] = @ + 1],
         resetAt |-> IF over THEN t + TicksPerSecond ELSE l.resetAt]

allowed(l, h) == limit <= 0 \/ l.counts[h] <= limit
-----------------------------------------------------------------------------
(* create-token, run on the seed: the flag, else token_ttl, else 30s.      *)
tokenTTL(flag) ==
    IF flag > 0 THEN flag
    ELSE TicksPerSecond * (IF seedCfg.bootstrap.tokenTTL > 0
                           THEN seedCfg.bootstrap.tokenTTL ELSE 30)

MintToken(ttl) == [exp |-> second(now + ttl), minted |-> now, ttl |-> ttl]

(* A key under MinSigningKeyLen starts a seed but mints nothing.           *)
CreateToken(flag) ==
    /\ seedCfg.bootstrap.enabled /\ seedCfg.bootstrap.key # "short"
    /\ Cardinality(tokens) < Bound(seedCfg).tokens
    /\ tokens' = tokens \cup {MintToken(tokenTTL(flag))}
    /\ UNCHANGED <<seedCfg, now, counts, resetAt, log, file>>

NoToken == [exp |-> -1, minted |-> 0, ttl |-> 0]
ValidateToken(token) == token # NoToken /\ second(now) <= token.exp

(* The outcome of GetConfig once the limiter let it through: the token,    *)
(* then the role, "" being an agent.                                       *)
code(token, role) ==
    CASE ~ValidateToken(token) -> "Unauthenticated"
      [] ValidateToken(token) /\ role = "seed" /\ ~seedCfg.bootstrap.allowSeedJoin ->
           "PermissionDenied"
      [] ValidateToken(token) /\ role \notin Roles \cup {""} -> "InvalidArgument"
      [] OTHER -> "OK"

(* yp bootstrap --out: what is served replaces the file, whatever the node *)
(* had added to it; an error leaves it.                                    *)
writeOut(served, role) ==
    file' = IF served
            THEN Render(seedCfg, IF role = "" THEN "agent" ELSE role, advertised(seedCfg))
            ELSE file

GetConfig(h, token, role) ==
    LET l == Allow([counts |-> counts, resetAt |-> resetAt], h, now)
    IN  /\ seedCfg.bootstrap.enabled
        /\ Len(log) < Bound(seedCfg).asks
        /\ counts' = l.counts /\ resetAt' = l.resetAt
        /\ log' = Append(log, [host |-> h, at |-> now, allowed |-> allowed(l, h)])
        /\ writeOut(allowed(l, h) /\ code(token, role) = "OK", role)
        /\ UNCHANGED <<seedCfg, now, tokens>>

Pass ==
    /\ now < Bound(seedCfg).time
    /\ now' = now + 1
    /\ UNCHANGED <<seedCfg, counts, resetAt, tokens, log, file>>

BootInit ==
    /\ \E f \in Configs : Accepted(f) /\ seedCfg = Parse(f)
    /\ now = 1 /\ counts = [h \in Hosts |-> 0] /\ resetAt = 0
    /\ tokens = {} /\ log = <<>> /\ file = NoFile

BootNext ==
    \/ \E flag \in TokenTTLs : CreateToken(flag)
    \/ \E h \in Hosts, token \in tokens \cup {NoToken}, role \in Roles \cup {"", "other"} :
         GetConfig(h, token, role)
    \/ Pass
-----------------------------------------------------------------------------
(* Properties.                                                             *)

(* The requests of h that were let through between two times.              *)
letThrough(h, from, to) ==
    {i \in DOMAIN log : log[i].host = h /\ log[i].allowed
                          /\ log[i].at \in from .. to}

(* "Limiter caps requests per second per key" (ratelimit.go:30): windows   *)
(* start when a request finds the last one over, so two of them can meet   *)
(* in a second, but never more.                                            *)
AdmittedPerSecond ==
    \A i \in DOMAIN log :
        Cardinality(letThrough(log[i].host, log[i].at, log[i].at + TicksPerSecond))
          <= 2 * limit

(* A request is refused only to a host that had its full limit let through *)
(* within the last second, however other hosts behave and however often it *)
(* was refused.                                                            *)
RefusalJustified ==
    \A i \in DOMAIN log :
        ~log[i].allowed =>
          Cardinality({j \in letThrough(log[i].host, log[i].at - TicksPerSecond, log[i].at) :
                         j < i}) >= limit

(* "A token is valid for ttl from now" (token.go:53): it is accepted until *)
(* its time is over, to the fraction of a second, and "a leaked token is   *)
(* useless after its TTL" (bootstrap.md:33), give or take the second in    *)
(* which it ends.                                                          *)
TokenLifetime ==
    \A token \in tokens :
        /\ now <= token.minted + token.ttl => ValidateToken(token)
        /\ now >= token.minted + token.ttl + TicksPerSecond => ~ValidateToken(token)
=============================================================================
