---- MODULE CacheEntries ----
(***************************************************************************)
(* What one pod remembers: server/src/cache.rs as operators over a map     *)
(* from keys to entries.                                                   *)
(*                                                                         *)
(* An entry is represented by its AGE, the whole time units since its      *)
(* `fetched_at`; its payload is left out and its `expiry` is               *)
(* `fetched_at + ttl`, with one TTL per key (every route passes the same   *)
(* TTL for a key for as long as the process runs).  All comparisons of the *)
(* code are between the age and a constant, so ages are counted up to      *)
(* MAX_AGE, above every such constant, and stay there.                     *)
(***************************************************************************)
EXTENDS Integers, FiniteSets

CONSTANTS
    Keys,            \* cache keys
    TTL,             \* TTL[k]: the ttl_secs the routes pass for key k
    STALE_MAX_AGE,   \* cache.rs:13
    SWEEP_THRESHOLD, \* cache.rs:10
    MAX_AGE,         \* bound on the ages that are told apart
    NoEntry          \* what a map holds for a key without an entry

ASSUME CacheAssumption ==
    /\ TTL \in [Keys -> Nat]
    /\ STALE_MAX_AGE \in Nat
    /\ SWEEP_THRESHOLD \in Nat
    /\ MAX_AGE \in Nat
    /\ STALE_MAX_AGE < MAX_AGE
    /\ \A k \in Keys : TTL[k] <= MAX_AGE
    /\ NoEntry \notin Nat

Ages == 0 .. MAX_AGE

Maps == [Keys -> Ages \cup {NoEntry}]

EmptyMap == [k \in Keys |-> NoEntry]

\* One time unit later.
Older(e) == IF e \in Ages /\ e < MAX_AGE THEN e + 1 ELSE e

Aged(m) == [k \in Keys |-> Older(m[k])]

Held(m) == {k \in Keys : m[k] # NoEntry}

\* Deviation: expired entries count as hits.
Get_ignores_expiry(m, k) == m[k] # NoEntry

\* `get`: a hit while `expiry > now`.
Get(m, k) == m[k] # NoEntry /\ m[k] < TTL[k]

\* `get_stale`: fresh entries qualify too.
GetStale(m, k) == m[k] # NoEntry /\ m[k] <= STALE_MAX_AGE

\* Deviation: the comparison is the wrong way round.
Swept_swapped(m) ==
    IF Cardinality(Held(m)) > SWEEP_THRESHOLD
    THEN [k \in Keys |-> IF m[k] # NoEntry /\ m[k] >= STALE_MAX_AGE
                         THEN m[k] ELSE NoEntry]
    ELSE m

\* Deviation: nothing is ever dropped.
Swept_never(m) == m

\* The sweep `put_at` runs before it inserts.
Swept(m) ==
    IF Cardinality(Held(m)) > SWEEP_THRESHOLD
    THEN [k \in Keys |-> IF m[k] # NoEntry /\ m[k] < STALE_MAX_AGE
                         THEN m[k] ELSE NoEntry]
    ELSE m

\* Deviation: an entry that is there is left as it is (`or_insert`).
Put_keeps_old(m, k) == [Swept(m) EXCEPT ![k] = IF @ = NoEntry THEN 0 ELSE @]

\* `put_at` with `fetched_at` = now.
Put(m, k) == [Swept(m) EXCEPT ![k] = 0]

====
