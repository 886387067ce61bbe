---- MODULE Inflight ----
(***************************************************************************)
(* The fetch path of the native server: `Inflight::cached` in              *)
(* server/src/fetch.rs, run concurrently by the request handlers of        *)
(* several pods, with the in-pod cache of each pod (CacheEntries) and the  *)
(* Memcached the pods may share.                                           *)
(*                                                                         *)
(* pc[t] names the point handler t has reached; every step between two     *)
(* acquisitions of a lock or two awaits is one action.  Memcached is       *)
(* modelled by what its client promises: a get returns what the server     *)
(* holds or nothing, a set takes effect now, never, or (when it timed out  *)
(* after it was written) late.                                             *)
(***************************************************************************)
EXTENDS CacheEntries

CONSTANTS
    Pods,
    Tasks,            \* request handlers; each serves one request at a time
    NoTask,
    PodOf,            \* the pod each handler runs on
    SharedConfigured, \* MEMCACHED_URL is set
    SharedMayFail,    \* Memcached may be slow, restart or evict
    Disconnects,      \* clients may hang up, which drops the handler's future
    STEP_TICKS,       \* bound on the time a handler needs between two waits
    FETCH_TICKS,      \* bound on an upstream call (main.rs:192, 10 s)
    LATE_TICKS,       \* bound on how late a timed-out set still lands
    MAX_LATE          \* bound on the sets that are under way at once

ASSUME InflightAssumption ==
    /\ NoTask \notin Tasks
    /\ PodOf \in [Tasks -> Pods]
    /\ SharedConfigured \in BOOLEAN
    /\ SharedMayFail \in BOOLEAN
    /\ Disconnects \in BOOLEAN
    /\ STEP_TICKS \in Nat
    /\ FETCH_TICKS \in Nat
    /\ LATE_TICKS \in Nat
    /\ MAX_LATE \in Nat
    /\ STEP_TICKS <= MAX_AGE

VARIABLES
    pc,       \* where each handler is
    key,      \* the key it was asked for
    waitsFor, \* the handler whose Notify it waits on
    ok,       \* the result of the upstream call it made or waited for
    lag,      \* time since it last had to wait
    served,   \* the age of the payload it answered with
    keys,     \* Inflight.keys of each pod: the handler that inserted the Notify
    local,    \* Cache.inner of each pod
    shared,   \* Memcached: [age, left] per key, `left` the rest of its TTL
    late      \* timed-out sets Memcached has not read yet

vars == <<pc, key, waitsFor, ok, lag, served, keys, local, shared, late>>

Answers == {"Cached", "Fresh", "Stale", "Failed"}
Idle    == Answers \cup {"idle"}
Leading == {"fetch", "store_local", "store_shared", "remove"}
Points  == Idle \cup Leading \cup
           {"lookup_shared", "lookup_local", "lock", "waiting", "notify",
            "from_cache", "get_stale"}

SharedEntries == [age : Ages, left : Nat \ {0}]
LateSets      == [key : {k \in Keys : TTL[k] > 0}, age : Ages, wait : 0 .. LATE_TICKS]

TypeOK ==
    /\ pc \in [Tasks -> Points]
    /\ key \in [Tasks -> Keys]
    /\ waitsFor \in [Tasks -> Tasks \cup {NoTask}]
    /\ ok \in [Tasks -> BOOLEAN]
    /\ lag \in [Tasks -> Nat]
    /\ served \in [Tasks -> Ages]
    /\ keys \in [Pods -> [Keys -> Tasks \cup {NoTask}]]
    /\ local \in [Pods -> Maps]
    /\ shared \in [Keys -> SharedEntries \cup {NoEntry}]
    /\ late \subseteq LateSets

Init ==
    /\ pc = [t \in Tasks |-> "idle"]
    /\ key \in [Tasks -> Keys]
    /\ waitsFor = [t \in Tasks |-> NoTask]
    /\ ok = [t \in Tasks |-> FALSE]
    /\ lag = [t \in Tasks |-> 0]
    /\ served = [t \in Tasks |-> 0]
    /\ keys = [p \in Pods |-> [k \in Keys |-> NoTask]]
    /\ local = [p \in Pods |-> EmptyMap]
    /\ shared = EmptyMap
    /\ late = {}

Goto(t, point) == pc' = [pc EXCEPT ![t] = point]

\* A wait is over (or begins): the time for the next steps counts from here.
Rest(t) == lag' = [lag EXCEPT ![t] = 0]

\* The handler answers with a payload fetched `age` ago.
Answer(t, kind, age) ==
    /\ Goto(t, kind)
    /\ Rest(t)
    /\ served' = [served EXCEPT ![t] = age]

caches == <<keys, local, shared, late>>
----
(* `lookup`: the shared cache first, then this pod's own.                  *)

Ask(t, k) ==
    /\ pc[t] \in Idle
    /\ Goto(t, IF SharedConfigured THEN "lookup_shared" ELSE "lookup_local")
    /\ key' = [key EXCEPT ![t] = k]
    /\ waitsFor' = [waitsFor EXCEPT ![t] = NoTask]
    /\ ok' = [ok EXCEPT ![t] = FALSE]
    /\ served' = [served EXCEPT ![t] = 0]
    /\ Rest(t)
    /\ UNCHANGED caches

SharedHit(t) ==
    /\ pc[t] = "lookup_shared"
    /\ shared[key[t]] # NoEntry
    /\ Answer(t, "Cached", shared[key[t]].age)
    /\ UNCHANGED <<key, waitsFor, ok, caches>>

SharedMiss(t) ==
    /\ pc[t] = "lookup_shared"
    /\ shared[key[t]] = NoEntry \/ SharedMayFail
    /\ Goto(t, "lookup_local")
    /\ UNCHANGED <<key, waitsFor, ok, lag, served, caches>>

LookupLocal(t) ==
    /\ pc[t] = "lookup_local"
    /\ LET m == local[PodOf[t]] IN
       IF Get(m, key[t])
       THEN Answer(t, "Cached", m[key[t]])
       ELSE Goto(t, "lock") /\ UNCHANGED <<lag, served>>
    /\ UNCHANGED <<key, waitsFor, ok, caches>>
----
(* The decision under the lock: wait for the handler that is fetching this *)
(* key, or become that handler.                                            *)

LeaderOf(t) == keys[PodOf[t]][key[t]]

Wait(t) ==
    /\ pc[t] = "lock"
    /\ LeaderOf(t) # NoTask
    /\ Goto(t, "waiting")
    /\ waitsFor' = [waitsFor EXCEPT ![t] = LeaderOf(t)]
    /\ Rest(t)
    /\ UNCHANGED <<key, ok, served, caches>>

\* Deviation: the key is taken over although another handler fetches it.
Lead_unguarded(t) ==
    /\ pc[t] = "lock"
    /\ Goto(t, "fetch")
    /\ keys' = [keys EXCEPT ![PodOf[t]][key[t]] = t]
    /\ Rest(t)
    /\ UNCHANGED <<key, waitsFor, ok, served, local, shared, late>>

Lead(t) ==
    /\ pc[t] = "lock"
    /\ LeaderOf(t) = NoTask
    /\ Goto(t, "fetch")
    /\ keys' = [keys EXCEPT ![PodOf[t]][key[t]] = t]
    /\ Rest(t)
    /\ UNCHANGED <<key, waitsFor, ok, served, local, shared, late>>
----
(* The upstream call and what follows it.                                  *)

FetchOk(t) ==
    /\ pc[t] = "fetch"
    /\ Goto(t, "store_local")
    /\ ok' = [ok EXCEPT ![t] = TRUE]
    /\ Rest(t)
    /\ UNCHANGED <<key, waitsFor, served, caches>>

\* Deviation: an early return on the error, before the key is removed.
FetchErr_returns_early(t) ==
    /\ pc[t] = "fetch"
    /\ Goto(t, "from_cache")
    /\ Rest(t)
    /\ UNCHANGED <<key, waitsFor, ok, served, caches>>

FetchErr(t) ==
    /\ pc[t] = "fetch"
    /\ Goto(t, "remove")
    /\ Rest(t)
    /\ UNCHANGED <<key, waitsFor, ok, served, caches>>

AfterStore == IF SharedConfigured THEN "store_shared" ELSE "remove"

\* Deviation: the payload goes to the shared cache only.
StoreLocal_skipped(t) ==
    /\ pc[t] = "store_local"
    /\ Goto(t, AfterStore)
    /\ UNCHANGED <<key, waitsFor, ok, lag, served, caches>>

StoreLocal(t) ==
    /\ pc[t] = "store_local"
    /\ local' = [local EXCEPT ![PodOf[t]] = Put(@, key[t])]
    /\ Goto(t, AfterStore)
    /\ UNCHANGED <<key, waitsFor, ok, lag, served, keys, shared, late>>

\* `shared.set`: the payload, answered lag[t] ago, replaces the entry and
\* starts a whole TTL.  A TTL of zero is not written.
StoreShared(t) ==
    /\ pc[t] = "store_shared"
    /\ Goto(t, "remove")
    /\ UNCHANGED <<key, waitsFor, ok, lag, served, keys, local>>
    /\ \/ /\ TTL[key[t]] > 0
          /\ shared' = [shared EXCEPT ![key[t]] = [age |-> lag[t], left |-> TTL[key[t]]]]
          /\ UNCHANGED late
       \/ /\ TTL[key[t]] = 0 \/ SharedMayFail
          /\ UNCHANGED <<shared, late>>
       \/ /\ TTL[key[t]] > 0 /\ SharedMayFail
          /\ Cardinality(late) < MAX_LATE
          /\ late' = late \cup {[key |-> key[t], age |-> lag[t], wait |-> 0]}
          /\ UNCHANGED shared

Remove(t) ==
    /\ pc[t] = "remove"
    /\ keys' = [keys EXCEPT ![PodOf[t]][key[t]] = NoTask]
    /\ Goto(t, "notify")
    /\ UNCHANGED <<key, waitsFor, ok, lag, served, local, shared, late>>

WaitersOf(t) ==
    {w \in Tasks : pc[w] = "waiting" /\ waitsFor[w] = t /\ key[w] = key[t]}

\* The leader, its waiters woken: `Fresh`, or on to `from_cache`.
Wake(t, woken) ==
    /\ pc' = [x \in Tasks |-> IF x \in woken THEN "from_cache"
                              ELSE IF x # t THEN pc[x]
                              ELSE IF ok[t] THEN "Fresh" ELSE "from_cache"]
    /\ ok' = [x \in Tasks |-> IF x \in woken THEN ok[t] ELSE ok[x]]
    /\ waitsFor' = [x \in Tasks |-> IF x \in woken THEN NoTask ELSE waitsFor[x]]
    /\ UNCHANGED <<key, served, caches>>

\* Deviation: `notify_one` in place of `notify_waiters`.
Notify_one(t) ==
    /\ pc[t] = "notify"
    /\ IF WaitersOf(t) = {} THEN Wake(t, {}) ELSE \E w \in WaitersOf(t) : Wake(t, {w})
    /\ UNCHANGED lag

Notify(t) ==
    /\ pc[t] = "notify"
    /\ Wake(t, WaitersOf(t))
    /\ lag' = IF ok[t] THEN [lag EXCEPT ![t] = 0] ELSE lag
----
(* `from_cache`, in the leader after a failure and in every woken waiter.  *)
(* The two reads lock the map one after the other.                         *)

FromCacheGet(t) ==
    /\ pc[t] = "from_cache"
    /\ LET m == local[PodOf[t]] IN
       IF Get(m, key[t])
       THEN Answer(t, "Cached", m[key[t]])
       ELSE Goto(t, "get_stale") /\ UNCHANGED <<lag, served>>
    /\ UNCHANGED <<key, waitsFor, ok, caches>>

FromCacheStale(t) ==
    /\ pc[t] = "get_stale"
    /\ LET m == local[PodOf[t]] IN
       IF GetStale(m, key[t])
       THEN Answer(t, "Stale", m[key[t]])
       ELSE Answer(t, "Failed", 0)
    /\ UNCHANGED <<key, waitsFor, ok, caches>>
----
(* The world around the handlers.                                          *)

Awaiting == {"lookup_shared", "lock", "waiting", "fetch", "store_shared", "remove"}

\* The client hangs up while the handler waits: its future is dropped there
\* and nothing after that point runs.
Disconnect(t) ==
    /\ Disconnects
    /\ pc[t] \in Awaiting
    /\ Goto(t, "idle")
    /\ Rest(t)
    /\ UNCHANGED <<key, waitsFor, ok, served, caches>>

\* A set that timed out in its pod reaches Memcached after all.
LateSet ==
    \E s \in late :
        /\ shared' = [shared EXCEPT ![s.key] = [age |-> s.age, left |-> TTL[s.key]]]
        /\ late' = late \ {s}
        /\ UNCHANGED <<pc, key, waitsFor, ok, lag, served, keys, local>>

\* Memcached restarts, or evicts an entry.
SharedLoss(k) ==
    /\ SharedMayFail
    /\ shared[k] # NoEntry
    /\ shared' = [shared EXCEPT ![k] = NoEntry]
    /\ UNCHANGED <<pc, key, waitsFor, ok, lag, served, keys, local, late>>

Unhurried == Idle \cup {"waiting"}

Limit(point) == IF point = "fetch" THEN FETCH_TICKS ELSE STEP_TICKS

SharedOlder(e) ==
    IF e = NoEntry THEN NoEntry
    ELSE IF e.left = 1 THEN NoEntry ELSE [age |-> Older(e.age), left |-> e.left - 1]

\* A unit of time passes, unless a handler's bound has been used up.
Tick ==
    /\ \A t \in Tasks : pc[t] \notin Unhurried => lag[t] < Limit(pc[t])
    /\ \A s \in late : s.wait < LATE_TICKS
    /\ lag' = [t \in Tasks |-> IF pc[t] \in Unhurried THEN lag[t] ELSE lag[t] + 1]
    /\ local' = [p \in Pods |-> Aged(local[p])]
    /\ shared' = [k \in Keys |-> SharedOlder(shared[k])]
    /\ late' = {[s EXCEPT !.age = Older(@), !.wait = @ + 1] : s \in late}
    /\ UNCHANGED <<pc, key, waitsFor, ok, served, keys>>
----
Handle(t) ==
    \/ SharedHit(t) \/ SharedMiss(t) \/ LookupLocal(t)
    \/ Wait(t) \/ Lead(t)
    \/ FetchOk(t) \/ FetchErr(t)
    \/ StoreLocal(t) \/ StoreShared(t) \/ Remove(t) \/ Notify(t)
    \/ FromCacheGet(t) \/ FromCacheStale(t)

Next ==
    \/ \E t \in Tasks : Handle(t) \/ Disconnect(t) \/ \E k \in Keys : Ask(t, k)
    \/ LateSet
    \/ \E k \in Keys : SharedLoss(k)
    \/ Tick

Spec == Init /\ [][Next]_vars

\* The runtime polls every handler that can go on; an upstream call ends
\* because reqwest bounds it (main.rs:192).  Nothing else is promised.
FairSpec == Spec /\ \A t \in Tasks : WF_vars(Handle(t))
----
(* Safety.                                                                 *)

SameKey(s, t) == PodOf[s] = PodOf[t] /\ key[s] = key[t]

\* "One upstream call per cache key per pod" (fetch.rs:31): two handlers of a
\* pod never have a call for the same key, or the storing of its result,
\* under way together.
AtMostOneCall ==
    \A s, t \in Tasks :
        s # t /\ SameKey(s, t) => ~(pc[s] \in Leading /\ pc[t] \in Leading)

\* Nobody sleeps through the notification (fetch.rs:50-53 against 65-66): the
\* Notify a waiter waits on is the one registered for its key, or the handler
\* that took it out of the table is just about to notify.  The registered
\* handler is on its way to do so, unless its client has hung up.
NoLostWaiter ==
    \A t \in Tasks : pc[t] = "waiting" =>
        LET leader == waitsFor[t] IN
        /\ leader \in Tasks
        /\ \/ /\ LeaderOf(t) = leader
              /\ Disconnects \/ (SameKey(leader, t) /\ pc[leader] \in Leading)
           \/ SameKey(leader, t) /\ pc[leader] = "notify"

\* How far a shared hit can be past the TTL: the store that wrote it came
\* late, or landed late.
SharedSlack == IF SharedConfigured THEN STEP_TICKS + LATE_TICKS ELSE 0

\* No client is given an old payload as a new one: `Cached` is within its TTL
\* (give or take a store that came late), whichever pod fetched it and in
\* whatever order the stores of several pods reached Memcached; `Stale` is
\* within STALE_MAX_AGE.
ServedInWindow ==
    \A t \in Tasks :
        /\ pc[t] = "Cached" => served[t] < TTL[key[t]] + SharedSlack
        /\ pc[t] = "Stale" => served[t] <= STALE_MAX_AGE

\* "Upstream failed, this is the last good payload" (fetch.rs:17): a handler
\* answers `Stale` or `Failed` only when the upstream call it made, or
\* waited for, has failed.
FailureIsReal ==
    \A t \in Tasks : pc[t] \in {"Stale", "Failed"} => ~ok[t]

\* "Concurrent misses wait for the first fetch and then read what it cached"
\* (fetch.rs:32-33), and nothing older: a handler whose call, or the one it
\* waited for, succeeded is given what that call fetched, at most the leader's
\* last steps and its own ago, although the entry it reads may have been
\* written, swept and written again by others, and its leader may have found an
\* entry already there.
ResultIsShared ==
    \A t \in Tasks :
        ok[t] /\ pc[t] \in {"Cached", "Stale"} => served[t] <= 2 * STEP_TICKS

\* What a pod could still serve when upstream fails is kept: no step, and no
\* sweep that an insert of another key triggers (cache.rs:85-88), drops an
\* entry that was fetched less than STALE_MAX_AGE ago.  An entry of exactly
\* that age is swept, although `get_stale` (cache.rs:73) would still serve it.
SweepKeepsYoung ==
    [][\A p \in Pods, k \in Keys :
        local[p][k] # NoEntry /\ local[p][k] < STALE_MAX_AGE => local'[p][k] # NoEntry]_vars

\* The memory bound the sweep is there for: whatever has piled up, an insert
\* leaves at most SWEEP_THRESHOLD entries that were fetched STALE_MAX_AGE ago or
\* longer.  Those older than that nothing serves any more, unless they have a
\* longer TTL.
DeadBounded ==
    [][\A t \in Tasks : StoreLocal(t) =>
        Cardinality({k \in Keys : LET e == local'[PodOf[t]][k] IN
                        e # NoEntry /\ e >= STALE_MAX_AGE}) <= SWEEP_THRESHOLD]_vars

\* "One upstream call per cache key per pod" (fetch.rs:31), taken at its word:
\* no call starts while the pod still holds a payload inside its TTL.
NoCallWhileFresh ==
    [][\A t \in Tasks : Lead(t) => ~Get(local[PodOf[t]], key[t])]_vars

\* "How long an expired entry is kept so it can be served when upstream fails"
\* (cache.rs:12): a client gets an error only when the pod has no payload for
\* the key, or one that expired more than STALE_MAX_AGE ago.
ExpiredIsKept ==
    [][\A t \in Tasks :
        LET e == local[PodOf[t]][key[t]] IN
        pc[t] = "get_stale" /\ pc'[t] = "Failed"
          => e = NoEntry \/ e > TTL[key[t]] + STALE_MAX_AGE]_vars

(* Refinement.                                                             *)

StageOf(point) ==
    CASE point \in Idle -> point
      [] point \in Leading -> "calling"
      [] point = "notify" -> "landing"
      [] point \in {"from_cache", "get_stale"} -> "told"
      [] OTHER -> "asking"

SF == INSTANCE SingleFlight WITH
    stage <- [t \in Tasks |-> StageOf(pc[t])],
    wants <- key,
    good  <- [t \in Tasks |-> pc[t] \in {"from_cache", "get_stale"} /\ ok[t]]

\* The fetch path, with its locks, waiters, caches and clock, does nothing
\* that one shared call per key and pod would not do.
SingleFlightSpec == SF!Spec

(* Liveness.                                                               *)

\* Every request is answered: no lookup, lock, upstream call or notification
\* leaves a handler behind.
Answered == \A t \in Tasks : pc[t] \notin Idle ~> pc[t] \in Idle

\* "Concurrent misses wait for the first fetch and then read what it cached"
\* (fetch.rs:32-33): a waiter does not wait for ever.
WaitersGoOn == \A t \in Tasks : pc[t] = "waiting" ~> pc[t] # "waiting"

====
