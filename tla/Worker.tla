---- MODULE Worker ----
(***************************************************************************)
(* The Cloudflare Worker's way from a cache key to an answer:              *)
(* `cache::get`, the upstream call, `cache::put` and the stale fallback of *)
(* src/src/routes/{departures,nearby,formation}.rs, for the handlers that  *)
(* one data centre runs at the same time.  They share the edge cache and   *)
(* nothing else; the machines they run on may disagree on the time.        *)
(*                                                                         *)
(* An entry is [age, apart]: the time since it was put, and the clock      *)
(* offset of the handler that put it.                                      *)
(***************************************************************************)
EXTENDS Integers

CONSTANTS
    Handlers,
    Keys,
    TTL,                \* TTL[k]: DEPARTURE_CACHE_TTL or FORMATION_CACHE_TTL
    STALE_MAX_AGE_SECS, \* core/src/cache.rs:7
    UPSTREAM_TIMEOUT,   \* upstream.rs:7
    STEP_TICKS,         \* bound on a step that waits for no upstream
    BODY_TICKS,         \* bound on reading a body that does arrive
    BodiesHang,         \* upstream may stop in the middle of a body
    Offset,             \* Offset[h]: how far the clock of h's machine is ahead
    SKEW,               \* bound on the offsets
    MAX_AGE,            \* bound on the ages that are told apart
    NoEntry

ASSUME WorkerAssumption ==
    /\ TTL \in [Keys -> Nat]
    /\ STALE_MAX_AGE_SECS \in Nat
    /\ UPSTREAM_TIMEOUT \in Nat /\ STEP_TICKS \in Nat /\ BODY_TICKS \in Nat
    /\ BodiesHang \in BOOLEAN
    /\ SKEW \in Nat
    /\ Offset \in [Handlers -> 0 .. SKEW]
    /\ MAX_AGE \in Nat

VARIABLES
    pc,    \* where each handler is
    key,   \* the cache key it computed
    found, \* the stale entry `cache::get` gave it: its age now, or NoEntry
    lag,   \* time it has spent on the current wait
    edge   \* the edge cache of the data centre

vars == <<pc, key, found, lag, edge>>

Ages    == 0 .. MAX_AGE
Entries == [age : Ages, apart : 0 .. SKEW]
Answers == {"Hit", "Fetched", "Stale", "Failed"}
Idle    == Answers \cup {"idle"}
Points  == Idle \cup {"get", "headers", "body", "put", "fallback"}

TypeOK ==
    /\ pc \in [Handlers -> Points]
    /\ key \in [Handlers -> Keys]
    /\ found \in [Handlers -> Ages \cup {NoEntry}]
    /\ lag \in [Handlers -> Nat]
    /\ edge \in [Keys -> Entries \cup {NoEntry}]

Init ==
    /\ pc = [h \in Handlers |-> "idle"]
    /\ key \in [Handlers -> Keys]
    /\ found = [h \in Handlers |-> NoEntry]
    /\ lag = [h \in Handlers |-> 0]
    /\ edge = [k \in Keys |-> NoEntry]

Goto(h, point) ==
    /\ pc' = [pc EXCEPT ![h] = point]
    /\ lag' = [lag EXCEPT ![h] = 0]
----
(* core/src/cache.rs: freshness judged from when the entry was fetched.    *)

\* Deviation: the stale window is never closed.
Classify_no_expiry(age, ttl) == IF age < ttl THEN "Fresh" ELSE "Stale"

Classify(age, ttl) ==
    IF age < ttl THEN "Fresh"
    ELSE IF age <= STALE_MAX_AGE_SECS THEN "Stale" ELSE "Expired"

\* Deviation: the difference of the two times wraps below zero.
ApparentAge_wraps(h, e) == (e.age + Offset[h] - e.apart) % (2 * (MAX_AGE + SKEW + 1))

\* The age a handler computes: saturating at zero, by its own clock.
ApparentAge(h, e) ==
    LET seen == e.age + Offset[h] - e.apart IN IF seen < 0 THEN 0 ELSE seen
----
(* The handler.                                                            *)

Request(h, k) ==
    /\ pc[h] \in Idle
    /\ Goto(h, "get")
    /\ key' = [key EXCEPT ![h] = k]
    /\ found' = [found EXCEPT ![h] = NoEntry]
    /\ UNCHANGED edge

\* `cache::get`, and the answer at once if it is fresh.
Get(h) ==
    /\ pc[h] = "get"
    /\ LET e == edge[key[h]]
           freshness == IF e = NoEntry THEN "Expired"
                        ELSE Classify(ApparentAge(h, e), TTL[key[h]])
       IN  /\ Goto(h, IF freshness = "Fresh" THEN "Hit" ELSE "headers")
           /\ found' = IF freshness = "Expired" THEN found
                       ELSE [found EXCEPT ![h] = e.age]
    /\ UNCHANGED <<key, edge>>

\* The cache cannot be read: counts as missing.
GetFails(h) ==
    /\ pc[h] = "get"
    /\ Goto(h, "headers")
    /\ UNCHANGED <<key, found, edge>>

HeadersArrive(h) ==
    /\ pc[h] = "headers"
    /\ Goto(h, "body")
    /\ UNCHANGED <<key, found, edge>>

\* An error, a status other than 200, or the ten seconds of `timed`.
HeadersFail(h) ==
    /\ pc[h] = "headers"
    /\ Goto(h, "fallback")
    /\ UNCHANGED <<key, found, edge>>

BodyArrives(h) ==
    /\ pc[h] = "body"
    /\ Goto(h, "put")
    /\ UNCHANGED <<key, found, edge>>

\* The connection breaks or the body does not parse.
BodyFails(h) ==
    /\ pc[h] = "body"
    /\ Goto(h, "fallback")
    /\ UNCHANGED <<key, found, edge>>

\* `cache::put`: whatever is there is replaced; a failure is ignored.
Put(h) ==
    /\ pc[h] = "put"
    /\ Goto(h, "Fetched")
    /\ \/ edge' = [edge EXCEPT ![key[h]] = [age |-> 0, apart |-> Offset[h]]]
       \/ UNCHANGED edge
    /\ UNCHANGED <<key, found>>

\* The stale payload read before the call, or an error.
Fallback(h) ==
    /\ pc[h] = "fallback"
    /\ Goto(h, IF found[h] # NoEntry THEN "Stale" ELSE "Failed")
    /\ UNCHANGED <<key, found, edge>>
----
(* The data centre and the clock.                                          *)

\* The Cache API drops entries when it likes, and after their max-age.
Evict(k) ==
    /\ edge[k] # NoEntry
    /\ edge' = [edge EXCEPT ![k] = NoEntry]
    /\ UNCHANGED <<pc, key, found, lag>>

Older(age) == IF age < MAX_AGE THEN age + 1 ELSE age

Bounded(point) == point \notin Idle /\ ~(point = "body" /\ BodiesHang)

Limit(point) ==
    CASE point = "headers" -> UPSTREAM_TIMEOUT
      [] point = "body" -> BODY_TICKS
      [] OTHER -> STEP_TICKS

Waiting == Points \ Idle

\* A unit of time passes, unless a handler's bound has been used up.
Tick ==
    /\ \A h \in Handlers : Bounded(pc[h]) => lag[h] < Limit(pc[h])
    /\ lag' = [h \in Handlers |-> IF Bounded(pc[h]) THEN lag[h] + 1 ELSE lag[h]]
    /\ found' = [h \in Handlers |->
                    IF found[h] # NoEntry /\ pc[h] \in Waiting THEN Older(found[h]) ELSE found[h]]
    /\ edge' = [k \in Keys |->
                    IF edge[k] = NoEntry THEN NoEntry ELSE [edge[k] EXCEPT !.age = Older(@)]]
    /\ UNCHANGED <<pc, key>>
----
Handle(h) ==
    \/ Get(h) \/ GetFails(h)
    \/ HeadersArrive(h) \/ HeadersFail(h)
    \/ BodyArrives(h) \/ BodyFails(h)
    \/ Put(h) \/ Fallback(h)

Next ==
    \/ \E h \in Handlers : Handle(h) \/ \E k \in Keys : Request(h, k)
    \/ \E k \in Keys : Evict(k)
    \/ Tick

Spec == Init /\ [][Next]_vars

\* Deviation: the wait for the headers is not timed either.
Driven_untimed(h) == Get(h) \/ GetFails(h) \/ Put(h) \/ Fallback(h)

\* What the runtime and `timed` bring about by themselves: every step but
\* those that wait for a body.
Driven(h) ==
    Get(h) \/ GetFails(h) \/ HeadersArrive(h) \/ HeadersFail(h) \/ Put(h) \/ Fallback(h)

TimedSpec == Spec /\ \A h \in Handlers : WF_vars(Driven(h))

\* Upstream finishes, or breaks off, every body it has begun.
FairSpec == TimedSpec /\ \A h \in Handlers : WF_vars(BodyArrives(h) \/ BodyFails(h))
----
\* `Hit` answers are within the TTL, `Stale` ones within the stale window,
\* up to what the clocks disagree and, for `Stale`, what the failed call took:
\* the payload is read before the call and sent after it
\* (departures.rs:47 and 63-66).
ServedInWindow ==
    \A h \in Handlers :
        /\ pc[h] = "Hit" => found[h] < TTL[key[h]] + SKEW
        /\ pc[h] = "Stale" =>
             found[h] <= STALE_MAX_AGE_SECS + SKEW
                           + UPSTREAM_TIMEOUT + BODY_TICKS + STEP_TICKS

\* "How long past its TTL an entry may still be served on upstream failure"
\* (core/src/cache.rs:6), for clocks that disagree: a payload that is fresh by
\* every clock is answered with, and one inside the stale window by every clock
\* is kept for the fallback, also when the machine that stored it is ahead and
\* it seems to come from the future.
UsableIsFound ==
    [][\A h \in Handlers :
        Get(h) /\ edge[key[h]] # NoEntry =>
            LET oldest == edge[key[h]].age + SKEW IN
            /\ oldest < TTL[key[h]] => pc'[h] = "Hit"
            /\ oldest <= STALE_MAX_AGE_SECS => found'[h] = edge[key[h]].age]_vars

\* Every request is answered, if upstream ends the bodies it begins.
Answered == \A h \in Handlers : pc[h] \notin Idle ~> pc[h] \in Idle

\* "The runtime never abandons a hung upstream call on its own.  Give up after
\* ten seconds so the caller can fall back" (upstream.rs:9-10): a call that
\* has begun is over some time, whatever upstream does.
HungCallGivenUp ==
    \A h \in Handlers :
        pc[h] \in {"headers", "body"} ~> pc[h] \notin {"headers", "body"}

====
