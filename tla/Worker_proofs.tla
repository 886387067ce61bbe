---- MODULE Worker_proofs ----
(***************************************************************************)
(* What holds of the Worker for any number of handlers and keys, every TTL *)
(* and window, and clocks that disagree by any amount.                     *)
(***************************************************************************)
EXTENDS Worker, TLAPS

\* What a handler may have waited before it came to where it is.
Before(point) ==
    CASE point = "headers" -> 0
      [] point = "body" -> UPSTREAM_TIMEOUT
      [] point = "fallback" -> UPSTREAM_TIMEOUT + BODY_TICKS

\* Every wait keeps its bound.
InTime == \A h \in Handlers : Bounded(pc[h]) => lag[h] <= Limit(pc[h])

\* An entry is found once per request, by `cache::get`, and while the call is
\* under way it is older than it was then by no more than the call took.
Aging(h) ==
    /\ pc[h] = "get" => found[h] = NoEntry
    /\ pc[h] = "Hit" => found[h] \in Ages /\ found[h] < TTL[key[h]] + SKEW
    /\ pc[h] \in {"headers", "body", "fallback"} /\ found[h] # NoEntry =>
         found[h] <= STALE_MAX_AGE_SECS + SKEW + Before(pc[h]) + lag[h]
    /\ pc[h] = "Stale" =>
         /\ found[h] \in Ages
         /\ found[h] <= STALE_MAX_AGE_SECS + SKEW
                          + UPSTREAM_TIMEOUT + BODY_TICKS + STEP_TICKS

WindowInv == TypeOK /\ InTime /\ \A h \in Handlers : Aging(h)

----
\* How old an entry that classifies as fresh or stale (core/src/cache.rs:25-34) really is, at
\* most: the clock it is judged by may be behind the one it was stored by, by SKEW.
LEMMA TrueAge ==
    ASSUME NEW h \in Handlers, NEW k \in Keys, NEW e \in Entries
    PROVE  LET freshness == Classify(ApparentAge(h, e), TTL[k]) IN
           /\ freshness \in {"Fresh", "Stale", "Expired"}
           /\ freshness = "Fresh" => e.age < TTL[k] + SKEW
           /\ freshness = "Stale" => e.age <= STALE_MAX_AGE_SECS + SKEW
  <1>1. /\ e.age \in Nat /\ e.apart \in 0 .. SKEW /\ SKEW \in Nat /\ STALE_MAX_AGE_SECS \in Nat
        /\ TTL[k] \in Nat /\ Offset[h] \in 0 .. SKEW
    BY WorkerAssumption DEF Entries, Ages
  <1> QED
    BY <1>1 DEF Classify, ApparentAge

\* A step that takes handler h somewhere leaves the others where they are.
LEMMA OthersGoOn ==
    ASSUME TypeOK, NEW h \in Handlers, NEW point \in Points, Goto(h, point)
    PROVE  /\ pc' \in [Handlers -> Points] /\ lag' \in [Handlers -> Nat]
           /\ pc'[h] = point /\ lag'[h] = 0
           /\ \A g \in Handlers \ {h} : pc'[g] = pc[g] /\ lag'[g] = lag[g]
  BY DEF Goto, TypeOK

\* In the first state nobody waits.
LEMMA WindowInit == Init => WindowInv
  <1> SUFFICES ASSUME Init
               PROVE  WindowInv
    OBVIOUS
  <1>1. TypeOK
    BY DEF Init, TypeOK, Points, Idle, Answers
  <1> QED
    BY <1>1 DEF Init, WindowInv, InTime, Aging, Bounded, Idle

\* Every step keeps the types and the bounds on the waits.
LEMMA TimedStep ==
    ASSUME TypeOK, InTime, [Next]_vars
    PROVE  TypeOK' /\ InTime'
  <1>0. \A p \in Points : Limit(p) \in Nat
    BY WorkerAssumption DEF Limit
  <1>1. ASSUME NEW h \in Handlers, NEW p \in Points, Goto(h, p),
               found' \in [Handlers -> Ages \cup {NoEntry}],
               edge' \in [Keys -> Entries \cup {NoEntry}],
               key' \in [Handlers -> Keys]
        PROVE  TypeOK' /\ InTime'
    <2>1. TypeOK'
      BY <1>1, OthersGoOn DEF TypeOK
    <2>2. lag'[h] <= Limit(p)
      BY <1>0, <1>1, OthersGoOn
    <2>3. InTime'
      BY <1>1, <2>2, OthersGoOn DEF InTime, Bounded
    <2> QED
      BY <2>1, <2>3
  <1>2. {"Hit", "Fetched", "Stale", "Failed", "get", "headers", "body", "put", "fallback"}
          \subseteq Points
    BY DEF Points, Idle, Answers
  <1>3. ASSUME NEW h \in Handlers, NEW k \in Keys, Request(h, k)
        PROVE  TypeOK' /\ InTime'
    <2>1. Goto(h, "get")
      BY <1>3 DEF Request
    <2> QED
      BY <1>1, <1>2, <1>3, <2>1 DEF Request, TypeOK
  <1>4. ASSUME NEW h \in Handlers, Get(h)
        PROVE  TypeOK' /\ InTime'
    <2> DEFINE e == edge[key[h]]
               freshness == IF e = NoEntry THEN "Expired"
                            ELSE Classify(ApparentAge(h, e), TTL[key[h]])
    <2>1. /\ Goto(h, IF freshness = "Fresh" THEN "Hit" ELSE "headers")
          /\ found' = IF freshness = "Expired" THEN found ELSE [found EXCEPT ![h] = e.age]
          /\ UNCHANGED <<key, edge>>
      BY <1>4 DEF Get
    <2>2. freshness # "Expired" => e.age \in Ages
      BY DEF TypeOK, Entries
    <2> HIDE DEF freshness, e
    <2>3. PICK p \in {"Hit", "headers"} : Goto(h, p)
      BY <2>1
    <2>4. found' \in [Handlers -> Ages \cup {NoEntry}]
      BY <2>1, <2>2 DEF TypeOK
    <2>5. edge' \in [Keys -> Entries \cup {NoEntry}] /\ key' \in [Handlers -> Keys]
      BY <2>1 DEF TypeOK
    <2> QED
      BY <1>1, <1>2, <2>3, <2>4, <2>5
  <1>5. ASSUME NEW h \in Handlers, \/ GetFails(h) \/ HeadersArrive(h) \/ HeadersFail(h)
                                   \/ BodyArrives(h) \/ BodyFails(h) \/ Fallback(h)
        PROVE  TypeOK' /\ InTime'
    <2>1. UNCHANGED <<key, found, edge>>
      BY <1>5 DEF GetFails, HeadersArrive, HeadersFail, BodyArrives, BodyFails, Fallback
    <2>2. PICK p \in {"headers", "body", "fallback", "put", "Stale", "Failed"} : Goto(h, p)
      BY <1>5 DEF GetFails, HeadersArrive, HeadersFail, BodyArrives, BodyFails, Fallback
    <2> QED
      BY <1>1, <1>2, <2>1, <2>2 DEF TypeOK
  <1>6. ASSUME NEW h \in Handlers, Put(h)
        PROVE  TypeOK' /\ InTime'
    <2>1. [age |-> 0, apart |-> Offset[h]] \in Entries
      BY WorkerAssumption DEF Entries, Ages
    <2>2. edge' \in [Keys -> Entries \cup {NoEntry}]
      BY <1>6, <2>1 DEF Put, TypeOK
    <2> QED
      BY <1>1, <1>2, <1>6, <2>2 DEF Put, TypeOK
  <1>7. ASSUME NEW k \in Keys, Evict(k)
        PROVE  TypeOK' /\ InTime'
    BY <1>7 DEF Evict, TypeOK, InTime
  <1>8. CASE Tick
    <2>1. \A a \in Ages : Older(a) \in Ages
      BY WorkerAssumption DEF Older, Ages
    <2>2. lag' \in [Handlers -> Nat] /\ found' \in [Handlers -> Ages \cup {NoEntry}]
      BY <1>8, <2>1 DEF Tick, TypeOK
    <2>3. edge' \in [Keys -> Entries \cup {NoEntry}]
      <3>1. ASSUME NEW k \in Keys, edge[k] # NoEntry
            PROVE  [edge[k] EXCEPT !.age = Older(@)] \in Entries
        BY <2>1, <3>1 DEF TypeOK, Entries
      <3> QED
        BY <1>8, <3>1 DEF Tick
    <2>4. TypeOK'
      BY <1>8, <2>2, <2>3 DEF Tick, TypeOK
    <2>5. ASSUME NEW h \in Handlers, Bounded(pc[h])
          PROVE  lag'[h] <= Limit(pc[h])
      BY <1>0, <1>8, <2>5 DEF Tick, TypeOK
    <2>6. InTime'
      BY <1>8, <2>5 DEF Tick, InTime, Bounded
    <2> QED
      BY <2>4, <2>6
  <1>9. CASE UNCHANGED vars
    BY <1>9 DEF vars, TypeOK, InTime, Bounded
  <1> QED
    BY <1>3, <1>4, <1>5, <1>6, <1>7, <1>8, <1>9 DEF Next, Handle

\* As long as upstream ends the bodies it begins, every step keeps what handlers hold young
\* enough: of the steps of a call only the clock makes it older, within the bounds on the waits.
LEMMA AgingStep ==
    ASSUME ~BodiesHang, WindowInv, [Next]_vars
    PROVE  (\A h \in Handlers : Aging(h))'
  <1>0. /\ TypeOK /\ InTime /\ TypeOK' /\ InTime'
        /\ \A h \in Handlers : Aging(h)
        /\ UPSTREAM_TIMEOUT \in Nat /\ BODY_TICKS \in Nat /\ STEP_TICKS \in Nat
        /\ SKEW \in Nat /\ STALE_MAX_AGE_SECS \in Nat
    BY TimedStep, WorkerAssumption DEF WindowInv
  \* A handler that the step leaves alone.
  <1>1. ASSUME NEW h \in Handlers, pc'[h] = pc[h], lag'[h] = lag[h],
               found'[h] = found[h], key'[h] = key[h]
        PROVE  Aging(h)'
    BY <1>0, <1>1 DEF Aging, Before
  <1>2. ASSUME NEW h \in Handlers, NEW p \in Points, Goto(h, p),
               \A g \in Handlers \ {h} : found'[g] = found[g] /\ key'[g] = key[g],
               Aging(h)'
        PROVE  (\A g \in Handlers : Aging(g))'
    <2>1. \A g \in Handlers \ {h} : Aging(g)'
      BY <1>0, <1>1, <1>2, OthersGoOn
    <2> QED
      BY <1>2, <2>1
  <1>3. {"Hit", "Fetched", "Stale", "Failed", "get", "headers", "body", "put", "fallback"}
          \subseteq Points
    BY DEF Points, Idle, Answers
  <1>4. ASSUME NEW h \in Handlers, NEW k \in Keys, Request(h, k)
        PROVE  (\A g \in Handlers : Aging(g))'
    <2>1. Goto(h, "get") /\ pc'[h] = "get" /\ found'[h] = NoEntry
      BY <1>0, <1>4 DEF Request, Goto, TypeOK
    <2>2. Aging(h)'
      BY <2>1 DEF Aging
    <2>3. \A g \in Handlers \ {h} : found'[g] = found[g] /\ key'[g] = key[g]
      BY <1>0, <1>4 DEF Request, TypeOK
    <2> QED
      BY <1>2, <1>3, <2>1, <2>2, <2>3
  <1>5. ASSUME NEW h \in Handlers, Get(h)
        PROVE  (\A g \in Handlers : Aging(g))'
    <2> DEFINE e == edge[key[h]]
               freshness == IF e = NoEntry THEN "Expired"
                            ELSE Classify(ApparentAge(h, e), TTL[key[h]])
    <2>1. /\ pc[h] = "get"
          /\ Goto(h, IF freshness = "Fresh" THEN "Hit" ELSE "headers")
          /\ found' = IF freshness = "Expired" THEN found ELSE [found EXCEPT ![h] = e.age]
          /\ UNCHANGED <<key, edge>>
      BY <1>5 DEF Get
    <2>2. /\ freshness \in {"Fresh", "Stale", "Expired"}
          /\ freshness # "Expired" => e.age \in Ages
          /\ freshness = "Fresh" => e.age < TTL[key[h]] + SKEW
          /\ freshness = "Stale" => e.age <= STALE_MAX_AGE_SECS + SKEW
      <3>1. CASE e = NoEntry
        BY <3>1
      <3>2. CASE e # NoEntry
        <4>1. e \in Entries /\ key[h] \in Keys
          BY <1>0, <3>2 DEF TypeOK
        <4> QED
          BY <3>2, <4>1, TrueAge DEF Entries
      <3> QED
        BY <3>1, <3>2
    <2>3. found[h] = NoEntry
      BY <1>0, <2>1 DEF Aging
    <2> HIDE DEF freshness, e
    <2>4. found'[h] = IF freshness = "Expired" THEN NoEntry ELSE e.age
      BY <1>0, <2>1, <2>3 DEF TypeOK
    <2>5. \A g \in Handlers \ {h} : found'[g] = found[g] /\ key'[g] = key[g]
      BY <1>0, <2>1 DEF TypeOK
    <2>6. CASE freshness = "Fresh"
      <3>1. Goto(h, "Hit") /\ pc'[h] = "Hit" /\ key'[h] = key[h]
        BY <1>0, <2>1, <2>6 DEF Goto, TypeOK
      <3>2. Aging(h)'
        BY <2>2, <2>4, <2>6, <3>1 DEF Aging
      <3> QED
        BY <1>2, <1>3, <2>5, <3>1, <3>2
    <2>7. CASE freshness # "Fresh"
      <3>1. Goto(h, "headers") /\ pc'[h] = "headers" /\ lag'[h] = 0
        BY <1>0, <2>1, <2>7 DEF Goto, TypeOK
      <3>2. found'[h] # NoEntry => found'[h] \in Ages /\ found'[h] <= STALE_MAX_AGE_SECS + SKEW
        BY <2>2, <2>4, <2>7
      <3>3. Aging(h)'
        BY <1>0, <3>1, <3>2 DEF Aging, Before, Ages
      <3> QED
        BY <1>2, <1>3, <2>5, <3>1, <3>3
    <2> QED
      BY <2>6, <2>7
  <1>6. ASSUME NEW h \in Handlers, GetFails(h)
        PROVE  (\A g \in Handlers : Aging(g))'
    <2>1. /\ Goto(h, "headers") /\ pc'[h] = "headers" /\ UNCHANGED <<key, found>>
          /\ found[h] = NoEntry
      BY <1>0, <1>6 DEF GetFails, Goto, TypeOK, Aging
    <2>2. Aging(h)'
      BY <2>1 DEF Aging
    <2> QED
      BY <1>2, <1>3, <2>1, <2>2
  <1>7. ASSUME NEW h \in Handlers, \/ HeadersArrive(h) \/ HeadersFail(h) \/ BodyFails(h)
        PROVE  (\A g \in Handlers : Aging(g))'
    <2>1. /\ pc[h] \in {"headers", "body"} /\ UNCHANGED <<key, found>>
          /\ \/ pc[h] = "headers" /\ Goto(h, "body")
             \/ Goto(h, "fallback")
      BY <1>7 DEF HeadersArrive, HeadersFail, BodyFails
    <2>2. lag[h] <= Limit(pc[h]) /\ lag[h] \in Nat
      BY <1>0, <2>1 DEF InTime, Bounded, Idle, Answers, TypeOK
    <2>3. found[h] # NoEntry =>
            found[h] \in Ages /\ found[h] <= STALE_MAX_AGE_SECS + SKEW + Before(pc[h]) + lag[h]
      BY <1>0, <2>1 DEF Aging, TypeOK
    <2>4. CASE pc[h] = "headers" /\ Goto(h, "body")
      <3>1. pc'[h] = "body" /\ lag'[h] = 0
        BY <1>0, <2>4 DEF Goto, TypeOK
      <3>2. Before("headers") = 0 /\ Before("body") = UPSTREAM_TIMEOUT
            /\ Limit("headers") = UPSTREAM_TIMEOUT
        BY DEF Before, Limit
      <3>3. found[h] # NoEntry =>
              found[h] <= STALE_MAX_AGE_SECS + SKEW + UPSTREAM_TIMEOUT + 0
        BY <1>0, <2>2, <2>3, <2>4, <3>2 DEF Ages
      <3>4. Aging(h)'
        BY <2>1, <3>1, <3>2, <3>3 DEF Aging
      <3> QED
        BY <1>2, <1>3, <2>1, <2>4, <3>4
    <2>5. CASE Goto(h, "fallback")
      <3>1. pc'[h] = "fallback" /\ lag'[h] = 0
        BY <1>0, <2>5 DEF Goto, TypeOK
      <3>2. /\ Before("headers") = 0 /\ Before("body") = UPSTREAM_TIMEOUT
            /\ Before("fallback") = UPSTREAM_TIMEOUT + BODY_TICKS
            /\ Limit("headers") = UPSTREAM_TIMEOUT /\ Limit("body") = BODY_TICKS
        BY DEF Before, Limit
      <3>3. found[h] # NoEntry =>
              found[h] <= STALE_MAX_AGE_SECS + SKEW + (UPSTREAM_TIMEOUT + BODY_TICKS) + 0
        BY <1>0, <2>1, <2>2, <2>3, <3>2 DEF Ages
      <3>4. Aging(h)'
        BY <2>1, <3>1, <3>2, <3>3 DEF Aging
      <3> QED
        BY <1>2, <1>3, <2>1, <2>5, <3>4
    <2> QED
      BY <2>1, <2>4, <2>5
  <1>8. ASSUME NEW h \in Handlers, BodyArrives(h) \/ Put(h)
        PROVE  (\A g \in Handlers : Aging(g))'
    <2>1. PICK p \in {"put", "Fetched"} : Goto(h, p)
      BY <1>8 DEF BodyArrives, Put
    <2>2. UNCHANGED <<key, found>> /\ pc'[h] = p
      BY <1>0, <1>8, <2>1 DEF BodyArrives, Put, Goto, TypeOK
    <2>3. Aging(h)'
      BY <2>2 DEF Aging
    <2> QED
      BY <1>2, <1>3, <2>1, <2>2, <2>3
  <1>9. ASSUME NEW h \in Handlers, Fallback(h)
        PROVE  (\A g \in Handlers : Aging(g))'
    <2>1. /\ pc[h] = "fallback" /\ UNCHANGED <<key, found>>
          /\ Goto(h, IF found[h] # NoEntry THEN "Stale" ELSE "Failed")
      BY <1>9 DEF Fallback
    <2>2. lag[h] <= STEP_TICKS /\ lag[h] \in Nat
      BY <1>0, <2>1 DEF InTime, Bounded, Idle, Answers, Limit, TypeOK
    <2>3. found[h] # NoEntry =>
            /\ found[h] \in Ages
            /\ found[h] <= STALE_MAX_AGE_SECS + SKEW + (UPSTREAM_TIMEOUT + BODY_TICKS) + lag[h]
      BY <1>0, <2>1 DEF Aging, TypeOK, Before
    <2>4. CASE found[h] # NoEntry
      <3>1. Goto(h, "Stale") /\ pc'[h] = "Stale"
        BY <1>0, <2>1, <2>4 DEF Goto, TypeOK
      <3>2. found[h] <= STALE_MAX_AGE_SECS + SKEW + UPSTREAM_TIMEOUT + BODY_TICKS + STEP_TICKS
        BY <1>0, <2>2, <2>3, <2>4 DEF Ages
      <3>3. Aging(h)'
        BY <2>1, <2>3, <2>4, <3>1, <3>2 DEF Aging
      <3> QED
        BY <1>2, <1>3, <2>1, <3>1, <3>3
    <2>5. CASE found[h] = NoEntry
      <3>1. Goto(h, "Failed") /\ pc'[h] = "Failed"
        BY <1>0, <2>1, <2>5 DEF Goto, TypeOK
      <3>2. Aging(h)'
        BY <3>1 DEF Aging
      <3> QED
        BY <1>2, <1>3, <2>1, <3>1, <3>2
    <2> QED
      BY <2>4, <2>5
  <1>10. CASE Tick
    <2>1. ASSUME NEW h \in Handlers
          PROVE  Aging(h)'
      <3>1. /\ UNCHANGED <<pc, key>>
            /\ lag'[h] = IF Bounded(pc[h]) THEN lag[h] + 1 ELSE lag[h]
            /\ found'[h] = IF found[h] # NoEntry /\ pc[h] \in Waiting
                           THEN Older(found[h]) ELSE found[h]
        BY <1>10 DEF Tick
      <3>2. CASE pc[h] \in {"headers", "body", "fallback"}
        <4>1. Bounded(pc[h]) /\ pc[h] \in Waiting
          BY <3>2 DEF Bounded, Waiting, Points, Idle, Answers
        <4>2. \A a \in Ages : Older(a) <= a + 1
          BY WorkerAssumption DEF Older, Ages
        <4>3. Before(pc[h]) \in Nat /\ lag[h] \in Nat
          BY <1>0, <3>2 DEF Before, TypeOK
        <4>4. found[h] # NoEntry =>
                /\ found[h] \in Ages
                /\ found[h] <= STALE_MAX_AGE_SECS + SKEW + Before(pc[h]) + lag[h]
          BY <1>0, <3>2 DEF Aging, TypeOK
        <4>5. found'[h] \in Ages \cup {NoEntry}
          BY <1>0 DEF TypeOK
        <4>6. found'[h] # NoEntry =>
                found'[h] <= STALE_MAX_AGE_SECS + SKEW + Before(pc[h]) + lag'[h]
          <5> SUFFICES ASSUME found[h] # NoEntry
                       PROVE  Older(found[h])
                                <= STALE_MAX_AGE_SECS + SKEW + Before(pc[h]) + (lag[h] + 1)
            BY <3>1, <4>1
          <5>1. Older(found[h]) \in Ages
            BY <3>1, <4>4, WorkerAssumption DEF Older, Ages
          <5> HIDE DEF Older
          <5> QED
            BY <1>0, <4>2, <4>3, <4>4, <5>1 DEF Ages
        <4> QED
          BY <3>1, <3>2, <4>6 DEF Aging
      <3>3. CASE pc[h] = "get"
        BY <1>0, <3>1, <3>3 DEF Aging
      <3>4. CASE pc[h] \in {"Hit", "Stale"}
        <4>1. pc[h] \notin Waiting
          BY <3>4 DEF Waiting, Idle, Answers
        <4> QED
          BY <1>0, <3>1, <3>4, <4>1 DEF Aging
      <3>5. CASE pc[h] \notin {"get", "Hit", "Stale", "headers", "body", "fallback"}
        BY <3>1, <3>5 DEF Aging
      <3> QED
        BY <3>2, <3>3, <3>4, <3>5
    <2> QED
      BY <2>1
  <1>11. CASE (\E k \in Keys : Evict(k)) \/ UNCHANGED vars
    BY <1>0, <1>1, <1>11 DEF Evict, vars
  <1> QED
    BY <1>4, <1>5, <1>6, <1>7, <1>8, <1>9, <1>10, <1>11 DEF Next, Handle

----
\* The state of the Worker's handlers and of the edge cache stays well-typed, also when upstream
\* stops in the middle of a body (upstream.rs:9-10 does not time it).
THEOREM TypeCorrect == Spec => []TypeOK
  <1>1. Init => TypeOK /\ InTime
    BY WindowInit DEF WindowInv
  <1>2. TypeOK /\ InTime /\ [Next]_vars => (TypeOK /\ InTime)'
    BY TimedStep
  <1> QED
    BY <1>1, <1>2, PTL DEF Spec

\* A hit is younger than its TTL and a stale answer within the stale window (departures.rs:47
\* and 63-66), up to what the clocks of the machines disagree and, for a stale answer, what the
\* failed call took: for every TTL, window, skew and number of handlers that share an edge
\* cache, provided upstream ends the bodies it begins.
THEOREM ServedYoung ==
    ASSUME ~BodiesHang
    PROVE  Spec => []ServedInWindow
  <1>1. WindowInv /\ [Next]_vars => WindowInv'
    BY TimedStep, AgingStep DEF WindowInv
  <1>2. WindowInv => ServedInWindow
    BY DEF WindowInv, Aging, ServedInWindow
  <1> QED
    BY <1>1, <1>2, WindowInit, PTL DEF Spec

\* An entry inside a window by every clock classifies accordingly, whoever reads
\* it (core/src/cache.rs:25-34): the age it is judged by is at most SKEW more
\* than its own, and never wraps below zero.
LEMMA SurelyUsable ==
    ASSUME NEW h \in Handlers, NEW k \in Keys, NEW e \in Entries
    PROVE  LET freshness == Classify(ApparentAge(h, e), TTL[k]) IN
           /\ e.age + SKEW < TTL[k] => freshness = "Fresh"
           /\ e.age + SKEW <= STALE_MAX_AGE_SECS => freshness # "Expired"
  <1>1. /\ e.age \in Nat /\ e.apart \in 0 .. SKEW /\ SKEW \in Nat /\ STALE_MAX_AGE_SECS \in Nat
        /\ TTL[k] \in Nat /\ Offset[h] \in 0 .. SKEW
    BY WorkerAssumption DEF Entries, Ages
  <1> QED
    BY <1>1 DEF Classify, ApparentAge

\* A payload that is fresh, or inside the stale window, by every clock is used:
\* for every TTL and window, and clocks that disagree by any amount.
THEOREM UsableFound == Spec => UsableIsFound
  <1> DEFINE Used ==
        \A h \in Handlers :
            Get(h) /\ edge[key[h]] # NoEntry =>
                LET oldest == edge[key[h]].age + SKEW IN
                /\ oldest < TTL[key[h]] => pc'[h] = "Hit"
                /\ oldest <= STALE_MAX_AGE_SECS => found'[h] = edge[key[h]].age
  <1>1. TypeOK => Used
    <2> SUFFICES ASSUME TypeOK, NEW h \in Handlers, Get(h), edge[key[h]] # NoEntry
                 PROVE  LET oldest == edge[key[h]].age + SKEW IN
                        /\ oldest < TTL[key[h]] => pc'[h] = "Hit"
                        /\ oldest <= STALE_MAX_AGE_SECS => found'[h] = edge[key[h]].age
      OBVIOUS
    <2>1. PICK k \in Keys, e \in Entries : k = key[h] /\ e = edge[k]
      BY DEF TypeOK
    <2>2. PICK freshness : freshness = Classify(ApparentAge(h, e), TTL[k])
      OBVIOUS
    <2>3. /\ e.age + SKEW < TTL[k] => freshness = "Fresh"
          /\ e.age + SKEW <= STALE_MAX_AGE_SECS => freshness # "Expired"
      BY <2>2, SurelyUsable
    <2>4. /\ pc' = [pc EXCEPT ![h] = IF freshness = "Fresh" THEN "Hit" ELSE "headers"]
          /\ found' = IF freshness = "Expired" THEN found ELSE [found EXCEPT ![h] = e.age]
      BY <2>1, <2>2 DEF Get, Goto
    <2>5. pc \in [Handlers -> Points] /\ found \in [Handlers -> Ages \cup {NoEntry}]
      BY DEF TypeOK
    <2> QED
      BY <2>1, <2>3, <2>4, <2>5
  <1>2. TypeOK => [Used]_vars
    BY <1>1
  <1> QED
    BY <1>2, TypeCorrect, PTL DEF UsableIsFound

====
