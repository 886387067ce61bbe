---- MODULE Inflight_proofs ----
(***************************************************************************)
(* What holds of the fetch path for every number of pods, handlers and     *)
(* keys, every TTL and every bound.                                        *)
(***************************************************************************)
EXTENDS Inflight, FiniteSetTheorems, TLAPS

\* An entry stays an entry or an absence when it ages.
LEMMA OlderAge == \A e \in Ages \cup {NoEntry} : Older(e) \in Ages \cup {NoEntry}
  BY CacheAssumption DEF Older, Ages

\* Ages saturate: an age stays an age.
LEMMA OlderOfAge == \A e \in Ages : Older(e) \in Ages
  BY CacheAssumption DEF Older, Ages

\* The clock keeps the maps of the pods well-formed.
LEMMA AgedMap == \A m \in Maps : Aged(m) \in Maps
  BY OlderAge DEF Aged, Maps

\* So does the sweep of an overfull map (cache.rs:85-88),
LEMMA SweptMap == \A m \in Maps : Swept(m) \in Maps
  BY DEF Swept, Maps

\* and an insert with its sweep (cache.rs:83-97).
LEMMA PutMap == \A m \in Maps : \A k \in Keys : Put(m, k) \in Maps
  <1>1. 0 \in Ages
    BY CacheAssumption DEF Ages
  <1> QED
    BY <1>1, SweptMap DEF Put, Maps

\* An entry of Memcached ages, or expires, into an entry or an absence.
LEMMA SharedOlderEntry ==
    \A e \in SharedEntries \cup {NoEntry} :
        SharedOlder(e) \in SharedEntries \cup {NoEntry}
  BY OlderOfAge DEF SharedOlder, SharedEntries

\* A handler that computes or talks to Memcached has not used more time than
\* its bound, and one that has no bound is not timed: what makes the age a
\* store writes a small number.
LagBound ==
    \A t \in Tasks : IF pc[t] \in Unhurried THEN lag[t] = 0 ELSE lag[t] <= Limit(pc[t])

TypeInv == TypeOK /\ LagBound

\* Type correctness and the bound on delays hold at the start,
LEMMA TypeInit == Init => TypeInv
  BY CacheAssumption, InflightAssumption
     DEF Init, TypeInv, TypeOK, LagBound, Ages, Points, Idle, Unhurried, EmptyMap, Maps, Answers

\* and every step of a handler, of Memcached and of the clock keeps them.
LEMMA TypeStep == TypeInv /\ [Next]_vars => TypeInv'
  <1> SUFFICES ASSUME TypeInv, [Next]_vars PROVE TypeInv'
    OBVIOUS
  <1> USE DEF TypeInv, TypeOK, LagBound
  <1>0. \A x : Limit(x) \in Nat /\ 0 <= Limit(x) /\ (x # "fetch" => Limit(x) = STEP_TICKS)
    BY InflightAssumption DEF Limit
  <1>1. ASSUME NEW t \in Tasks, NEW k \in Keys, Ask(t, k) PROVE TypeInv'
    <2>1. TypeOK'
      BY <1>1, CacheAssumption DEF Ask, Goto, Rest, caches, Ages, Points, Idle, Leading, Answers
    <2>2. LagBound'
      BY <1>1, <1>0 DEF Ask, Goto, Rest, Unhurried, Idle, Answers
    <2> QED
      BY <2>1, <2>2
  <1>2. ASSUME NEW t \in Tasks, SharedHit(t) PROVE TypeInv'
    <2>0. shared[key[t]].age \in Ages
      BY <1>2 DEF SharedHit, SharedEntries
    <2>1. TypeOK'
      BY <1>2, <2>0 DEF SharedHit, Answer, Goto, Rest, caches, Points, Idle, Leading, Answers
    <2>2. LagBound'
      BY <1>2 DEF SharedHit, Answer, Goto, Rest, Unhurried, Idle, Answers
    <2> QED
      BY <2>1, <2>2
  <1>3. ASSUME NEW t \in Tasks, SharedMiss(t) PROVE TypeInv'
    <2>1. TypeOK'
      BY <1>3 DEF SharedMiss, Goto, caches, Points, Idle, Leading, Answers
    <2>2. LagBound'
      BY <1>3, <1>0 DEF SharedMiss, Goto, Unhurried, Idle, Answers
    <2> QED
      BY <2>1, <2>2
  <1>4. ASSUME NEW t \in Tasks, LookupLocal(t) PROVE TypeInv'
    <2> DEFINE m == local[PodOf[t]]
    <2>0. m[key[t]] \in Ages \cup {NoEntry} /\ 0 \in Ages
      BY InflightAssumption, CacheAssumption DEF Maps, Ages
    <2>2. CASE Get(m, key[t])
      <3>1. m[key[t]] \in Ages
        BY <2>0, <2>2 DEF Get
      <3>2. \E kind \in {"Cached", "Stale"} : Answer(t, kind, m[key[t]])
        BY <1>4, <2>2 DEF LookupLocal
      <3>3. UNCHANGED <<key, waitsFor, ok, caches>>
        BY <1>4 DEF LookupLocal
      <3> QED
        BY <3>1, <3>2, <3>3
           DEF Answer, Goto, Rest, caches, Points, Unhurried, Idle, Answers
    <2>3. CASE ~Get(m, key[t])
      BY <1>4, <2>3, <2>0, <1>0
         DEF LookupLocal, Goto, caches, Points, Unhurried, Idle, Leading, Answers
    <2> QED
      BY <2>2, <2>3
  <1>5. ASSUME NEW t \in Tasks, Wait(t) PROVE TypeInv'
    <2>0. LeaderOf(t) \in Tasks \cup {NoTask}
      BY InflightAssumption DEF LeaderOf
    <2>1. TypeOK'
      BY <1>5, <2>0 DEF Wait, Goto, Rest, caches, Points, Idle, Leading, Answers
    <2>2. LagBound'
      BY <1>5 DEF Wait, Goto, Rest, Unhurried, Idle, Answers
    <2> QED
      BY <2>1, <2>2
  <1>6. ASSUME NEW t \in Tasks, Lead(t) PROVE TypeInv'
    <2>1. TypeOK'
      BY <1>6, InflightAssumption DEF Lead, Goto, Rest, Points, Idle, Leading, Answers
    <2>2. LagBound'
      BY <1>6, <1>0 DEF Lead, Goto, Rest, Unhurried, Idle, Answers
    <2> QED
      BY <2>1, <2>2
  <1>7. ASSUME NEW t \in Tasks, FetchOk(t) PROVE TypeInv'
    <2>1. TypeOK'
      BY <1>7 DEF FetchOk, Goto, Rest, caches, Points, Idle, Leading, Answers
    <2>2. LagBound'
      BY <1>7, <1>0 DEF FetchOk, Goto, Rest, Unhurried, Idle, Answers
    <2> QED
      BY <2>1, <2>2
  <1>8. ASSUME NEW t \in Tasks, FetchErr(t) PROVE TypeInv'
    <2>1. TypeOK'
      BY <1>8 DEF FetchErr, Goto, Rest, caches, Points, Idle, Leading, Answers
    <2>2. LagBound'
      BY <1>8, <1>0 DEF FetchErr, Goto, Rest, Unhurried, Idle, Answers
    <2> QED
      BY <2>1, <2>2
  <1>9. ASSUME NEW t \in Tasks, StoreLocal(t) PROVE TypeInv'
    <2>1. TypeOK'
      BY <1>9, PutMap, InflightAssumption DEF StoreLocal, AfterStore, Goto, Points, Idle, Leading, Answers
    <2>0. AfterStore \in {"store_shared", "remove"}
      BY DEF AfterStore
    <2>2. LagBound'
      BY <1>9, <1>0, <2>0 DEF StoreLocal, Goto, Unhurried, Idle, Answers
    <2> QED
      BY <2>1, <2>2
  <1>10. ASSUME NEW t \in Tasks, StoreShared(t) PROVE TypeInv'
    <2>0. lag[t] <= STEP_TICKS
      <3>1. pc[t] = "store_shared"
        BY <1>10 DEF StoreShared
      <3> QED
        BY <3>1, <1>0 DEF Unhurried, Idle, Answers
    <2>1. lag[t] \in Ages
      BY <2>0, InflightAssumption, CacheAssumption DEF Ages
    <2>2. TTL[key[t]] \in Nat
      BY CacheAssumption
    <2>3. shared' \in [Keys -> SharedEntries \cup {NoEntry}]
      BY <1>10, <2>1, <2>2 DEF StoreShared, SharedEntries
    <2>4. late' \subseteq LateSets
      BY <1>10, <2>1, <2>2, InflightAssumption DEF StoreShared, LateSets
    <2>5. LagBound'
      BY <1>10, <1>0 DEF StoreShared, Goto, Unhurried, Idle, Answers
    <2> QED
      BY <1>10, <2>3, <2>4, <2>5 DEF StoreShared, Goto, Points, Idle, Leading, Answers
  <1>11. ASSUME NEW t \in Tasks, Remove(t) PROVE TypeInv'
    <2>1. TypeOK'
      BY <1>11, InflightAssumption DEF Remove, Goto, Points, Idle, Leading, Answers
    <2>2. LagBound'
      BY <1>11, <1>0 DEF Remove, Goto, Unhurried, Idle, Answers
    <2> QED
      BY <2>1, <2>2
  <1>12. ASSUME NEW t \in Tasks, Notify(t) PROVE TypeInv'
    <2>1. pc' \in [Tasks -> Points]
      BY <1>12 DEF Notify, Wake, Points, Idle, Leading, Answers
    <2>2. lag' \in [Tasks -> Nat]
      BY <1>12 DEF Notify
    <2>3. LagBound'
      <3> SUFFICES ASSUME NEW x \in Tasks
                   PROVE  IF pc'[x] \in Unhurried THEN lag'[x] = 0
                                                   ELSE lag'[x] <= Limit(pc'[x])
        OBVIOUS
      <3>1. CASE x \in WaitersOf(t)
        BY <1>12, <1>0, <3>1 DEF Notify, Wake, WaitersOf, Unhurried, Idle, Answers
      <3>2. CASE x = t
        BY <1>12, <1>0, <3>2 DEF Notify, Wake, WaitersOf, Unhurried, Idle, Answers
      <3>3. CASE x # t /\ x \notin WaitersOf(t)
        BY <1>12, <3>3 DEF Notify, Wake
      <3> QED
        BY <3>1, <3>2, <3>3
    <2> QED
      BY <1>12, <2>1, <2>2, <2>3 DEF Notify, Wake, caches
  <1>13. ASSUME NEW t \in Tasks, FromCacheGet(t) PROVE TypeInv'
    <2> DEFINE m == local[PodOf[t]]
    <2>0. m[key[t]] \in Ages \cup {NoEntry} /\ 0 \in Ages
      BY InflightAssumption, CacheAssumption DEF Maps, Ages
    <2>2. CASE Get(m, key[t])
      <3>1. m[key[t]] \in Ages
        BY <2>0, <2>2 DEF Get
      <3>2. \E kind \in {"Cached", "Stale"} : Answer(t, kind, m[key[t]])
        BY <1>13, <2>2 DEF FromCacheGet
      <3>3. UNCHANGED <<key, waitsFor, ok, caches>>
        BY <1>13 DEF FromCacheGet
      <3> QED
        BY <3>1, <3>2, <3>3
           DEF Answer, Goto, Rest, caches, Points, Unhurried, Idle, Answers
    <2>3. CASE ~Get(m, key[t])
      BY <1>13, <2>3, <2>0, <1>0
         DEF FromCacheGet, Goto, caches, Points, Unhurried, Idle, Leading, Answers
    <2> QED
      BY <2>2, <2>3
  <1>14. ASSUME NEW t \in Tasks, FromCacheStale(t) PROVE TypeInv'
    <2> DEFINE m == local[PodOf[t]]
    <2>0. m[key[t]] \in Ages \cup {NoEntry} /\ 0 \in Ages
      BY InflightAssumption, CacheAssumption DEF Maps, Ages
    <2>2. CASE GetStale(m, key[t])
      <3>1. m[key[t]] \in Ages
        BY <2>0, <2>2 DEF GetStale
      <3>2. \E kind \in {"Cached", "Stale"} : Answer(t, kind, m[key[t]])
        BY <1>14, <2>2 DEF FromCacheStale
      <3>3. UNCHANGED <<key, waitsFor, ok, caches>>
        BY <1>14 DEF FromCacheStale
      <3> QED
        BY <3>1, <3>2, <3>3
           DEF Answer, Goto, Rest, caches, Points, Unhurried, Idle, Answers
    <2>3. CASE ~GetStale(m, key[t])
      <3>1. Answer(t, "Failed", 0) /\ UNCHANGED <<key, waitsFor, ok, caches>>
        BY <1>14, <2>3 DEF FromCacheStale
      <3> QED
        BY <2>0, <3>1 DEF Answer, Goto, Rest, caches, Points, Unhurried, Idle, Answers
    <2> QED
      BY <2>2, <2>3
  <1>15. ASSUME NEW t \in Tasks, Disconnect(t) PROVE TypeInv'
    <2>1. TypeOK'
      BY <1>15 DEF Disconnect, Goto, Rest, caches, Points, Idle, Leading, Answers
    <2>2. LagBound'
      BY <1>15, <1>0 DEF Disconnect, Goto, Rest, Unhurried, Idle, Answers
    <2> QED
      BY <2>1, <2>2
  <1>16. ASSUME LateSet PROVE TypeInv'
    <2>1. PICK s \in late :
             /\ shared' = [shared EXCEPT ![s.key] = [age |-> s.age, left |-> TTL[s.key]]]
             /\ late' = late \ {s}
      BY <1>16 DEF LateSet
    <2>2. s \in LateSets
      OBVIOUS
    <2>3. s.key \in Keys /\ s.age \in Ages /\ TTL[s.key] > 0
      BY <2>2 DEF LateSets
    <2>4. [age |-> s.age, left |-> TTL[s.key]] \in SharedEntries
      BY <2>3, CacheAssumption DEF SharedEntries
    <2>5. shared' \in [Keys -> SharedEntries \cup {NoEntry}]
      BY <2>1, <2>4
    <2> QED
      BY <1>16, <2>1, <2>5 DEF LateSet
  <1>17. ASSUME NEW k \in Keys, SharedLoss(k) PROVE TypeInv'
    BY <1>17 DEF SharedLoss
  <1>18. ASSUME Tick PROVE TypeInv'
    <2> DEFINE busy(t) == pc[t] \notin Unhurried
    <2>a. /\ lag' = [t \in Tasks |-> IF pc[t] \in Unhurried THEN lag[t] ELSE lag[t] + 1]
          /\ \A t \in Tasks : busy(t) => lag[t] < Limit(pc[t])
          /\ pc' = pc
      BY <1>18 DEF Tick
    <2>0. lag' \in [Tasks -> Nat]
      BY <2>a
    <2>1. LagBound'
      BY <2>a, <1>0
    <2>2. local' \in [Pods -> Maps]
      BY <1>18, AgedMap DEF Tick
    <2>3. shared' \in [Keys -> SharedEntries \cup {NoEntry}]
      BY <1>18, SharedOlderEntry DEF Tick
    <2>4. late' \subseteq LateSets
      <3> SUFFICES ASSUME NEW s \in late
                   PROVE  [s EXCEPT !.age = Older(@), !.wait = @ + 1] \in LateSets
        BY <1>18 DEF Tick
      <3>1. s \in LateSets /\ s.wait < LATE_TICKS
        BY <1>18 DEF Tick
      <3>2. Older(s.age) \in Ages
        BY <3>1, OlderOfAge DEF LateSets
      <3>3. s.wait + 1 \in 0 .. LATE_TICKS
        BY <3>1, InflightAssumption DEF LateSets
      <3> QED
        BY <3>1, <3>2, <3>3 DEF LateSets
    <2> QED
      BY <1>18, <2>0, <2>1, <2>2, <2>3, <2>4 DEF Tick
  <1>19. CASE UNCHANGED vars
    BY <1>19 DEF vars
  <1> QED
    BY <1>1, <1>2, <1>3, <1>4, <1>5, <1>6, <1>7, <1>8, <1>9, <1>10, <1>11, <1>12,
       <1>13, <1>14, <1>15, <1>16, <1>17, <1>18, <1>19 DEF Next, Handle

\* Every reachable state is well-formed, whatever the constants are.
THEOREM TypeCorrect == Spec => []TypeOK
  <1>1. Init => TypeInv
    BY TypeInit
  <1>2. TypeInv /\ [Next]_vars => TypeInv'
    BY TypeStep
  <1>3. TypeInv => TypeOK
    BY DEF TypeInv
  <1> QED
    BY <1>1, <1>2, <1>3, PTL DEF Spec

\* The same with the bound on delays: no handler is ever later than its limit.
THEOREM TypeInvariance == Spec => []TypeInv
  BY TypeInit, TypeStep, PTL DEF Spec
----
(***************************************************************************)
(* One call at a time.  The strengthening says whose Notify lies under a   *)
(* key: the handler that is fetching it.  It survives a dropped future,    *)
(* which leaves the Notify where it is.                                    *)
(***************************************************************************)
LeaderRegistered == \A t \in Tasks : pc[t] \in Leading => LeaderOf(t) = t

\* Nobody leads at the start;
LEMMA LeaderInit == Init => LeaderRegistered
  BY DEF Init, LeaderRegistered, Leading

\* a handler that leads is the registered one until it removes the key itself.
LEMMA LeaderStep == TypeInv /\ LeaderRegistered /\ [Next]_vars => LeaderRegistered'
  <1> SUFFICES ASSUME TypeOK, LeaderRegistered, [Next]_vars, NEW s \in Tasks, pc'[s] \in Leading
               PROVE  (LeaderOf(s) = s)'
    BY DEF LeaderRegistered, TypeInv
  <1> USE DEF TypeOK, LeaderRegistered, LeaderOf
  <1>0. s \in DOMAIN PodOf /\ PodOf[s] \in Pods
    BY InflightAssumption
  \* A step of a handler that leads neither before nor after it leaves the
  \* registered handlers, and the keys of those that lead, alone.
  <1>1. ASSUME UNCHANGED keys, key'[s] = key[s], pc[s] \in Leading
        PROVE  (LeaderOf(s) = s)'
    BY <1>1
  <1>2. ASSUME NEW t \in Tasks, NEW k \in Keys, Ask(t, k) PROVE (LeaderOf(s) = s)'
    <2>1. s # t
      BY <1>2, SMT DEF Ask, Goto, Leading
    <2> QED
      BY <1>2, <2>1, <1>1 DEF Ask, Goto, caches
  <1>3. ASSUME NEW t \in Tasks,
               SharedHit(t) \/ SharedMiss(t) \/ LookupLocal(t) \/ Wait(t)
                 \/ FromCacheGet(t) \/ FromCacheStale(t) \/ Disconnect(t)
        PROVE  (LeaderOf(s) = s)'
    <2>1. UNCHANGED <<key, keys>> /\ \E point \in Points \ Leading : Goto(t, point)
      BY <1>3
         DEF SharedHit, SharedMiss, LookupLocal, Wait, FromCacheGet, FromCacheStale,
             Disconnect, Answer, caches, Points, Idle, Answers, Leading
    <2>2. s # t
      BY <2>1 DEF Goto
    <2> QED
      BY <2>1, <2>2, <1>1 DEF Goto
  <1>4. ASSUME NEW t \in Tasks, Lead(t) PROVE (LeaderOf(s) = s)'
    <2>1. CASE s = t
      BY <1>4, <2>1, <1>0 DEF Lead
    <2>2. CASE s # t
      <3>1. pc[s] \in Leading
        BY <1>4, <2>2 DEF Lead, Goto
      <3>2. ~(PodOf[s] = PodOf[t] /\ key[s] = key[t])
        BY <1>4, <3>1, InflightAssumption DEF Lead
      <3> QED
        BY <1>4, <1>0, <3>1, <3>2, InflightAssumption DEF Lead
    <2> QED
      BY <2>1, <2>2
  <1>5. ASSUME NEW t \in Tasks, FetchOk(t) \/ FetchErr(t) \/ StoreLocal(t) \/ StoreShared(t)
        PROVE  (LeaderOf(s) = s)'
    <2>1. UNCHANGED <<key, keys>> /\ pc[t] \in Leading /\ \E point \in Points : Goto(t, point)
      BY <1>5
         DEF FetchOk, FetchErr, StoreLocal, StoreShared, AfterStore, caches, Points, Leading
    <2> QED
      BY <2>1, <1>1 DEF Goto
  <1>6. ASSUME NEW t \in Tasks, Remove(t) PROVE (LeaderOf(s) = s)'
    <2>1. s # t
      BY <1>6 DEF Remove, Goto, Leading
    <2>2. pc[s] \in Leading /\ pc[t] \in Leading
      BY <1>6, <2>1 DEF Remove, Goto, Leading
    <2>3. ~(PodOf[s] = PodOf[t] /\ key[s] = key[t])
      BY <2>1, <2>2
    <2> QED
      BY <1>6, <1>0, <2>2, <2>3 DEF Remove
  <1>7. ASSUME NEW t \in Tasks, Notify(t) PROVE (LeaderOf(s) = s)'
    <2>1. UNCHANGED <<key, keys>> /\ (pc'[s] = pc[s] \/ pc'[s] \in {"from_cache", "Fresh"})
      BY <1>7 DEF Notify, Wake, caches
    <2> QED
      BY <2>1, <1>1 DEF Leading
  <1>8. CASE LateSet \/ (\E k \in Keys : SharedLoss(k)) \/ Tick \/ UNCHANGED vars
    <2>1. UNCHANGED <<pc, key, keys>>
      BY <1>8 DEF LateSet, SharedLoss, Tick, vars
    <2> QED
      BY <2>1, <1>1
  <1> QED
    BY <1>2, <1>3, <1>4, <1>5, <1>6, <1>7, <1>8 DEF Next, Handle

\* fetch.rs:31: on no pod do two handlers ever call upstream for the same key
\* at the same time, even when clients hang up.
THEOREM OneCall == Spec => []AtMostOneCall
  <1>1. LeaderRegistered => AtMostOneCall
    BY DEF LeaderRegistered, AtMostOneCall, SameKey, LeaderOf
  <1> QED
    BY <1>1, TypeInvariance, LeaderInit, LeaderStep, PTL DEF Spec
----
(***************************************************************************)
(* No lost wakeup.  A waiter's Notify stays in the table until its handler *)
(* takes it out and goes on to notify; and, unless a future was dropped,   *)
(* what is in the table is the Notify of a handler on its way to do so.    *)
(***************************************************************************)
NotifyKept ==
    \A t \in Tasks : pc[t] = "waiting" =>
        /\ waitsFor[t] \in Tasks
        /\ \/ LeaderOf(t) = waitsFor[t]
           \/ SameKey(waitsFor[t], t) /\ pc[waitsFor[t]] = "notify"

RegisteredLeads ==
    \A p \in Pods, k \in Keys : keys[p][k] # NoTask =>
        /\ pc[keys[p][k]] \in Leading
        /\ PodOf[keys[p][k]] = p
        /\ key[keys[p][k]] = k

\* Nobody waits at the start;
LEMMA NotifyInit == Init => NotifyKept
  BY DEF Init, NotifyKept

\* a step takes a Notify out of the table, or passes the notification, only
\* with everybody who waits on it in view.
LEMMA NotifyStep ==
    TypeInv /\ LeaderRegistered /\ NotifyKept /\ [Next]_vars => NotifyKept'
  <1> SUFFICES ASSUME TypeOK, LeaderRegistered, NotifyKept, [Next]_vars,
                      NEW w \in Tasks, pc'[w] = "waiting"
               PROVE  (/\ waitsFor[w] \in Tasks
                       /\ \/ LeaderOf(w) = waitsFor[w]
                          \/ SameKey(waitsFor[w], w) /\ pc[waitsFor[w]] = "notify")'
    BY DEF NotifyKept, TypeInv
  <1> DEFINE Goal == (/\ waitsFor[w] \in Tasks
                      /\ \/ LeaderOf(w) = waitsFor[w]
                         \/ SameKey(waitsFor[w], w) /\ pc[waitsFor[w]] = "notify")'
  <1> USE DEF TypeOK, NotifyKept, SameKey, LeaderOf
  <1>0. PodOf[w] \in Pods
    BY InflightAssumption
  \* A step of a handler that is not the one about to notify.
  <1>1. ASSUME NEW t \in Tasks, pc[t] # "notify", pc[w] = "waiting", w # t,
               UNCHANGED keys, waitsFor'[w] = waitsFor[w],
               \A s \in Tasks \ {t} : pc'[s] = pc[s] /\ key'[s] = key[s]
        PROVE  Goal
    BY <1>1
  <1>2. ASSUME NEW t \in Tasks, NEW k \in Keys, Ask(t, k) PROVE Goal
    <2>1. w # t /\ pc[w] = "waiting" /\ pc[t] # "notify"
      BY <1>2 DEF Ask, Goto, Idle, Answers
    <2>2. \A s \in Tasks \ {t} : pc'[s] = pc[s] /\ key'[s] = key[s]
      BY <1>2 DEF Ask, Goto
    <2>3. keys' = keys /\ waitsFor'[w] = waitsFor[w]
      BY <1>2, <2>1 DEF Ask, caches
    <2> QED
      BY <1>1, <2>1, <2>2, <2>3
  <1>3. ASSUME NEW t \in Tasks,
               \/ SharedHit(t) \/ SharedMiss(t) \/ LookupLocal(t)
               \/ FetchOk(t) \/ FetchErr(t) \/ StoreLocal(t) \/ StoreShared(t)
               \/ FromCacheGet(t) \/ FromCacheStale(t) \/ Disconnect(t)
        PROVE  Goal
    <2>1. /\ UNCHANGED <<key, keys, waitsFor>>
          /\ \E point \in Points \ {"waiting"} : Goto(t, point)
          /\ pc[t] # "notify"
      BY <1>3
         DEF SharedHit, SharedMiss, LookupLocal, FetchOk, FetchErr, StoreLocal, StoreShared,
             FromCacheGet, FromCacheStale, Disconnect, Awaiting, AfterStore, Answer, caches,
             Points, Idle, Answers, Leading
    <2>2. w # t /\ pc[w] = "waiting"
      BY <2>1 DEF Goto
    <2> QED
      BY <2>1, <2>2, <1>1 DEF Goto
  <1>4. ASSUME NEW t \in Tasks, Wait(t) PROVE Goal
    <2>1. CASE w = t
      BY <1>4, <1>0, <2>1 DEF Wait, Goto, caches
    <2>2. CASE w # t
      BY <1>4, <1>1, <2>2 DEF Wait, Goto, caches
    <2> QED
      BY <2>1, <2>2
  <1>5. ASSUME NEW t \in Tasks, Lead(t) PROVE Goal
    <2>1. w # t /\ pc[w] = "waiting" /\ key' = key /\ waitsFor' = waitsFor
      BY <1>5 DEF Lead, Goto
    <2>2. PodOf[t] \in Pods /\ NoTask \notin Tasks
      BY InflightAssumption
    <2>3. CASE LeaderOf(w) = waitsFor[w]
      <3>1. ~(PodOf[w] = PodOf[t] /\ key[w] = key[t])
        BY <1>5, <2>1, <2>2, <2>3 DEF Lead
      <3>2. LeaderOf(w)' = LeaderOf(w)
        BY <1>5, <1>0, <2>1, <2>2, <3>1 DEF Lead
      <3> QED
        BY <2>1, <2>3, <3>2
    <2>4. CASE SameKey(waitsFor[w], w) /\ pc[waitsFor[w]] = "notify"
      BY <1>5, <2>1, <2>4 DEF Lead, Goto
    <2> QED
      BY <2>1, <2>3, <2>4
  <1>6. ASSUME NEW t \in Tasks, Remove(t) PROVE Goal
    <2>1. w # t /\ pc[w] = "waiting" /\ key' = key /\ waitsFor' = waitsFor
      BY <1>6 DEF Remove, Goto
    <2>2. LeaderOf(t) = t /\ PodOf[t] \in Pods
      BY <1>6, InflightAssumption DEF Remove, LeaderRegistered, Leading
    <2>3. CASE LeaderOf(w) = waitsFor[w] /\ SameKey(t, w)
      BY <1>6, <2>1, <2>2, <2>3 DEF Remove, Goto
    <2>4. CASE LeaderOf(w) = waitsFor[w] /\ ~SameKey(t, w)
      <3>1. LeaderOf(w)' = LeaderOf(w)
        BY <1>6, <1>0, <2>1, <2>2, <2>4 DEF Remove
      <3> QED
        BY <2>1, <2>4, <3>1
    <2>5. CASE SameKey(waitsFor[w], w) /\ pc[waitsFor[w]] = "notify"
      BY <1>6, <2>1, <2>5 DEF Remove, Goto
    <2> QED
      BY <2>1, <2>3, <2>4, <2>5
  <1>7. ASSUME NEW t \in Tasks, Notify(t) PROVE Goal
    <2>1. w \notin WaitersOf(t) /\ w # t /\ pc[w] = "waiting"
      BY <1>7 DEF Notify, Wake, WaitersOf
    <2>2. waitsFor'[w] = waitsFor[w] /\ key' = key /\ keys' = keys
      BY <1>7, <2>1 DEF Notify, Wake, caches
    <2>3. CASE LeaderOf(w) = waitsFor[w]
      BY <2>1, <2>2, <2>3
    <2>4. CASE SameKey(waitsFor[w], w) /\ pc[waitsFor[w]] = "notify"
      <3>1. waitsFor[w] # t
        BY <2>1, <2>4 DEF WaitersOf
      <3>2. pc'[waitsFor[w]] = "notify"
        BY <1>7, <2>1, <2>4, <3>1 DEF Notify, Wake, WaitersOf
      <3> QED
        BY <2>1, <2>2, <2>4, <3>2
    <2> QED
      BY <2>1, <2>3, <2>4
  <1>8. CASE LateSet \/ (\E k \in Keys : SharedLoss(k)) \/ Tick \/ UNCHANGED vars
    <2>1. UNCHANGED <<pc, key, keys, waitsFor>>
      BY <1>8 DEF LateSet, SharedLoss, Tick, vars
    <2> QED
      BY <2>1
  <1> QED
    BY <1>2, <1>3, <1>4, <1>5, <1>6, <1>7, <1>8 DEF Next, Handle

\* The table is empty at the start;
LEMMA RegisteredInit == Init => RegisteredLeads
  BY DEF Init, RegisteredLeads

\* a handler whose future nobody drops takes its Notify out itself.
LEMMA RegisteredStep ==
    ASSUME Disconnects = FALSE
    PROVE  TypeInv /\ RegisteredLeads /\ [Next]_vars => RegisteredLeads'
  <1> SUFFICES ASSUME TypeOK, RegisteredLeads, [Next]_vars
               PROVE  RegisteredLeads'
    BY DEF TypeInv
  <1> USE DEF TypeOK, RegisteredLeads, Leading
  <1>1. ASSUME NEW t \in Tasks, NEW k \in Keys, Ask(t, k) PROVE RegisteredLeads'
    <2>1. \A s \in Tasks \ {t} : pc'[s] = pc[s] /\ key'[s] = key[s]
      BY <1>1 DEF Ask, Goto
    <2>2. keys' = keys /\ pc[t] \notin Leading
      BY <1>1 DEF Ask, caches, Idle, Answers
    <2> QED
      BY <2>1, <2>2
  <1>2. ASSUME NEW t \in Tasks,
               SharedHit(t) \/ SharedMiss(t) \/ LookupLocal(t) \/ Wait(t)
                 \/ FromCacheGet(t) \/ FromCacheStale(t)
        PROVE  RegisteredLeads'
    <2>1. /\ UNCHANGED <<key, keys>>
          /\ \E point \in Points : Goto(t, point)
          /\ pc[t] \notin Leading
      BY <1>2
         DEF SharedHit, SharedMiss, LookupLocal, Wait, FromCacheGet, FromCacheStale, Answer,
             caches, Points, Idle, Answers
    <2> QED
      BY <2>1 DEF Goto
  <1>3. ASSUME NEW t \in Tasks, Lead(t) PROVE RegisteredLeads'
    <2>1. PodOf[t] \in Pods /\ t # NoTask
      BY InflightAssumption
    <2> QED
      BY <1>3, <2>1 DEF Lead, Goto
  <1>4. ASSUME NEW t \in Tasks, FetchOk(t) \/ FetchErr(t) \/ StoreLocal(t) \/ StoreShared(t)
        PROVE  RegisteredLeads'
    <2>1. UNCHANGED <<key, keys>> /\ \E point \in Leading : Goto(t, point)
      BY <1>4 DEF FetchOk, FetchErr, StoreLocal, StoreShared, AfterStore, caches
    <2> QED
      BY <2>1 DEF Goto
  <1>5. ASSUME NEW t \in Tasks, Remove(t) PROVE RegisteredLeads'
    BY <1>5, InflightAssumption DEF Remove, Goto
  <1>6. ASSUME NEW t \in Tasks, Notify(t) PROVE RegisteredLeads'
    BY <1>6 DEF Notify, Wake, WaitersOf, caches
  <1>7. CASE LateSet \/ (\E k \in Keys : SharedLoss(k)) \/ Tick \/ UNCHANGED vars
    <2>1. UNCHANGED <<pc, key, keys>>
      BY <1>7 DEF LateSet, SharedLoss, Tick, vars
    <2> QED
      BY <2>1
  <1>8. ASSUME NEW t \in Tasks PROVE ~Disconnect(t)
    BY DEF Disconnect
  <1> QED
    BY <1>1, <1>2, <1>3, <1>4, <1>5, <1>6, <1>7, <1>8 DEF Next, Handle

\* What the two invariants say together.
LEMMA NobodyLostNow ==
    TypeOK /\ NotifyKept /\ (Disconnects \/ RegisteredLeads) => NoLostWaiter
  <1> SUFFICES ASSUME TypeOK, NotifyKept, Disconnects \/ RegisteredLeads,
                      NEW t \in Tasks, pc[t] = "waiting"
               PROVE  /\ waitsFor[t] \in Tasks
                      /\ \/ /\ LeaderOf(t) = waitsFor[t]
                            /\ Disconnects \/ (SameKey(waitsFor[t], t) /\ pc[waitsFor[t]] \in Leading)
                         \/ SameKey(waitsFor[t], t) /\ pc[waitsFor[t]] = "notify"
    BY DEF NoLostWaiter
  <1>1. PodOf[t] \in Pods /\ key[t] \in Keys /\ NoTask \notin Tasks
    BY InflightAssumption DEF TypeOK
  <1> QED
    BY <1>1 DEF NotifyKept, RegisteredLeads, LeaderOf, SameKey

\* fetch.rs:50-53 and 65-66: no waiter misses its notification, in whatever
\* order handlers lead, fail, store, unregister, notify and wait; only a client
\* that hangs up on the leading handler can leave a waiter behind.
THEOREM NobodyLost == Spec => []NoLostWaiter
  <1>1. Spec => []NotifyKept
    BY TypeInvariance, LeaderInit, LeaderStep, NotifyInit, NotifyStep, PTL DEF Spec
  <1>2. CASE Disconnects = FALSE
    <2>1. TypeInv /\ RegisteredLeads /\ [Next]_vars => RegisteredLeads'
      BY <1>2, RegisteredStep
    <2>2. TypeInv /\ NotifyKept /\ RegisteredLeads => NoLostWaiter
      BY NobodyLostNow DEF TypeInv
    <2> QED
      BY <1>1, <2>1, <2>2, TypeInvariance, RegisteredInit, PTL DEF Spec
  <1>3. CASE Disconnects = TRUE
    <2>1. TypeInv /\ NotifyKept => NoLostWaiter
      BY <1>3, NobodyLostNow DEF TypeInv
    <2> QED
      BY <1>1, <2>1, TypeInvariance, PTL
  <1> QED
    BY <1>2, <1>3, InflightAssumption

----
(***************************************************************************)
(* What the caches hold.  In a pod: nothing that could still be served is  *)
(* swept, and what cannot be is bounded.                                   *)
(***************************************************************************)

\* An insert keeps every entry that is too young to be swept,
LEMMA PutKeeps ==
    ASSUME NEW m \in Maps, NEW j \in Keys, NEW k \in Keys, m[k] # NoEntry, m[k] < STALE_MAX_AGE
    PROVE  Put(m, j)[k] # NoEntry
  <1>1. Swept(m) \in Maps /\ Swept(m)[k] = m[k]
    BY SweptMap DEF Swept, Maps
  <1>2. 0 # NoEntry
    BY CacheAssumption
  <1> QED
    BY <1>1, <1>2 DEF Put, Maps

\* and no step takes such an entry away in another way (cache.rs:85-88).
THEOREM YoungKept == Spec => SweepKeepsYoung
  <1>1. TypeInv /\ [Next]_vars
          => [\A p \in Pods, k \in Keys :
                local[p][k] # NoEntry /\ local[p][k] < STALE_MAX_AGE
                  => local'[p][k] # NoEntry]_vars
    <2> SUFFICES ASSUME TypeInv, Next, NEW p \in Pods, NEW k \in Keys,
                        local[p][k] # NoEntry, local[p][k] < STALE_MAX_AGE
                 PROVE  local'[p][k] # NoEntry
      BY DEF vars
    <2>0. local \in [Pods -> Maps] /\ local[p] \in Maps /\ local[p][k] \in Ages
      BY DEF TypeInv, TypeOK, Maps
    <2>1. CASE UNCHANGED local
      BY <2>1
    <2>2. ASSUME NEW t \in Tasks, StoreLocal(t) PROVE local'[p][k] # NoEntry
      <3>1. PodOf[t] \in Pods /\ key[t] \in Keys
        BY InflightAssumption DEF TypeInv, TypeOK
      <3>2. local' = [local EXCEPT ![PodOf[t]] = Put(@, key[t])]
        BY <2>2 DEF StoreLocal
      <3>3. CASE p = PodOf[t]
        <4>1. Put(local[p], key[t])[k] # NoEntry
          BY <2>0, <3>1, PutKeeps
        <4> QED
          BY <2>0, <3>2, <3>3, <4>1
      <3>4. CASE p # PodOf[t]
        BY <2>0, <3>2, <3>4
      <3> QED
        BY <3>3, <3>4
    <2>3. CASE Tick
      <3>1. local'[p][k] = Older(local[p][k])
        BY <2>3, <2>0 DEF Tick, Aged
      <3>2. Older(local[p][k]) \in Ages
        BY <2>0, OlderOfAge
      <3> QED
        BY <3>1, <3>2, CacheAssumption DEF Ages
    <2>4. ASSUME NEW t \in Tasks,
                 \/ SharedHit(t) \/ SharedMiss(t) \/ LookupLocal(t) \/ Wait(t) \/ Lead(t)
                 \/ FetchOk(t) \/ FetchErr(t) \/ StoreShared(t) \/ Remove(t) \/ Notify(t)
                 \/ FromCacheGet(t) \/ FromCacheStale(t) \/ Disconnect(t)
                 \/ (\E j \in Keys : Ask(t, j))
          PROVE  UNCHANGED local
      BY <2>4
         DEF SharedHit, SharedMiss, LookupLocal, Wait, Lead, FetchOk, FetchErr, StoreShared,
             Remove, Notify, Wake, FromCacheGet, FromCacheStale, Disconnect, Ask, caches
    <2>5. CASE LateSet \/ (\E j \in Keys : SharedLoss(j))
      BY <2>5, <2>1 DEF LateSet, SharedLoss
    <2> QED
      BY <2>1, <2>2, <2>3, <2>4, <2>5 DEF Next, Handle
  <1> QED
    BY <1>1, TypeInvariance, PTL DEF Spec, SweepKeepsYoung

\* A pod holds finitely many entries at any time: what makes their number
\* something to compare with a threshold.
FinitelyHeld == \A p \in Pods : IsFiniteSet(Held(local[p]))

\* An insert adds one entry at most.
LEMMA PutAddsOne ==
    ASSUME NEW m \in Maps, NEW k \in Keys PROVE Held(Put(m, k)) \subseteq Held(m) \cup {k}
  <1>1. \A j \in Keys : Swept(m)[j] \in {m[j], NoEntry}
    BY DEF Swept, Maps
  <1>2. \A j \in Keys \ {k} : Put(m, k)[j] = Swept(m)[j]
    BY SweptMap DEF Put, Maps
  <1> QED
    BY <1>1, <1>2 DEF Held

\* The clock adds none.
LEMMA AgingAddsNone == ASSUME NEW m \in Maps PROVE Held(Aged(m)) \subseteq Held(m)
  BY CacheAssumption DEF Held, Aged, Older, Ages

\* The caches are empty at first.
LEMMA HeldInit == Init => FinitelyHeld
  <1>1. Held(EmptyMap) = {}
    BY DEF Held, EmptyMap
  <1> QED
    BY <1>1, FS_EmptySet DEF Init, FinitelyHeld

\* A step stores one payload at most, so the caches stay finite.
LEMMA HeldStep == TypeInv /\ FinitelyHeld /\ [Next]_vars => FinitelyHeld'
  <1> SUFFICES ASSUME TypeInv, FinitelyHeld, [Next]_vars, NEW p \in Pods
               PROVE  IsFiniteSet(Held(local'[p]))
    BY DEF FinitelyHeld
  <1>0. local \in [Pods -> Maps] /\ local[p] \in Maps /\ IsFiniteSet(Held(local[p]))
    BY DEF TypeInv, TypeOK, FinitelyHeld
  <1>1. CASE local' = local
    BY <1>0, <1>1
  <1>2. ASSUME NEW t \in Tasks, StoreLocal(t) PROVE IsFiniteSet(Held(local'[p]))
    <2>1. PodOf[t] \in Pods /\ key[t] \in Keys
      BY InflightAssumption DEF TypeInv, TypeOK
    <2>2. local'[p] = local[p] \/ local'[p] = Put(local[p], key[t])
      BY <1>2, <1>0, <2>1 DEF StoreLocal
    <2>3. Held(Put(local[p], key[t])) \subseteq Held(local[p]) \cup {key[t]}
      BY <1>0, <2>1, PutAddsOne
    <2>4. IsFiniteSet(Held(local[p]) \cup {key[t]})
      BY <1>0, FS_AddElement
    <2>5. IsFiniteSet(Held(Put(local[p], key[t])))
      BY <2>3, <2>4, FS_Subset
    <2> QED
      BY <1>0, <2>2, <2>5
  <1>3. CASE Tick
    <2>1. local'[p] = Aged(local[p])
      BY <1>3 DEF Tick
    <2> QED
      BY <1>0, <2>1, AgingAddsNone, FS_Subset
  <1>4. ASSUME NEW t \in Tasks,
               \/ SharedHit(t) \/ SharedMiss(t) \/ LookupLocal(t) \/ Wait(t) \/ Lead(t)
               \/ FetchOk(t) \/ FetchErr(t) \/ StoreShared(t) \/ Remove(t) \/ Notify(t)
               \/ FromCacheGet(t) \/ FromCacheStale(t) \/ Disconnect(t)
               \/ (\E j \in Keys : Ask(t, j))
        PROVE  local' = local
    BY <1>4
       DEF SharedHit, SharedMiss, LookupLocal, Wait, Lead, FetchOk, FetchErr, StoreShared,
           Remove, Notify, Wake, FromCacheGet, FromCacheStale, Disconnect, Ask, caches
  <1>5. CASE LateSet \/ (\E j \in Keys : SharedLoss(j)) \/ UNCHANGED vars
    BY <1>5, <1>1 DEF LateSet, SharedLoss, vars
  <1> QED
    BY <1>1, <1>2, <1>3, <1>4, <1>5 DEF Next, Handle

\* What an insert leaves that nothing can serve any more.
LEMMA PutSweeps ==
    ASSUME STALE_MAX_AGE > 0, NEW m \in Maps, NEW k \in Keys, IsFiniteSet(Held(m))
    PROVE  Cardinality({j \in Keys : Put(m, k)[j] # NoEntry /\ Put(m, k)[j] >= STALE_MAX_AGE})
             <= SWEEP_THRESHOLD
  <1> DEFINE Dead == {j \in Keys : Put(m, k)[j] # NoEntry /\ Put(m, k)[j] >= STALE_MAX_AGE}
  <1>0. STALE_MAX_AGE \in Nat /\ SWEEP_THRESHOLD \in Nat
    BY CacheAssumption
  <1>1. Put(m, k)[k] = 0 /\ \A j \in Keys \ {k} : Put(m, k)[j] = Swept(m)[j]
    BY SweptMap DEF Put, Maps
  <1>2. k \notin Dead
    BY <1>0, <1>1
  <1>3. CASE Cardinality(Held(m)) > SWEEP_THRESHOLD
    <2>1. \A j \in Keys : Swept(m)[j] # NoEntry => Swept(m)[j] = m[j] /\ m[j] < STALE_MAX_AGE
      BY <1>3 DEF Swept
    <2>2. \A j \in Keys : m[j] \in Nat \cup {NoEntry}
      BY CacheAssumption DEF Maps, Ages
    <2>3. Dead = {}
      BY <1>0, <1>1, <1>2, <2>1, <2>2
    <2> QED
      BY <1>0, <2>3, FS_EmptySet
  <1>4. CASE ~(Cardinality(Held(m)) > SWEEP_THRESHOLD)
    <2>1. Swept(m) = m
      BY <1>4 DEF Swept
    <2>2. Dead \subseteq Held(m)
      BY <1>1, <1>2, <2>1 DEF Held
    <2>3. Cardinality(Dead) <= Cardinality(Held(m)) /\ Cardinality(Dead) \in Nat
          /\ Cardinality(Held(m)) \in Nat
      BY <2>2, FS_Subset, FS_CardinalityType
    <2> HIDE DEF Dead
    <2>4. Cardinality(Dead) <= SWEEP_THRESHOLD
      BY <1>0, <1>4, <2>3
    <2> QED
      BY <2>4 DEF Dead
  <1> QED
    BY <1>3, <1>4

\* cache.rs:10: whatever has piled up, an insert leaves at most SWEEP_THRESHOLD
\* entries that nothing can serve any more.
THEOREM DeadSwept == ASSUME STALE_MAX_AGE > 0 PROVE Spec => DeadBounded
  <1>1. TypeInv /\ FinitelyHeld /\ [Next]_vars
          => [\A t \in Tasks : StoreLocal(t) =>
                Cardinality({k \in Keys : LET e == local'[PodOf[t]][k] IN
                                e # NoEntry /\ e >= STALE_MAX_AGE}) <= SWEEP_THRESHOLD]_vars
    <2> SUFFICES ASSUME TypeInv, FinitelyHeld, NEW t \in Tasks, StoreLocal(t)
                 PROVE  Cardinality({k \in Keys : local'[PodOf[t]][k] # NoEntry
                                       /\ local'[PodOf[t]][k] >= STALE_MAX_AGE})
                          <= SWEEP_THRESHOLD
      OBVIOUS
    <2>1. PodOf[t] \in Pods /\ key[t] \in Keys /\ local[PodOf[t]] \in Maps
          /\ IsFiniteSet(Held(local[PodOf[t]]))
      BY InflightAssumption DEF TypeInv, TypeOK, FinitelyHeld
    <2>2. local'[PodOf[t]] = Put(local[PodOf[t]], key[t])
      BY <2>1 DEF StoreLocal, TypeInv, TypeOK
    <2> QED
      BY <2>1, <2>2, PutSweeps
  <1> QED
    BY <1>1, TypeInvariance, HeldInit, HeldStep, PTL DEF Spec, DeadBounded

----
(***************************************************************************)
(* The age of an answer.  An entry of Memcached has at any time been there *)
(* for as long as its TTL has run, so what bounds its age is how late the  *)
(* store was that put it there: the leader's last steps, and the time a    *)
(* set that timed out was still on its way.                                *)
(***************************************************************************)
SharedYoung ==
    /\ \A k \in Keys : shared[k] # NoEntry =>
        SharedConfigured /\ shared[k].age + shared[k].left <= TTL[k] + SharedSlack
    /\ \A s \in late : SharedConfigured /\ s.age <= STEP_TICKS + s.wait

\* An answer is within its window, and only a pod with a Memcached talks to it.
InWindow(t) ==
    /\ pc[t] \in {"lookup_shared", "store_shared"} => SharedConfigured
    /\ pc[t] = "Cached" => served[t] < TTL[key[t]] + SharedSlack
    /\ pc[t] = "Stale" => served[t] <= STALE_MAX_AGE

WindowInv == SharedYoung /\ \A t \in Tasks : InWindow(t)

\* Nothing is stored and nobody has an answer at the start;
LEMMA WindowInit == Init => WindowInv
  BY DEF Init, WindowInv, SharedYoung, InWindow, EmptyMap

\* every step keeps the entries as young, and the answers within the window.
LEMMA WindowStep == TypeInv /\ WindowInv /\ [Next]_vars => WindowInv'
  <1> SUFFICES ASSUME TypeInv, WindowInv, [Next]_vars PROVE WindowInv'
    OBVIOUS
  <1> USE DEF WindowInv
  <1>0. /\ TypeOK /\ LagBound /\ PodOf \in [Tasks -> Pods]
        /\ STEP_TICKS \in Nat /\ LATE_TICKS \in Nat /\ SharedSlack \in Nat
        /\ SharedConfigured => SharedSlack = STEP_TICKS + LATE_TICKS
        /\ NoEntry \notin Ages /\ \A e \in Ages : e \in Nat
    BY InflightAssumption, CacheAssumption DEF TypeInv, SharedSlack, Ages
  <1>a. \A t \in Tasks : key[t] \in Keys /\ local[PodOf[t]] \in Maps /\ TTL[key[t]] \in Nat
                         /\ local[PodOf[t]][key[t]] \in Ages \cup {NoEntry}
    BY <1>0, CacheAssumption DEF TypeOK, Maps
  \* A step of one handler that does not store in Memcached.
  <1>b. ASSUME NEW t \in Tasks, UNCHANGED <<shared, late>>, InWindow(t)',
               \A u \in Tasks \ {t} :
                   pc'[u] = pc[u] /\ key'[u] = key[u] /\ served'[u] = served[u]
        PROVE  WindowInv'
    BY <1>b DEF SharedYoung, InWindow, SharedSlack
  <1>1. ASSUME NEW t \in Tasks, NEW k \in Keys, Ask(t, k) PROVE WindowInv'
    <2>1. pc'[t] = IF SharedConfigured THEN "lookup_shared" ELSE "lookup_local"
      BY <1>1, <1>0 DEF Ask, Goto, TypeOK
    <2>2. InWindow(t)'
      BY <2>1 DEF InWindow
    <2>3. \A u \in Tasks \ {t} : pc'[u] = pc[u] /\ key'[u] = key[u] /\ served'[u] = served[u]
      BY <1>1, <1>0 DEF Ask, Goto, TypeOK
    <2> QED
      BY <1>1, <1>b, <2>2, <2>3 DEF Ask, caches
  <1>2. ASSUME NEW t \in Tasks, SharedHit(t) PROVE WindowInv'
    <2>0. /\ pc[t] = "lookup_shared" /\ shared[key[t]] # NoEntry
          /\ Answer(t, "Cached", shared[key[t]].age) /\ UNCHANGED <<key, shared, late>>
      BY <1>2 DEF SharedHit, caches
    <2>1. pc'[t] = "Cached" /\ served'[t] = shared[key[t]].age
      BY <2>0, <1>0 DEF Answer, Goto, TypeOK
    <2>2. shared[key[t]] \in SharedEntries
      BY <2>0, <1>0, <1>a DEF TypeOK
    <2>3. shared[key[t]].age \in Nat /\ shared[key[t]].left \in Nat \ {0}
      BY <2>2, <1>0 DEF SharedEntries
    <2>4. shared[key[t]].age + shared[key[t]].left <= TTL[key[t]] + SharedSlack
      BY <2>0, <1>a DEF SharedYoung
    <2>5. shared[key[t]].age < TTL[key[t]] + SharedSlack
      BY <2>3, <2>4, <1>0, <1>a
    <2>6. InWindow(t)'
      BY <2>0, <2>1, <2>5 DEF InWindow, SharedSlack
    <2>7. \A u \in Tasks \ {t} : pc'[u] = pc[u] /\ key'[u] = key[u] /\ served'[u] = served[u]
      BY <2>0, <1>0 DEF Answer, Goto, TypeOK
    <2> QED
      BY <1>b, <2>0, <2>6, <2>7
  <1>3. ASSUME NEW t \in Tasks, LookupLocal(t) \/ FromCacheGet(t) \/ FromCacheStale(t)
        PROVE  WindowInv'
    <2> DEFINE e == local[PodOf[t]][key[t]]
    <2>0. UNCHANGED <<key, shared, late>>
      BY <1>3 DEF LookupLocal, FromCacheGet, FromCacheStale, caches
    <2>1. \/ Answer(t, "Cached", e) /\ Get(local[PodOf[t]], key[t])
          \/ Answer(t, "Stale", e) /\ GetStale(local[PodOf[t]], key[t])
          \/ Answer(t, "Failed", 0)
          \/ \E point \in {"lock", "get_stale"} : Goto(t, point) /\ UNCHANGED served
      BY <1>3 DEF LookupLocal, FromCacheGet, FromCacheStale
    <2>2. \A u \in Tasks \ {t} : pc'[u] = pc[u] /\ key'[u] = key[u] /\ served'[u] = served[u]
      BY <2>0, <2>1, <1>0 DEF Answer, Goto, TypeOK
    <2>3. Get(local[PodOf[t]], key[t]) => e < TTL[key[t]] + SharedSlack
      BY <1>0, <1>a DEF Get
    <2>4. GetStale(local[PodOf[t]], key[t]) => e <= STALE_MAX_AGE
      BY DEF GetStale
    <2>5. InWindow(t)'
      BY <2>0, <2>1, <2>3, <2>4, <1>0 DEF InWindow, Answer, Goto, TypeOK, SharedSlack
    <2> QED
      BY <1>b, <2>0, <2>2, <2>5
  <1>4. ASSUME NEW t \in Tasks,
               \/ SharedMiss(t) \/ Wait(t) \/ Lead(t) \/ FetchOk(t) \/ FetchErr(t)
               \/ StoreLocal(t) \/ Remove(t) \/ Disconnect(t)
        PROVE  WindowInv'
    <2>0. UNCHANGED <<key, served, shared, late>>
      BY <1>4 DEF SharedMiss, Wait, Lead, FetchOk, FetchErr, StoreLocal, Remove, Disconnect, caches
    <2>1. \/ \E point \in {"lookup_local", "waiting", "fetch", "store_local", "remove", "notify",
                           "idle"} : Goto(t, point)
          \/ SharedConfigured /\ Goto(t, "store_shared")
      BY <1>4 DEF SharedMiss, Wait, Lead, FetchOk, FetchErr, StoreLocal, AfterStore, Remove,
                  Disconnect
    <2>2. \A u \in Tasks \ {t} : pc'[u] = pc[u] /\ key'[u] = key[u] /\ served'[u] = served[u]
      BY <2>0, <2>1, <1>0 DEF Goto, TypeOK
    <2>3. InWindow(t)'
      BY <2>0, <2>1, <1>0 DEF InWindow, Goto, TypeOK
    <2> QED
      BY <1>b, <2>0, <2>2, <2>3
  <1>5. ASSUME NEW t \in Tasks, StoreShared(t) PROVE WindowInv'
    <2>0. /\ pc[t] = "store_shared" /\ Goto(t, "remove") /\ UNCHANGED <<key, served>>
      BY <1>5 DEF StoreShared
    <2>1. SharedConfigured
      BY <2>0 DEF InWindow
    <2>2. lag[t] \in Nat /\ lag[t] <= STEP_TICKS
      BY <2>0, <1>0 DEF LagBound, Limit, Unhurried, Idle, Answers, TypeOK
    <2>3. \A u \in Tasks : InWindow(u)'
      BY <2>0, <1>0 DEF InWindow, Goto, TypeOK, SharedSlack
    <2>4. \/ UNCHANGED <<shared, late>>
          \/ /\ shared' = [shared EXCEPT ![key[t]] = [age |-> lag[t], left |-> TTL[key[t]]]]
             /\ UNCHANGED late
          \/ /\ late' = late \cup {[key |-> key[t], age |-> lag[t], wait |-> 0]}
             /\ UNCHANGED shared
      BY <1>5 DEF StoreShared
    <2>5. lag[t] + TTL[key[t]] <= TTL[key[t]] + SharedSlack /\ lag[t] <= STEP_TICKS + 0
      BY <2>1, <2>2, <1>0, <1>a
    <2>6. SharedYoung'
      <3>1. CASE UNCHANGED <<shared, late>>
        BY <3>1 DEF SharedYoung, SharedSlack
      <3>2. CASE /\ shared' = [shared EXCEPT ![key[t]] = [age |-> lag[t], left |-> TTL[key[t]]]]
                 /\ UNCHANGED late
        BY <3>2, <2>1, <2>5, <1>0, <1>a DEF SharedYoung, SharedSlack, TypeOK
      <3>3. CASE /\ late' = late \cup {[key |-> key[t], age |-> lag[t], wait |-> 0]}
                 /\ UNCHANGED shared
        BY <3>3, <2>1, <2>5 DEF SharedYoung, SharedSlack
      <3> QED
        BY <2>4, <3>1, <3>2, <3>3
    <2> QED
      BY <2>3, <2>6
  <1>6. ASSUME NEW t \in Tasks, Notify(t) PROVE WindowInv'
    <2>1. /\ UNCHANGED <<key, served, shared, late>>
          /\ \A u \in Tasks : pc'[u] = pc[u] \/ pc'[u] \in {"from_cache", "Fresh"}
      BY <1>6 DEF Notify, Wake, caches
    <2> QED
      BY <2>1 DEF SharedYoung, InWindow, SharedSlack
  <1>7. ASSUME LateSet PROVE WindowInv'
    <2>1. PICK s \in late :
            /\ shared' = [shared EXCEPT ![s.key] = [age |-> s.age, left |-> TTL[s.key]]]
            /\ late' = late \ {s} /\ UNCHANGED <<pc, key, served>>
      BY <1>7 DEF LateSet
    <2>2. s \in LateSets
      BY <1>0 DEF TypeOK
    <2>3. s.key \in Keys /\ s.age \in Nat /\ s.wait \in 0 .. LATE_TICKS /\ TTL[s.key] \in Nat
      BY <2>2, <1>0, CacheAssumption DEF LateSets
    <2>4. SharedConfigured /\ s.age <= STEP_TICKS + s.wait
      BY DEF SharedYoung
    <2>5. s.age + TTL[s.key] <= TTL[s.key] + SharedSlack
      BY <2>3, <2>4, <1>0
    <2>6. SharedYoung'
      BY <2>1, <2>3, <2>4, <2>5, <1>0 DEF SharedYoung, SharedSlack, TypeOK
    <2> QED
      BY <2>1, <2>6 DEF InWindow, SharedSlack
  <1>8. ASSUME NEW k \in Keys, SharedLoss(k) PROVE WindowInv'
    <2>1. shared' = [shared EXCEPT ![k] = NoEntry] /\ UNCHANGED <<pc, key, served, late>>
      BY <1>8 DEF SharedLoss
    <2> QED
      BY <2>1, <1>0 DEF SharedYoung, InWindow, SharedSlack, TypeOK
  <1>9. ASSUME Tick PROVE WindowInv'
    <2>0. /\ shared' = [k \in Keys |-> SharedOlder(shared[k])]
          /\ late' = {[s EXCEPT !.age = Older(@), !.wait = @ + 1] : s \in late}
          /\ UNCHANGED <<pc, key, served>>
      BY <1>9 DEF Tick
    <2>1. \A e \in Ages : Older(e) \in Nat /\ Older(e) <= e + 1
      BY CacheAssumption DEF Older, Ages
    <2>2. ASSUME NEW k \in Keys, shared'[k] # NoEntry
          PROVE  SharedConfigured /\ shared'[k].age + shared'[k].left <= TTL[k] + SharedSlack
      <3>1. shared[k] # NoEntry /\ shared[k].left # 1
            /\ shared'[k] = [age |-> Older(shared[k].age), left |-> shared[k].left - 1]
        BY <2>0, <2>2 DEF SharedOlder
      <3>2. shared[k].age \in Ages /\ shared[k].left \in Nat
        BY <3>1, <1>0 DEF TypeOK, SharedEntries
      <3>3. SharedConfigured /\ shared[k].age + shared[k].left <= TTL[k] + SharedSlack
        BY <3>1 DEF SharedYoung
      <3>4. Older(shared[k].age) + (shared[k].left - 1) <= shared[k].age + shared[k].left
        BY <3>2, <2>1, <1>0
      <3> QED
        BY <3>1, <3>2, <3>3, <3>4, <2>1, <1>0, CacheAssumption
    <2>3. ASSUME NEW s \in late
          PROVE  SharedConfigured /\ Older(s.age) <= STEP_TICKS + (s.wait + 1)
      <3>1. s.age \in Ages /\ s.wait \in Nat
        BY <1>0 DEF TypeOK, LateSets
      <3>2. SharedConfigured /\ s.age <= STEP_TICKS + s.wait
        BY DEF SharedYoung
      <3> QED
        BY <3>1, <3>2, <2>1, <1>0
    <2>4. ASSUME NEW r \in late' PROVE SharedConfigured /\ r.age <= STEP_TICKS + r.wait
      <3>1. PICK s \in late : r = [s EXCEPT !.age = Older(@), !.wait = @ + 1]
        BY <2>0
      <3>2. s \in LateSets
        BY <1>0 DEF TypeOK
      <3>3. r.age = Older(s.age) /\ r.wait = s.wait + 1
        BY <3>1, <3>2 DEF LateSets
      <3> QED
        BY <3>3, <2>3
    <2>5. SharedYoung'
      BY <2>2, <2>4 DEF SharedYoung, SharedSlack
    <2> QED
      BY <2>0, <2>5 DEF InWindow, SharedSlack
  <1>10. CASE UNCHANGED vars
    BY <1>10 DEF vars, SharedYoung, InWindow, SharedSlack
  <1> QED
    BY <1>1, <1>2, <1>3, <1>4, <1>5, <1>6, <1>7, <1>8, <1>9, <1>10 DEF Next, Handle

\* No client is given an old payload as a new one, whichever pod fetched it and
\* in whatever order the stores of several pods reached Memcached.
THEOREM ServedYoung == Spec => []ServedInWindow
  <1>1. WindowInv => ServedInWindow
    BY DEF WindowInv, InWindow, ServedInWindow
  <1> QED
    BY <1>1, TypeInvariance, WindowInit, WindowStep, PTL DEF Spec
----
(***************************************************************************)
(* The fetch path does what one shared call per key and pod would do, and  *)
(* a client is told of a failure only after one: for every number of pods, *)
(* handlers and keys, with clients that hang up, a Memcached that loses,   *)
(* delays and forgets, and caches that are swept.                          *)
(***************************************************************************)

\* What the code leaves to its configuration: the steps of a handler between
\* two waits are short against every TTL (60 s for departures, unless it is
\* configured: main.rs:200-203) and against the 300 s an entry is kept
\* (cache.rs:13).
Prompt ==
    /\ \A k \in Keys : 2 * STEP_TICKS < TTL[k]
    /\ 2 * STEP_TICKS < STALE_MAX_AGE

\* A Notify in a pod's table is one of a handler of that pod.
NotifyOfPod == \A p \in Pods, k \in Keys : keys[p][k] # NoTask => PodOf[keys[p][k]] = p

\* What handler t would find in its pod.
Entry(t) == local[PodOf[t]][key[t]]

\* What handler t has been told is so.  Before its call, or the one it waits
\* for, has ended it has no result; when it knows of a success the payload is
\* in its pod, no older than the leader's steps since, or for a waiter than
\* those and its own; and it never looks for an expired one.
Informed(t) ==
    /\ pc[t] = "waiting" => waitsFor[t] \in Tasks /\ PodOf[waitsFor[t]] = PodOf[t]
    /\ ok[t] =>
        /\ pc[t] \notin {"lookup_shared", "lookup_local", "lock", "waiting", "fetch",
                         "get_stale", "Stale", "Failed"}
        /\ pc[t] \in {"store_shared", "remove", "notify"} =>
            Entry(t) \in Ages /\ Entry(t) <= lag[t]
        /\ pc[t] = "from_cache" => Entry(t) \in Ages /\ Entry(t) <= STEP_TICKS + lag[t]

FreshInv == NotifyOfPod /\ \A t \in Tasks : Informed(t)
----
\* Nobody has been told anything at the start;
LEMMA FreshInit == Init => FreshInv
  BY DEF Init, FreshInv, NotifyOfPod, Informed

\* a step of another handler that leaves the entry alone changes nothing,
LEMMA StaysInformed ==
    ASSUME NEW u \in Tasks, Informed(u), Entry(u)' = Entry(u),
           pc'[u] = pc[u], waitsFor'[u] = waitsFor[u], ok'[u] = ok[u], lag'[u] = lag[u]
    PROVE  Informed(u)'
  <1>1. PodOf' = PodOf
    OBVIOUS
  <1> QED
    BY DEF Informed

\* and an insert, with its sweep, leaves what a handler relies on: such an
\* entry is too young to be swept (cache.rs:85-88).
LEMMA PutKeepsYoung ==
    ASSUME Prompt, NEW m \in Maps, NEW j \in Keys, NEW k \in Keys,
           m[k] \in Ages, m[k] <= 2 * STEP_TICKS
    PROVE  Put(m, j)[k] \in Ages /\ Put(m, j)[k] <= m[k]
  <1>1. 0 \in Ages /\ NoEntry \notin Ages /\ m[k] \in Nat
    BY CacheAssumption DEF Ages
  <1>2. m[k] < STALE_MAX_AGE
    BY <1>1, CacheAssumption, InflightAssumption DEF Prompt
  <1>3. Swept(m) \in Maps /\ Swept(m)[k] = m[k]
    BY <1>1, <1>2, SweptMap DEF Swept, Maps
  <1> QED
    BY <1>1, <1>3 DEF Put, Maps

\* Every step keeps the invariant.
LEMMA FreshStep == ASSUME Prompt PROVE TypeInv /\ FreshInv /\ [Next]_vars => FreshInv'
  <1> SUFFICES ASSUME TypeInv, FreshInv, [Next]_vars PROVE FreshInv'
    OBVIOUS
  <1> USE DEF FreshInv
  <1>0. /\ TypeOK /\ LagBound
        /\ STEP_TICKS \in Nat /\ NoTask \notin Tasks /\ PodOf \in [Tasks -> Pods]
        /\ NoEntry \notin Ages /\ 0 \in Ages /\ \A e \in Ages : e \in Nat
    BY InflightAssumption, CacheAssumption DEF TypeInv, Ages
  <1>a. \A t \in Tasks : key[t] \in Keys /\ PodOf[t] \in Pods /\ local[PodOf[t]] \in Maps
                         /\ Entry(t) \in Ages \cup {NoEntry} /\ lag[t] \in Nat
    BY <1>0 DEF TypeOK, Entry, Maps
  \* The time limits of the points that have one.
  <1>b. \A t \in Tasks : pc[t] \in {"store_shared", "remove", "notify", "from_cache"}
                           => lag[t] <= STEP_TICKS
    BY <1>0 DEF LagBound, Limit, Unhurried, Idle, Answers
  \* A step of one handler that leaves tables and caches alone.
  <1>c. ASSUME NEW t \in Tasks, UNCHANGED <<keys, local>>,
               \A u \in Tasks \ {t} :
                   /\ pc'[u] = pc[u] /\ key'[u] = key[u] /\ waitsFor'[u] = waitsFor[u]
                   /\ ok'[u] = ok[u] /\ lag'[u] = lag[u],
               Informed(t)'
        PROVE  FreshInv'
    <2>1. ASSUME NEW u \in Tasks \ {t} PROVE Informed(u)'
      <3>1. Entry(u)' = Entry(u)
        BY <1>c DEF Entry
      <3> QED
        BY <1>c, <3>1, StaysInformed
    <2> QED
      BY <1>c, <2>1 DEF NotifyOfPod
  <1>1. ASSUME NEW t \in Tasks, NEW k \in Keys, Ask(t, k) PROVE FreshInv'
    <2>1. \A u \in Tasks \ {t} :
            /\ pc'[u] = pc[u] /\ key'[u] = key[u] /\ waitsFor'[u] = waitsFor[u]
            /\ ok'[u] = ok[u] /\ lag'[u] = lag[u]
      BY <1>1, <1>0 DEF Ask, Goto, Rest, TypeOK
    <2>2. pc'[t] \in {"lookup_shared", "lookup_local"} /\ ok'[t] = FALSE
      BY <1>1, <1>0 DEF Ask, Goto, TypeOK
    <2>3. Informed(t)'
      BY <2>2 DEF Informed
    <2> QED
      BY <1>1, <1>c, <2>1, <2>3 DEF Ask, caches
  <1>2. ASSUME NEW t \in Tasks,
               SharedHit(t) \/ SharedMiss(t) \/ LookupLocal(t) \/ Lead(t) \/ Disconnect(t)
        PROVE  FreshInv'
    <2>1. /\ pc[t] \in {"lookup_shared", "lookup_local", "lock"} \cup Awaiting
          /\ UNCHANGED <<key, waitsFor, ok, local>>
      BY <1>2 DEF SharedHit, SharedMiss, LookupLocal, Lead, Disconnect, caches
    <2>2. \A u \in Tasks \ {t} : pc'[u] = pc[u] /\ lag'[u] = lag[u]
      BY <1>2, <1>0
         DEF SharedHit, SharedMiss, LookupLocal, Lead, Disconnect, Answer, Goto, Rest, TypeOK
    <2>3. \/ pc[t] \in {"lookup_shared", "lookup_local", "lock"}
             /\ pc'[t] \in {"Cached", "lookup_local", "lock", "fetch", "idle"}
          \/ pc'[t] = "idle"
      BY <1>2, <1>0
         DEF SharedHit, SharedMiss, LookupLocal, Lead, Disconnect, Answer, Goto, TypeOK
    <2>4. Informed(t)'
      BY <2>1, <2>3 DEF Informed
    <2>5. CASE UNCHANGED keys
      BY <1>c, <2>1, <2>2, <2>4, <2>5
    <2>6. CASE Lead(t)
      <3>1. NotifyOfPod'
        BY <2>6, <1>0, <1>a DEF Lead, NotifyOfPod, TypeOK
      <3>2. ASSUME NEW u \in Tasks \ {t} PROVE Informed(u)'
        <4>1. Entry(u)' = Entry(u)
          BY <2>1 DEF Entry
        <4> QED
          BY <2>1, <2>2, <4>1, StaysInformed
      <3> QED
        BY <2>4, <3>1, <3>2
    <2> QED
      BY <1>2, <2>5, <2>6 DEF SharedHit, SharedMiss, LookupLocal, Disconnect, caches
  <1>3. ASSUME NEW t \in Tasks, Wait(t) PROVE FreshInv'
    <2>1. \A u \in Tasks \ {t} :
            /\ pc'[u] = pc[u] /\ key'[u] = key[u] /\ waitsFor'[u] = waitsFor[u]
            /\ ok'[u] = ok[u] /\ lag'[u] = lag[u]
      BY <1>3, <1>0 DEF Wait, Goto, Rest, TypeOK
    <2>2. /\ pc[t] = "lock" /\ pc'[t] = "waiting" /\ ok' = ok
          /\ waitsFor'[t] = LeaderOf(t) /\ LeaderOf(t) # NoTask
      BY <1>3, <1>0 DEF Wait, Goto, TypeOK
    <2>3. LeaderOf(t) \in Tasks /\ PodOf[LeaderOf(t)] = PodOf[t]
      BY <2>2, <1>0, <1>a DEF LeaderOf, NotifyOfPod, TypeOK
    <2>4. Informed(t)'
      BY <2>2, <2>3 DEF Informed
    <2> QED
      BY <1>3, <1>c, <2>1, <2>4 DEF Wait, caches
  <1>4. ASSUME NEW t \in Tasks, FetchOk(t) \/ FetchErr(t) PROVE FreshInv'
    <2>1. \A u \in Tasks \ {t} :
            /\ pc'[u] = pc[u] /\ key'[u] = key[u] /\ waitsFor'[u] = waitsFor[u]
            /\ ok'[u] = ok[u] /\ lag'[u] = lag[u]
      BY <1>4, <1>0 DEF FetchOk, FetchErr, Goto, Rest, TypeOK
    <2>2. pc[t] = "fetch" /\ (pc'[t] = "store_local" \/ (pc'[t] = "remove" /\ ok' = ok))
      BY <1>4, <1>0 DEF FetchOk, FetchErr, Goto, TypeOK
    <2>3. Informed(t)'
      BY <2>2 DEF Informed
    <2> QED
      BY <1>4, <1>c, <2>1, <2>3 DEF FetchOk, FetchErr, caches
  <1>5. ASSUME NEW t \in Tasks, StoreLocal(t) PROVE FreshInv'
    <2>0. /\ UNCHANGED <<key, waitsFor, ok, lag, keys>>
          /\ local' = [local EXCEPT ![PodOf[t]] = Put(@, key[t])]
          /\ pc'[t] \in {"store_shared", "remove"}
          /\ \A u \in Tasks \ {t} : pc'[u] = pc[u]
      BY <1>5, <1>0 DEF StoreLocal, AfterStore, Goto, TypeOK
    <2>1. \A u \in Tasks : Entry(u)' = IF PodOf[u] = PodOf[t]
                                       THEN Put(local[PodOf[t]], key[t])[key[u]] ELSE Entry(u)
      BY <2>0, <1>0, <1>a DEF Entry, TypeOK
    <2>2. ASSUME NEW u \in Tasks, Entry(u) \in Ages, Entry(u) <= 2 * STEP_TICKS
          PROVE  Entry(u)' \in Ages /\ Entry(u)' <= Entry(u)
      <3>1. CASE PodOf[u] = PodOf[t]
        <4>1. /\ local[PodOf[t]] \in Maps /\ key[t] \in Keys /\ key[u] \in Keys
              /\ local[PodOf[t]][key[u]] \in Ages
              /\ local[PodOf[t]][key[u]] <= 2 * STEP_TICKS
          BY <1>a, <2>2, <3>1 DEF Entry
        <4>2. Put(local[PodOf[t]], key[t])[key[u]] \in Ages
              /\ Put(local[PodOf[t]], key[t])[key[u]] <= local[PodOf[t]][key[u]]
          BY <4>1, PutKeepsYoung
        <4> QED
          BY <2>1, <3>1, <4>2 DEF Entry
      <3>2. CASE PodOf[u] # PodOf[t]
        BY <2>1, <2>2, <3>2, <1>0
      <3> QED
        BY <3>1, <3>2
    <2>3. ASSUME NEW u \in Tasks \ {t} PROVE Informed(u)'
      <3>1. CASE ok[u] /\ pc[u] \in {"store_shared", "remove", "notify", "from_cache"}
        <4>1. Entry(u) \in Ages /\ Entry(u) <= 2 * STEP_TICKS
          BY <3>1, <1>0, <1>a, <1>b DEF Informed
        <4>2. Entry(u)' \in Ages /\ Entry(u)' <= Entry(u)
          BY <4>1, <2>2
        <4> QED
          BY <2>0, <3>1, <4>1, <4>2, <1>0, <1>a DEF Informed
      <3>2. CASE ~(ok[u] /\ pc[u] \in {"store_shared", "remove", "notify", "from_cache"})
        BY <2>0, <3>2 DEF Informed
      <3> QED
        BY <3>1, <3>2
    <2>4. Informed(t)'
      <3>1. Entry(t)' = 0
        BY <2>1, <1>a, SweptMap DEF Put, Maps
      <3> QED
        BY <2>0, <3>1, <1>0, <1>a DEF Informed
    <2> QED
      BY <2>0, <2>3, <2>4 DEF NotifyOfPod
  <1>6. ASSUME NEW t \in Tasks, StoreShared(t) \/ Remove(t) PROVE FreshInv'
    <2>0. /\ UNCHANGED <<key, waitsFor, ok, lag, local>>
          /\ pc[t] \in {"store_shared", "remove"} /\ pc'[t] \in {"remove", "notify"}
          /\ \A u \in Tasks \ {t} : pc'[u] = pc[u]
      BY <1>6, <1>0 DEF StoreShared, Remove, Goto, TypeOK
    <2>1. NotifyOfPod'
      <3>1. CASE UNCHANGED keys
        BY <3>1 DEF NotifyOfPod
      <3>2. CASE keys' = [keys EXCEPT ![PodOf[t]][key[t]] = NoTask]
        BY <3>2, <1>0, <1>a DEF NotifyOfPod, TypeOK
      <3> QED
        BY <1>6, <3>1, <3>2 DEF StoreShared, Remove
    <2>2. \A u \in Tasks : Entry(u)' = Entry(u)
      BY <2>0 DEF Entry
    <2>3. Informed(t)'
      BY <2>0, <2>2 DEF Informed
    <2>4. ASSUME NEW u \in Tasks \ {t} PROVE Informed(u)'
      BY <2>0, <2>2, StaysInformed
    <2> QED
      BY <2>1, <2>3, <2>4
  <1>7. ASSUME NEW t \in Tasks, Notify(t) PROVE FreshInv'
    <2>0. /\ pc[t] = "notify" /\ UNCHANGED <<key, keys, local>>
          /\ pc' = [x \in Tasks |-> IF x \in WaitersOf(t) THEN "from_cache"
                                    ELSE IF x # t THEN pc[x]
                                    ELSE IF ok[t] THEN "Fresh" ELSE "from_cache"]
          /\ ok' = [x \in Tasks |-> IF x \in WaitersOf(t) THEN ok[t] ELSE ok[x]]
          /\ waitsFor' = [x \in Tasks |-> IF x \in WaitersOf(t) THEN NoTask ELSE waitsFor[x]]
          /\ lag' = IF ok[t] THEN [lag EXCEPT ![t] = 0] ELSE lag
      BY <1>7 DEF Notify, Wake, caches
    <2>1. \A u \in Tasks : Entry(u)' = Entry(u)
      BY <2>0 DEF Entry
    <2>2. t \notin WaitersOf(t)
      BY <2>0 DEF WaitersOf
    <2>3. Informed(t)'
      <3>1. ok'[t] = ok[t] /\ pc'[t] = IF ok[t] THEN "Fresh" ELSE "from_cache"
        BY <2>0, <2>2
      <3> QED
        BY <3>1 DEF Informed
    <2>4. ASSUME NEW u \in Tasks \ {t}, u \in WaitersOf(t) PROVE Informed(u)'
      <3>1. PodOf[u] = PodOf[t] /\ key[u] = key[t]
        BY <2>4 DEF WaitersOf, Informed
      <3>2. ok[t] => Entry(u) \in Ages /\ Entry(u) <= STEP_TICKS
        BY <2>0, <3>1, <1>0, <1>a, <1>b DEF Informed, Entry
      <3>3. lag'[u] = lag[u] /\ lag[u] \in Nat
        BY <2>0, <1>0 DEF TypeOK
      <3>4. pc'[u] = "from_cache" /\ ok'[u] = ok[t]
        BY <2>0, <2>4
      <3>5. ok[t] => Entry(u)' \in Ages /\ Entry(u)' <= STEP_TICKS + lag'[u]
        BY <2>1, <3>2, <3>3, <1>0
      <3> QED
        BY <3>4, <3>5 DEF Informed
    <2>5. ASSUME NEW u \in Tasks \ {t}, u \notin WaitersOf(t) PROVE Informed(u)'
      <3>1. /\ pc'[u] = pc[u] /\ waitsFor'[u] = waitsFor[u] /\ ok'[u] = ok[u]
            /\ lag'[u] = lag[u]
        BY <2>0, <2>5, <1>0 DEF TypeOK
      <3> QED
        BY <2>1, <3>1, StaysInformed
    <2> QED
      BY <2>0, <2>3, <2>4, <2>5 DEF NotifyOfPod
  <1>8. ASSUME NEW t \in Tasks, FromCacheGet(t) PROVE FreshInv'
    <2>1. \A u \in Tasks \ {t} :
            /\ pc'[u] = pc[u] /\ key'[u] = key[u] /\ waitsFor'[u] = waitsFor[u]
            /\ ok'[u] = ok[u] /\ lag'[u] = lag[u]
      BY <1>8, <1>0 DEF FromCacheGet, Answer, Goto, Rest, TypeOK
    <2>2. /\ pc[t] = "from_cache" /\ ok' = ok
          /\ pc'[t] = IF Get(local[PodOf[t]], key[t]) THEN "Cached" ELSE "get_stale"
      BY <1>8, <1>0 DEF FromCacheGet, Answer, Goto, TypeOK
    <2>3. ok[t] => Get(local[PodOf[t]], key[t])
      <3>1. ok[t] => Entry(t) \in Ages /\ Entry(t) <= 2 * STEP_TICKS
        BY <2>2, <1>0, <1>a, <1>b DEF Informed
      <3>2. TTL[key[t]] \in Nat /\ 2 * STEP_TICKS < TTL[key[t]]
        BY <1>a, CacheAssumption DEF Prompt
      <3> QED
        BY <3>1, <3>2, <1>0 DEF Get, Entry
    <2>4. Informed(t)'
      BY <2>2, <2>3 DEF Informed
    <2> QED
      BY <1>8, <1>c, <2>1, <2>4 DEF FromCacheGet, caches
  <1>9. ASSUME NEW t \in Tasks, FromCacheStale(t) PROVE FreshInv'
    <2>1. \A u \in Tasks \ {t} :
            /\ pc'[u] = pc[u] /\ key'[u] = key[u] /\ waitsFor'[u] = waitsFor[u]
            /\ ok'[u] = ok[u] /\ lag'[u] = lag[u]
      BY <1>9, <1>0 DEF FromCacheStale, Answer, Goto, Rest, TypeOK
    <2>2. pc[t] = "get_stale" /\ ok' = ok /\ pc'[t] \in {"Stale", "Failed"}
      BY <1>9, <1>0 DEF FromCacheStale, Answer, Goto, TypeOK
    <2>3. Informed(t)'
      BY <2>2 DEF Informed
    <2> QED
      BY <1>9, <1>c, <2>1, <2>3 DEF FromCacheStale, caches
  <1>10. CASE LateSet \/ (\E k \in Keys : SharedLoss(k)) \/ UNCHANGED vars
    <2>1. UNCHANGED <<pc, key, waitsFor, ok, lag, keys, local>>
      BY <1>10 DEF LateSet, SharedLoss, vars
    <2> QED
      BY <2>1 DEF NotifyOfPod, Informed, Entry
  <1>11. ASSUME Tick PROVE FreshInv'
    <2>0. /\ UNCHANGED <<pc, key, waitsFor, ok, keys>>
          /\ lag' = [t \in Tasks |-> IF pc[t] \in Unhurried THEN lag[t] ELSE lag[t] + 1]
          /\ local' = [p \in Pods |-> Aged(local[p])]
      BY <1>11 DEF Tick
    <2>1. \A t \in Tasks : Entry(t)' = Older(Entry(t))
      BY <2>0, <1>a DEF Entry, Aged
    <2>2. \A e \in Ages : Older(e) \in Ages /\ Older(e) <= e + 1
      BY CacheAssumption DEF Older, Ages
    <2>3. ASSUME NEW t \in Tasks PROVE Informed(t)'
      <3>1. CASE ok[t] /\ pc[t] \in {"store_shared", "remove", "notify", "from_cache"}
        <4>1. lag'[t] = lag[t] + 1
          BY <2>0, <3>1 DEF Unhurried, Idle, Answers
        <4>2. Entry(t) \in Ages
          BY <3>1 DEF Informed
        <4>3. Entry(t)' \in Ages /\ Entry(t)' <= Entry(t) + 1
          BY <2>1, <2>2, <4>2
        <4> QED
          BY <2>0, <3>1, <4>1, <4>2, <4>3, <1>0, <1>a DEF Informed
      <3>2. CASE ~(ok[t] /\ pc[t] \in {"store_shared", "remove", "notify", "from_cache"})
        BY <2>0, <3>2 DEF Informed
      <3> QED
        BY <3>1, <3>2
    <2> QED
      BY <2>0, <2>3 DEF NotifyOfPod
  <1> QED
    BY <1>1, <1>2, <1>3, <1>4, <1>5, <1>6, <1>7, <1>8, <1>9, <1>10, <1>11 DEF Next, Handle

\* fetch.rs:17: an expired payload, or an error, is an answer only after the
\* upstream call the handler made or waited for has failed: a sweep, another
\* fetch or a slow scheduler never takes a success away from a waiter.
THEOREM FailuresReal == ASSUME Prompt PROVE Spec => []FailureIsReal
  <1>1. FreshInv => FailureIsReal
    BY DEF FreshInv, Informed, FailureIsReal
  <1>2. TypeInv /\ FreshInv /\ [Next]_vars => FreshInv'
    BY FreshStep
  <1> QED
    BY <1>1, <1>2, FreshInit, TypeInvariance, PTL DEF Spec

\* fetch.rs:32-33: what a waiter, or a leader that found itself in `from_cache`
\* after all, is given of a call that succeeded is what that call fetched.
LEMMA SharedStep ==
    TypeInv /\ FreshInv /\ FreshInv' /\ ResultIsShared /\ [Next]_vars => ResultIsShared'
  <1> SUFFICES ASSUME TypeInv, FreshInv, FreshInv', ResultIsShared, [Next]_vars,
                      NEW s \in Tasks, ok'[s], pc'[s] \in {"Cached", "Stale"}
               PROVE  served'[s] <= 2 * STEP_TICKS
    BY DEF ResultIsShared
  <1>0. /\ pc \in [Tasks -> Points] /\ ok \in [Tasks -> BOOLEAN]
        /\ lag \in [Tasks -> Nat] /\ served \in [Tasks -> Ages]
    BY DEF TypeInv, TypeOK
  <1>1. pc'[s] = "Cached"
    BY DEF FreshInv, Informed
  <1>2. CASE UNCHANGED <<pc[s], ok[s], served[s]>>
    BY <1>1, <1>2 DEF ResultIsShared
  <1>3. ASSUME NEW t \in Tasks, Handle(t) \/ Disconnect(t) \/ (\E k \in Keys : Ask(t, k)), t # s
        PROVE  served'[s] <= 2 * STEP_TICKS
    <2>1. CASE Notify(t)
      <3>1. s \notin WaitersOf(t)
        BY <2>1, <1>1 DEF Notify, Wake
      <3> QED
        BY <3>1, <2>1, <1>0, <1>3, <1>2 DEF Notify, Wake
    <2>2. CASE ~Notify(t)
      <3>1. UNCHANGED <<pc[s], ok[s], served[s]>>
        BY <1>0, <1>3, <2>2
           DEF Handle, SharedHit, SharedMiss, LookupLocal, Wait, Lead, FetchOk, FetchErr,
               StoreLocal, StoreShared, Remove, FromCacheGet, FromCacheStale, Disconnect,
               Ask, Goto, Answer, Rest
      <3> QED
        BY <3>1, <1>2
    <2> QED
      BY <2>1, <2>2
  <1>4. CASE FromCacheGet(s)
    <2>1. pc[s] = "from_cache" /\ ok[s] /\ served'[s] = Entry(s)
      BY <1>4, <1>0, <1>1 DEF FromCacheGet, Answer, Goto, Entry
    <2>2. Entry(s) \in Ages /\ Entry(s) <= STEP_TICKS + lag[s]
      BY <2>1 DEF FreshInv, Informed
    <2>3. lag[s] <= STEP_TICKS
      BY <2>1 DEF TypeInv, LagBound, Unhurried, Idle, Answers, Limit
    <2> QED
      BY <2>1, <2>2, <2>3, <1>0, CacheAssumption, InflightAssumption DEF Ages
  <1>5. CASE SharedHit(s) \/ LookupLocal(s)
    <2>1. pc[s] \in {"lookup_shared", "lookup_local"} /\ ok'[s] = ok[s]
      BY <1>5 DEF SharedHit, LookupLocal
    <2> QED
      BY <2>1 DEF FreshInv, Informed
  <1>6. CASE \/ SharedMiss(s) \/ Wait(s) \/ Lead(s) \/ FetchOk(s) \/ FetchErr(s)
             \/ StoreLocal(s) \/ StoreShared(s) \/ Remove(s) \/ Notify(s)
             \/ FromCacheStale(s) \/ Disconnect(s) \/ (\E k \in Keys : Ask(s, k))
    <2>1. \E point \in Points \ {"Cached"} : pc'[s] = point
      BY <1>6, <1>0
         DEF SharedMiss, Wait, Lead, FetchOk, FetchErr, StoreLocal, StoreShared, AfterStore,
             Remove, Notify, Wake, WaitersOf, FromCacheStale, Disconnect, Ask, Goto, Answer,
             Points, Idle, Answers, Leading
    <2> QED
      BY <2>1, <1>1
  <1>7. CASE LateSet \/ (\E k \in Keys : SharedLoss(k)) \/ Tick \/ UNCHANGED vars
    BY <1>7, <1>2 DEF LateSet, SharedLoss, Tick, vars
  <1> QED
    BY <1>3, <1>4, <1>5, <1>6, <1>7 DEF Next, Handle

\* In every behaviour, for every number of handlers, keys and pods, provided
\* the steps after a call are quicker than the TTL and the sweep.
THEOREM ResultShared == ASSUME Prompt PROVE Spec => []ResultIsShared
  <1>1. Init => ResultIsShared
    BY DEF Init, ResultIsShared
  <1>2. TypeInv /\ FreshInv /\ [Next]_vars => FreshInv'
    BY FreshStep
  <1> QED
    BY <1>1, <1>2, SharedStep, FreshInit, TypeInvariance, PTL DEF Spec
----
(* One shared call: the refinement of SingleFlight.                        *)

\* The stage of a handler and what it has been told, as the abstract
\* specification sees them.
Stage == [t \in Tasks |-> StageOf(pc[t])]
Good  == [t \in Tasks |-> pc[t] \in {"from_cache", "get_stale"} /\ ok[t]]

\* The points of each stage.
LEMMA Stages ==
    /\ \A x \in Idle : StageOf(x) = x
    /\ \A x \in Leading : StageOf(x) = "calling"
    /\ StageOf("notify") = "landing"
    /\ \A x \in {"from_cache", "get_stale"} : StageOf(x) = "told"
    /\ \A x \in {"lookup_shared", "lookup_local", "lock", "waiting"} : StageOf(x) = "asking"
  BY DEF StageOf, Idle, Answers, Leading

\* The two specifications start alike.
LEMMA SharedCallInit == Init => SF!Init
  <1>1. StageOf("idle") = "idle"
    BY Stages DEF Idle
  <1> SUFFICES ASSUME Init PROVE SF!Init
    OBVIOUS
  <1>2. [t \in Tasks |-> StageOf(pc[t])] = [t \in Tasks |-> "idle"]
    BY <1>1 DEF Init
  <1>3. [t \in Tasks |-> pc[t] \in {"from_cache", "get_stale"} /\ ok[t]]
          = [t \in Tasks |-> FALSE]
    BY DEF Init
  <1> QED
    BY <1>2, <1>3 DEF Init, SF!Init

\* A step of one handler that ends where it has not been told a success
\* changes no stage but its own, and nothing that others have been told.
LEMMA OneMoves ==
    ASSUME TypeOK, NEW t \in Tasks, NEW point \in Points, Goto(t, point),
           UNCHANGED ok, pc[t] \notin {"from_cache", "get_stale"} \/ ~ok[t],
           point \notin {"from_cache", "get_stale"} \/ ~ok[t]
    PROVE  Stage' = [Stage EXCEPT ![t] = StageOf(point)] /\ Good' = Good
  BY DEF TypeOK, Goto, Stage, Good

\* Every step of the handlers, of Memcached and of the clock is one of the
\* shared call or none.
LEMMA SharedCallStep ==
    ASSUME Prompt
    PROVE  TypeInv /\ LeaderRegistered /\ FreshInv /\ [Next]_vars => [SF!Next]_(SF!vars)
  <1> SUFFICES ASSUME TypeInv, LeaderRegistered, FreshInv, [Next]_vars
               PROVE  SF!Next \/ UNCHANGED SF!vars
    OBVIOUS
  <1>0. TypeOK /\ NoTask \notin Tasks
    BY InflightAssumption DEF TypeInv
  <1>a. ASSUME Stage' = Stage, Good' = Good, key' = key PROVE UNCHANGED SF!vars
    BY <1>a DEF SF!vars, Stage, Good
  <1>b. \A t \in Tasks : ok[t] => pc[t] \notin {"lookup_shared", "lookup_local", "lock",
                                                "waiting", "fetch", "get_stale"}
    BY DEF FreshInv, Informed
  \* Steps within a stage.
  <1>1. ASSUME NEW t \in Tasks, SharedMiss(t) \/ Wait(t) PROVE UNCHANGED SF!vars
    <2>1. PICK point \in {"lookup_local", "waiting"} :
            /\ Goto(t, point) /\ UNCHANGED <<key, ok>>
            /\ pc[t] \in {"lookup_shared", "lock"}
      BY <1>1 DEF SharedMiss, Wait
    <2>2. Stage' = [Stage EXCEPT ![t] = StageOf(point)] /\ Good' = Good
      BY <2>1, <1>0, OneMoves DEF Points
    <2>3. StageOf(point) = StageOf(pc[t])
      BY <2>1, Stages
    <2> QED
      BY <2>1, <2>2, <2>3, <1>a DEF Stage
  <1>2. ASSUME NEW t \in Tasks, FetchErr(t) \/ StoreLocal(t) \/ StoreShared(t)
        PROVE  UNCHANGED SF!vars
    <2>1. PICK point \in Leading :
            /\ Goto(t, point) /\ UNCHANGED <<key, ok>>
            /\ pc[t] \in Leading
      BY <1>2 DEF FetchErr, StoreLocal, StoreShared, AfterStore, Leading
    <2>2. point \in Points /\ point \notin {"from_cache", "get_stale"}
          /\ pc[t] \notin {"from_cache", "get_stale"}
      BY <2>1 DEF Points, Leading
    <2>3. Stage' = [Stage EXCEPT ![t] = StageOf(point)] /\ Good' = Good
      BY <2>1, <2>2, <1>0, OneMoves
    <2>4. StageOf(point) = StageOf(pc[t])
      BY <2>1, Stages
    <2> QED
      BY <2>1, <2>3, <2>4, <1>a DEF Stage
  <1>3. ASSUME NEW t \in Tasks, FetchOk(t) PROVE UNCHANGED SF!vars
    <2>1. /\ pc[t] = "fetch" /\ pc' = [pc EXCEPT ![t] = "store_local"]
          /\ ok' = [ok EXCEPT ![t] = TRUE] /\ key' = key
      BY <1>3 DEF FetchOk, Goto
    <2>2. StageOf("store_local") = StageOf("fetch")
      BY Stages DEF Leading
    <2>3. Stage' = Stage
      BY <2>1, <2>2, <1>0 DEF TypeOK, Stage
    <2>4. Good' = Good
      BY <2>1, <1>0 DEF TypeOK, Good
    <2> QED
      BY <2>1, <2>3, <2>4, <1>a
  <1>4. CASE LateSet \/ (\E k \in Keys : SharedLoss(k)) \/ Tick \/ UNCHANGED vars
    <2>1. UNCHANGED <<pc, key, ok>>
      BY <1>4 DEF LateSet, SharedLoss, Tick, vars
    <2> QED
      BY <2>1 DEF SF!vars
  \* Steps from a stage to another.
  <1>5. ASSUME NEW t \in Tasks, NEW k \in Keys, Ask(t, k) PROVE SF!Next
    <2>1. /\ pc[t] \in Idle /\ key' = [key EXCEPT ![t] = k] /\ ok' = [ok EXCEPT ![t] = FALSE]
          /\ \E point \in {"lookup_shared", "lookup_local"} : Goto(t, point)
      BY <1>5 DEF Ask
    <2>2. Stage' = [Stage EXCEPT ![t] = "asking"]
      BY <2>1, <1>0, Stages DEF TypeOK, Goto, Stage
    <2>3. Good' = Good
      BY <2>1, <1>0 DEF TypeOK, Goto, Good, Idle, Answers
    <2>4. Stage[t] \in Idle
      BY <2>1, Stages DEF Stage
    <2>5. SF!Ask(t, k)
      BY <2>1, <2>2, <2>3, <2>4
         DEF SF!Ask, SF!Move, SF!Done, Stage, Good, Idle, Answers
    <2> QED
      BY <2>5 DEF SF!Next
  <1>6. ASSUME NEW t \in Tasks, SharedHit(t) \/ LookupLocal(t) PROVE SF!Next \/ UNCHANGED SF!vars
    <2>1. PICK point \in {"Cached", "lock"} :
            /\ Goto(t, point) /\ UNCHANGED <<key, ok>>
            /\ pc[t] \in {"lookup_shared", "lookup_local"}
      BY <1>6 DEF SharedHit, LookupLocal, Answer
    <2>2. Stage' = [Stage EXCEPT ![t] = StageOf(point)] /\ Good' = Good
      BY <2>1, <1>0, OneMoves DEF Points, Idle, Answers
    <2>3. Stage[t] = "asking"
      BY <2>1, Stages DEF Stage
    <2>4. CASE point = "lock"
      <3>1. StageOf(point) = "asking"
        BY <2>4, Stages
      <3> QED
        BY <2>1, <2>2, <2>3, <3>1, <1>a DEF Stage
    <2>5. CASE point = "Cached"
      <3>1. StageOf(point) = "Cached"
        BY <2>5, Stages DEF Idle, Answers
      <3>2. SF!Hit(t)
        BY <2>1, <2>2, <2>3, <3>1 DEF SF!Hit, SF!Move, Stage, Good
      <3> QED
        BY <3>2 DEF SF!Next
    <2> QED
      BY <2>4, <2>5
  <1>7. ASSUME NEW t \in Tasks, Lead(t) PROVE SF!Next
    <2>1. /\ pc[t] = "lock" /\ Goto(t, "fetch") /\ UNCHANGED <<key, ok>>
          /\ LeaderOf(t) = NoTask
      BY <1>7 DEF Lead
    <2>2. StageOf("fetch") = "calling" /\ Stage[t] = "asking"
      BY <2>1, Stages DEF Stage, Leading
    <2>3. Stage' = [Stage EXCEPT ![t] = "calling"] /\ Good' = Good
      BY <2>1, <2>2, <1>0, OneMoves DEF Points, Leading
    <2>4. \A s \in Tasks : Stage[s] = "calling" => pc[s] \in Leading
      BY <1>0 DEF Stage, StageOf, TypeOK, Points, Idle, Answers
    <2>5. ~ \E s \in Tasks : PodOf[s] = PodOf[t] /\ key[s] = key[t] /\ Stage[s] = "calling"
      BY <2>1, <2>4, <1>0 DEF LeaderRegistered, LeaderOf
    <2>6. SF!Call(t)
      BY <2>1, <2>2, <2>3, <2>5 DEF SF!Call, SF!Move, SF!SameKey, Stage, Good
    <2> QED
      BY <2>6 DEF SF!Next
  <1>8. ASSUME NEW t \in Tasks, Remove(t) PROVE SF!Next
    <2>1. pc[t] = "remove" /\ Goto(t, "notify") /\ UNCHANGED <<key, ok>>
      BY <1>8 DEF Remove
    <2>2. StageOf("notify") = "landing" /\ Stage[t] = "calling"
      BY <2>1, Stages DEF Stage, Leading
    <2>3. Stage' = [Stage EXCEPT ![t] = "landing"] /\ Good' = Good
      BY <2>1, <2>2, <1>0, OneMoves DEF Points
    <2>4. SF!Land(t)
      BY <2>1, <2>2, <2>3 DEF SF!Land, SF!Move, Stage, Good
    <2> QED
      BY <2>4 DEF SF!Next
  <1>9. ASSUME NEW t \in Tasks, Notify(t) PROVE SF!Next
    <2>0. /\ pc[t] = "notify" /\ key' = key
          /\ pc' = [x \in Tasks |-> IF x \in WaitersOf(t) THEN "from_cache"
                                    ELSE IF x # t THEN pc[x]
                                    ELSE IF ok[t] THEN "Fresh" ELSE "from_cache"]
          /\ ok' = [x \in Tasks |-> IF x \in WaitersOf(t) THEN ok[t] ELSE ok[x]]
      BY <1>9 DEF Notify, Wake
    <2>1. PICK joined \in SUBSET (Tasks \ {t}), result \in BOOLEAN :
            joined = WaitersOf(t) /\ result = ok[t]
      BY <2>0, <1>0 DEF WaitersOf, TypeOK
    <2>2. Stage[t] = "landing"
      BY <2>0, Stages DEF Stage
    <2>3. \A j \in joined : Stage[j] = "asking" /\ PodOf[j] = PodOf[t] /\ key[j] = key[t]
      BY <2>1, Stages DEF WaitersOf, Stage, FreshInv, Informed
    <2>4. Stage' = [s \in Tasks |-> IF s \in joined THEN "told"
                                    ELSE IF s # t THEN Stage[s]
                                    ELSE IF result THEN "Fresh" ELSE "told"]
      <3>1. StageOf("from_cache") = "told" /\ StageOf("Fresh") = "Fresh"
        BY Stages DEF Idle, Answers
      <3> QED
        BY <2>0, <2>1, <3>1 DEF Stage
    <2>5. \A s \in Tasks : Good'[s] = IF s \in joined THEN result ELSE Good[s]
      <3> SUFFICES ASSUME NEW s \in Tasks
                   PROVE  Good'[s] = IF s \in joined THEN result ELSE Good[s]
        OBVIOUS
      <3>1. CASE s \in joined
        <4>1. pc'[s] = "from_cache" /\ ok'[s] = result
          BY <2>0, <2>1, <3>1
        <4> QED
          BY <4>1, <3>1 DEF Good
      <3>2. CASE s = t
        <4>1. s \notin joined /\ ok'[s] = ok[s] /\ pc'[s] = IF ok[s] THEN "Fresh" ELSE "from_cache"
          BY <2>0, <2>1, <3>2
        <4>2. ~Good'[s] /\ ~Good[s] /\ Good'[s] \in BOOLEAN /\ Good[s] \in BOOLEAN
          BY <4>1, <3>2, <2>0 DEF Good
        <4> QED
          BY <4>1, <4>2
      <3>3. CASE s \notin joined /\ s # t
        <4>1. pc'[s] = pc[s] /\ ok'[s] = ok[s]
          BY <2>0, <2>1, <3>3
        <4> QED
          BY <4>1, <3>3 DEF Good
      <3> QED
        BY <3>1, <3>2, <3>3
    <2>6. Good' = [s \in Tasks |-> IF s \in joined THEN result ELSE Good[s]]
      BY <2>5 DEF Good
    <2>7. SF!Tell(t, joined, result)
      BY <2>0, <2>2, <2>3, <2>4, <2>6 DEF SF!Tell, SF!SameKey, Stage, Good
    <2> QED
      BY <2>7 DEF SF!Next
  \* What remains after a call: the answer, or nothing more than the look into
  \* the pod's own cache.
  <1>10. ASSUME NEW t \in Tasks, NEW kind \in {"Cached", "Stale", "Failed"},
                pc[t] \in {"from_cache", "get_stale"}, kind = "Cached" \/ ~ok[t],
                Goto(t, kind), UNCHANGED <<key, ok>>
         PROVE  SF!Next
    <2>1. StageOf(kind) = kind /\ Stage[t] = "told"
      BY <1>10, Stages DEF Stage, Idle, Answers
    <2>2. Stage' = [Stage EXCEPT ![t] = kind]
      BY <1>10, <2>1, <1>0 DEF TypeOK, Goto, Stage
    <2>3. Good' = [Good EXCEPT ![t] = FALSE]
      BY <1>10, <1>0 DEF TypeOK, Goto, Good
    <2>4. kind = "Cached" \/ ~Good[t]
      BY <1>10 DEF Good
    <2>5. SF!Settle(t, kind)
      BY <1>10, <2>1, <2>2, <2>3, <2>4 DEF SF!Settle, SF!Move, Stage, Good
    <2> QED
      BY <2>5 DEF SF!Next
  <1>11. ASSUME NEW t \in Tasks, FromCacheGet(t) PROVE SF!Next \/ UNCHANGED SF!vars
    <2>1. pc[t] = "from_cache" /\ UNCHANGED <<key, ok>>
      BY <1>11 DEF FromCacheGet
    <2>2. CASE Goto(t, "Cached")
      BY <2>1, <2>2, <1>10
    <2>3. CASE Goto(t, "get_stale")
      <3>1. StageOf("get_stale") = "told" /\ StageOf("from_cache") = "told"
        BY Stages
      <3>2. Stage' = Stage
        BY <2>1, <2>3, <3>1, <1>0 DEF TypeOK, Goto, Stage
      <3>3. Good' = Good
        BY <2>1, <2>3, <1>0 DEF TypeOK, Goto, Good
      <3> QED
        BY <2>1, <3>2, <3>3, <1>a
    <2> QED
      BY <1>11, <2>2, <2>3 DEF FromCacheGet, Answer
  <1>12. ASSUME NEW t \in Tasks, FromCacheStale(t) PROVE SF!Next
    <2>1. pc[t] = "get_stale" /\ UNCHANGED <<key, ok>>
      BY <1>12 DEF FromCacheStale
    <2>2. PICK kind \in {"Cached", "Stale", "Failed"} : Goto(t, kind)
      BY <1>12 DEF FromCacheStale, Answer
    <2>3. ~ok[t]
      BY <2>1, <1>b
    <2> QED
      BY <2>1, <2>2, <2>3, <1>10
  <1>13. ASSUME NEW t \in Tasks, Disconnect(t) PROVE SF!Next
    <2>1. pc[t] \in Awaiting /\ Goto(t, "idle") /\ UNCHANGED <<key, ok>>
      BY <1>13 DEF Disconnect
    <2>2. StageOf("idle") = "idle" /\ Stage[t] \in {"asking", "calling"}
      BY <2>1, Stages DEF Stage, Awaiting, Idle, Leading
    <2>3. Stage' = [Stage EXCEPT ![t] = "idle"] /\ Good' = Good
      BY <2>1, <2>2, <1>0, OneMoves DEF Points, Idle, Awaiting
    <2>4. SF!Leave(t)
      BY <2>1, <2>2, <2>3 DEF SF!Leave, SF!Move, SF!Done, Stage, Good
    <2> QED
      BY <2>4 DEF SF!Next
  <1> QED
    BY <1>1, <1>2, <1>3, <1>4, <1>5, <1>6, <1>7, <1>8, <1>9, <1>11, <1>12, <1>13
       DEF Next, Handle

\* fetch.rs:29-33: whatever the handlers, their clients, Memcached and the
\* clock do, it is what one shared call per key and pod would do.
THEOREM SharesOneCall == ASSUME Prompt PROVE Spec => SingleFlightSpec
  <1>1. TypeInv /\ FreshInv /\ [Next]_vars => FreshInv'
    BY FreshStep
  <1>2. TypeInv /\ LeaderRegistered /\ FreshInv /\ [Next]_vars => [SF!Next]_(SF!vars)
    BY SharedCallStep
  <1> QED
    BY <1>1, <1>2, FreshInit, SharedCallInit, LeaderInit, LeaderStep, TypeInvariance, PTL
       DEF Spec, SingleFlightSpec, SF!Spec

====
