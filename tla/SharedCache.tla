---- MODULE SharedCache ----
(***************************************************************************)
(* What the Memcached client promises the pods (memcached.rs:20-22): a     *)
(* call ends, a get gives the value the server held for that very key at   *)
(* some moment of the call or nothing, a set takes effect or does not,     *)
(* perhaps after the call.  No connections, no pool, no replies.           *)
(***************************************************************************)
CONSTANTS Calls, Keys, Ops, NoKey

VARIABLES
    held,   \* the keys the server holds a value for
    want,   \* [op, key] of each call
    busy,   \* the calls under way
    saw,    \* the calls under way whose value the server has given out
    result  \* the key whose value a get returned, or NoKey

vars == <<held, want, busy, saw, result>>

Init ==
    /\ held = {}
    /\ want \in [Calls -> [op : Ops, key : Keys]]
    /\ busy = {} /\ saw = {}
    /\ result = [t \in Calls |-> NoKey]

Begin(t) ==
    /\ t \notin busy
    /\ busy' = busy \cup {t}
    /\ \E w \in [op : Ops, key : Keys] : want' = [want EXCEPT ![t] = w]
    /\ result' = [result EXCEPT ![t] = NoKey]
    /\ UNCHANGED <<held, saw>>

See(t) ==
    /\ t \in busy /\ want[t].op = "get" /\ want[t].key \in held
    /\ saw' = saw \cup {t}
    /\ UNCHANGED <<held, want, busy, result>>

\* Some set, of this call or of one that gave up, takes effect.
Land(k) == held' = held \cup {k} /\ UNCHANGED <<want, busy, saw, result>>

End(t, r) ==
    /\ t \in busy
    /\ r = NoKey \/ (t \in saw /\ r = want[t].key)
    /\ busy' = busy \ {t} /\ saw' = saw \ {t}
    /\ result' = [result EXCEPT ![t] = r]
    /\ UNCHANGED <<held, want>>

\* The server forgets values, and answers of its that are on their way are
\* lost.
Lose(lost, unseen) ==
    /\ held' = held \ lost
    /\ saw' = saw \ unseen
    /\ UNCHANGED <<want, busy, result>>

Next ==
    \/ \E t \in Calls : Begin(t) \/ See(t) \/ \E r \in Keys \cup {NoKey} : End(t, r)
    \/ \E k \in Keys : Land(k)
    \/ \E lost \in SUBSET held, unseen \in SUBSET saw : Lose(lost, unseen)

Spec == Init /\ [][Next]_vars

====
