---- MODULE SingleFlight ----
(***************************************************************************)
(* What `Inflight::cached` promises a pod's requests, without its locks,   *)
(* its caches, its clock or the way waiters are woken: requests for a key  *)
(* share one upstream call at a time, everybody who shared a call learns   *)
(* the same result, and an error reaches a client only after a failed call.*)
(***************************************************************************)
CONSTANTS Pods, Keys, Tasks, PodOf

VARIABLES
    stage, \* of each request
    wants, \* the key it asked for
    good   \* the result of the call it was told about

vars == <<stage, wants, good>>

Done == {"idle", "Cached", "Fresh", "Stale", "Failed"}

Stages == Done \cup {"asking", "calling", "landing", "told"}

SameKey(s, t) == PodOf[s] = PodOf[t] /\ wants[s] = wants[t]

Init ==
    /\ stage = [t \in Tasks |-> "idle"]
    /\ wants \in [Tasks -> Keys]
    /\ good = [t \in Tasks |-> FALSE]

Move(t, s) == stage' = [stage EXCEPT ![t] = s]

Ask(t, k) ==
    /\ stage[t] \in Done
    /\ Move(t, "asking")
    /\ wants' = [wants EXCEPT ![t] = k]
    /\ UNCHANGED good

Hit(t) == stage[t] = "asking" /\ Move(t, "Cached") /\ UNCHANGED <<wants, good>>

Call(t) ==
    /\ stage[t] = "asking"
    /\ ~ \E s \in Tasks : SameKey(s, t) /\ stage[s] = "calling"
    /\ Move(t, "calling")
    /\ UNCHANGED <<wants, good>>

Land(t) == stage[t] = "calling" /\ Move(t, "landing") /\ UNCHANGED <<wants, good>>

\* The caller and any requests that joined it learn the result.
Tell(t, joined, result) ==
    /\ stage[t] = "landing"
    /\ \A j \in joined : stage[j] = "asking" /\ SameKey(j, t)
    /\ stage' = [s \in Tasks |-> IF s \in joined THEN "told"
                                 ELSE IF s # t THEN stage[s]
                                 ELSE IF result THEN "Fresh" ELSE "told"]
    /\ good' = [s \in Tasks |-> IF s \in joined THEN result ELSE good[s]]
    /\ UNCHANGED wants

Settle(t, kind) ==
    /\ stage[t] = "told"
    /\ kind = "Cached" \/ ~good[t]
    /\ Move(t, kind)
    /\ good' = [good EXCEPT ![t] = FALSE]
    /\ UNCHANGED wants

Leave(t) ==
    /\ stage[t] \notin Done
    /\ Move(t, "idle")
    /\ UNCHANGED <<wants, good>>

Next == \E t \in Tasks :
    \/ \E k \in Keys : Ask(t, k)
    \/ Hit(t) \/ Call(t) \/ Land(t) \/ Leave(t)
    \/ \E joined \in SUBSET (Tasks \ {t}), result \in BOOLEAN : Tell(t, joined, result)
    \/ \E kind \in {"Cached", "Stale", "Failed"} : Settle(t, kind)

Spec == Init /\ [][Next]_vars

====
