---- MODULE Monitor ----
(***************************************************************************)
(* The monitor of monitor/src/index.js: `run`, for a cron trigger to start *)
(* every five minutes, goes through the checks in order.  For each it      *)
(* reads the check's state from KV, computes the transition, pushes to     *)
(* ntfy.sh when there is something to tell and saves the new state.  The   *)
(* trigger is empty at this commit, as ntfy.sh rejects the pushes          *)
(* (wrangler.toml:9-11): any number of pushes may be lost here, a run need *)
(* never start, and no fairness is assumed.                                *)
(*                                                                         *)
(* What the probes of a run find is arbitrary.  A day has two times: the   *)
(* reminder hour and the rest.  `since` is left out: it changes only with  *)
(* `status` and is read only to word a message.                            *)
(***************************************************************************)
EXTENDS Integers

CONSTANTS
    Runs,             \* invocations of the scheduled handler
    CHECKS,           \* hosts, and parity: checked in order (index.js:28-41)
    DOWN_AFTER_FAILS, \* index.js:10
    MAX_TIME,         \* bound on the clock
    Faults            \* what may go wrong besides probes and rejected pushes

ASSUME MonitorAssumption ==
    /\ CHECKS \in Nat \ {0}
    /\ DOWN_AFTER_FAILS \in Nat \ {0}
    /\ MAX_TIME \in Nat
    /\ Faults \subseteq
         {"kv",       \* a KV call throws
          "unheard",  \* a push lands but its response does not arrive
          "killed",   \* the platform ends a run
          "overlap"}  \* a run is slow (pushes have no timeout) and the next starts

VARIABLES
    pc,     \* where each run is
    at,     \* the check it is at
    saw,    \* saw[r][c]: the probes of run r found check c all right
    now,    \* when it started; `now` of index.js:22
    prev,   \* the state it read for the check it is at
    kv,     \* env.STATE
    clock,
    streak, \* failed runs in a row up to the last one, by what their probes found
    phone   \* per check: the last push that landed, and the day of the last reminder

vars == <<pc, at, saw, now, prev, kv, clock, streak, phone>>

Checks == 1 .. CHECKS
Times  == 0 .. MAX_TIME

Day(t) == t \div 2
ReminderHour(t) == t % 2 = 1
NoDay == -1
Days  == {Day(t) : t \in Times} \cup {NoDay}

States == [status : {"ok", "down"}, fails : 0 .. DOWN_AFTER_FAILS, reminded : Days]
Pushes == {"none", "down", "recovered", "reminder"}

\* `readState` of a key that was never written.
Unwritten == [status |-> "ok", fails |-> 0, reminded |-> NoDay]

TypeOK ==
    /\ pc \in [Runs -> {"off", "read", "push", "save"}]
    /\ at \in [Runs -> Checks]
    /\ saw \in [Runs -> [Checks -> BOOLEAN]]
    /\ now \in [Runs -> Times]
    /\ prev \in [Runs -> States]
    /\ kv \in [Checks -> States]
    /\ clock \in Times
    /\ streak \in [Checks -> 0 .. DOWN_AFTER_FAILS]
    /\ phone \in [Checks -> [last : Pushes, reminded : Days]]

Init ==
    /\ pc = [r \in Runs |-> "off"]
    /\ at = [r \in Runs |-> 1]
    /\ saw = [r \in Runs |-> [c \in Checks |-> TRUE]]
    /\ now = [r \in Runs |-> 0]
    /\ prev = [r \in Runs |-> Unwritten]
    /\ kv = [c \in Checks |-> Unwritten]
    /\ clock = 0
    /\ streak = [c \in Checks |-> 0]
    /\ phone = [c \in Checks |-> [last |-> "none", reminded |-> NoDay]]
----
(* `transition`, as the new state and the push.                            *)

\* Deviation: a green run keeps the failures counted so far.
Reset_nothing(s) == s

Reset(s) == [s EXCEPT !.fails = 0]

Fail(s) == [s EXCEPT !.fails = @ + 1]

\* Deviation: the day of a reminder is not remembered.
Remember_nothing(s, t) == s

Remember(s, t) == [s EXCEPT !.reminded = Day(t)]

Transition(s, ok, t) ==
    CASE ok /\ s.status = "down" ->
            [state |-> [Reset(s) EXCEPT !.status = "ok"], push |-> "recovered"]
      [] ok /\ s.status = "ok" ->
            [state |-> Reset(s), push |-> "none"]
      [] ~ok /\ s.status = "down" /\ ReminderHour(t) /\ s.reminded # Day(t) ->
            [state |-> Remember(s, t), push |-> "reminder"]
      [] ~ok /\ s.status = "ok" /\ s.fails + 1 >= DOWN_AFTER_FAILS ->
            [state |-> [Fail(s) EXCEPT !.status = "down"], push |-> "down"]
      [] ~ok /\ s.status = "ok" /\ s.fails + 1 < DOWN_AFTER_FAILS ->
            [state |-> Fail(s), push |-> "none"]
      [] OTHER -> [state |-> s, push |-> "none"]

Found(r, s) == Transition(s, saw[r][at[r]], now[r])
----
(* A run.                                                                  *)

\* The trigger fires; the probes go out one host after another.
Start(r) ==
    /\ pc[r] = "off"
    /\ "overlap" \in Faults \/ \A q \in Runs : pc[q] = "off"
    /\ \E found \in [Checks -> BOOLEAN] :
        /\ saw' = [saw EXCEPT ![r] = found]
        /\ streak' = [c \in Checks |->
                        IF found[c] THEN 0
                        ELSE IF streak[c] < DOWN_AFTER_FAILS THEN streak[c] + 1 ELSE streak[c]]
    /\ pc' = [pc EXCEPT ![r] = "read"]
    /\ at' = [at EXCEPT ![r] = 1]
    /\ now' = [now EXCEPT ![r] = clock]
    /\ UNCHANGED <<prev, kv, clock, phone>>

\* On to the next check, or the end of the run.
NextCheck(r) ==
    IF at[r] < CHECKS
    THEN pc' = [pc EXCEPT ![r] = "read"] /\ at' = [at EXCEPT ![r] = @ + 1]
    ELSE pc' = [pc EXCEPT ![r] = "off"] /\ UNCHANGED at

\* What was thrown ends the run: the checks that follow are not reached.
End(r) == pc' = [pc EXCEPT ![r] = "off"] /\ UNCHANGED at

\* `readState` and `transition`.  An unchanged state is not written.
Read(r) ==
    /\ pc[r] = "read"
    /\ LET s == kv[at[r]] IN
       /\ prev' = [prev EXCEPT ![r] = s]
       /\ IF Found(r, s).push # "none"
          THEN pc' = [pc EXCEPT ![r] = "push"] /\ UNCHANGED at
          ELSE IF Found(r, s).state # s
          THEN pc' = [pc EXCEPT ![r] = "save"] /\ UNCHANGED at
          ELSE NextCheck(r)
    /\ UNCHANGED <<saw, now, kv, clock, streak, phone>>

ReadFails(r) ==
    /\ "kv" \in Faults
    /\ pc[r] = "read"
    /\ End(r)
    /\ UNCHANGED <<saw, now, prev, kv, clock, streak, phone>>

\* The push of run r reaches the phone.
Ring(r) ==
    LET push == Found(r, prev[r]).push IN
    phone' = [phone EXCEPT ![at[r]] =
                [last     |-> push,
                 reminded |-> IF push = "reminder" THEN Day(now[r]) ELSE @.reminded]]

\* Deviation: what was pushed is not saved.
PushLands_unsaved(r) ==
    /\ pc[r] = "push"
    /\ Ring(r)
    /\ NextCheck(r)
    /\ UNCHANGED <<saw, now, prev, kv, clock, streak>>

PushLands(r) ==
    /\ pc[r] = "push"
    /\ Ring(r)
    /\ pc' = [pc EXCEPT ![r] = "save"]
    /\ UNCHANGED <<at, saw, now, prev, kv, clock, streak>>

\* Deviation: the new state is saved whether the push landed or not.
PushLost_saves(r) ==
    /\ pc[r] = "push"
    /\ pc' = [pc EXCEPT ![r] = "save"]
    /\ UNCHANGED <<at, saw, now, prev, kv, clock, streak, phone>>

\* "A push that did not land keeps the old state, so the next run sends it
\* again" (index.js:45).
PushLost(r) ==
    /\ pc[r] = "push"
    /\ NextCheck(r)
    /\ UNCHANGED <<saw, now, prev, kv, clock, streak, phone>>

PushUnheard(r) ==
    /\ "unheard" \in Faults
    /\ pc[r] = "push"
    /\ Ring(r)
    /\ NextCheck(r)
    /\ UNCHANGED <<saw, now, prev, kv, clock, streak>>

Save(r) ==
    /\ pc[r] = "save"
    /\ kv' = [kv EXCEPT ![at[r]] = Found(r, prev[r]).state]
    /\ NextCheck(r)
    /\ UNCHANGED <<saw, now, prev, clock, streak, phone>>

SaveFails(r) ==
    /\ "kv" \in Faults
    /\ pc[r] = "save"
    /\ End(r)
    /\ UNCHANGED <<saw, now, prev, kv, clock, streak, phone>>

Killed(r) ==
    /\ "killed" \in Faults
    /\ pc[r] # "off"
    /\ End(r)
    /\ UNCHANGED <<saw, now, prev, kv, clock, streak, phone>>

Tick ==
    /\ clock < MAX_TIME
    /\ clock' = clock + 1
    /\ UNCHANGED <<pc, at, saw, now, prev, kv, streak, phone>>
----
Push(r) == PushLands(r) \/ PushLost(r) \/ PushUnheard(r)

Step(r) == Start(r) \/ Read(r) \/ Push(r) \/ Save(r)

Next ==
    \/ \E r \in Runs : Step(r) \/ ReadFails(r) \/ SaveFails(r) \/ Killed(r)
    \/ Tick

Spec == Init /\ [][Next]_vars
----
(* What is told, against what the probes found.                            *)

Lands(r, push) ==
    /\ pc[r] = "push" /\ Found(r, prev[r]).push = push
    /\ PushLands(r) \/ PushUnheard(r)

\* "Down needs two failed runs in a row" (index.js:172): no phone rings for
\* a host that answered in one of the last two runs.
DownNeedsTwo ==
    [][\A r \in Runs : Lands(r, "down") => streak[at[r]] = DOWN_AFTER_FAILS]_vars

\* "A host that stays down gets a single reminder at 08:00" (index.js:172-173).
OneReminderADay ==
    [][\A r \in Runs :
        Lands(r, "reminder") => ReminderHour(now[r]) /\ phone[at[r]].reminded # Day(now[r])]_vars

\* "One key per host holding ok/down and when it changed, so a push only goes
\* out on a transition" (wrangler.toml:13-14): the phone does not ring with
\* the news it rang with last.
PushOnTransition ==
    [][\A r \in Runs, push \in {"down", "recovered"} :
        Lands(r, push) => phone[at[r]].last # push]_vars

KnowsDown(c) == phone[c].last \in {"down", "reminder"}

\* Between the checks of a run what is saved is what was told: a lost push is
\* never taken for one that landed, and none is forgotten.
PhoneMatchesKV ==
    \A c \in Checks :
        (\A r \in Runs : ~(pc[r] = "save" /\ at[r] = c))
          => (kv[c].status = "down" <=> KnowsDown(c))

\* Whatever fails, and however runs overlap: a check is never saved as down
\* before somebody was told, so `recovered` is never the first anyone hears.
SavedWasTold ==
    \A c \in Checks : kv[c].status = "down" => phone[c].last # "none"

\* Run r finds something to tell of the check it is at, and tells it.
Tells(r, push) == pc'[r] = "push" /\ Found(r, kv[at[r]]).push = push

\* "A push that did not land keeps the old state, so the next run sends it
\* again" (index.js:45): whatever earlier runs found, and however many of their
\* pushes were rejected, a run that is the DOWN_AFTER_FAILS-th failed one in a
\* row, or a later one, of a check the phone does not know to be down says so,
\* and one that finds a check all right the phone believes down takes it back.
NewsIsSent ==
    [][\A r \in Runs :
        LET c == at[r] IN
        Read(r) =>
            /\ ~saw[r][c] /\ streak[c] = DOWN_AFTER_FAILS /\ ~KnowsDown(c) => Tells(r, "down")
            /\ saw[r][c] /\ KnowsDown(c) => Tells(r, "recovered")]_vars

====
