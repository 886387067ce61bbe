---- MODULE Monitor_proofs ----
(***************************************************************************)
(* What holds of the monitor for every number of runs and checks, every    *)
(* DOWN_AFTER_FAILS and however long it goes on.  Each result names the    *)
(* faults it tolerates; lost pushes are always among them.                 *)
(***************************************************************************)
EXTENDS Monitor, TLAPS

\* A check that counts as up has failed less often than it takes.
Sound(s) == s.status = "ok" => s.fails < DOWN_AFTER_FAILS

\* What run r has made of the check it is at.
Outcome(r) == Found(r, prev[r])

\* A run pushes only when there is something to tell.
Sane ==
    /\ \A c \in Checks : Sound(kv[c])
    /\ \A r \in Runs : Sound(prev[r]) /\ (pc[r] = "push" => Outcome(r).push # "none")

\* A check that is saved as down, that a run has read as down, or that it is
\* about to save as down has been heard of.
HeardOf ==
    /\ SavedWasTold
    /\ \A r \in Runs :
        /\ pc[r] \in {"push", "save"} /\ prev[r].status = "down" => phone[at[r]].last # "none"
        /\ pc[r] = "save" /\ Outcome(r).state.status = "down" => phone[at[r]].last # "none"

AnyFaults == TypeOK /\ Sane /\ HeardOf

\* Without overlap one run is under way at a time, and what it has read of a
\* check is still so.
OneRun == \A q, r \in Runs : pc[q] # "off" /\ pc[r] # "off" => q = r

Current == \A r \in Runs : pc[r] \in {"push", "save"} => prev[r] = kv[at[r]]

\* The check is still to be dealt with by a run that has begun.
Pending(r, c) == pc[r] # "off" /\ at[r] <= c

\* What is counted of a check that is not down is never more than the failed
\* runs in a row, the one under way included once it has come to the check.
Counted ==
    \A c \in Checks : kv[c].status = "ok" =>
        /\ (\A r \in Runs : ~Pending(r, c)) => kv[c].fails <= streak[c]
        /\ \A r \in Runs : Pending(r, c) /\ ~saw[r][c] => kv[c].fails + 1 <= streak[c]
        /\ \A r \in Runs : Pending(r, c) /\ saw[r][c] => streak[c] = 0

SingleRun == OneRun /\ Current

\* State s of check c is what the phone was last told.
Told(c, s) == (s.status = "down" <=> KnowsDown(c)) /\ phone[c].reminded = s.reminded

\* What is saved is what was told, and so is what is about to be saved.
Matched ==
    /\ \A c \in Checks : (\A r \in Runs : ~(pc[r] = "save" /\ at[r] = c)) => Told(c, kv[c])
    /\ \A r \in Runs : pc[r] = "save" => Told(at[r], Outcome(r).state)

----
\* Which push f goes with which change of state s, and what is counted.
Sensible(s, ok, t, f) ==
    /\ f.state \in States /\ Sound(f.state) /\ f.push \in Pushes
    /\ f.push = "none" => f.state.status = s.status /\ f.state.reminded = s.reminded
    /\ f.push = "down" =>
         /\ s.status = "ok" /\ ~ok /\ s.fails + 1 >= DOWN_AFTER_FAILS
         /\ f.state.status = "down" /\ f.state.reminded = s.reminded
    /\ f.push = "recovered" =>
         /\ s.status = "down" /\ ok
         /\ f.state.status = "ok" /\ f.state.reminded = s.reminded
    /\ f.push = "reminder" =>
         /\ s.status = "down" /\ ReminderHour(t) /\ s.reminded # Day(t)
         /\ f.state.status = "down" /\ f.state.reminded = Day(t)
    /\ f.state.status = "ok" => f.state.fails = IF ok THEN 0 ELSE s.fails + 1

\* `transition` (index.js:174-200) is sensible for every state a check can be in.
LEMMA Transitions ==
    ASSUME NEW s \in States, Sound(s), NEW ok \in BOOLEAN, NEW t \in Times
    PROVE  Sensible(s, ok, t, Transition(s, ok, t))
  <1> DEFINE f == Transition(s, ok, t)
  <1> HIDE DEF f
  <1> SUFFICES Sensible(s, ok, t, f)
    BY DEF f
  <1>0. /\ DOWN_AFTER_FAILS \in Nat \ {0} /\ Day(t) \in Days
        /\ s.status \in {"ok", "down"} /\ s.fails \in 0 .. DOWN_AFTER_FAILS /\ s.reminded \in Days
        /\ s = [status |-> s.status, fails |-> s.fails, reminded |-> s.reminded]
    BY MonitorAssumption DEF States, Days
  <1>1. CASE ok /\ s.status = "down"
    <2>1. f = [state |-> [Reset(s) EXCEPT !.status = "ok"], push |-> "recovered"]
      BY <1>1 DEF Transition, f
    <2>2. [Reset(s) EXCEPT !.status = "ok"]
            = [status |-> "ok", fails |-> 0, reminded |-> s.reminded]
      <3>1. Reset(s) = [status |-> s.status, fails |-> 0, reminded |-> s.reminded]
        BY <1>0 DEF Reset
      <3> QED
        BY <3>1
    <2>3. f = [state |-> [status |-> "ok", fails |-> 0, reminded |-> s.reminded],
               push |-> "recovered"]
      BY <2>1, <2>2
    <2> QED
      BY <1>0, <1>1, <2>3 DEF Sensible, States, Sound, Pushes
  <1>2. CASE ok /\ s.status = "ok"
    <2>1. f = [state |-> Reset(s), push |-> "none"]
      BY <1>2 DEF Transition, f
    <2>2. Reset(s) = [status |-> "ok", fails |-> 0, reminded |-> s.reminded]
      BY <1>0, <1>2 DEF Reset
    <2>3. f = [state |-> [status |-> "ok", fails |-> 0, reminded |-> s.reminded],
               push |-> "none"]
      BY <2>1, <2>2
    <2> QED
      BY <1>0, <1>2, <2>3 DEF Sensible, States, Sound, Pushes
  <1>3. CASE ~ok /\ s.status = "down" /\ ReminderHour(t) /\ s.reminded # Day(t)
    <2>1. f = [state |-> Remember(s, t), push |-> "reminder"]
      BY <1>3 DEF Transition, f
    <2> QED
      BY <1>0, <1>3, <2>1 DEF Sensible, Remember, States, Sound, Pushes
  <1>4. CASE ~ok /\ s.status = "ok" /\ s.fails + 1 >= DOWN_AFTER_FAILS
    <2>1. f = [state |-> [Fail(s) EXCEPT !.status = "down"], push |-> "down"]
      BY <1>4, <1>0 DEF Transition, f
    <2>2. [Fail(s) EXCEPT !.status = "down"]
            = [status |-> "down", fails |-> s.fails + 1, reminded |-> s.reminded]
      <3>1. Fail(s) = [status |-> s.status, fails |-> s.fails + 1, reminded |-> s.reminded]
        BY <1>0 DEF Fail
      <3> QED
        BY <3>1
    <2>3. f = [state |-> [status |-> "down", fails |-> s.fails + 1, reminded |-> s.reminded],
               push |-> "down"]
      BY <2>1, <2>2
    <2>4. s.fails + 1 \in 0 .. DOWN_AFTER_FAILS
      BY <1>0, <1>4 DEF Sound
    <2> QED
      BY <1>0, <1>4, <2>3, <2>4 DEF Sensible, States, Sound, Pushes
  <1>5. CASE ~ok /\ s.status = "ok" /\ s.fails + 1 < DOWN_AFTER_FAILS
    <2>1. f = [state |-> Fail(s), push |-> "none"]
      BY <1>5, <1>0 DEF Transition, f
    <2> QED
      BY <1>0, <1>5, <2>1 DEF Sensible, Fail, States, Sound, Pushes
  <1>6. CASE ~ok /\ s.status = "down" /\ ~(ReminderHour(t) /\ s.reminded # Day(t))
    <2>1. f = [state |-> s, push |-> "none"]
      BY <1>6 DEF Transition, f
    <2> QED
      BY <1>0, <1>6, <2>1 DEF Sensible, Sound, Pushes
  <1> QED
    BY <1>0, <1>1, <1>2, <1>3, <1>4, <1>5, <1>6

----
\* What a run makes of a check depends on nothing but what it keeps itself.
LEMMA OutcomeKept ==
    ASSUME NEW q \in Runs,
           saw'[q] = saw[q], at'[q] = at[q], now'[q] = now[q], prev'[q] = prev[q]
    PROVE  Outcome(q)' = Outcome(q)
  BY DEF Outcome, Found

\* A run that is done with a check is at the next one, or over.
LEMMA RunsOn ==
    ASSUME TypeOK, NEW r \in Runs, NextCheck(r) \/ End(r)
    PROVE  /\ pc' \in [Runs -> {"off", "read"} \cup {"push", "save"}] /\ at' \in [Runs -> Checks]
           /\ pc'[r] \in {"off", "read"}
           /\ pc'[r] = "read" => at'[r] = at[r] + 1
           /\ pc'[r] = "off" => at'[r] = at[r]
           /\ NextCheck(r) /\ pc'[r] = "off" => at[r] = CHECKS
           /\ \A q \in Runs \ {r} : pc'[q] = pc[q] /\ at'[q] = at[q]
  <1>1. CASE NextCheck(r) /\ at[r] < CHECKS
    <2>1. at[r] + 1 \in Checks
      BY <1>1, MonitorAssumption DEF TypeOK, Checks
    <2> QED
      BY <1>1, <2>1 DEF NextCheck, TypeOK
  <1>2. CASE NextCheck(r) /\ ~(at[r] < CHECKS)
    <2>1. at[r] = CHECKS
      BY <1>2, MonitorAssumption DEF TypeOK, Checks
    <2> QED
      BY <1>2, <2>1 DEF NextCheck, TypeOK
  <1>3. CASE End(r)
    <2>1. NextCheck(r) => pc'[r] # "off" \/ at[r] = CHECKS
      <3>1. at[r] \in Checks
        BY DEF TypeOK
      <3> QED
        BY <3>1, MonitorAssumption DEF NextCheck, TypeOK, Checks
    <2> QED
      BY <1>3, <2>1 DEF End, TypeOK
  <1> QED
    BY <1>1, <1>2, <1>3

\* A push that reaches the phone changes what it says of that check alone.
LEMMA Rung ==
    ASSUME TypeOK, NEW r \in Runs, Ring(r), Outcome(r).push \in Pushes
    PROVE  /\ phone' \in [Checks -> [last : Pushes, reminded : Days]]
           /\ phone'[at[r]].last = Outcome(r).push
           /\ phone'[at[r]].reminded = IF Outcome(r).push = "reminder" THEN Day(now[r])
                                       ELSE phone[at[r]].reminded
           /\ \A c \in Checks \ {at[r]} : phone'[c] = phone[c]
  <1>1. at[r] \in Checks /\ now[r] \in Times /\ Day(now[r]) \in Days
        /\ phone[at[r]].reminded \in Days
    BY DEF TypeOK, Days
  <1> DEFINE entry == [last     |-> Outcome(r).push,
                       reminded |-> IF Outcome(r).push = "reminder" THEN Day(now[r])
                                    ELSE phone[at[r]].reminded]
  <1>2. entry \in [last : Pushes, reminded : Days]
    BY <1>1
  <1>3. phone' = [phone EXCEPT ![at[r]] = entry]
    BY DEF Ring, Outcome
  <1> HIDE DEF entry
  <1>4. phone'[at[r]] = entry /\ phone' \in [Checks -> [last : Pushes, reminded : Days]]
    BY <1>1, <1>2, <1>3 DEF TypeOK
  <1>5. \A c \in Checks \ {at[r]} : phone'[c] = phone[c]
    BY <1>1, <1>3 DEF TypeOK
  <1> QED
    BY <1>4, <1>5 DEF entry

\* What `transition` gives for the state a run has read and for the one it is about to read.
LEMMA OutcomeSensible ==
    ASSUME TypeOK, Sane, NEW r \in Runs
    PROVE  /\ Sensible(prev[r], saw[r][at[r]], now[r], Outcome(r))
           /\ Sensible(kv[at[r]], saw[r][at[r]], now[r], Found(r, kv[at[r]]))
  <1>1. /\ at[r] \in Checks /\ saw[r][at[r]] \in BOOLEAN /\ now[r] \in Times
        /\ prev[r] \in States /\ kv[at[r]] \in States
    BY DEF TypeOK
  <1>2. Sound(prev[r]) /\ Sound(kv[at[r]])
    BY <1>1 DEF Sane
  <1> QED
    BY <1>1, <1>2, Transitions DEF Outcome, Found

\* The first state is typed and sane, and nothing is down in it.
LEMMA AnyFaultsInit == Init => AnyFaults
  <1> SUFFICES ASSUME Init
               PROVE  AnyFaults
    OBVIOUS
  <1>1. /\ 1 \in Checks /\ 0 \in Times /\ 0 \in 0 .. DOWN_AFTER_FAILS /\ NoDay \in Days
    BY MonitorAssumption DEF Checks, Times, Days
  <1>2. Unwritten \in States /\ Sound(Unwritten) /\ Unwritten.status = "ok"
    BY <1>1, MonitorAssumption DEF Unwritten, States, Sound
  <1>3. TypeOK
    BY <1>1, <1>2 DEF Init, TypeOK, Pushes
  <1>4. Sane
    BY <1>2 DEF Init, Sane
  <1>5. HeardOf
    BY <1>2 DEF Init, HeardOf, SavedWasTold
  <1> QED
    BY <1>3, <1>4, <1>5 DEF AnyFaults

\* Every step keeps it, whatever fails.
LEMMA AnyFaultsStep == AnyFaults /\ [Next]_vars => AnyFaults'
  <1> SUFFICES ASSUME TypeOK, Sane, HeardOf, [Next]_vars
               PROVE  TypeOK' /\ Sane' /\ HeardOf'
    BY DEF AnyFaults
  <1> DEFINE OthersAsBefore(r) ==
               \A q \in Runs \ {r} : pc'[q] = pc[q] /\ at'[q] = at[q] /\ Outcome(q)' = Outcome(q)
  <1>1. ASSUME NEW r \in Runs, Start(r)
        PROVE  TypeOK' /\ Sane' /\ HeardOf'
    <2>1. TypeOK'
      <3>1. 1 \in Checks
        BY MonitorAssumption DEF Checks
      <3>2. PICK found \in [Checks -> BOOLEAN] :
              /\ saw' = [saw EXCEPT ![r] = found]
              /\ streak' = [c \in Checks |->
                              IF found[c] THEN 0
                              ELSE IF streak[c] < DOWN_AFTER_FAILS
                              THEN streak[c] + 1 ELSE streak[c]]
        BY <1>1 DEF Start
      <3>3. saw' \in [Runs -> [Checks -> BOOLEAN]]
        BY <3>2 DEF TypeOK
      <3>4. streak' \in [Checks -> 0 .. DOWN_AFTER_FAILS]
        BY <3>2, MonitorAssumption DEF TypeOK
      <3> QED
        BY <1>1, <3>1, <3>3, <3>4 DEF Start, TypeOK
    <2>2. /\ pc'[r] = "read" /\ UNCHANGED <<prev, kv, phone>>
          /\ \A q \in Runs \ {r} : pc'[q] = pc[q] /\ at'[q] = at[q]
                                   /\ saw'[q] = saw[q] /\ now'[q] = now[q]
      BY <1>1 DEF Start, TypeOK
    <2>3. OthersAsBefore(r)
      BY <2>2, OutcomeKept
    <2>4. Sane'
      BY <2>2, <2>3 DEF Sane
    <2>5. HeardOf'
      BY <2>2, <2>3 DEF HeardOf, SavedWasTold
    <2> QED
      BY <2>1, <2>4, <2>5
  <1>2. ASSUME NEW r \in Runs, Read(r)
        PROVE  TypeOK' /\ Sane' /\ HeardOf'
    <2>0. at[r] \in Checks /\ kv[at[r]] \in States
      BY DEF TypeOK
    <2>1. /\ UNCHANGED <<saw, now, kv, clock, streak, phone>>
          /\ prev' \in [Runs -> States] /\ prev'[r] = kv[at[r]]
          /\ \A q \in Runs \ {r} : prev'[q] = prev[q]
      BY <1>2, <2>0 DEF Read, TypeOK
    <2>2. \/ /\ Found(r, kv[at[r]]).push # "none"
             /\ pc' = [pc EXCEPT ![r] = "push"] /\ at' = at
          \/ /\ Found(r, kv[at[r]]).push = "none"
             /\ pc' = [pc EXCEPT ![r] = "save"] /\ at' = at
          \/ NextCheck(r)
      BY <1>2 DEF Read
    <2>3. /\ pc' \in [Runs -> {"off", "read", "push", "save"}] /\ at' \in [Runs -> Checks]
          /\ \A q \in Runs \ {r} : pc'[q] = pc[q] /\ at'[q] = at[q]
      BY <2>2, RunsOn DEF TypeOK
    <2>4. TypeOK'
      BY <2>1, <2>3 DEF TypeOK
    <2>5. OthersAsBefore(r)
      BY <2>1, <2>3, OutcomeKept
    <2>6. pc'[r] \in {"push", "save"} =>
            /\ at'[r] = at[r] /\ Outcome(r)' = Found(r, kv[at[r]])
            /\ pc'[r] = "push" <=> Found(r, kv[at[r]]).push # "none"
      <3>1. CASE NextCheck(r)
        BY <3>1, RunsOn
      <3>2. CASE pc' = [pc EXCEPT ![r] = "push"] /\ at' = at /\ Found(r, kv[at[r]]).push # "none"
        BY <2>1, <3>2 DEF TypeOK, Outcome, Found
      <3>3. CASE pc' = [pc EXCEPT ![r] = "save"] /\ at' = at /\ Found(r, kv[at[r]]).push = "none"
        BY <2>1, <3>3 DEF TypeOK, Outcome, Found
      <3> QED
        BY <2>2, <3>1, <3>2, <3>3
    <2>7. Sane'
      BY <2>0, <2>1, <2>5, <2>6 DEF Sane
    <2>8. pc'[r] \in {"push", "save"} /\ kv[at[r]].status = "down" => phone[at[r]].last # "none"
      BY <2>0 DEF HeardOf, SavedWasTold
    <2>9. pc'[r] = "save" => Outcome(r)'.state.status = kv[at[r]].status
      BY <2>6, OutcomeSensible DEF Sensible
    <2>10. HeardOf'
      BY <2>1, <2>5, <2>6, <2>8, <2>9 DEF HeardOf, SavedWasTold
    <2> QED
      BY <2>4, <2>7, <2>10
  <1>3. ASSUME NEW r \in Runs, PushLands(r) \/ PushUnheard(r)
        PROVE  TypeOK' /\ Sane' /\ HeardOf'
    <2>1. /\ pc[r] = "push" /\ Ring(r) /\ UNCHANGED <<saw, now, prev, kv, clock, streak>>
          /\ \/ pc' = [pc EXCEPT ![r] = "save"] /\ at' = at
             \/ NextCheck(r)
      BY <1>3 DEF PushLands, PushUnheard
    <2>2. Outcome(r).push \in Pushes \ {"none"}
      BY <2>1, OutcomeSensible DEF Sane, Sensible
    <2>3. /\ phone' \in [Checks -> [last : Pushes, reminded : Days]]
          /\ phone'[at[r]].last # "none"
          /\ \A c \in Checks \ {at[r]} : phone'[c] = phone[c]
      BY <2>1, <2>2, Rung
    <2>4. /\ pc' \in [Runs -> {"off", "read", "push", "save"}] /\ at' \in [Runs -> Checks]
          /\ \A q \in Runs \ {r} : pc'[q] = pc[q] /\ at'[q] = at[q]
          /\ pc'[r] # "push" /\ (pc'[r] = "save" => at'[r] = at[r])
      BY <2>1, RunsOn DEF TypeOK
    <2>5. TypeOK'
      BY <2>1, <2>3, <2>4 DEF TypeOK
    <2>6. OthersAsBefore(r)
      BY <2>1, <2>4, OutcomeKept
    <2>7. Sane'
      BY <2>1, <2>4, <2>6 DEF Sane
    <2>8. \A c \in Checks : phone[c].last # "none" => phone'[c].last # "none"
      BY <2>3
    <2>9. HeardOf'
      <3>1. SavedWasTold'
        BY <2>1, <2>8 DEF HeardOf, SavedWasTold
      <3>2. ASSUME NEW q \in Runs, q # r
            PROVE  /\ pc'[q] \in {"push", "save"} /\ prev'[q].status = "down"
                        => phone'[at'[q]].last # "none"
                   /\ pc'[q] = "save" /\ Outcome(q)'.state.status = "down"
                        => phone'[at'[q]].last # "none"
        <4>1. at[q] \in Checks /\ pc'[q] = pc[q] /\ at'[q] = at[q] /\ prev' = prev
              /\ Outcome(q)' = Outcome(q)
          BY <2>1, <2>6, <3>2 DEF TypeOK
        <4> QED
          BY <2>8, <4>1 DEF HeardOf
      <3>3. pc'[r] \in {"push", "save"} => phone'[at'[r]].last # "none"
        BY <2>3, <2>4
      <3> QED
        BY <3>1, <3>2, <3>3 DEF HeardOf
    <2> QED
      BY <2>5, <2>7, <2>9
  <1>4. ASSUME NEW r \in Runs, Save(r)
        PROVE  TypeOK' /\ Sane' /\ HeardOf'
    <2>0. /\ at[r] \in Checks /\ pc[r] = "save"
          /\ Outcome(r).state \in States /\ Sound(Outcome(r).state)
      BY <1>4, OutcomeSensible DEF Save, TypeOK, Sensible
    <2>1. /\ UNCHANGED <<saw, now, prev, clock, streak, phone>> /\ NextCheck(r)
          /\ kv' \in [Checks -> States] /\ kv'[at[r]] = Outcome(r).state
          /\ \A c \in Checks \ {at[r]} : kv'[c] = kv[c]
      BY <1>4, <2>0 DEF Save, TypeOK, Outcome
    <2>2. /\ pc' \in [Runs -> {"off", "read", "push", "save"}] /\ at' \in [Runs -> Checks]
          /\ \A q \in Runs \ {r} : pc'[q] = pc[q] /\ at'[q] = at[q]
          /\ pc'[r] \in {"off", "read"}
      BY <2>1, RunsOn
    <2>3. TypeOK'
      BY <2>1, <2>2 DEF TypeOK
    <2>4. OthersAsBefore(r)
      BY <2>1, <2>2, OutcomeKept
    <2>5. Sane'
      BY <2>0, <2>1, <2>2, <2>4 DEF Sane
    <2>6. SavedWasTold'
      BY <2>0, <2>1 DEF HeardOf, SavedWasTold
    <2>7. HeardOf'
      BY <2>1, <2>2, <2>4, <2>6 DEF HeardOf
    <2> QED
      BY <2>3, <2>5, <2>7
  <1>5. ASSUME NEW r \in Runs, \/ PushLost(r) \/ ReadFails(r) \/ SaveFails(r) \/ Killed(r)
        PROVE  TypeOK' /\ Sane' /\ HeardOf'
    <2>1. UNCHANGED <<saw, now, prev, kv, clock, streak, phone>> /\ (NextCheck(r) \/ End(r))
      BY <1>5 DEF PushLost, ReadFails, SaveFails, Killed
    <2>2. /\ pc' \in [Runs -> {"off", "read", "push", "save"}] /\ at' \in [Runs -> Checks]
          /\ \A q \in Runs \ {r} : pc'[q] = pc[q] /\ at'[q] = at[q]
          /\ pc'[r] \in {"off", "read"}
      BY <2>1, RunsOn
    <2>3. OthersAsBefore(r)
      BY <2>1, <2>2, OutcomeKept
    <2>4. TypeOK'
      BY <2>1, <2>2 DEF TypeOK
    <2>5. Sane'
      BY <2>1, <2>2, <2>3 DEF Sane
    <2>6. HeardOf'
      BY <2>1, <2>2, <2>3 DEF HeardOf, SavedWasTold
    <2> QED
      BY <2>4, <2>5, <2>6
  <1>6. CASE Tick \/ UNCHANGED vars
    <2>1. UNCHANGED <<pc, at, saw, now, prev, kv, streak, phone>> /\ clock' \in Times
      BY <1>6, MonitorAssumption DEF Tick, vars, TypeOK, Times
    <2>2. \A q \in Runs : Outcome(q)' = Outcome(q)
      BY <2>1, OutcomeKept
    <2> QED
      BY <2>1, <2>2 DEF TypeOK, Sane, HeardOf, SavedWasTold
  <1> QED
    BY <1>1, <1>2, <1>3, <1>4, <1>5, <1>6 DEF Next, Step, Push

\* The invariant of every behaviour, with any faults.
LEMMA AnyFaultsHolds == Spec => []AnyFaults
  BY AnyFaultsInit, AnyFaultsStep, PTL DEF Spec

\* The state of the monitor stays well-typed, whatever fails: the failures counted of a check
\* (`fails` of index.js:174-200) never run past DOWN_AFTER_FAILS, and the clock, the days and
\* the runs stay within their ranges.
THEOREM TypeCorrect == Spec => []TypeOK
  <1>1. AnyFaults => TypeOK
    BY DEF AnyFaults
  <1> QED
    BY <1>1, AnyFaultsHolds, PTL

\* Whatever fails and however runs overlap, no check is saved as down before somebody was told
\* (index.js:42-53 saves after the push has landed), so a recovery is never the first anyone
\* hears of an outage.
THEOREM ToldFirst == Spec => []SavedWasTold
  <1>1. AnyFaults => SavedWasTold
    BY DEF AnyFaults, HeardOf
  <1> QED
    BY <1>1, AnyFaultsHolds, PTL

----
\* While a run is under way the others are off.
LEMMA Alone ==
    ASSUME OneRun, NEW r \in Runs, pc[r] # "off"
    PROVE  \A q \in Runs \ {r} : pc[q] = "off"
  BY DEF OneRun

\* Without overlap there is one run at a time from the start on.
LEMMA SingleRunInit == Init => SingleRun
  BY DEF Init, SingleRun, OneRun, Current

\* Without overlap every step keeps it, and what the run has read stays so until it saves.
LEMMA SingleRunStep ==
    ASSUME "overlap" \notin Faults, TypeOK, SingleRun, [Next]_vars
    PROVE  SingleRun'
  <1>1. ASSUME NEW r \in Runs, Start(r)
        PROVE  SingleRun'
    <2>1. \A q \in Runs : pc[q] = "off"
      BY <1>1 DEF Start
    <2>2. pc'[r] = "read" /\ \A q \in Runs \ {r} : pc'[q] = "off"
      BY <1>1, <2>1 DEF Start, TypeOK
    <2> QED
      BY <2>2 DEF SingleRun, OneRun, Current
  <1>2. ASSUME NEW r \in Runs, pc[r] # "off", \A q \in Runs \ {r} : pc'[q] = pc[q],
               pc'[r] \in {"push", "save"} => prev'[r] = kv'[at'[r]]
        PROVE  SingleRun'
    <2>1. \A q \in Runs \ {r} : pc'[q] = "off"
      BY <1>2, Alone DEF SingleRun
    <2> QED
      BY <1>2, <2>1 DEF SingleRun, OneRun, Current
  <1>3. ASSUME NEW r \in Runs, Read(r)
        PROVE  SingleRun'
    <2>1. at[r] \in Checks /\ pc[r] = "read" /\ kv' = kv /\ prev'[r] = kv[at[r]]
      BY <1>3 DEF Read, TypeOK
    <2>2. \/ pc' = [pc EXCEPT ![r] = "push"] /\ at' = at
          \/ pc' = [pc EXCEPT ![r] = "save"] /\ at' = at
          \/ NextCheck(r)
      BY <1>3 DEF Read
    <2>3. /\ \A q \in Runs \ {r} : pc'[q] = pc[q]
          /\ pc'[r] \in {"push", "save"} => at'[r] = at[r]
      BY <2>2, RunsOn DEF TypeOK
    <2> QED
      BY <1>2, <2>1, <2>3
  <1>4. ASSUME NEW r \in Runs, PushLands(r)
        PROVE  SingleRun'
    <2>1. /\ pc[r] = "push" /\ UNCHANGED <<at, prev, kv>>
          /\ \A q \in Runs \ {r} : pc'[q] = pc[q]
      BY <1>4 DEF PushLands, TypeOK
    <2>2. prev[r] = kv[at[r]]
      BY <2>1 DEF SingleRun, Current
    <2> QED
      BY <1>2, <2>1, <2>2
  <1>5. ASSUME NEW r \in Runs, pc[r] # "off", NextCheck(r) \/ End(r)
        PROVE  SingleRun'
    <2>1. pc'[r] \in {"off", "read"} /\ \A q \in Runs \ {r} : pc'[q] = pc[q]
      BY <1>5, RunsOn
    <2> QED
      BY <1>2, <1>5, <2>1
  <1>6. ASSUME NEW r \in Runs,
               \/ PushLost(r) \/ PushUnheard(r) \/ Save(r)
               \/ ReadFails(r) \/ SaveFails(r) \/ Killed(r)
        PROVE  SingleRun'
    <2>1. pc[r] # "off" /\ (NextCheck(r) \/ End(r))
      BY <1>6 DEF PushLost, PushUnheard, Save, ReadFails, SaveFails, Killed
    <2> QED
      BY <1>5, <2>1
  <1>7. CASE Tick \/ UNCHANGED vars
    BY <1>7 DEF Tick, vars, SingleRun, OneRun, Current
  <1> QED
    BY <1>1, <1>3, <1>4, <1>6, <1>7 DEF Next, Step, Push

\* The invariant of every behaviour without overlap.
LEMMA SingleRunHolds ==
    ASSUME "overlap" \notin Faults
    PROVE  Spec => [](AnyFaults /\ SingleRun)
  <1>1. AnyFaults /\ SingleRun /\ [Next]_vars => (AnyFaults /\ SingleRun)'
    BY AnyFaultsStep, SingleRunStep DEF AnyFaults
  <1> QED
    BY <1>1, AnyFaultsInit, SingleRunInit, PTL DEF Spec

\* A landing push goes with the state the check is saved in: read by the only run there is.
LEMMA Landing ==
    ASSUME AnyFaults, SingleRun, NEW r \in Runs, pc[r] = "push"
    PROVE  /\ at[r] \in Checks /\ prev[r] = kv[at[r]] /\ saw[r][at[r]] \in BOOLEAN
           /\ Outcome(r).push # "none" /\ Outcome(r).push \in Pushes
           /\ Sensible(prev[r], saw[r][at[r]], now[r], Outcome(r))
           /\ \A q \in Runs : pc[q] # "save"
  <1>1. \A q \in Runs : pc[q] # "save"
    BY Alone DEF SingleRun
  <1>2. Sensible(prev[r], saw[r][at[r]], now[r], Outcome(r))
    BY OutcomeSensible DEF AnyFaults
  <1> QED
    BY <1>1, <1>2 DEF AnyFaults, TypeOK, Sane, SingleRun, Current, Sensible

----
\* Nothing was told before the first run.
LEMMA MatchedInit == Init => Matched
  BY DEF Init, Matched, Told, KnowsDown, Unwritten

\* Without faults every step keeps what is saved and what was told the same; pushes that are
\* rejected are no fault.
LEMMA MatchedStep ==
    ASSUME Faults = {}, AnyFaults, SingleRun, Matched, [Next]_vars
    PROVE  Matched'
  <1>0. TypeOK /\ Sane
    BY DEF AnyFaults
  <1>1. ASSUME UNCHANGED <<kv, phone>>,
               \A q \in Runs : pc[q] # "save", \A q \in Runs : pc'[q] # "save"
        PROVE  Matched'
    BY <1>1 DEF Matched, Told, KnowsDown
  <1>2. ASSUME NEW r \in Runs, Start(r)
        PROVE  Matched'
    <2>1. \A q \in Runs : pc[q] = "off"
      BY <1>2 DEF Start
    <2> QED
      BY <1>0, <1>1, <1>2, <2>1 DEF Start, TypeOK
  <1>3. ASSUME NEW r \in Runs, Read(r)
        PROVE  Matched'
    <2>0. at[r] \in Checks /\ pc[r] = "read" /\ UNCHANGED <<kv, phone, saw, now>>
          /\ prev'[r] = kv[at[r]] /\ \A q \in Runs \ {r} : pc[q] = "off"
      BY <1>0, <1>3, Alone DEF Read, TypeOK, SingleRun
    <2>1. CASE NextCheck(r) \/ pc' = [pc EXCEPT ![r] = "push"]
      <3>1. \A q \in Runs : pc'[q] # "save"
        BY <1>0, <2>0, <2>1, RunsOn DEF TypeOK
      <3> QED
        BY <1>1, <2>0, <3>1
    <2>2. CASE /\ Found(r, kv[at[r]]).push = "none"
               /\ pc' = [pc EXCEPT ![r] = "save"] /\ at' = at
      <3>1. Outcome(r)' = Found(r, kv[at[r]])
        BY <2>0, <2>2 DEF Outcome, Found
      <3>2. /\ Outcome(r)'.state.status = kv[at[r]].status
            /\ Outcome(r)'.state.reminded = kv[at[r]].reminded
        BY <1>0, <2>2, <3>1, OutcomeSensible DEF Sensible
      <3>3. \A c \in Checks : Told(c, kv[c])
        BY <2>0 DEF Matched
      <3>4. \A q \in Runs : pc'[q] = "save" => q = r
        BY <1>0, <2>0, <2>2 DEF TypeOK
      <3> QED
        BY <2>0, <2>2, <3>2, <3>3, <3>4 DEF Matched, Told, KnowsDown
    <2> QED
      BY <1>3, <2>1, <2>2 DEF Read
  <1>4. ASSUME NEW r \in Runs, PushLands(r)
        PROVE  Matched'
    <2>0. pc[r] = "push" /\ Ring(r) /\ UNCHANGED <<at, saw, now, prev, kv>>
          /\ pc' = [pc EXCEPT ![r] = "save"]
      BY <1>4 DEF PushLands
    <2>1. /\ at[r] \in Checks /\ prev[r] = kv[at[r]]
          /\ Outcome(r).push \in {"down", "recovered", "reminder"}
          /\ Sensible(prev[r], saw[r][at[r]], now[r], Outcome(r))
          /\ \A q \in Runs : pc[q] # "save"
      BY <2>0, Landing DEF Pushes
    <2>2. \A c \in Checks : Told(c, kv[c])
      BY <2>1 DEF Matched
    <2>3. /\ phone'[at[r]].last = Outcome(r).push
          /\ phone'[at[r]].reminded = IF Outcome(r).push = "reminder" THEN Day(now[r])
                                      ELSE phone[at[r]].reminded
          /\ \A c \in Checks \ {at[r]} : phone'[c] = phone[c]
      BY <1>0, <2>0, <2>1, Rung DEF Pushes
    <2>4. Outcome(r)' = Outcome(r)
      BY <2>0, OutcomeKept
    <2>5. phone[at[r]].reminded = prev[r].reminded
      BY <2>1, <2>2 DEF Told
    <2>6. /\ Outcome(r).state.status = "down"
               <=> phone'[at[r]].last \in {"down", "reminder"}
          /\ phone'[at[r]].reminded = Outcome(r).state.reminded
      <3>1. CASE Outcome(r).push = "down"
        BY <2>1, <2>3, <2>5, <3>1 DEF Sensible
      <3>2. CASE Outcome(r).push = "recovered"
        BY <2>1, <2>3, <2>5, <3>2 DEF Sensible
      <3>3. CASE Outcome(r).push = "reminder"
        BY <2>1, <2>3, <3>3 DEF Sensible
      <3> QED
        BY <2>1, <3>1, <3>2, <3>3
    <2>7. \A q \in Runs : pc'[q] = "save" <=> q = r
      BY <1>0, <2>0, <2>1 DEF TypeOK
    <2> QED
      BY <2>0, <2>1, <2>2, <2>3, <2>4, <2>6, <2>7 DEF Matched, Told, KnowsDown
  <1>5. ASSUME NEW r \in Runs, PushLost(r)
        PROVE  Matched'
    <2>1. pc[r] = "push" /\ NextCheck(r) /\ UNCHANGED <<kv, phone>>
      BY <1>5 DEF PushLost
    <2>2. \A q \in Runs : pc[q] # "save"
      BY <2>1, Landing
    <2>3. \A q \in Runs : pc'[q] # "save"
      BY <1>0, <2>1, <2>2, RunsOn
    <2> QED
      BY <1>1, <2>1, <2>2, <2>3
  <1>6. ASSUME NEW r \in Runs, Save(r)
        PROVE  Matched'
    <2>1. /\ pc[r] = "save" /\ at[r] \in Checks /\ NextCheck(r) /\ phone' = phone
          /\ kv'[at[r]] = Outcome(r).state
          /\ \A c \in Checks \ {at[r]} : kv'[c] = kv[c]
      BY <1>0, <1>6 DEF Save, TypeOK, Outcome
    <2>2. \A q \in Runs \ {r} : pc[q] = "off"
      BY <2>1, Alone DEF SingleRun
    <2>3. \A q \in Runs : pc'[q] # "save"
      BY <1>0, <2>1, <2>2, RunsOn
    <2>4. Told(at[r], Outcome(r).state)
      BY <2>1 DEF Matched
    <2>5. \A c \in Checks \ {at[r]} : Told(c, kv[c])
      BY <2>2 DEF Matched
    <2> QED
      BY <2>1, <2>3, <2>4, <2>5 DEF Matched, Told, KnowsDown
  <1>7. CASE Tick \/ UNCHANGED vars
    <2>1. UNCHANGED <<pc, at, saw, now, prev, kv, phone>>
      BY <1>7 DEF Tick, vars
    <2>2. \A q \in Runs : Outcome(q)' = Outcome(q)
      BY <2>1, OutcomeKept
    <2> QED
      BY <2>1, <2>2 DEF Matched, Told, KnowsDown
  <1> QED
    BY <1>2, <1>3, <1>4, <1>5, <1>6, <1>7
    DEF Next, Step, Push, PushUnheard, ReadFails, SaveFails, Killed

\* The invariant of every behaviour without faults.
LEMMA MatchedHolds ==
    ASSUME Faults = {}
    PROVE  Spec => [](AnyFaults /\ SingleRun /\ Matched)
  <1>1. AnyFaults /\ SingleRun /\ Matched /\ [Next]_vars
          => (AnyFaults /\ SingleRun /\ Matched)'
    BY AnyFaultsStep, SingleRunStep, MatchedStep DEF AnyFaults
  <1> QED
    BY <1>1, AnyFaultsInit, SingleRunInit, MatchedInit, PTL DEF Spec

\* Between the checks of a run what is saved is what was told, however many pushes were
\* rejected: one that did not land keeps the old state (index.js:45-49).
THEOREM SavedIsTold ==
    ASSUME Faults = {}
    PROVE  Spec => []PhoneMatchesKV
  <1>1. AnyFaults /\ SingleRun /\ Matched => PhoneMatchesKV
    BY DEF Matched, PhoneMatchesKV, Told
  <1> QED
    BY <1>1, MatchedHolds, PTL

\* A host that stays down is told of at the reminder hour only, and once a day (index.js:174-200
\* remembers the day), also when the reminders before were rejected.
THEOREM RemindsOnce ==
    ASSUME Faults = {}
    PROVE  Spec => OneReminderADay
  <1> DEFINE Reminders == \A r \in Runs :
                Lands(r, "reminder") =>
                    ReminderHour(now[r]) /\ phone[at[r]].reminded # Day(now[r])
  <1>1. AnyFaults /\ SingleRun /\ Matched /\ [Next]_vars => [Reminders]_vars
    <2> SUFFICES ASSUME AnyFaults, SingleRun, Matched,
                        NEW r \in Runs, pc[r] = "push", Outcome(r).push = "reminder"
                 PROVE  ReminderHour(now[r]) /\ phone[at[r]].reminded # Day(now[r])
      BY DEF Lands, Outcome
    <2>1. /\ at[r] \in Checks /\ prev[r] = kv[at[r]]
          /\ Sensible(prev[r], saw[r][at[r]], now[r], Outcome(r))
          /\ \A q \in Runs : pc[q] # "save"
      BY Landing
    <2>2. Told(at[r], kv[at[r]])
      BY <2>1 DEF Matched
    <2> QED
      BY <2>1, <2>2 DEF Sensible, Told
  <1> QED
    BY <1>1, MatchedHolds, PTL DEF OneReminderADay, Spec

\* The phone never rings with the news of a check that it rang with last: a push goes out on a
\* transition only (wrangler.toml:13-14), also when pushes are rejected and sent again.
THEOREM RingsOnChange ==
    ASSUME Faults = {}
    PROVE  Spec => PushOnTransition
  <1> DEFINE News == \A r \in Runs, push \in {"down", "recovered"} :
                Lands(r, push) => phone[at[r]].last # push
  <1>1. AnyFaults /\ SingleRun /\ Matched /\ [Next]_vars => [News]_vars
    <2> SUFFICES ASSUME AnyFaults, SingleRun, Matched,
                        NEW r \in Runs, NEW push \in {"down", "recovered"},
                        pc[r] = "push", Outcome(r).push = push
                 PROVE  phone[at[r]].last # push
      BY DEF Lands, Outcome
    <2>1. /\ at[r] \in Checks /\ prev[r] = kv[at[r]]
          /\ Sensible(prev[r], saw[r][at[r]], now[r], Outcome(r))
          /\ \A q \in Runs : pc[q] # "save"
      BY Landing
    <2>2. Told(at[r], kv[at[r]])
      BY <2>1 DEF Matched
    <2> QED
      BY <2>1, <2>2 DEF Sensible, Told, KnowsDown
  <1> QED
    BY <1>1, MatchedHolds, PTL DEF PushOnTransition, Spec

----
\* Nothing was counted before the first run.
LEMMA CountedInit == Init => Counted
  BY MonitorAssumption DEF Init, Counted, Unwritten, Pending

\* A run that goes on to the next check leaves one behind: only that one is no longer pending.
LEMMA LeftBehind ==
    ASSUME TypeOK, NEW r \in Runs, pc[r] # "off", NextCheck(r), NEW c \in Checks
    PROVE  Pending(r, c)' <=> Pending(r, c) /\ c # at[r]
  <1>1. at[r] \in Checks /\ CHECKS \in Nat /\ c \in 1 .. CHECKS /\ at[r] \in 1 .. CHECKS
    BY MonitorAssumption DEF TypeOK, Checks
  <1>2. CASE pc'[r] = "read"
    <2>1. at'[r] = at[r] + 1
      BY <1>2, RunsOn
    <2> QED
      BY <1>1, <1>2, <2>1 DEF Pending
  <1>3. CASE pc'[r] = "off"
    <2>1. at[r] = CHECKS
      BY <1>3, RunsOn
    <2> QED
      BY <1>1, <1>3, <2>1 DEF Pending
  <1> QED
    BY <1>2, <1>3, RunsOn

\* As long as every run ends by itself and every KV call succeeds, the count of a check follows
\* what the probes found, pushes that were rejected or not heard of included.
LEMMA CountedStep ==
    ASSUME Faults \subseteq {"unheard"}, AnyFaults, SingleRun, Counted, [Next]_vars
    PROVE  Counted'
  <1>0. TypeOK /\ Sane /\ OneRun
    BY DEF AnyFaults, SingleRun
  <1> USE DEF Pending
  <1>1. ASSUME NEW r \in Runs, Start(r)
        PROVE  Counted'
    <2>1. PICK found \in [Checks -> BOOLEAN] :
            /\ saw' = [saw EXCEPT ![r] = found]
            /\ streak' = [c \in Checks |->
                            IF found[c] THEN 0
                            ELSE IF streak[c] < DOWN_AFTER_FAILS
                            THEN streak[c] + 1 ELSE streak[c]]
      BY <1>1 DEF Start
    <2>2. \A q \in Runs : pc[q] = "off"
      BY <1>1, <1>0 DEF Start, TypeOK
    <2>3. /\ pc'[r] # "off" /\ at'[r] = 1 /\ kv' = kv /\ saw'[r] = found
          /\ \A q \in Runs \ {r} : pc'[q] = "off"
      BY <1>0, <1>1, <2>1, <2>2 DEF Start, TypeOK
    <2>4. ASSUME NEW c \in Checks, kv[c].status = "ok"
          PROVE  /\ ~found[c] => kv[c].fails + 1 <= streak'[c]
                 /\ found[c] => streak'[c] = 0
      <3>1. /\ kv[c].fails \in Nat /\ streak[c] \in 0 .. DOWN_AFTER_FAILS /\ DOWN_AFTER_FAILS \in Nat
            /\ kv[c].fails < DOWN_AFTER_FAILS
        BY <1>0, <2>4, MonitorAssumption DEF TypeOK, States, Sane, Sound
      <3>2. kv[c].fails <= streak[c]
        BY <2>2, <2>4 DEF Counted
      <3> QED
        BY <2>1, <3>1, <3>2
    <2>5. \A c \in Checks : 1 <= c
      BY DEF Checks
    <2> QED
      BY <2>3, <2>4, <2>5 DEF Counted
  <1>2. ASSUME NEW r \in Runs, pc[r] # "off", UNCHANGED <<kv, streak, saw>>,
               \A q \in Runs \ {r} : pc'[q] = pc[q],
               pc'[r] # "off" /\ at'[r] = at[r]
        PROVE  Counted'
    <2>1. \A q \in Runs \ {r} : pc[q] = "off"
      BY <1>0, <1>2, Alone
    <2> QED
      BY <1>2, <2>1 DEF Counted
  <1>3. ASSUME NEW r \in Runs, pc[r] # "off", UNCHANGED <<streak, saw>>, NextCheck(r),
               \A c \in Checks \ {at[r]} : kv'[c] = kv[c],
               kv'[at[r]].status = "ok" => kv'[at[r]].fails <= streak[at[r]]
        PROVE  Counted'
    <2>1. \A q \in Runs \ {r} : pc[q] = "off" /\ pc'[q] = "off"
      BY <1>0, <1>3, Alone, RunsOn
    <2>2. \A c \in Checks : Pending(r, c)' <=> Pending(r, c) /\ c # at[r]
      BY <1>0, <1>3, LeftBehind
    <2>3. Pending(r, at[r])
      BY <1>0, <1>3, MonitorAssumption DEF TypeOK, Checks
    <2> USE DEF Counted
    <2> HIDE DEF Pending
    <2>4. ASSUME NEW c \in Checks, kv'[c].status = "ok", \A q \in Runs : ~Pending(q, c)'
          PROVE  kv'[c].fails <= streak'[c]
      <3>1. CASE c = at[r]
        BY <1>3, <2>4, <3>1
      <3>2. CASE c # at[r]
        <4>1. \A q \in Runs : ~Pending(q, c)
          BY <2>1, <2>2, <2>4, <3>2 DEF Pending
        <4> QED
          BY <1>3, <2>4, <3>2, <4>1
      <3> QED
        BY <3>1, <3>2
    <2>5. ASSUME NEW c \in Checks, kv'[c].status = "ok", NEW q \in Runs, Pending(q, c)'
          PROVE  /\ ~saw'[q][c] => kv'[c].fails + 1 <= streak'[c]
                 /\ saw'[q][c] => streak'[c] = 0
      <3>1. q = r
        BY <2>1, <2>5 DEF Pending
      <3>2. Pending(r, c) /\ c # at[r]
        BY <2>2, <2>5, <3>1
      <3> QED
        BY <1>3, <2>5, <3>1, <3>2
    <2> QED
      BY <2>4, <2>5
  <1>4. ASSUME NEW r \in Runs, Read(r)
        PROVE  Counted'
    <2>0. at[r] \in Checks /\ pc[r] = "read" /\ UNCHANGED <<kv, saw, streak>>
          /\ saw[r][at[r]] \in BOOLEAN /\ streak[at[r]] \in Nat /\ kv[at[r]].fails \in Nat
      BY <1>0, <1>4, MonitorAssumption DEF Read, TypeOK, States
    <2>1. CASE \/ pc' = [pc EXCEPT ![r] = "push"] /\ at' = at
               \/ pc' = [pc EXCEPT ![r] = "save"] /\ at' = at
      BY <1>0, <1>2, <2>0, <2>1 DEF TypeOK
    <2>2. CASE NextCheck(r) /\ Found(r, kv[at[r]]).push = "none"
               /\ Found(r, kv[at[r]]).state = kv[at[r]]
      <3>1. ASSUME kv[at[r]].status = "ok"
            PROVE  kv[at[r]].fails <= streak[at[r]]
        <4>1. kv[at[r]].fails = IF saw[r][at[r]] THEN 0 ELSE kv[at[r]].fails + 1
          BY <1>0, <2>2, <3>1, OutcomeSensible DEF Sensible
        <4> QED
          BY <2>0, <4>1
      <3> QED
        BY <1>3, <2>0, <2>2, <3>1
    <2> QED
      BY <1>4, <2>1, <2>2 DEF Read
  <1>5. ASSUME NEW r \in Runs, PushLands(r)
        PROVE  Counted'
    BY <1>0, <1>2, <1>5 DEF PushLands, TypeOK
  <1>6. ASSUME NEW r \in Runs, PushLost(r) \/ PushUnheard(r)
        PROVE  Counted'
    <2>1. pc[r] = "push" /\ NextCheck(r) /\ UNCHANGED <<kv, saw, streak>>
      BY <1>6 DEF PushLost, PushUnheard
    <2>2. /\ at[r] \in Checks /\ prev[r] = kv[at[r]] /\ Outcome(r).push # "none"
          /\ saw[r][at[r]] \in BOOLEAN /\ Outcome(r).push \in Pushes
          /\ Sensible(prev[r], saw[r][at[r]], now[r], Outcome(r))
      BY <2>1, Landing
    <2>3. ASSUME kv[at[r]].status = "ok"
          PROVE  kv[at[r]].fails <= streak[at[r]]
      <3>1. ~saw[r][at[r]]
        BY <2>2, <2>3 DEF Sensible, Pushes
      <3>2. Pending(r, at[r])
        BY <1>0, <2>1, <2>2, MonitorAssumption DEF Checks
      <3>3. kv[at[r]].fails + 1 <= streak[at[r]]
        BY <2>2, <2>3, <3>1, <3>2 DEF Counted
      <3> QED
        BY <1>0, <2>2, <3>3, MonitorAssumption DEF TypeOK, States
    <2> QED
      BY <1>3, <2>1, <2>3
  <1>7. ASSUME NEW r \in Runs, Save(r)
        PROVE  Counted'
    <2>1. /\ pc[r] = "save" /\ at[r] \in Checks /\ NextCheck(r) /\ UNCHANGED <<saw, streak>>
          /\ kv'[at[r]] = Outcome(r).state /\ saw[r][at[r]] \in BOOLEAN
          /\ \A c \in Checks \ {at[r]} : kv'[c] = kv[c]
      BY <1>0, <1>7 DEF Save, TypeOK, Outcome
    <2>2. prev[r] = kv[at[r]] /\ Sensible(prev[r], saw[r][at[r]], now[r], Outcome(r))
      BY <1>0, <2>1, OutcomeSensible DEF SingleRun, Current
    <2>3. ASSUME Outcome(r).state.status = "ok"
          PROVE  Outcome(r).state.fails <= streak[at[r]]
      <3>1. Outcome(r).state.fails = IF saw[r][at[r]] THEN 0 ELSE prev[r].fails + 1
        BY <2>2, <2>3 DEF Sensible
      <3>2. CASE saw[r][at[r]]
        BY <1>0, <2>1, <3>1, <3>2, MonitorAssumption DEF TypeOK
      <3>3. CASE ~saw[r][at[r]]
        <4>1. kv[at[r]].status = "ok"
          BY <2>2, <2>3, <3>3 DEF Sensible, Pushes
        <4>2. Pending(r, at[r])
          BY <2>1, MonitorAssumption DEF Checks
        <4> QED
          BY <2>1, <2>2, <3>1, <3>3, <4>1, <4>2 DEF Counted
      <3> QED
        BY <2>1, <3>2, <3>3
    <2> QED
      BY <1>3, <2>1, <2>3
  <1>8. CASE Tick \/ UNCHANGED vars
    BY <1>8 DEF Tick, vars, Counted
  <1> QED
    BY <1>1, <1>4, <1>5, <1>6, <1>7, <1>8
    DEF Next, Step, Push, ReadFails, SaveFails, Killed

\* No phone rings for a host that answered in one of the last DOWN_AFTER_FAILS runs
\* (index.js:172), also when pushes are rejected or their answers lost.
THEOREM DownTakesTwo ==
    ASSUME Faults \subseteq {"unheard"}
    PROVE  Spec => DownNeedsTwo
  <1> DEFINE Fallen == \A r \in Runs :
                Lands(r, "down") => streak[at[r]] = DOWN_AFTER_FAILS
  <1>1. AnyFaults /\ SingleRun /\ Counted /\ [Next]_vars => [Fallen]_vars
    <2> SUFFICES ASSUME AnyFaults, SingleRun, Counted,
                        NEW r \in Runs, pc[r] = "push", Outcome(r).push = "down"
                 PROVE  streak[at[r]] = DOWN_AFTER_FAILS
      BY DEF Lands, Outcome
    <2>1. /\ at[r] \in Checks /\ prev[r] = kv[at[r]]
          /\ Sensible(prev[r], saw[r][at[r]], now[r], Outcome(r))
      BY Landing
    <2>2. /\ kv[at[r]].status = "ok" /\ ~saw[r][at[r]]
          /\ kv[at[r]].fails + 1 >= DOWN_AFTER_FAILS
      BY <2>1 DEF Sensible
    <2>3. Pending(r, at[r])
      BY <2>1, MonitorAssumption DEF Pending, Checks
    <2>4. kv[at[r]].fails + 1 <= streak[at[r]]
      BY <2>1, <2>2, <2>3 DEF Counted
    <2>5. /\ streak[at[r]] \in 0 .. DOWN_AFTER_FAILS /\ kv[at[r]].fails \in Nat
          /\ DOWN_AFTER_FAILS \in Nat
      BY <2>1, MonitorAssumption DEF AnyFaults, TypeOK, States
    <2> QED
      BY <2>2, <2>4, <2>5
  <1>2. AnyFaults /\ SingleRun /\ Counted /\ [Next]_vars
          => (AnyFaults /\ SingleRun /\ Counted)'
    BY AnyFaultsStep, SingleRunStep, CountedStep DEF AnyFaults
  <1> QED
    BY <1>1, <1>2, AnyFaultsInit, SingleRunInit, CountedInit, PTL DEF DownNeedsTwo, Spec

----
\* No failed run is forgotten: what is counted of a check that is not down is
\* at least the failed runs in a row, as far as they matter, the one under way
\* left out until it has come to the check.
Remembered ==
    /\ \A c \in Checks, r \in Runs : Pending(r, c) /\ saw[r][c] => streak[c] = 0
    /\ \A c \in Checks : kv[c].status = "ok" =>
        /\ (\A r \in Runs : ~Pending(r, c))
             => streak[c] <= kv[c].fails \/ DOWN_AFTER_FAILS - 1 <= kv[c].fails
        /\ \A r \in Runs : Pending(r, c) /\ ~saw[r][c] => streak[c] <= kv[c].fails + 1

\* There is nothing to remember at the start,
LEMMA RememberedInit == Init => Remembered
  BY DEF Init, Remembered, Pending, Unwritten

\* and as long as every run ends by itself and every KV call succeeds, a run
\* that is done with a check leaves the count of its failures behind: also when
\* its push was rejected and nothing was saved.
LEMMA RememberedStep ==
    ASSUME Faults \subseteq {"unheard"}, AnyFaults, SingleRun, Remembered, [Next]_vars
    PROVE  Remembered'
  <1>0. TypeOK /\ Sane /\ OneRun
    BY DEF AnyFaults, SingleRun
  <1> USE DEF Pending
  <1>1. ASSUME NEW r \in Runs, Start(r)
        PROVE  Remembered'
    <2>1. PICK found \in [Checks -> BOOLEAN] :
            /\ saw' = [saw EXCEPT ![r] = found]
            /\ streak' = [c \in Checks |->
                            IF found[c] THEN 0
                            ELSE IF streak[c] < DOWN_AFTER_FAILS
                            THEN streak[c] + 1 ELSE streak[c]]
      BY <1>1 DEF Start
    <2>2. \A q \in Runs : pc[q] = "off"
      BY <1>1, <1>0 DEF Start, TypeOK
    <2>3. /\ pc'[r] # "off" /\ at'[r] = 1 /\ kv' = kv /\ saw'[r] = found
          /\ \A q \in Runs \ {r} : pc'[q] = "off"
      BY <1>0, <1>1, <2>1, <2>2 DEF Start, TypeOK
    <2>4. ASSUME NEW c \in Checks, kv[c].status = "ok", ~found[c]
          PROVE  streak'[c] <= kv[c].fails + 1
      <3>1. /\ kv[c].fails \in Nat /\ streak[c] \in 0 .. DOWN_AFTER_FAILS /\ DOWN_AFTER_FAILS \in Nat
        BY <1>0, MonitorAssumption DEF TypeOK, States
      <3>2. streak[c] <= kv[c].fails \/ DOWN_AFTER_FAILS - 1 <= kv[c].fails
        BY <2>2, <2>4 DEF Remembered
      <3> QED
        BY <2>1, <2>4, <3>1, <3>2
    <2>5. \A c \in Checks : 1 <= c /\ (found[c] => streak'[c] = 0)
      BY <2>1 DEF Checks
    <2> QED
      BY <2>3, <2>4, <2>5 DEF Remembered
  <1>2. ASSUME NEW r \in Runs, pc[r] # "off", UNCHANGED <<kv, streak, saw>>,
               \A q \in Runs \ {r} : pc'[q] = pc[q],
               pc'[r] # "off" /\ at'[r] = at[r]
        PROVE  Remembered'
    <2>1. \A q \in Runs \ {r} : pc[q] = "off"
      BY <1>0, <1>2, Alone
    <2> QED
      BY <1>2, <2>1 DEF Remembered
  <1>3. ASSUME NEW r \in Runs, pc[r] # "off", UNCHANGED <<streak, saw>>, NextCheck(r),
               \A c \in Checks \ {at[r]} : kv'[c] = kv[c],
               kv'[at[r]].status = "ok" =>
                 streak[at[r]] <= kv'[at[r]].fails \/ DOWN_AFTER_FAILS - 1 <= kv'[at[r]].fails
        PROVE  Remembered'
    <2>1. \A q \in Runs \ {r} : pc[q] = "off" /\ pc'[q] = "off"
      BY <1>0, <1>3, Alone, RunsOn
    <2>2. \A c \in Checks : Pending(r, c)' <=> Pending(r, c) /\ c # at[r]
      BY <1>0, <1>3, LeftBehind
    <2>3. Pending(r, at[r])
      BY <1>0, <1>3, MonitorAssumption DEF TypeOK, Checks
    <2> USE DEF Remembered
    <2> HIDE DEF Pending
    <2>4. ASSUME NEW c \in Checks, kv'[c].status = "ok", \A q \in Runs : ~Pending(q, c)'
          PROVE  streak'[c] <= kv'[c].fails \/ DOWN_AFTER_FAILS - 1 <= kv'[c].fails
      <3>1. CASE c = at[r]
        BY <1>3, <2>4, <3>1
      <3>2. CASE c # at[r]
        <4>1. \A q \in Runs : ~Pending(q, c)
          BY <2>1, <2>2, <2>4, <3>2 DEF Pending
        <4> QED
          BY <1>3, <2>4, <3>2, <4>1
      <3> QED
        BY <3>1, <3>2
    <2>5. ASSUME NEW c \in Checks, NEW q \in Runs, Pending(q, c)'
          PROVE  /\ saw'[q][c] => streak'[c] = 0
                 /\ kv'[c].status = "ok" /\ ~saw'[q][c] => streak'[c] <= kv'[c].fails + 1
      <3>1. q = r
        BY <2>1, <2>5 DEF Pending
      <3>2. Pending(r, c) /\ c # at[r]
        BY <2>2, <2>5, <3>1
      <3> QED
        BY <1>3, <2>5, <3>1, <3>2
    <2> QED
      BY <2>4, <2>5
  <1>4. ASSUME NEW r \in Runs, Read(r)
        PROVE  Remembered'
    <2>0. at[r] \in Checks /\ pc[r] = "read" /\ UNCHANGED <<kv, saw, streak>>
          /\ saw[r][at[r]] \in BOOLEAN /\ streak[at[r]] \in Nat /\ kv[at[r]].fails \in Nat
      BY <1>0, <1>4, MonitorAssumption DEF Read, TypeOK, States
    <2>1. CASE \/ pc' = [pc EXCEPT ![r] = "push"] /\ at' = at
               \/ pc' = [pc EXCEPT ![r] = "save"] /\ at' = at
      BY <1>0, <1>2, <2>0, <2>1 DEF TypeOK
    <2>2. CASE NextCheck(r) /\ Found(r, kv[at[r]]).push = "none"
               /\ Found(r, kv[at[r]]).state = kv[at[r]]
      <3>1. ASSUME kv[at[r]].status = "ok"
            PROVE  streak[at[r]] <= kv[at[r]].fails
        <4>1. kv[at[r]].fails = IF saw[r][at[r]] THEN 0 ELSE kv[at[r]].fails + 1
          BY <1>0, <2>2, <3>1, OutcomeSensible DEF Sensible
        <4>2. saw[r][at[r]]
          BY <2>0, <4>1
        <4>3. Pending(r, at[r])
          BY <2>0, MonitorAssumption DEF Checks
        <4> QED
          BY <2>0, <4>2, <4>3 DEF Remembered
      <3> QED
        BY <1>3, <2>0, <2>2, <3>1
    <2> QED
      BY <1>4, <2>1, <2>2 DEF Read
  <1>5. ASSUME NEW r \in Runs, PushLands(r)
        PROVE  Remembered'
    BY <1>0, <1>2, <1>5 DEF PushLands, TypeOK
  <1>6. ASSUME NEW r \in Runs, PushLost(r) \/ PushUnheard(r)
        PROVE  Remembered'
    <2>1. pc[r] = "push" /\ NextCheck(r) /\ UNCHANGED <<kv, saw, streak>>
      BY <1>6 DEF PushLost, PushUnheard
    <2>2. /\ at[r] \in Checks /\ prev[r] = kv[at[r]] /\ Outcome(r).push # "none"
          /\ Outcome(r).push \in Pushes
          /\ Sensible(prev[r], saw[r][at[r]], now[r], Outcome(r))
      BY <2>1, Landing
    <2>3. ASSUME kv[at[r]].status = "ok"
          PROVE  DOWN_AFTER_FAILS - 1 <= kv[at[r]].fails
      <3>1. Outcome(r).push = "down"
        BY <2>2, <2>3 DEF Sensible, Pushes
      <3>2. kv[at[r]].fails + 1 >= DOWN_AFTER_FAILS
        BY <2>2, <3>1 DEF Sensible
      <3> QED
        BY <1>0, <2>2, <3>2, MonitorAssumption DEF TypeOK, States
    <2> QED
      BY <1>3, <2>1, <2>3
  <1>7. ASSUME NEW r \in Runs, Save(r)
        PROVE  Remembered'
    <2>1. /\ pc[r] = "save" /\ at[r] \in Checks /\ NextCheck(r) /\ UNCHANGED <<saw, streak>>
          /\ kv'[at[r]] = Outcome(r).state /\ saw[r][at[r]] \in BOOLEAN
          /\ \A c \in Checks \ {at[r]} : kv'[c] = kv[c]
      BY <1>0, <1>7 DEF Save, TypeOK, Outcome
    <2>2. prev[r] = kv[at[r]] /\ Sensible(prev[r], saw[r][at[r]], now[r], Outcome(r))
      BY <1>0, <2>1, OutcomeSensible DEF SingleRun, Current
    <2>3. Pending(r, at[r])
      BY <2>1, MonitorAssumption DEF Checks
    <2>4. ASSUME Outcome(r).state.status = "ok"
          PROVE  streak[at[r]] <= Outcome(r).state.fails
      <3>1. Outcome(r).state.fails = IF saw[r][at[r]] THEN 0 ELSE prev[r].fails + 1
        BY <2>2, <2>4 DEF Sensible
      <3>2. CASE saw[r][at[r]]
        <4>1. streak[at[r]] = 0
          BY <2>1, <2>3, <3>2 DEF Remembered
        <4> QED
          BY <3>1, <3>2, <4>1
      <3>3. CASE ~saw[r][at[r]]
        <4>1. kv[at[r]].status = "ok"
          BY <2>2, <2>4, <3>3 DEF Sensible, Pushes
        <4> QED
          BY <2>1, <2>2, <2>3, <3>1, <3>3, <4>1 DEF Remembered
      <3> QED
        BY <2>1, <3>2, <3>3
    <2> QED
      BY <1>3, <2>1, <2>4
  <1>8. CASE Tick \/ UNCHANGED vars
    BY <1>8 DEF Tick, vars, Remembered
  <1> QED
    BY <1>1, <1>4, <1>5, <1>6, <1>7, <1>8
    DEF Next, Step, Push, ReadFails, SaveFails, Killed

\* An outage and its end are told by the first run that can know (index.js:42-53), and told
\* again by every later one until a push lands: however many were rejected, and however long
\* they go on being rejected, a saved state never takes the place of a push that was lost.
THEOREM NewsSent ==
    ASSUME Faults = {}
    PROVE  Spec => NewsIsSent
  <1> DEFINE News ==
        \A r \in Runs :
            LET c == at[r] IN
            Read(r) =>
                /\ ~saw[r][c] /\ streak[c] = DOWN_AFTER_FAILS /\ ~KnowsDown(c) => Tells(r, "down")
                /\ saw[r][c] /\ KnowsDown(c) => Tells(r, "recovered")
  <1>1. AnyFaults /\ SingleRun /\ Matched /\ Remembered => News
    <2> SUFFICES ASSUME AnyFaults, SingleRun, Matched, Remembered, NEW r \in Runs, Read(r)
                 PROVE  LET c == at[r] IN
                        /\ ~saw[r][c] /\ streak[c] = DOWN_AFTER_FAILS /\ ~KnowsDown(c)
                             => Tells(r, "down")
                        /\ saw[r][c] /\ KnowsDown(c) => Tells(r, "recovered")
      OBVIOUS
    <2>0. TypeOK
      BY DEF AnyFaults
    <2>1. PICK c \in Checks : c = at[r]
      BY <2>0 DEF TypeOK
    <2>2. /\ pc[r] = "read" /\ \A q \in Runs : pc[q] # "save"
          /\ Found(r, kv[c]).push # "none" => pc'[r] = "push"
      BY <2>0, <2>1, Alone DEF Read, SingleRun, TypeOK
    <2>3. kv[c].status = "down" <=> KnowsDown(c)
      BY <2>2 DEF Matched, Told
    <2>4. /\ kv[c].status \in {"ok", "down"} /\ kv[c].fails \in Nat
          /\ DOWN_AFTER_FAILS \in Nat \ {0}
      BY <2>0, MonitorAssumption DEF TypeOK, States
    <2>5. ASSUME ~saw[r][c], streak[c] = DOWN_AFTER_FAILS, ~KnowsDown(c)
          PROVE  Tells(r, "down")
      <3>1. kv[c].status = "ok"
        BY <2>3, <2>4, <2>5
      <3>2. Pending(r, c)
        BY <2>1, <2>2, MonitorAssumption DEF Pending, Checks
      <3>3. streak[c] <= kv[c].fails + 1
        BY <2>5, <3>1, <3>2 DEF Remembered
      <3>4. Found(r, kv[c]).push = "down"
        BY <2>1, <2>4, <2>5, <3>1, <3>3 DEF Found, Transition
      <3> QED
        BY <2>1, <2>2, <3>4 DEF Tells
    <2>6. ASSUME saw[r][c], KnowsDown(c)
          PROVE  Tells(r, "recovered")
      <3>1. Found(r, kv[c]).push = "recovered"
        BY <2>1, <2>3, <2>6 DEF Found, Transition
      <3> QED
        BY <2>1, <2>2, <3>1 DEF Tells
    <2> QED
      BY <2>1, <2>5, <2>6
  <1>2. AnyFaults /\ SingleRun /\ Remembered /\ [Next]_vars
          => (AnyFaults /\ SingleRun /\ Remembered)'
    BY AnyFaultsStep, SingleRunStep, RememberedStep DEF AnyFaults
  <1>3. Spec => []Remembered
    BY <1>2, AnyFaultsInit, SingleRunInit, RememberedInit, PTL DEF Spec
  <1>4. AnyFaults /\ SingleRun /\ Matched /\ Remembered => [News]_vars
    BY <1>1
  <1> QED
    BY <1>3, <1>4, MatchedHolds, PTL DEF NewsIsSent, Spec

====
