---- MODULE ProbeHost ----
(***************************************************************************)
(* How a run of the monitor finds its hosts up or down: `probeHost` of     *)
(* monitor/src/index.js, host after host, each probe tried twice with a    *)
(* pause between.  `Monitor` takes what comes out of this as given.        *)
(*                                                                         *)
(* A host that is well answers as it should before the request times out.  *)
(* One outage may happen while a run probes.  A body is "none" if it is    *)
(* not JSON, and "fit" if it says what the probe wants to read.            *)
(***************************************************************************)
EXTENDS Naturals, FiniteSets

CONSTANTS
    HOSTS,           \* `HOSTS`, by their places
    REQUEST_TIMEOUT, \* in ticks
    RETRY_DELAY

ASSUME ProbeHostAssumption ==
    /\ HOSTS \in Nat \ {0}
    /\ REQUEST_TIMEOUT \in Nat \ {0} /\ RETRY_DELAY \in Nat \ {0}

VARIABLES
    probing,  \* where the run is; host HOSTS + 1 when it is through
    failures, \* per host: the probes that failed
    listed,   \* per host, of `departures`: "empty", or whether a train has a number
    outage,   \* [phase, lasted, hosts]; `lasted` stays at RETRY_DELAY once it got there
    well      \* history: the hosts that were well at some time while they were probed

probes == <<probing, failures, listed, outage, well>>

Hosts == 1 .. HOSTS
Names == {"health", "departures", "nearby", "formation"}

\* The request is under way, or the run sleeps; `touched` if the host was in
\* an outage at some time since the request was sent.
Probing == [host : 1 .. HOSTS + 1, name : Names, attempt : {1, 2},
            waits : {"answer", "retry"}, timer : 0 .. REQUEST_TIMEOUT + RETRY_DELAY,
            touched : BOOLEAN]

Lost == [status |-> 0, body |-> "none"] \* no connection, or no answer in time

ProbeHostTypeOK ==
    /\ probing \in Probing
    /\ failures \in [Hosts -> SUBSET Names]
    /\ listed \in [Hosts -> {"empty", "plain", "numbered"}]
    /\ outage \in [phase : {"before", "on", "over"}, lasted : 0 .. RETRY_DELAY, hosts : SUBSET Hosts]
    /\ well \subseteq Hosts

Unwell(h) == outage.phase = "on" /\ h \in outage.hosts

\* A request of a probe goes out.
Request(h, name, attempt) ==
    [host |-> h, name |-> name, attempt |-> attempt, waits |-> "answer", timer |-> 0,
     touched |-> Unwell(h)]

ProbeHostInit ==
    /\ outage = [phase |-> "before", lasted |-> 0, hosts |-> {}]
    /\ probing = Request(1, "health", 1)
    /\ failures = [h \in Hosts |-> {}]
    /\ listed = [h \in Hosts |-> "empty"]
    /\ well = {1}
----
(* Answers, and what a probe makes of them.                                *)

WellAnswers(name) ==
    {[status |-> 200, body |-> "fit"]}
    \cup (IF name = "formation" THEN {[status |-> 404, body |-> "unfit"]} ELSE {})

SickAnswers == {Lost, [status |-> 200, body |-> "none"], [status |-> 500, body |-> "unfit"]}

Answers ==
    IF Unwell(probing.host) THEN SickAnswers
    ELSE IF probing.touched THEN SickAnswers \cup WellAnswers(probing.name)
    ELSE WellAnswers(probing.name)

\* checkHealth, checkDepartures, checkNearby, checkFormation.
Accepted(name, r) ==
    \/ name # "formation" /\ r.status = 200 /\ r.body = "fit"
    \/ name = "formation" /\ r.status \in {200, 404} /\ r.body # "none"
----
Waits(for) == probing.host <= HOSTS /\ probing.waits = for

\* The probe after this one; no train, or none with a number, and the
\* formation is not asked for.
GoOn ==
    LET h == probing.host
        next == CASE probing.name = "health" -> Request(h, "departures", 1)
                  [] probing.name = "departures" -> Request(h, "nearby", 1)
                  [] probing.name = "nearby" /\ listed[h] = "numbered" -> Request(h, "formation", 1)
                  [] OTHER -> Request(h + 1, "health", 1)
    IN  /\ probing' = next
        /\ well' = IF Unwell(next.host) \/ next.host > HOSTS THEN well ELSE well \cup {next.host}

Pass(r, list) ==
    /\ Waits("answer") /\ r \in Answers /\ Accepted(probing.name, r)
    /\ listed' = IF probing.name = "departures" THEN [listed EXCEPT ![probing.host] = list]
                 ELSE listed
    /\ GoOn
    /\ UNCHANGED <<failures, outage>>

\* The first attempt: a pause before the second.
Reject(r) ==
    /\ Waits("answer") /\ r \in Answers /\ ~Accepted(probing.name, r)
    /\ probing.attempt = 1
    /\ probing' = [probing EXCEPT !.waits = "retry", !.timer = 0, !.touched = FALSE]
    /\ UNCHANGED <<failures, listed, outage, well>>

\* Deviation: no pause between the attempts.
Retry_at_once ==
    /\ Waits("retry")
    /\ probing' = Request(probing.host, probing.name, 2)
    /\ UNCHANGED <<failures, listed, outage, well>>

Retry ==
    /\ Waits("retry") /\ probing.timer = RETRY_DELAY
    /\ probing' = Request(probing.host, probing.name, 2)
    /\ UNCHANGED <<failures, listed, outage, well>>

FailProbe(r) ==
    /\ Waits("answer") /\ r \in Answers /\ ~Accepted(probing.name, r)
    /\ probing.attempt = 2
    /\ failures' = [failures EXCEPT ![probing.host] = @ \cup {probing.name}]
    /\ GoOn
    /\ UNCHANGED <<listed, outage>>
----
(* The world.                                                              *)

BreakDown(hosts) ==
    /\ outage.phase = "before"
    /\ outage' = [outage EXCEPT !.phase = "on", !.hosts = hosts]
    /\ probing' = [probing EXCEPT !.touched = @ \/ (Waits("answer") /\ probing.host \in hosts)]
    /\ UNCHANGED <<failures, listed, well>>

Recover ==
    /\ outage.phase = "on"
    /\ outage' = [outage EXCEPT !.phase = "over"]
    /\ well' = well \cup (outage.hosts \cap {probing.host})
    /\ UNCHANGED <<probing, failures, listed>>

\* A request ends by its timeout, and a pause by itself.
PassTime ==
    /\ \/ Waits("answer") /\ probing.timer < REQUEST_TIMEOUT
       \/ Waits("retry") /\ probing.timer < RETRY_DELAY
    /\ probing' = [probing EXCEPT !.timer = @ + 1]
    /\ outage' = IF outage.phase = "on" /\ outage.lasted < RETRY_DELAY
                 THEN [outage EXCEPT !.lasted = @ + 1] ELSE outage
    /\ UNCHANGED <<failures, listed, well>>

ProbeHostNext ==
    \/ \E r \in SickAnswers \cup WellAnswers("formation") :
         (\E list \in {"plain", "numbered"} : Pass(r, list)) \/ Reject(r) \/ FailProbe(r)
    \/ Retry
    \/ \E hosts \in SUBSET Hosts \ {{}} : BreakDown(hosts)
    \/ Recover
    \/ PassTime

ProbeHostSpec == ProbeHostInit /\ [][ProbeHostNext]_probes
----
\* What the second attempt (index.js:64-72; "probe retries once then records the
\* failure", monitor.test.js:56) is worth: an outage shorter than the pause before
\* it fails no host, at whatever probe it begins, however long the requests it
\* meets hang, and over however many probes and hosts it stretches; nor does a
\* train without a formation.  A host that is down all the while it is probed
\* fails every probe but the formation, which nobody asks it for.
HostsJudgedRight ==
    \A h \in Hosts :
        /\ failures[h] # {} => outage.lasted = RETRY_DELAY /\ h \in outage.hosts
        /\ h < probing.host /\ h \notin well => failures[h] = {"health", "departures", "nearby"}

====
