---- MODULE Trains ----
(***************************************************************************)
(* What /v1/formation asks, and what it answers: the handlers of           *)
(* server/src/routes/formation.rs and src/src/routes/formation.rs, which   *)
(* check their parameters with the same text, and the choice of a stop in  *)
(* core/src/formation.rs.  How a cache behaves under concurrency is the    *)
(* subject of Inflight and Worker; here requests come one after another    *)
(* and it matters whose answer an entry is.                                *)
(*                                                                         *)
(* A text is a sequence of pieces, one of which is the colon: the parts of *)
(* a cache key are what clients write, and nothing in them is escaped.     *)
(* The train of a question is what `extract_train_number` leaves of it,    *)
(* which begins with a digit and may go on with anything.                  *)
(***************************************************************************)
EXTENDS Naturals, Sequences, FiniteSets, SequencesExt

CONSTANTS
    Pieces,                                     \* what texts are made of
    Colon,
    EvuTexts, DateTexts, TrainTexts, StopTexts, \* what a client may write
    Evus, Dates, Numbers,                       \* the ones upstream knows
    SBB, All,                                   \* the texts "SBBP" and "all"
    EvuOf,         \* `operator_ref_to_evu`, from the codes of clients to texts or Missing
    Uics,          \* the stops of trains
    StopOf,        \* `uic.parse()`: the stop a text names, NoStop if it names none
    NoStop,        \* the stop 0 of a text that is no number, which no train has
    Missing,       \* a parameter that is missing, or empty where that counts as missing
    MAX_KNOWN,     \* bound on the trains upstream knows
    MAX_REQUESTS   \* bound on the requests

Plain(text) == \A i \in 1 .. Len(text) : text[i] # Colon

\* Upstream knows nothing, and no stop has a number, with a colon in it.
ASSUME TrainsAssumption ==
    /\ EvuTexts \subseteq Seq(Pieces) /\ DateTexts \subseteq Seq(Pieces)
    /\ TrainTexts \subseteq Seq(Pieces) /\ StopTexts \subseteq Seq(Pieces)
    /\ Colon \in Pieces
    /\ Evus \subseteq EvuTexts /\ \A text \in Evus : Plain(text)
    /\ Dates \subseteq DateTexts /\ \A text \in Dates : Plain(text)
    /\ Numbers \subseteq TrainTexts /\ \A text \in Numbers : Plain(text)
    /\ SBB \in EvuTexts /\ All \in StopTexts /\ Plain(All)
    /\ EvuOf \in [DOMAIN EvuOf -> EvuTexts \cup {Missing}]
    /\ StopOf \in [StopTexts -> Uics \cup {NoStop}]
    /\ \A text \in StopTexts : StopOf[text] # NoStop => Plain(text)
    /\ StopOf[All] = NoStop /\ NoStop \notin Uics /\ IsFiniteSet(Uics)
    /\ Missing \notin EvuTexts \cup DateTexts \cup TrainTexts \cup StopTexts
    /\ MAX_KNOWN \in Nat /\ MAX_REQUESTS \in Nat

VARIABLES
    calls,    \* calls[trip]: the stops upstream lists; <<>> if it knows no such train
    store,    \* the cache: [entry, fresh] by key
    asked,    \* requests so far
    reply     \* the last request, if it was answered with a formation, or empty

trains == <<calls, store, asked, reply>>

\* A train of an operator on a date; the formation it has at a stop.
Trips   == Evus \X Dates \X Numbers
Entries == [trip : Trips, stop : Uics]

Questions == [train : TrainTexts \cup {Missing}, date : DateTexts \cup {Missing},
              stop : StopTexts \cup {Missing}, evu : EvuTexts \cup {Missing},
              operatorRef : DOMAIN EvuOf \cup {Missing}]

TrainsTypeOK ==
    /\ calls \in [Trips -> Seq(Uics)]
    /\ DOMAIN store \subseteq Seq(Pieces)
    /\ store \in [DOMAIN store -> [entry : Entries, fresh : BOOLEAN]]
    /\ asked \in 0 .. MAX_REQUESTS
    /\ reply = <<>> \/ reply \in [question : Questions, entry : Entries]

TrainsInit ==
    /\ calls = [trip \in Trips |-> <<>>]
    /\ store = <<>>
    /\ asked = 0
    /\ reply = <<>>
----
(* What a question comes down to.                                          *)

\* `evu`: as given, or from the operator, or SBB.
Evu(q) ==
    IF q.evu # Missing THEN q.evu
    ELSE IF q.operatorRef # Missing THEN EvuOf[q.operatorRef] ELSE SBB

Asks(q) == q.train # Missing /\ q.date # Missing /\ Evu(q) # Missing

\* `stop_key`.
StopKey(q) == IF q.stop = Missing THEN All ELSE q.stop

\* The texts of a key, one after another; `formation:` in front is the same in all.
Delimited(evu, date, train, stop) ==
    evu \o <<Colon>> \o date \o <<Colon>> \o train \o <<Colon>> \o stop

\* Deviation: nothing between the parts.
KeyOf_unseparated(q) == Evu(q) \o q.date \o q.train \o StopKey(q)

\* `cache_key`.
KeyOf(q) == Delimited(Evu(q), q.date, q.train, StopKey(q))

\* What upstream is asked for.
TripOf(q) == <<Evu(q), q.date, q.train>>

\* `parse_formation_response`: the stop asked for, or the first one.
StopsFor(q) ==
    LET stops == calls[TripOf(q)]
    IN  IF q.stop = Missing THEN ToSet(SubSeq(stops, 1, IF stops = <<>> THEN 0 ELSE 1))
        ELSE ToSet(stops) \cap {StopOf[q.stop]}
----
(* The handler, from a request to its answer.                              *)

Answer(answer) ==
    /\ asked < MAX_REQUESTS
    /\ asked' = asked + 1
    /\ reply' = answer
    /\ UNCHANGED calls

\* The formation of an entry.
Formed(q, entry) == [question |-> q, entry |-> entry]

\* No train, no date or no number; an operator that is not mapped.
Refuse(q) ==
    /\ ~Asks(q)
    /\ Answer(<<>>)
    /\ UNCHANGED store

Fresh(q) == KeyOf(q) \in DOMAIN store /\ store[KeyOf(q)].fresh

FromStore(q) ==
    /\ Asks(q) /\ Fresh(q)
    /\ Answer(Formed(q, store[KeyOf(q)].entry))
    /\ UNCHANGED store

FromUpstream(q) ==
    /\ Asks(q) /\ ~Fresh(q) /\ TripOf(q) \in Trips
    /\ \E stop \in StopsFor(q) :
         LET entry == [trip |-> TripOf(q), stop |-> stop]
         IN  /\ Answer(Formed(q, entry))
             /\ store' = [k \in DOMAIN store \cup {KeyOf(q)} |->
                             IF k = KeyOf(q) THEN [entry |-> entry, fresh |-> TRUE] ELSE store[k]]

\* Upstream fails, or has no such train or stop: the stale entry, if there is one.
Unavailable(q) ==
    /\ Asks(q) /\ ~Fresh(q)
    /\ Answer(IF KeyOf(q) \in DOMAIN store THEN Formed(q, store[KeyOf(q)].entry) ELSE <<>>)
    /\ UNCHANGED store
----
(* Upstream, and time.                                                     *)

RunsTrain(trip, stops) ==
    /\ calls[trip] = <<>>
    /\ Cardinality({t \in Trips : calls[t] # <<>>}) < MAX_KNOWN
    /\ calls' = [calls EXCEPT ![trip] = stops]
    /\ UNCHANGED <<store, asked, reply>>

\* An entry is no longer fresh, or no longer there.
Age(k) ==
    /\ store' = IF store[k].fresh THEN [store EXCEPT ![k].fresh = FALSE]
                ELSE [l \in DOMAIN store \ {k} |-> store[l]]
    /\ UNCHANGED <<calls, asked, reply>>

TrainsNext ==
    \/ /\ asked < MAX_REQUESTS
       /\ \E q \in Questions : Refuse(q) \/ FromStore(q) \/ FromUpstream(q) \/ Unavailable(q)
    \/ \E trip \in Trips, stops \in SetToAllKPermutations(Uics) :
         stops # <<>> /\ RunsTrain(trip, stops)
    \/ \E k \in DOMAIN store : Age(k)

TrainsSpec == TrainsInit /\ [][TrainsNext]_trains
----
\* Whatever was asked before and is still stored, and whatever colons clients
\* put into their texts, a formation is of the train, the operator and the date
\* of its own question and of the stop it named; without a stop, and for the
\* stop "all", whose entry is that of questions without a stop
\* (formation.rs:68), of the first stop of the train.
OwnAnswer ==
    reply # <<>> =>
        LET q == reply.question
            trip == reply.entry.trip
        IN  /\ trip[1] = IF q.evu # Missing THEN q.evu
                         ELSE IF q.operatorRef # Missing THEN EvuOf[q.operatorRef] ELSE SBB
            /\ trip[2] = q.date
            /\ trip[3] = q.train
            /\ reply.entry.stop = IF q.stop \in {Missing, All} THEN Head(calls[trip])
                                  ELSE StopOf[q.stop]

====
