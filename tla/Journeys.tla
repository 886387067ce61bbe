---- MODULE Journeys ----
(***************************************************************************)
(* From the stop events of an answer to what /v1/departures sends:         *)
(* `keep_latest_per_journey` of core/src/ojp.rs makes them the rows of a   *)
(* board, `partition_favourites` of core/src/favourites.rs picks from it.  *)
(*                                                                         *)
(* An event is [journey, line, departure]: its operating day and           *)
(* JourneyRef, or NoJourney; its number and destination, which is what a   *)
(* favourite names; its timetabled time.  A row is the index of its event. *)
(***************************************************************************)
EXTENDS Naturals, Sequences, Sorting

CONSTANTS
    JourneyRefs,
    NoJourney,
    LineOf,         \* LineOf[j]: number and destination of a journey
    Lines,          \* those a client can name
    LIMIT,          \* the rows a client asks for
    LAST_DEPARTURE, \* bound on the times
    MAX_EVENTS,     \* bound on the events of an answer
    MAX_PAIRS       \* bound on the favourites of a request

ASSUME JourneysAssumption ==
    /\ NoJourney \notin JourneyRefs
    /\ LineOf \in [JourneyRefs -> Lines]
    /\ LIMIT \in Nat /\ LAST_DEPARTURE \in Nat /\ MAX_EVENTS \in Nat /\ MAX_PAIRS \in Nat

VARIABLES
    events, \* the events looked at so far
    kept,   \* the rows
    seen,   \* the place in `kept` of each journey, 0 if it has none
    sorted, \* the rows are in their final order
    answer  \* [pairs, favourites, departures], or empty before there is one

board == <<events, kept, seen, sorted, answer>>

Events == {e \in [journey : JourneyRefs \cup {NoJourney}, line : Lines,
                  departure : 0 .. LAST_DEPARTURE] :
             e.journey \in JourneyRefs => e.line = LineOf[e.journey]}

JourneysTypeOK ==
    /\ events \in Seq(Events) /\ Len(events) <= MAX_EVENTS
    /\ kept \in Seq(1 .. Len(events))
    /\ seen \in [JourneyRefs -> 0 .. Len(kept)]
    /\ sorted \in BOOLEAN
    /\ answer = <<>> \/
       answer \in [pairs : Seq(Lines), favourites : Seq(1 .. Len(events)),
                  departures : Seq(1 .. Len(events))]

JourneysInit ==
    /\ events = <<>>
    /\ kept = <<>>
    /\ seen = [j \in JourneyRefs |-> 0]
    /\ sorted = FALSE
    /\ answer = <<>>

Another(e) ==
    /\ ~sorted /\ Len(events) < MAX_EVENTS
    /\ events' = Append(events, e)
    /\ UNCHANGED <<sorted, answer>>

\* The row of the event at hand is added.
Push == kept' = Append(kept, Len(events) + 1)

Anonymous(e) ==
    /\ Another(e)
    /\ e.journey = NoJourney
    /\ Push /\ UNCHANGED seen

\* Deviation: the place is taken down after the row was pushed.
First_after_push(e) ==
    /\ Another(e)
    /\ e.journey # NoJourney /\ seen[e.journey] = 0
    /\ Push
    /\ seen' = [seen EXCEPT ![e.journey] = Len(kept) + 2]

First(e) ==
    /\ Another(e)
    /\ e.journey # NoJourney /\ seen[e.journey] = 0
    /\ Push
    /\ seen' = [seen EXCEPT ![e.journey] = Len(kept) + 1]

\* Deviation: the twin that comes later in the answer wins.
Twin_last_wins(e) ==
    /\ Another(e)
    /\ e.journey # NoJourney /\ seen[e.journey] # 0
    /\ kept' = [kept EXCEPT ![seen[e.journey]] = Len(events) + 1]
    /\ UNCHANGED seen

\* The later of two times wins; of equal ones, the first event.
Twin(e) ==
    /\ Another(e)
    /\ e.journey # NoJourney /\ seen[e.journey] # 0
    /\ LET place == seen[e.journey] IN
       kept' = IF e.departure > events[kept[place]].departure
               THEN [kept EXCEPT ![place] = Len(events) + 1] ELSE kept
    /\ UNCHANGED seen

Departure(row) == events[row].departure

\* `sort_by_key(departure)`, of a list that may have gaps.
ByDeparture(list) ==
    LET order == SortByKey([n \in DOMAIN list |-> Departure(list[n])])
    IN  [i \in DOMAIN order |-> list[order[i]]]

Sort ==
    /\ ~sorted
    /\ sorted' = TRUE
    /\ kept' = ByDeparture(kept)
    /\ UNCHANGED <<events, seen, answer>>

Limited(list) == SubSeq(list, 1, IF Len(list) < LIMIT THEN Len(list) ELSE LIMIT)

\* Deviation: a favourite is looked for among the rows that are shown.
Matches_of_shown(line) == {i \in 1 .. Len(Limited(kept)) : events[kept[i]].line = line}

\* The places of the board with a row of a line.
Matches(line) == {i \in 1 .. Len(kept) : events[kept[i]].line = line}

FirstMatch(line) == kept[CHOOSE i \in Matches(line) : \A j \in Matches(line) : i <= j]

\* The first match of each pair that has one; the pairs may repeat.
Favourites(pairs) ==
    ByDeparture([n \in {m \in 1 .. Len(pairs) : Matches(pairs[m]) # {}} |-> FirstMatch(pairs[n])])

\* `handle_departures` from the board on, whether it came from upstream or a cache.
HandleDepartures(pairs) ==
    /\ sorted /\ answer = <<>>
    /\ answer' = [pairs |-> pairs, favourites |-> Favourites(pairs),
                  departures |-> Limited(kept)]
    /\ UNCHANGED <<events, kept, seen, sorted>>

\* The favourites of a request as `parse_favourites` has read them; it splits
\* at commas, so that no client can name a destination with a comma in it.
Pairs == UNION {[1 .. n -> Lines] : n \in 0 .. MAX_PAIRS}

JourneysNext ==
    \/ \E e \in Events : Anonymous(e) \/ First(e) \/ Twin(e)
    \/ Sort
    \/ \E pairs \in Pairs : HandleDepartures(pairs)

JourneysSpec == JourneysInit /\ [][JourneysNext]_board
----
Rows == {kept[i] : i \in 1 .. Len(kept)}

SameJourney(a, b) ==
    events[a].journey = events[b].journey /\ events[a].journey # NoJourney

\* "One row survives, the later one" (ojp.rs:240-242 and the test at 326): however
\* often and in whatever order the answer repeats journeys, a row is on the
\* board exactly if no event of its journey leaves later, or at the same time
\* and was published before it; it is there once, and in the end the rows are
\* in the order of departure.
BoardRight ==
    /\ Rows = {a \in 1 .. Len(events) :
                 \A b \in (1 .. Len(events)) \ {a} : SameJourney(a, b) =>
                   \/ Departure(b) < Departure(a)
                   \/ Departure(b) = Departure(a) /\ a < b}
    /\ Cardinality(Rows) = Len(kept)
    /\ sorted => \A i, j \in 1 .. Len(kept) : i < j => Departure(kept[i]) <= Departure(kept[j])

\* "Clone first match per favourite pair ... sorted by departure time"
\* (favourites.rs:20-22): whatever the answer of upstream looked like and however few
\* rows are shown, each favourite that leaves at all is told by its next
\* departure, once per time it is named, in the order in which they leave.
NextOfEach ==
    answer # <<>> =>
        LET favourites == answer.favourites
            Of(line)   == {row \in Rows : events[row].line = line}
            Told(line) == {i \in 1 .. Len(favourites) : events[favourites[i]].line = line}
            Named(line) == {i \in 1 .. Len(answer.pairs) : answer.pairs[i] = line}
        IN  /\ \A line \in Lines :
                 /\ Cardinality(Told(line)) = IF Of(line) = {} THEN 0 ELSE Cardinality(Named(line))
                 /\ \A i \in Told(line) : \A row \in Of(line) :
                        Departure(favourites[i]) <= Departure(row)
            /\ \A i, j \in 1 .. Len(favourites) :
                 i < j => Departure(favourites[i]) <= Departure(favourites[j])

====
