---- MODULE Nearby ----
(***************************************************************************)
(* core/src/stations.rs: the candidates of a bounding box become the four  *)
(* groups of /v1/nearby, one of whose stations carries its departures.     *)
(*                                                                         *)
(* A distance is an integer in quarters of a metre, so that a station      *)
(* beyond MAX_DISTANCE whose distance rounds to it is told apart.          *)
(* Stations are numbered by their place in the table.                      *)
(***************************************************************************)
EXTENDS Naturals, Sequences, Sorting

CONSTANTS
    Modes,        \* the modes a station can have
    Wanted,       \* the modes a client can ask for, "none" for no mode
    MAX_DISTANCE, \* geo.rs:2, in quarters of a metre
    MAX_PER_MODE, \* geo.rs:1
    FAR,          \* bound on distances
    MAX_STATIONS  \* bound on the candidates

ASSUME NearbyAssumption ==
    /\ {"train", "bus", "tram", "special"} \subseteq Modes /\ "none" \in Wanted
    /\ MAX_DISTANCE \in Nat /\ MAX_PER_MODE \in Nat /\ FAR \in Nat /\ MAX_STATIONS \in Nat

VARIABLES
    stations, \* the candidates looked at so far: [mode, exact]
    groups,   \* the groups, as sequences of stations
    wanted,   \* `requested_mode`
    embedded, \* the stations that carry departures
    stage     \* "filter", "sorted", "attached"

nearby == <<stations, groups, wanted, embedded, stage>>

GroupNames == {"train", "bus", "tram", "special"}

Candidates == [mode : Modes, exact : 0 .. FAR]

NearbyTypeOK ==
    /\ stations \in Seq(Candidates) /\ Len(stations) <= MAX_STATIONS
    /\ groups \in [GroupNames -> Seq(1 .. Len(stations))]
    /\ wanted \in Wanted
    /\ embedded \subseteq 1 .. Len(stations)
    /\ stage \in {"filter", "sorted", "attached"}

NearbyInit ==
    /\ stations = <<>>
    /\ groups = [g \in GroupNames |-> <<>>]
    /\ wanted = "none"
    /\ embedded = {}
    /\ stage = "filter"

\* `dist.round()`, in metres.
Dist(n) == (stations[n].exact + 2) \div 4

\* Any other mode counts as train.
GroupOf(mode) == IF mode \in {"bus", "tram", "special"} THEN mode ELSE "train"

Candidate(c) ==
    /\ stage = "filter" /\ Len(stations) < MAX_STATIONS
    /\ stations' = Append(stations, c)
    /\ groups' = IF c.exact > MAX_DISTANCE THEN groups
                 ELSE [groups EXCEPT ![GroupOf(c.mode)] = Append(@, Len(stations) + 1)]
    /\ UNCHANGED <<wanted, embedded, stage>>

\* `sort_by_key(dist)`.
ByDistance(group) ==
    LET order == SortByKey([i \in 1 .. Len(group) |-> Dist(group[i])])
    IN  [i \in 1 .. Len(group) |-> group[order[i]]]

Truncated(list, most) == SubSeq(list, 1, IF Len(list) < most THEN Len(list) ELSE most)

\* Deviation: truncated before it is sorted.
Grouped_truncated_first(group) == ByDistance(Truncated(group, MAX_PER_MODE))

Grouped(group) == Truncated(ByDistance(group), MAX_PER_MODE)

SortAndTruncate(mode) ==
    /\ stage = "filter"
    /\ stage' = "sorted"
    /\ wanted' = mode
    /\ groups' = [g \in GroupNames |-> Grouped(groups[g])]
    /\ UNCHANGED <<stations, embedded>>

\* The order in which `default_station_id` tries the groups.
Order(mode) ==
    CASE mode = "bus"     -> <<"bus", "train", "tram", "special">>
      [] mode = "tram"    -> <<"tram", "train", "bus", "special">>
      [] mode = "special" -> <<"special", "train", "bus", "tram">>
      [] OTHER            -> <<"train", "bus", "tram", "special">>

Tried(mode, i) == groups[Order(mode)[i]]

\* Deviation: the mode a client asked for is not looked at first.
Defaults_any_mode ==
    {Tried("none", i)[1] : i \in {j \in 1 .. 4 :
        Tried("none", j) # <<>> /\ \A k \in 1 .. j - 1 : Tried("none", k) = <<>>}}

\* `default_station_id`, as the set of at most one station.
Defaults ==
    {Tried(wanted, i)[1] : i \in {j \in 1 .. 4 :
        Tried(wanted, j) # <<>> /\ \A k \in 1 .. j - 1 : Tried(wanted, k) = <<>>}}

\* The departures are fetched, or there are none to be had.
AttachDepartures ==
    /\ stage = "sorted"
    /\ stage' = "attached"
    /\ embedded' \in {Defaults, {}}
    /\ UNCHANGED <<stations, groups, wanted>>

NearbyNext ==
    \/ \E c \in Candidates : Candidate(c)
    \/ \E mode \in Wanted : SortAndTruncate(mode)
    \/ AttachDepartures

NearbySpec == NearbyInit /\ [][NearbyNext]_nearby
----
InRange(g) ==
    {n \in 1 .. Len(stations) : stations[n].exact <= MAX_DISTANCE /\ GroupOf(stations[n].mode) = g}

\* However the table is ordered, a group holds the nearest stations of its mode
\* within MAX_DISTANCE, nearest first and MAX_PER_MODE at most: no station in
\* range is left out for one that is farther away, in whole metres.
NearestKept ==
    stage # "filter" =>
        \A g \in GroupNames :
            LET list == groups[g]
                Shown == {list[i] : i \in 1 .. Len(list)}
            IN  /\ Shown \subseteq InRange(g)
                /\ Cardinality(Shown) = Len(list)
                /\ Len(list) <= MAX_PER_MODE
                /\ \A i, j \in 1 .. Len(list) : i < j => Dist(list[i]) <= Dist(list[j])
                /\ \A n \in InRange(g) \ Shown :
                     Len(list) = MAX_PER_MODE /\ \A m \in Shown : Dist(m) <= Dist(n)

\* "Pick the station whose departures get embedded: prioritise the requested
\* mode" (stations.rs:97): a station with departures is a nearest one of the
\* mode asked for whenever there is one in range, of trains whenever there is
\* none of that mode but a train station is in range.
EmbeddedRight ==
    \A n \in embedded :
        /\ Cardinality(embedded) = 1
        /\ LET g == GroupOf(stations[n].mode) IN
           /\ \A m \in InRange(g) : Dist(n) <= Dist(m)
           /\ InRange(GroupOf(wanted)) # {} => g = GroupOf(wanted)
           /\ InRange(GroupOf(wanted)) = {} /\ InRange("train") # {} => g = "train"

====
