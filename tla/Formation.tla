---- MODULE Formation ----
(***************************************************************************)
(* `parse_formation_short_string` of core/src/formation.rs: a string of    *)
(* sector marks and vehicles becomes the sectors of the platform and the   *)
(* cars a passenger may board.                                             *)
(*                                                                         *)
(* The string is read as its parts in order: the `@` mark that leads a     *)
(* token, its vehicle, the mark that trails it, each of them optional.  Of *)
(* a vehicle only what the loops branch on is kept: whether passengers     *)
(* ride in it, and at which of its ends there is no way through.  A wagon  *)
(* is known by the index of its vehicle; its position is its own index.    *)
(***************************************************************************)
EXTENDS Naturals, Sequences

CONSTANTS
    Sectors,
    NoSector,  \* the empty string
    MAX_PARTS  \* bound on the marks and vehicles of a string

ASSUME FormationAssumption == MAX_PARTS \in Nat /\ NoSector \notin Sectors

VARIABLES
    read,     \* parts read so far
    sector,   \* the sector entered last
    sectors,  \* the sectors entered, first one first
    vehicles, \* [rides, opens, closes, sector]
    at,       \* the vehicle the second loop is at; 0 while the string is read
    wagons,   \* [vehicle, noPassageAfter]
    pending   \* `boundary_pending`

formation == <<read, sector, sectors, vehicles, at, wagons, pending>>

Vehicles == [rides : BOOLEAN, opens : BOOLEAN, closes : BOOLEAN,
             sector : Sectors \cup {NoSector}]
Wagons   == [vehicle : Nat \ {0}, noPassageAfter : BOOLEAN]

FormationTypeOK ==
    /\ read \in 0 .. MAX_PARTS
    /\ sector \in Sectors \cup {NoSector}
    /\ sectors \in Seq(Sectors)
    /\ vehicles \in Seq(Vehicles)
    /\ at \in 0 .. Len(vehicles) + 2
    /\ wagons \in Seq(Wagons)
    /\ pending \in BOOLEAN

FormationInit ==
    /\ read = 0
    /\ sector = NoSector
    /\ sectors = <<>>
    /\ vehicles = <<>>
    /\ at = 0
    /\ wagons = <<>>
    /\ pending = FALSE

Listed == {sectors[i] : i \in 1 .. Len(sectors)}

\* `enter`.
Enter(s) ==
    /\ at = 0 /\ read < MAX_PARTS
    /\ read' = read + 1
    /\ sector' = s
    /\ sectors' = IF s \in Listed THEN sectors ELSE Append(sectors, s)
    /\ UNCHANGED <<vehicles, at, wagons, pending>>

Couple(rides, opens, closes) ==
    /\ at = 0 /\ read < MAX_PARTS
    /\ read' = read + 1
    /\ vehicles' = Append(vehicles,
            [rides |-> rides, opens |-> opens, closes |-> closes, sector |-> sector])
    /\ UNCHANGED <<sector, sectors, at, wagons, pending>>

\* The string ends; the second loop begins.
Parsed ==
    /\ at = 0
    /\ at' = 1
    /\ UNCHANGED <<read, sector, sectors, vehicles, wagons, pending>>
----
(* The second loop.                                                        *)

Looping == at \in 1 .. Len(vehicles)

\* No way from the vehicle the loop is at to the next.
BoundaryAfter(i) ==
    vehicles[i].closes \/ (i < Len(vehicles) /\ vehicles[i + 1].opens)

Marked(list, mark) ==
    IF list = <<>> THEN list ELSE [list EXCEPT ![Len(list)].noPassageAfter = mark]

\* Deviation: a locomotive forgets the boundary in front of it.
Skip_forgets ==
    /\ Looping /\ ~vehicles[at].rides
    /\ at' = at + 1
    /\ pending' = BoundaryAfter(at)
    /\ UNCHANGED <<read, sector, sectors, vehicles, wagons>>

\* A locomotive, a baggage car, a parked one.
Skip ==
    /\ Looping /\ ~vehicles[at].rides
    /\ at' = at + 1
    /\ pending' = (pending \/ BoundaryAfter(at))
    /\ UNCHANGED <<read, sector, sectors, vehicles, wagons>>

Board ==
    /\ Looping /\ vehicles[at].rides
    /\ at' = at + 1
    /\ pending' = BoundaryAfter(at)
    /\ LET before == IF pending \/ vehicles[at].opens THEN Marked(wagons, TRUE) ELSE wagons
       IN  wagons' = Append(before, [vehicle |-> at, noPassageAfter |-> FALSE])
    /\ UNCHANGED <<read, sector, sectors, vehicles>>

\* "The train's own ends are open platform" (formation.rs:189).
Finish ==
    /\ at = Len(vehicles) + 1
    /\ at' = at + 1
    /\ wagons' = Marked(wagons, FALSE)
    /\ UNCHANGED <<read, sector, sectors, vehicles, pending>>

FormationNext ==
    \/ \E s \in Sectors : Enter(s)
    \/ \E rides, opens, closes \in BOOLEAN : Couple(rides, opens, closes)
    \/ Parsed
    \/ Skip \/ Board \/ Finish

FormationSpec == FormationInit /\ [][FormationNext]_formation
----
\* "A boundary on either side of a non-passenger vehicle still separates the
\* cars around it" (formation.rs:143), and nothing else does: once the loop is
\* over, a wagon is marked exactly if some pair of neighbours between it and
\* the next wagon has no way through.  The last wagon never is.
PassageRight ==
    at = Len(vehicles) + 2 =>
        \A j \in 1 .. Len(wagons) :
            wagons[j].noPassageAfter <=>
                j < Len(wagons) /\ \E i \in wagons[j].vehicle .. wagons[j + 1].vehicle - 1 :
                                        BoundaryAfter(i)

\* Every car that carries passengers is listed, once and front first: no
\* vehicle that the loop has passed is missing or out of place.
EveryCarListed ==
    /\ \A j \in 1 .. Len(wagons) - 1 : wagons[j].vehicle < wagons[j + 1].vehicle
    /\ {wagons[j].vehicle : j \in 1 .. Len(wagons)}
         = {i \in 1 .. Len(vehicles) : i < at /\ vehicles[i].rides}

\* The sectors are named once each, and every vehicle stands in a sector that
\* is named, or in front of all of them.
SectorsListed ==
    /\ \A i, j \in 1 .. Len(sectors) : sectors[i] = sectors[j] => i = j
    /\ \A i \in 1 .. Len(vehicles) : vehicles[i].sector \in Listed \cup {NoSector}

====
