---- MODULE Formation_proofs ----
(***************************************************************************)
(* The loops of `parse_formation_short_string` do what they say for trains *)
(* of any length.                                                          *)
(***************************************************************************)
EXTENDS Formation, TLAPS

\* Marking the last wagon changes its mark and nothing else.
LEMMA MarkedList ==
    ASSUME NEW list \in Seq(Wagons), NEW mark \in BOOLEAN
    PROVE  /\ Marked(list, mark) \in Seq(Wagons)
           /\ Len(Marked(list, mark)) = Len(list)
           /\ \A j \in 1 .. Len(list) :
                /\ Marked(list, mark)[j].vehicle = list[j].vehicle
                /\ Marked(list, mark)[j].noPassageAfter =
                     IF j = Len(list) THEN mark ELSE list[j].noPassageAfter
  <1>1. CASE list = <<>>
    BY <1>1 DEF Marked
  <1>2. CASE list # <<>>
    <2>1. Len(list) \in 1 .. Len(list) /\ list \in [1 .. Len(list) -> Wagons]
      BY <1>2
    <2>2. Marked(list, mark) = [list EXCEPT ![Len(list)].noPassageAfter = mark]
      BY <1>2 DEF Marked
    <2>3. Marked(list, mark) \in [1 .. Len(list) -> Wagons]
      BY <2>1, <2>2 DEF Wagons
    <2>4. Marked(list, mark) \in Seq(Wagons) /\ Len(Marked(list, mark)) = Len(list)
      BY <2>3
    <2>5. \A j \in 1 .. Len(list) :
            Marked(list, mark)[j] =
              IF j = Len(list) THEN [list[j] EXCEPT !.noPassageAfter = mark] ELSE list[j]
      BY <2>1, <2>2
    <2>6. \A w \in Wagons : /\ [w EXCEPT !.noPassageAfter = mark].vehicle = w.vehicle
                            /\ [w EXCEPT !.noPassageAfter = mark].noPassageAfter = mark
      BY DEF Wagons
    <2>7. ASSUME NEW j \in 1 .. Len(list)
          PROVE  /\ Marked(list, mark)[j].vehicle = list[j].vehicle
                 /\ Marked(list, mark)[j].noPassageAfter =
                      IF j = Len(list) THEN mark ELSE list[j].noPassageAfter
      <3>1. list[j] \in Wagons
        BY <2>1
      <3> HIDE DEF Wagons
      <3> QED
        BY <2>5, <2>6, <2>7, <3>1
    <2> QED
      BY <2>4, <2>7
  <1> QED
    BY <1>1, <1>2
----
(***************************************************************************)
(* The first loop.                                                         *)
(***************************************************************************)

\* Every step of the parser keeps its state well-formed,
LEMMA FormationTypeStep ==
    FormationTypeOK /\ [FormationNext]_formation => FormationTypeOK'
  <1> SUFFICES ASSUME FormationTypeOK, [FormationNext]_formation PROVE FormationTypeOK'
    OBVIOUS
  <1> USE FormationAssumption DEF FormationTypeOK
  <1>0. Len(vehicles) \in Nat
    OBVIOUS
  <1>1. ASSUME NEW s \in Sectors, Enter(s) PROVE FormationTypeOK'
    BY <1>1 DEF Enter
  <1>2. ASSUME NEW rides \in BOOLEAN, NEW opens \in BOOLEAN, NEW closes \in BOOLEAN,
               Couple(rides, opens, closes)
        PROVE  FormationTypeOK'
    <2>1. [rides |-> rides, opens |-> opens, closes |-> closes, sector |-> sector] \in Vehicles
      BY DEF Vehicles
    <2> QED
      BY <1>2, <2>1 DEF Couple
  <1>3. CASE Parsed
    BY <1>3 DEF Parsed
  <1>4. ASSUME Looping PROVE BoundaryAfter(at) \in BOOLEAN
    BY <1>4 DEF Looping, BoundaryAfter, Vehicles
  <1>5. CASE Skip
    BY <1>4, <1>5 DEF Skip, Looping
  <1>6. CASE Board
    <2>1. Marked(wagons, TRUE) \in Seq(Wagons)
      BY MarkedList
    <2>2. [vehicle |-> at, noPassageAfter |-> FALSE] \in Wagons
      BY <1>6 DEF Wagons, Board, Looping
    <2>3. wagons' \in Seq(Wagons)
      <3>1. \A list \in Seq(Wagons) :
              Append(list, [vehicle |-> at, noPassageAfter |-> FALSE]) \in Seq(Wagons)
        BY <2>2
      <3> QED
        BY <1>6, <2>1, <3>1 DEF Board
    <2>4. at' \in 0 .. Len(vehicles') + 2
      BY <1>0, <1>6 DEF Board, Looping
    <2>5. pending' \in BOOLEAN
      BY <1>4, <1>6 DEF Board
    <2> QED
      BY <1>6, <2>3, <2>4, <2>5 DEF Board
  <1>7. CASE Finish
    <2>1. Marked(wagons, FALSE) \in Seq(Wagons)
      BY MarkedList
    <2>2. at' \in 0 .. Len(vehicles') + 2
      BY <1>0, <1>7 DEF Finish
    <2> QED
      BY <1>7, <2>1, <2>2 DEF Finish
  <1>8. CASE UNCHANGED formation
    BY <1>8 DEF formation
  <1> QED
    BY <1>1, <1>2, <1>3, <1>5, <1>6, <1>7, <1>8 DEF FormationNext

\* from the empty string on.
LEMMA FormationTypeInit == FormationInit => FormationTypeOK
  <1> SUFFICES ASSUME FormationInit PROVE FormationTypeOK
    OBVIOUS
  <1>1. sectors \in Seq(Sectors) /\ vehicles \in Seq(Vehicles) /\ wagons \in Seq(Wagons)
    BY DEF FormationInit
  <1>2. at \in 0 .. Len(vehicles) + 2
    BY DEF FormationInit
  <1>3. read \in 0 .. MAX_PARTS /\ sector \in Sectors \cup {NoSector}
    BY FormationAssumption DEF FormationInit
  <1>4. pending \in BOOLEAN
    BY DEF FormationInit
  <1> QED
    BY <1>1, <1>2, <1>3, <1>4 DEF FormationTypeOK

\* The state of the parser is well-formed.
THEOREM FormationTypeCorrect == FormationSpec => []FormationTypeOK
  BY FormationTypeInit, FormationTypeStep, PTL DEF FormationSpec

\* A sector is listed when it is entered, and never twice: whatever string the
\* feed sends, the list names each sector of its vehicles once.
THEOREM SectorsAreListed == FormationSpec => []SectorsListed
  <1>1. FormationInit => SectorsListed
    BY DEF FormationInit, SectorsListed
  <1>2. FormationTypeOK /\ SectorsListed /\ sector \in Listed \cup {NoSector}
          /\ [FormationNext]_formation
        => (SectorsListed /\ sector \in Listed \cup {NoSector})'
    <2> SUFFICES ASSUME FormationTypeOK, SectorsListed, sector \in Listed \cup {NoSector},
                        [FormationNext]_formation
                 PROVE  (SectorsListed /\ sector \in Listed \cup {NoSector})'
      OBVIOUS
    <2> USE DEF FormationTypeOK, SectorsListed, Listed
    <2>1. ASSUME NEW s \in Sectors, Enter(s), s \in Listed
          PROVE  (SectorsListed /\ sector \in Listed \cup {NoSector})'
      BY <2>1 DEF Enter
    <2>2. ASSUME NEW s \in Sectors, Enter(s), s \notin Listed
          PROVE  (SectorsListed /\ sector \in Listed \cup {NoSector})'
      <3>1. /\ sectors' = Append(sectors, s) /\ sector' = s /\ vehicles' = vehicles
            /\ Len(sectors') = Len(sectors) + 1
            /\ sectors'[Len(sectors) + 1] = s
            /\ \A i \in 1 .. Len(sectors) : sectors'[i] = sectors[i]
        BY <2>2 DEF Enter
      <3>2. Listed' = Listed \cup {s}
        BY <3>1
      <3>3. \A i, j \in 1 .. Len(sectors') : sectors'[i] = sectors'[j] => i = j
        BY <2>2, <3>1
      <3> QED
        BY <3>1, <3>2, <3>3
    <2>3. ASSUME NEW rides \in BOOLEAN, NEW opens \in BOOLEAN, NEW closes \in BOOLEAN,
                 Couple(rides, opens, closes)
          PROVE  (SectorsListed /\ sector \in Listed \cup {NoSector})'
      <3> DEFINE v == [rides |-> rides, opens |-> opens, closes |-> closes, sector |-> sector]
      <3>1. /\ vehicles' = Append(vehicles, v) /\ UNCHANGED <<sectors, sector>>
            /\ v.sector = sector
        BY <2>3 DEF Couple
      <3>2. \A i \in 1 .. Len(vehicles') :
              IF i \in 1 .. Len(vehicles) THEN vehicles'[i] = vehicles[i] ELSE vehicles'[i] = v
        BY <3>1
      <3> HIDE DEF v
      <3> QED
        BY <3>1, <3>2
    <2>4. CASE Parsed \/ Skip \/ Board \/ Finish \/ UNCHANGED formation
      BY <2>4 DEF Parsed, Skip, Board, Finish, formation
    <2> QED
      BY <2>1, <2>2, <2>3, <2>4 DEF FormationNext
  <1>3. FormationInit => sector \in Listed \cup {NoSector}
    BY DEF FormationInit
  <1> QED
    BY <1>1, <1>2, <1>3, FormationTypeCorrect, PTL DEF FormationSpec
----
(***************************************************************************)
(* The second loop.  Between the wagons that are listed the marks are      *)
(* right already; `pending` knows of the way on from the last of them; and *)
(* the last one stays unmarked until the next wagon is listed.             *)
(***************************************************************************)

CarsInOrder ==
    \A j \in 1 .. Len(wagons) :
        /\ wagons[j].vehicle \in 1 .. Len(vehicles) /\ wagons[j].vehicle < at
        /\ j < Len(wagons) => wagons[j].vehicle < wagons[j + 1].vehicle

Blocked(from, to) == \E i \in from .. to : BoundaryAfter(i)

MarksRight ==
    \A j \in 1 .. Len(wagons) :
        wagons[j].noPassageAfter <=>
            j < Len(wagons) /\ Blocked(wagons[j].vehicle, wagons[j + 1].vehicle - 1)

PendingRight ==
    wagons # <<>> /\ at <= Len(vehicles) + 1 =>
        (pending <=> Blocked(wagons[Len(wagons)].vehicle, at - 1))

NotBegun == at = 0 => wagons = <<>>

Scan == NotBegun /\ CarsInOrder /\ MarksRight /\ PendingRight

\* The invariant of the loop holds while the string is read, in front of the
\* first vehicle,
LEMMA ScanInit == FormationInit => Scan
  BY DEF FormationInit, Scan, NotBegun, CarsInOrder, MarksRight, PendingRight

\* as long as the vehicles stay what they are and nothing is listed,
LEMMA ScanSame ==
    ASSUME FormationTypeOK, Scan,
           vehicles' = vehicles, wagons' = wagons, at' = at, pending' = pending
    PROVE  Scan'
  BY DEF Scan, NotBegun, CarsInOrder, MarksRight, PendingRight, Blocked, BoundaryAfter

\* past a vehicle without passengers,
LEMMA ScanSkip == FormationTypeOK /\ Scan /\ Skip => Scan'
  <1> SUFFICES ASSUME FormationTypeOK, Scan, Skip PROVE Scan'
    OBVIOUS
  <1>1. /\ at \in Nat \ {0} /\ at <= Len(vehicles) /\ Len(vehicles) \in Nat
        /\ at' = at + 1 /\ pending' = (pending \/ BoundaryAfter(at))
        /\ vehicles' = vehicles /\ wagons' = wagons
        /\ Len(wagons) \in Nat /\ wagons \in Seq(Wagons)
    BY DEF Skip, Looping, FormationTypeOK
  <1>2. NotBegun' /\ CarsInOrder'
    BY <1>1 DEF Scan, NotBegun, CarsInOrder, Wagons
  <1>3. MarksRight'
    BY <1>1 DEF Scan, MarksRight, Blocked, BoundaryAfter
  <1>4. PendingRight'
    <2> SUFFICES ASSUME wagons # <<>>
                 PROVE  pending' <=> Blocked(wagons[Len(wagons)].vehicle, at)
      BY <1>1 DEF PendingRight, Blocked, BoundaryAfter
    <2> DEFINE last == wagons[Len(wagons)].vehicle
    <2>1. last \in Nat /\ last < at
      BY <1>1 DEF Scan, CarsInOrder, Wagons
    <2>2. pending <=> Blocked(last, at - 1)
      BY <1>1 DEF Scan, PendingRight
    <2>3. last .. at = (last .. at - 1) \cup {at}
      BY <1>1, <2>1
    <2> QED
      BY <1>1, <2>2, <2>3 DEF Blocked
  <1> QED
    BY <1>2, <1>3, <1>4 DEF Scan

\* past a vehicle with passengers, whose boundary to the wagon before it is
\* known by then,
LEMMA ScanBoard == FormationTypeOK /\ Scan /\ Board => Scan'
  <1> SUFFICES ASSUME FormationTypeOK, Scan, Board PROVE Scan'
    OBVIOUS
  <1> DEFINE n == Len(wagons)
             mark == pending \/ vehicles[at].opens
             before == IF mark THEN Marked(wagons, TRUE) ELSE wagons
             new == [vehicle |-> at, noPassageAfter |-> FALSE]
  <1>1. /\ at \in Nat \ {0} /\ at <= Len(vehicles) /\ Len(vehicles) \in Nat
        /\ at' = at + 1 /\ pending' = BoundaryAfter(at)
        /\ vehicles' = vehicles /\ wagons' = Append(before, new)
        /\ n \in Nat /\ wagons \in Seq(Wagons) /\ vehicles[at].opens \in BOOLEAN
        /\ pending \in BOOLEAN
    <2>1. /\ at \in Nat \ {0} /\ at <= Len(vehicles) /\ Len(vehicles) \in Nat
          /\ n \in Nat /\ wagons \in Seq(Wagons)
      BY DEF Board, Looping, FormationTypeOK
    <2>2. vehicles[at].opens \in BOOLEAN /\ pending \in BOOLEAN
      <3>1. vehicles[at] \in Vehicles
        BY <2>1 DEF FormationTypeOK
      <3>2. vehicles[at].opens \in BOOLEAN
        BY <3>1 DEF Vehicles
      <3> QED
        BY <3>2 DEF FormationTypeOK
    <2> QED
      BY <2>1, <2>2 DEF Board
  <1>2. /\ before \in Seq(Wagons) /\ Len(before) = n
        /\ \A j \in 1 .. n :
             /\ before[j].vehicle = wagons[j].vehicle
             /\ before[j].noPassageAfter <=>
                  IF j = n /\ mark THEN TRUE ELSE wagons[j].noPassageAfter
    BY <1>1, MarkedList
  <1>3. new \in Wagons /\ new.vehicle = at /\ new.noPassageAfter = FALSE
    BY <1>1 DEF Wagons
  <1> HIDE DEF before, new
  <1>4. /\ Len(wagons') = n + 1 /\ wagons'[n + 1] = new
        /\ \A j \in 1 .. n : wagons'[j] = before[j]
    BY <1>1, <1>2, <1>3
  <1>5. \A j \in 1 .. n : wagons'[j].vehicle = wagons[j].vehicle
    BY <1>2, <1>4
  <1>6. NotBegun' /\ CarsInOrder'
    <2>1. NotBegun'
      BY <1>1 DEF NotBegun
    <2>2. ASSUME NEW j \in 1 .. n + 1
          PROVE  /\ wagons'[j].vehicle \in 1 .. Len(vehicles) /\ wagons'[j].vehicle < at + 1
                 /\ j < n + 1 => wagons'[j].vehicle < wagons'[j + 1].vehicle
      <3>0. j = n + 1 \/ j = n \/ (j < n /\ j \in 1 .. n /\ j + 1 \in 1 .. n)
        BY <1>1
      <3>1. CASE j = n + 1
        BY <1>1, <1>3, <1>4, <3>1
      <3>2. CASE j = n
        BY <1>1, <1>3, <1>4, <1>5, <3>2 DEF Scan, CarsInOrder
      <3>3. CASE j < n
        <4>1. /\ j \in 1 .. n /\ j + 1 \in 1 .. n
              /\ wagons'[j].vehicle = wagons[j].vehicle
              /\ wagons'[j + 1].vehicle = wagons[j + 1].vehicle
          BY <1>5, <3>0, <3>3
        <4>2. /\ wagons[j].vehicle \in 1 .. Len(vehicles) /\ wagons[j].vehicle < at
              /\ wagons[j].vehicle < wagons[j + 1].vehicle
          BY <3>3, <4>1 DEF Scan, CarsInOrder
        <4> QED
          BY <1>1, <4>1, <4>2
      <3> QED
        BY <3>0, <3>1, <3>2, <3>3
    <2> QED
      BY <1>1, <1>4, <2>1, <2>2 DEF CarsInOrder
  <1>7. MarksRight'
    <2> SUFFICES ASSUME NEW j \in 1 .. n + 1
                 PROVE  wagons'[j].noPassageAfter <=>
                          j < n + 1 /\ Blocked(wagons'[j].vehicle, wagons'[j + 1].vehicle - 1)
      BY <1>1, <1>4 DEF MarksRight, Blocked, BoundaryAfter
    <2>1. CASE j = n + 1
      BY <1>1, <1>3, <1>4, <2>1
    <2>2. CASE j < n
      BY <1>1, <1>2, <1>4, <1>5, <2>2 DEF Scan, MarksRight
    <2>3. CASE j = n
      <3> DEFINE last == wagons[n].vehicle
      <3>1. n \in 1 .. n /\ wagons # <<>> /\ last \in 1 .. Len(vehicles) /\ last < at
        BY <1>1, <2>3 DEF Scan, CarsInOrder
      <3>2. pending <=> Blocked(last, at - 1)
        BY <1>1, <3>1 DEF Scan, PendingRight
      <3>3. vehicles[at].opens => Blocked(last, at - 1)
        <4>1. at - 1 \in last .. at - 1 /\ at - 1 < Len(vehicles) /\ (at - 1) + 1 = at
          BY <1>1, <3>1
        <4> QED
          BY <4>1 DEF Blocked, BoundaryAfter
      <3>4. ~wagons[n].noPassageAfter
        BY <1>1, <3>1 DEF Scan, MarksRight
      <3>5. wagons'[n].noPassageAfter <=> mark
        BY <1>2, <1>4, <3>1, <3>4
      <3>6. wagons'[n + 1].vehicle = at /\ wagons'[n].vehicle = last
        BY <1>3, <1>4, <1>5, <3>1
      <3>7. mark <=> Blocked(last, at - 1)
        BY <3>2, <3>3
      <3>8. n < n + 1
        BY <1>1
      <3> HIDE DEF mark
      <3>9. wagons'[n].noPassageAfter <=>
              n < n + 1 /\ Blocked(wagons'[n].vehicle, wagons'[n + 1].vehicle - 1)
        BY <3>5, <3>6, <3>7, <3>8
      <3> QED
        BY <2>3, <3>9
    <2>4. j = n + 1 \/ j = n \/ j < n
      BY <1>1
    <2> QED
      BY <2>1, <2>2, <2>3, <2>4
  <1>8. PendingRight'
    <2>1. wagons'[Len(wagons')].vehicle = at /\ at' - 1 = at /\ at .. at = {at}
      BY <1>1, <1>3, <1>4
    <2> QED
      BY <1>1, <2>1 DEF PendingRight, Blocked, BoundaryAfter
  <1> QED
    BY <1>6, <1>7, <1>8 DEF Scan

\* and at the end of the train.
LEMMA ScanFinish == FormationTypeOK /\ Scan /\ Finish => Scan'
  <1> SUFFICES ASSUME FormationTypeOK, Scan, Finish PROVE Scan'
    OBVIOUS
  <1>1. /\ Len(vehicles) \in Nat /\ wagons \in Seq(Wagons)
        /\ at = Len(vehicles) + 1 /\ at' = at + 1
        /\ vehicles' = vehicles /\ wagons' = Marked(wagons, FALSE)
    BY DEF Finish, FormationTypeOK
  <1>2. /\ Len(wagons') = Len(wagons) /\ Len(wagons) \in Nat
        /\ \A j \in 1 .. Len(wagons) :
             /\ wagons'[j].vehicle = wagons[j].vehicle
             /\ wagons'[j].noPassageAfter =
                  IF j = Len(wagons) THEN FALSE ELSE wagons[j].noPassageAfter
    <2>1. FALSE \in BOOLEAN /\ Len(wagons) \in Nat
      BY <1>1
    <2> QED
      BY <1>1, <2>1, MarkedList, Zenon
  <1>3. /\ Len(wagons') = Len(wagons) /\ Len(wagons) \in Nat
        /\ \A j \in 1 .. Len(wagons) : wagons'[j].vehicle = wagons[j].vehicle
    BY <1>2, Zenon
  <1>4. NotBegun' /\ PendingRight'
    <2>1. at' # 0 /\ ~(at' <= Len(vehicles') + 1)
      BY <1>1
    <2> QED
      BY <2>1 DEF NotBegun, PendingRight
  <1>5. CarsInOrder'
    <2> SUFFICES ASSUME NEW j \in 1 .. Len(wagons)
                 PROVE  /\ wagons'[j].vehicle \in 1 .. Len(vehicles)
                        /\ wagons'[j].vehicle < at + 1
                        /\ j < Len(wagons) => wagons'[j].vehicle < wagons'[j + 1].vehicle
      BY <1>1, <1>3 DEF CarsInOrder
    <2>1. j < Len(wagons) => j + 1 \in 1 .. Len(wagons)
      BY <1>3
    <2>2. /\ wagons[j].vehicle \in 1 .. Len(vehicles) /\ wagons[j].vehicle < at
          /\ j < Len(wagons) => wagons[j].vehicle < wagons[j + 1].vehicle
      BY DEF Scan, CarsInOrder
    <2>3. wagons'[j].vehicle = wagons[j].vehicle
      BY <1>3
    <2>4. j < Len(wagons) => wagons'[j + 1].vehicle = wagons[j + 1].vehicle
      BY <1>3, <2>1
    <2>5. \A v \in 1 .. Len(vehicles) : v < at + 1
      BY <1>1
    <2> QED
      BY <2>2, <2>3, <2>4, <2>5
  <1>6. MarksRight'
    <2> SUFFICES ASSUME NEW j \in 1 .. Len(wagons)
                 PROVE  wagons'[j].noPassageAfter <=>
                          /\ j < Len(wagons)
                          /\ Blocked(wagons'[j].vehicle, wagons'[j + 1].vehicle - 1)
      BY <1>1, <1>2 DEF MarksRight, Blocked, BoundaryAfter
    <2>1. CASE j = Len(wagons)
      <3>1. ~wagons'[j].noPassageAfter
        BY <1>2, <2>1, Zenon
      <3>2. ~(j < Len(wagons))
        BY <1>3, <2>1
      <3> QED
        BY <3>1, <3>2, Zenon
    <2>2. CASE j < Len(wagons)
      <3>1. j + 1 \in 1 .. Len(wagons) /\ j # Len(wagons)
        BY <1>2, <2>2
      <3> QED
        BY <1>2, <3>1 DEF Scan, MarksRight
    <2>3. j = Len(wagons) \/ j < Len(wagons)
      BY <1>2
    <2> QED
      BY <2>1, <2>2, <2>3
  <1> QED
    BY <1>4, <1>5, <1>6 DEF Scan

\* So no step of the parser breaks it.
LEMMA ScanStep == FormationTypeOK /\ Scan /\ [FormationNext]_formation => Scan'
  <1> SUFFICES ASSUME FormationTypeOK, Scan, [FormationNext]_formation PROVE Scan'
    OBVIOUS
  <1>1. ASSUME NEW s \in Sectors, Enter(s) PROVE Scan'
    BY <1>1, ScanSame DEF Enter
  <1>2. ASSUME at = 0, wagons' = wagons, at' \in {0, 1} PROVE Scan'
    BY <1>2 DEF Scan, NotBegun, CarsInOrder, MarksRight, PendingRight
  <1>3. ASSUME NEW rides \in BOOLEAN, NEW opens \in BOOLEAN, NEW closes \in BOOLEAN,
               Couple(rides, opens, closes)
        PROVE  Scan'
    BY <1>2, <1>3 DEF Couple
  <1>4. CASE Parsed
    BY <1>2, <1>4 DEF Parsed
  <1>5. CASE UNCHANGED formation
    BY <1>5, ScanSame DEF formation
  <1> QED
    BY <1>1, <1>3, <1>4, <1>5, ScanSkip, ScanBoard, ScanFinish DEF FormationNext

\* A wagon is marked exactly if a boundary lies between it and the next one,
\* wherever locomotives and baggage cars stand (formation.rs:138-192).
THEOREM PassageIsRight == FormationSpec => []PassageRight
  <1>1. Scan => PassageRight
    BY DEF Scan, MarksRight, PassageRight, Blocked
  <1> QED
    BY <1>1, ScanInit, ScanStep, FormationTypeCorrect, PTL DEF FormationSpec
----
(***************************************************************************)
(* No car is lost or listed twice.                                         *)
(***************************************************************************)

\* What the second loop has listed, a step adds exactly the car it is at.
LEMMA ListedStep ==
    FormationTypeOK /\ Scan /\ EveryCarListed /\ [FormationNext]_formation => EveryCarListed'
  <1> SUFFICES ASSUME FormationTypeOK, Scan, EveryCarListed, [FormationNext]_formation
               PROVE  EveryCarListed'
    OBVIOUS
  <1> DEFINE Cars == {wagons[j].vehicle : j \in 1 .. Len(wagons)}
             Passed == {i \in 1 .. Len(vehicles) : i < at /\ vehicles[i].rides}
  <1>1. /\ Cars = Passed /\ Len(vehicles) \in Nat /\ Len(wagons) \in Nat
        /\ at \in Nat /\ wagons \in Seq(Wagons) /\ vehicles \in Seq(Vehicles)
    BY DEF EveryCarListed, FormationTypeOK
  <1>2. Scan' /\ FormationTypeOK'
    BY ScanStep, FormationTypeStep
  <1>3. (\A j \in 1 .. Len(wagons) - 1 : wagons[j].vehicle < wagons[j + 1].vehicle)'
    <2> SUFFICES ASSUME NEW j \in 1 .. Len(wagons') - 1
                 PROVE  wagons'[j].vehicle < wagons'[j + 1].vehicle
      OBVIOUS
    <2>1. Len(wagons') \in Nat
      BY <1>2 DEF FormationTypeOK
    <2>2. j \in 1 .. Len(wagons') /\ j < Len(wagons')
      BY <2>1
    <2> QED
      BY <1>2, <2>2 DEF Scan, CarsInOrder
  <1>4. CASE at = 0 /\ wagons' = wagons /\ at' \in {0, 1}
    <2>1. wagons' = <<>>
      BY <1>4 DEF Scan, NotBegun
    <2>2. Cars' = {}
      BY <2>1
    <2>3. Passed' = {}
      BY <1>4
    <2> QED
      BY <1>3, <2>2, <2>3 DEF EveryCarListed
  <1>5. CASE UNCHANGED formation
    BY <1>5 DEF formation, EveryCarListed
  <1>6. CASE Skip
    <2>1. /\ wagons' = wagons /\ vehicles' = vehicles /\ at' = at + 1
          /\ ~vehicles[at].rides
      BY <1>6 DEF Skip
    <2>2. Passed' = Passed
      BY <1>1, <2>1
    <2> QED
      BY <1>1, <1>3, <2>1, <2>2 DEF EveryCarListed
  <1>7. CASE Board
    <2> DEFINE before == IF pending \/ vehicles[at].opens THEN Marked(wagons, TRUE) ELSE wagons
               new == [vehicle |-> at, noPassageAfter |-> FALSE]
    <2>1. /\ wagons' = Append(before, new) /\ vehicles' = vehicles /\ at' = at + 1
          /\ vehicles[at].rides /\ at \in 1 .. Len(vehicles)
      BY <1>7 DEF Board, Looping
    <2>2. /\ before \in Seq(Wagons) /\ Len(before) = Len(wagons)
          /\ \A j \in 1 .. Len(wagons) : before[j].vehicle = wagons[j].vehicle
      BY <1>1, MarkedList
    <2>3. new \in Wagons /\ new.vehicle = at
      BY <2>1 DEF Wagons
    <2> HIDE DEF before, new
    <2>4. /\ Len(wagons') = Len(wagons) + 1
          /\ \A j \in 1 .. Len(wagons) : wagons'[j].vehicle = wagons[j].vehicle
          /\ wagons'[Len(wagons) + 1].vehicle = at
      BY <1>1, <2>1, <2>2, <2>3
    <2>5. 1 .. Len(wagons') = (1 .. Len(wagons)) \cup {Len(wagons) + 1}
      BY <1>1, <2>4
    <2>6. Cars' = Cars \cup {at}
      BY <2>4, <2>5
    <2>7. Passed' = Passed \cup {at}
      BY <1>1, <2>1
    <2> QED
      BY <1>1, <1>3, <2>6, <2>7 DEF EveryCarListed
  <1>8. CASE Finish
    <2>1. /\ wagons' = Marked(wagons, FALSE) /\ vehicles' = vehicles
          /\ at = Len(vehicles) + 1 /\ at' = at + 1
      BY <1>8 DEF Finish
    <2>2. /\ Len(wagons') = Len(wagons)
          /\ \A j \in 1 .. Len(wagons) : wagons'[j].vehicle = wagons[j].vehicle
      BY <1>1, <2>1, MarkedList
    <2>3. Cars' = Cars
      BY <2>2
    <2>4. Passed' = Passed
      BY <1>1, <2>1
    <2> QED
      BY <1>1, <1>3, <2>3, <2>4 DEF EveryCarListed
  <1> QED
    BY <1>4, <1>5, <1>6, <1>7, <1>8 DEF FormationNext, Enter, Couple, Parsed

\* Once the loop is over, the wagons are exactly the vehicles that carry
\* passengers, front first (formation.rs:82).
THEOREM EveryCarIsListed == FormationSpec => []EveryCarListed
  <1>1. FormationInit => EveryCarListed
    BY DEF FormationInit, EveryCarListed
  <1> QED
    BY <1>1, ListedStep, ScanInit, ScanStep, FormationTypeCorrect, PTL DEF FormationSpec

====
