---- MODULE Parity ----
(***************************************************************************)
(* `compareParity` of monitor/src/index.js: the boards of api and api1,    *)
(* whose caches were filled at different times, are compared inside the    *)
(* window both cover.                                                      *)
(*                                                                         *)
(* Both hosts show one timetable, each from some train on; api1 may get a  *)
(* row wrong.  A train is known by its place in the timetable; of the      *)
(* message only whether there is one is kept.                              *)
(***************************************************************************)
EXTENDS Integers, Sequences, FiniteSetsExt

CONSTANTS
    ROWS,        \* rows compared, `slice(0, 5)`
    LAST_MINUTE, \* bound on the times
    MAX_TRAINS   \* bound on the timetable

ASSUME ParityAssumption ==
    ROWS \in Nat \ {0} /\ LAST_MINUTE \in Nat /\ MAX_TRAINS \in Nat

VARIABLES
    timetable, \* departures, in order
    boards,    \* what the probes returned: [train, departure]
    wrong,     \* the departure of the row that api1 got wrong, or -1
    verdict    \* "none", "agree", "differ"

parity == <<timetable, boards, wrong, verdict>>

Minutes == 0 .. LAST_MINUTE

BoardRows == [train : 0 .. MAX_TRAINS, departure : Minutes]

\* A train that is in no timetable.
NoTrain == 0

Unprobed == [api |-> <<>>, api1 |-> <<>>]

ParityTypeOK ==
    /\ timetable \in Seq(Minutes) /\ Len(timetable) <= MAX_TRAINS
    /\ boards \in [{"api", "api1"} -> Seq(BoardRows)]
    /\ wrong \in Minutes \cup {-1}
    /\ verdict \in {"none", "agree", "differ"}

ParityInit ==
    /\ timetable = <<>>
    /\ boards = Unprobed
    /\ wrong = -1
    /\ verdict = "none"

Schedule(departure) ==
    /\ boards = Unprobed /\ Len(timetable) < MAX_TRAINS
    /\ \A i \in 1 .. Len(timetable) : timetable[i] <= departure
    /\ timetable' = Append(timetable, departure)
    /\ UNCHANGED <<boards, wrong, verdict>>

\* The rows from the i-th train on; none if the probe failed.
Listing(i) ==
    [n \in 1 .. Min({ROWS, Len(timetable) - i + 1}) |->
        [train |-> i + n - 1, departure |-> timetable[i + n - 1]]]

Probes(i, j, spoilt) ==
    /\ boards = Unprobed /\ verdict = "none"
    /\ boards' = [api |-> Listing(i),
                  api1 |-> [n \in DOMAIN Listing(j) |->
                      IF n = spoilt THEN [Listing(j)[n] EXCEPT !.train = NoTrain] ELSE Listing(j)[n]]]
    /\ wrong' = IF spoilt \in DOMAIN Listing(j) THEN Listing(j)[spoilt].departure ELSE -1
    /\ UNCHANGED <<timetable, verdict>>

\* Deviation: the window is that of the first board alone.
Window_of_api(a, b) == a[1].departure .. a[Len(a)].departure

Window(a, b) ==
    Max({a[1].departure, b[1].departure}) .. Min({a[Len(a)].departure, b[Len(b)].departure})

Compared(a, minutes) == {a[n] : n \in {m \in 1 .. Len(a) : a[m].departure \in minutes}}

CompareParity ==
    /\ verdict = "none"
    /\ LET a == boards["api"]
           b == boards["api1"]
       IN  verdict' = IF a = <<>> \/ b = <<>> THEN "agree"
                      ELSE IF Compared(a, Window(a, b)) = Compared(b, Window(a, b))
                      THEN "agree" ELSE "differ"
    /\ UNCHANGED <<timetable, boards, wrong>>

ParityNext ==
    \/ \E d \in Minutes : Schedule(d)
    \/ \E i, j \in 1 .. Len(timetable) + 1, spoilt \in 0 .. ROWS : Probes(i, j, spoilt)
    \/ CompareParity

ParitySpec == ParityInit /\ [][ParityNext]_parity
----
\* "Inside the window both lists cover, the timetable itself must match"
\* (index.js:145-146): as long as no two trains leave in the same minute, the
\* parity check goes off exactly when a row both hosts should show differs,
\* however far apart their caches were filled.
ParityRight ==
    LET a == boards["api"]
        b == boards["api1"]
    IN  /\ verdict # "none"
        /\ \A i, j \in 1 .. Len(timetable) : i # j => timetable[i] # timetable[j]
        => (verdict = "differ" <=> a # <<>> /\ b # <<>> /\ wrong \in Window(a, b))

====
