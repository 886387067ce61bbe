---- MODULE MCInflight ----
EXTENDS Inflight, TLC

CONSTANTS p1, p2, k1, k2, t1, t2, t3, t4

OnePod == [t \in Tasks |-> p1]

TwoPods == [t \in Tasks |-> IF t \in {t1, t2} THEN p1 ELSE p2]

\* One unit more than a leader's last steps and a waiter's can use up, so that a
\* waiter could be given a fresh entry that is not its leader's.
ShortTTL == [k \in Keys |-> 4]

UnitTTL == [k \in Keys |-> 1]

Interchangeable == Permutations({t1, t2, t3}) \cup Permutations({k1, k2})

====
