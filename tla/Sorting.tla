---- MODULE Sorting ----
(***************************************************************************)
(* `slice::sort_by_key`, as core/src/ojp.rs, favourites.rs and stations.rs *)
(* call it: stable, so that entries with equal keys stay as they were.     *)
(***************************************************************************)
EXTENDS Naturals, FiniteSets

\* Where in a list the entries of the sorted one come from; key[n] is the key
\* of the entry at place n.
SortByKey(key) ==
    LET Places       == DOMAIN key
        Before(n, m) == key[n] < key[m] \/ (key[n] = key[m] /\ n < m)
        Rank(n)      == Cardinality({m \in Places : Before(m, n)}) + 1
    IN  [i \in 1 .. Cardinality(Places) |-> CHOOSE n \in Places : Rank(n) = i]

====
