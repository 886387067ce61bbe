---- MODULE MCWorker ----
EXTENDS Worker, TLC

CONSTANTS k1, k2, h1, h2, h3

\* Departures: shorter than the stale window.  Formations: all of it.
RouteTTL == [k \in Keys |-> IF k = k1 THEN 1 ELSE STALE_MAX_AGE_SECS]

Skewed == [h \in Handlers |-> IF h = h1 THEN SKEW ELSE 0]

====
