---- MODULE MCMonitor ----
EXTENDS Monitor, TLC

CONSTANTS r1, r2

====
