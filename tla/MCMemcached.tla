---- MODULE MCMemcached ----
EXTENDS Memcached, TLC

CONSTANTS a1, a2, a3, c1, c2, c3

====
