SPECIFICATION Spec
CONSTANTS
    p1 = p1  p2 = p2  k1 = k1  k2 = k2
    t1 = t1  t2 = t2  t3 = t3  t4 = t4
    Pods = {p1}
    Keys = {k1, k2}
    Tasks = {t1, t2, t3}
    PodOf <- OnePod
    TTL <- ShortTTL
    STALE_MAX_AGE = 4
    SWEEP_THRESHOLD = 0
    MAX_AGE = 5
    NoEntry = NoEntry
    NoTask = NoTask
    SharedConfigured = FALSE
    SharedMayFail = FALSE
    Disconnects = TRUE
    STEP_TICKS = 1
    FETCH_TICKS = 1
    LATE_TICKS = 0
    MAX_LATE = 0
INVARIANTS AtMostOneCall NoLostWaiter FailureIsReal ResultIsShared
SYMMETRY Interchangeable
PROPERTIES SweepKeepsYoung DeadBounded
