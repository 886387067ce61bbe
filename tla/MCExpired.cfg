SPECIFICATION Spec
CONSTANTS
    p1 = p1  p2 = p2  k1 = k1  k2 = k2
    t1 = t1  t2 = t2  t3 = t3  t4 = t4
    Pods = {p1}
    Keys = {k1}
    Tasks = {t1}
    PodOf <- OnePod
    TTL <- UnitTTL
    STALE_MAX_AGE = 1
    SWEEP_THRESHOLD = 4096
    MAX_AGE = 3
    NoEntry = NoEntry
    NoTask = NoTask
    SharedConfigured = FALSE
    SharedMayFail = FALSE
    Disconnects = FALSE
    STEP_TICKS = 0
    FETCH_TICKS = 1
    LATE_TICKS = 0
    MAX_LATE = 0
PROPERTIES ExpiredIsKept
