SPECIFICATION FairSpec
CONSTANTS
    p1 = p1  p2 = p2  k1 = k1  k2 = k2
    t1 = t1  t2 = t2  t3 = t3  t4 = t4
    Pods = {p1, p2}
    Keys = {k1}
    Tasks = {t1, t2, t3}
    PodOf <- TwoPods
    TTL <- UnitTTL
    STALE_MAX_AGE = 1
    SWEEP_THRESHOLD = 4096
    MAX_AGE = 2
    NoEntry = NoEntry
    NoTask = NoTask
    SharedConfigured = TRUE
    SharedMayFail = TRUE
    Disconnects = FALSE
    STEP_TICKS = 0
    FETCH_TICKS = 1
    LATE_TICKS = 1
    MAX_LATE = 1
INVARIANT ServedInWindow
PROPERTIES Answered SingleFlightSpec
