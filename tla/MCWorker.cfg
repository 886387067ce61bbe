SPECIFICATION FairSpec
CONSTANTS
    k1 = k1  k2 = k2  h1 = h1  h2 = h2  h3 = h3
    Handlers = {h1, h2}
    Keys = {k1, k2}
    TTL <- RouteTTL
    STALE_MAX_AGE_SECS = 2
    UPSTREAM_TIMEOUT = 1
    STEP_TICKS = 1
    BODY_TICKS = 1
    BodiesHang = FALSE
    Offset <- Skewed
    SKEW = 1
    MAX_AGE = 7
    NoEntry = NoEntry
INVARIANTS ServedInWindow
PROPERTIES UsableIsFound Answered
