SPECIFICATION TimedSpec
CONSTANTS
    k1 = k1  k2 = k2  h1 = h1  h2 = h2  h3 = h3
    Handlers = {h1, h2}
    Keys = {k1}
    TTL <- RouteTTL
    STALE_MAX_AGE_SECS = 2
    UPSTREAM_TIMEOUT = 1
    STEP_TICKS = 0
    BODY_TICKS = 1
    BodiesHang = TRUE
    Offset <- Skewed
    SKEW = 0
    MAX_AGE = 3
    NoEntry = NoEntry
PROPERTIES HungCallGivenUp
