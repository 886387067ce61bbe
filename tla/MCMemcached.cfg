SPECIFICATION FairSpec
CONSTANTS
    a1 = a1  a2 = a2  a3 = a3
    c1 = c1  c2 = c2  c3 = c3
    Calls = {a1, a2}
    Conns = {c1, c2}
    Keys = {k1, k2}
    NoConn = NoConn
    NoKey = NoKey
    POOL_SIZE = 1
    SKIP_FOR = 1
INVARIANTS TypeOK OneUser InStep RightAnswer
PROPERTIES WindowRunsOut SharedCacheSpec CallsEnd
