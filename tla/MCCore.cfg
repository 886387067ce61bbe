SPECIFICATION Spec
CONSTANTS
    A = A  j1 = j1  j2 = j2  l1 = l1  l2 = l2  k1 = k1  k2 = k2  q1 = q1  q2 = q2
    i1 = i1  i2 = i2  r1 = r1  r2 = r2  s1 = s1  s2 = s2  u1 = u1  u2 = u2
    p1 = p1
    Sectors = {A}
    NoSector = NoSector
    MAX_PARTS = 4
    JourneyRefs = {j1, j2}
    NoJourney = NoJourney
    LineOf <- MCLineOf
    Lines = {l1, l2}
    LIMIT = 2
    LAST_DEPARTURE = 2
    MAX_EVENTS = 4
    MAX_PAIRS = 2
    Lateness = {1, 2}
    Quays = {q1, q2}
    None = None
    MAX_RESULTS = 2
    Modes = {"train", "bus", "tram", "special"}
    Wanted = {"none", "train", "bus", "tram", "special"}
    MAX_DISTANCE = 4
    MAX_PER_MODE = 2
    FAR = 5
    MAX_STATIONS = 3
    ROWS = 3
    LAST_MINUTE = 5
    MAX_TRAINS = 5
    HOSTS = 3
    REQUEST_TIMEOUT = 3
    RETRY_DELAY = 2
    Pods = {p1}
    Keys = {k1, k2}
    Blank = Blank
    Absent = Absent
    FIRST <- MCFirst
    MAX_LIST = 2
    Down = Down
    Ids = {i1, i2}
    Contents = {r1, r2}
    NoRow = NoRow
    Seeds = {s1, s2}
    BATCH = 1
    Pieces <- MCPieces
    Colon = ":"
    EvuTexts <- MCEvuTexts
    DateTexts <- MCDateTexts
    TrainTexts <- MCTrainTexts
    StopTexts <- MCStopTexts
    Evus <- MCEvus
    Dates <- MCDates
    Numbers <- MCNumbers
    SBB <- MCSBB
    All <- MCAll
    EvuOf <- MCEvuOf
    Uics = {u1, u2}
    StopOf <- MCStopOf
    NoStop = NoStop
    Missing = Missing
    MAX_KNOWN = 1
    MAX_REQUESTS = 2
INVARIANTS TypeOK PassageRight BoardRight NextOfEach EventRead NearestKept EmbeddedRight
    ParityRight HostsJudgedRight SeededRight RotationSafe SameDoor OwnAnswer
CHECK_DEADLOCK FALSE
