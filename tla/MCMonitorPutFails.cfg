SPECIFICATION Spec
CONSTANTS
    r1 = r1  r2 = r2
    Runs = {r1}
    CHECKS = 2
    DOWN_AFTER_FAILS = 2
    MAX_TIME = 0
    Faults = {"kv"}
PROPERTIES DownNeedsTwo
