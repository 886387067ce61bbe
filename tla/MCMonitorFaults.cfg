SPECIFICATION Spec
CONSTANTS
    r1 = r1  r2 = r2
    Runs = {r1, r2}
    CHECKS = 1
    DOWN_AFTER_FAILS = 2
    MAX_TIME = 3
    Faults = {"kv", "unheard", "killed", "overlap"}
INVARIANTS SavedWasTold
