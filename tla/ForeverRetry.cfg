SPECIFICATION Spec
CONSTANTS
    Runs = {r1, r2}
    Pids = {w1, w2, w3}
    Retries = 2
    MaxKills = 2
    MaxOthers = 1
CHECK_DEADLOCK FALSE
INVARIANTS
    OneVisibleWorker
    Ensured
PROPERTIES
    NeverGivesUp
    HandedOffFinishes
