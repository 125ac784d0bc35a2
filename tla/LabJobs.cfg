SPECIFICATION Spec
CONSTANTS
    Labs = {l1, l2}
    Jobs = {j1, j2}
    Pids = {p1, p2}
    Requests = {q1, q2}
    MaxFaults = 1
CHECK_DEADLOCK FALSE
INVARIANTS
    OneRunPerLab
    DoneTruthful
PROPERTIES
    RefusedRightly
    PageSettles
