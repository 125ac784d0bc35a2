SPECIFICATION Spec
CONSTANTS
    n1 = n1
    n2 = n2
    i1 = i1
    i2 = i2
    m1 = m1
    m2 = m2
    Here = here
    MasterSeq <- TwoMasters
    Names = {n1, n2}
    Ips = {i1, i2}
    Covers <- Apart
    Ops <- EveryOp
    Procs = {p1}
    MaxOps = 5
    MaxFaults = 2
CONSTRAINT Bounds
INVARIANTS
    Registered
    NothingStale
    InStep
