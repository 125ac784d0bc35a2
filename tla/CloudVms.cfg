SPECIFICATION Spec
CONSTANTS
    Nodes <- Two
    Labs <- Every
    MaxFaults = 1
INVARIANTS OwnAddress OneSharedVm Reachable
PROPERTIES Ends IsRegistry
CHECK_DEADLOCK FALSE
