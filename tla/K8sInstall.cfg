SPECIFICATION Spec
CONSTANTS
    Nodes <- MCNodes
    NodeSeq <- MCNodeSeq
    Defs <- MCDefs
    MaxStarts = 3
    MaxFaults = 1
CHECK_DEADLOCK FALSE
INVARIANTS OneCluster IngressAsAsked InstallsOnNewNodes
PROPERTIES PendingKept Ends
