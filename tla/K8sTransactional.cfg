SPECIFICATION Spec
CONSTANTS
    Nodes <- MCNodes
    NodeSeq <- MCNodeSeq
    Defs <- MCTransactional
    MaxStarts = 1
    MaxFaults = 0
CHECK_DEADLOCK FALSE
INVARIANTS KubeadmOnTransactional
