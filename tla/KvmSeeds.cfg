SPECIFICATION Spec
CONSTANTS
    Nodes <- MCNodes
    NodeSeq <- MCNodeSeq
    Hosts <- MCHosts
    Room <- MCRoom
    Size = 3
    First <- MCFirst
    Labs <- MCLabsSeeds
    MaxFaults = 0
CHECK_DEADLOCK FALSE
INVARIANTS OwnSeed
