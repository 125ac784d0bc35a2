SPECIFICATION Spec
CONSTANTS
    Nodes <- MCNodes
    NodeSeq <- MCNodeSeq
    Hosts <- MCHosts
    Room <- MCRoom
    Size = 3
    First <- MCFirst
    Labs <- MCLabs
    MaxFaults = 1
CHECK_DEADLOCK FALSE
INVARIANTS AddressesDistinct Fits OkRunning
PROPERTIES IsRegistry
