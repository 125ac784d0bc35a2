SPECIFICATION FairSpec
CONSTANTS
    Plans <- MCPlans
    MaxRuns = 2
    MaxFaults = 1
    MaxVersion = 2
INVARIANTS
    OkApplied
    OwnOrganization
PROPERTY
    Settles
CHECK_DEADLOCK FALSE
