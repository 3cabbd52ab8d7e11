SPECIFICATION FairSpec
CONSTANTS
    Planned = 2
    MaxSends = 3
    MaxFaults = 1
INVARIANTS
    RetryIsMeant
    CutShortForAReason
PROPERTIES
    StopEnds
CHECK_DEADLOCK FALSE
