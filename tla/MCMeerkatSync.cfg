SPECIFICATION FairSpec
CONSTANTS
    N = 2
    Budget = 1
    Hand = Hand
    Gone = Gone
    None = None
    MaxVersions = 1
    MaxEdits = 1
    MaxFaults = 1
INVARIANTS
    Safe
PROPERTIES
    CatchesUp
