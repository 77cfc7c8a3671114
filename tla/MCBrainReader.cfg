SPECIFICATION FairSpec
CONSTANTS
    Files = {f1, f2}
    Torn = Torn
    MaxCommits = 3
    MaxFaults = 2
INVARIANTS
    Safe
PROPERTIES
    NeverGoesBack
    CatchesUp
    IsMirror
