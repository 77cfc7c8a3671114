SPECIFICATION FairSpec
CONSTANTS
    Absent = Absent
    Files = {f1, f2}
    Stamp = Stamp
    Made = Made
    Hand = Hand
    Nothing = Nothing
    MaxTries = 2
    MaxCommits = 2
    MaxEvents = 2
INVARIANTS
    Safe
PROPERTIES
    Conditional
    MirrorCatchesUp
