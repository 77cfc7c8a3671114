SPECIFICATION FairSpec
CONSTANTS
    Absent = Absent
    Files = {f1, f2}
    Stamp = Stamp
    Hand = Hand
    None = None
    Nothing = Nothing
    MaxCommits = 2
    MaxEvents = 2
INVARIANTS
    Safe
PROPERTIES
    CatchesUp
    KeepsPromise
