SPECIFICATION FairSpec
CONSTANTS
    Threads <- MCThreads
    Short <- MCShort
    Base <- MCBase
    Edits <- MCEdits
    People = {p}
    Links = {l, m}
    None = None
    Absent = Absent
    NoSuffix = NoSuffix
    IndexPath = IndexPath
    Hand = Hand
    Nothing = Nothing
    MaxFetch = 2
    MaxEvents = 3
INVARIANTS
    Safe
PROPERTIES
    Converges
    KeepsPromise
