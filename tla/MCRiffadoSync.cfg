SPECIFICATION FairSpec
CONSTANTS
    t1 = t1
    t2 = t2
    Recordings <- MCRecordings
    Short <- MCShort
    Titles <- MCTitles
    IndexPath = IndexPath
    NoSuffix = NoSuffix
    Absent = Absent
    Hand = Hand
    Nothing = Nothing
    MaxEvents = 2
INVARIANTS
    Safe
    IndexHonest
PROPERTIES
    NoNeedlessCommit
    KeepsPromise
    Converges
