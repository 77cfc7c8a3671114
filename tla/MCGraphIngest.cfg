SPECIFICATION FairSpec
CONSTANTS
    note = note
    other = other
    short = short
    long = long
    empty = empty
    Notes = {note, other}
    Texts = {short, long, empty}
    Parts <- AllParts
    Ids = {1, 2, 3, 4, 5, 6, 7, 8, 9, 10, 11, 12}
    Absent = Absent
    BatchSize = 1
    MaxAttempts = 2
    MaxEvents = 3
INVARIANTS
    Safe
    NeverMixed
    EntriesWhole
PROPERTIES
    IsReplica
    Converges
