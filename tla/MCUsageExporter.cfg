SPECIFICATION FairSpec
CONSTANTS
    N = 2
    Keyed = {1}
    Documents = {2}
    Files = {f1, f2}
    Ids = {i1, i2}
    Totals = {1}
    None = None
    MaxFaults = 1
INVARIANTS
    Safe
PROPERTIES
    NeverFalls
    NoFreeze
