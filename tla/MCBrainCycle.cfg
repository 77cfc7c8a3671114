SPECIFICATION FairSpec
CONSTANTS
    None = None
    Hand = Hand
    Unloaded = Unloaded
    MaxEvents = 2
INVARIANTS
    NoLostTrigger
    Safe
PROPERTIES
    NoIdleRebuild
    CatchesUp
