SPECIFICATION Spec
CONSTANTS
    Base = 2
    Size = 8
    DefaultAlign = 2
    Aligns = {1, 2}
    Sizes = {1, 3}
    Word = 1
    WordAlign = 1
    PanelSizes = {1}
    MaxHandles = 2
    MaxCWHandles = 1
    MaxAttached = 1
INVARIANTS OwnedOnce HeadersIntact ContentsKept BetweenRequests HeldStoreReadsOwner
PROPERTY LockedBlocksStay
CHECK_DEADLOCK FALSE
