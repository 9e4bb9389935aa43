SPECIFICATION ListSpec
CONSTANTS
    Base = 3
    Size = 10
    DefaultAlign = 4
    Aligns = {2, 4}
    Sizes = {0, 1, 2, 3, 5}
INVARIANT SortedWithGaps
PROPERTY ImplementsHeap
