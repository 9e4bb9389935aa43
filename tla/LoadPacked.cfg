SPECIFICATION Spec
CONSTANTS
    Containers <- MCTwoPacked
    Slots <- MCSlots
    SectionBase = 2000
    SectionStride = 500
    ImageBase = 1000
    DescriptorBase = 4000
    GuestRanges <- MCGuestRanges
INVARIANT ImageOfIndex
CHECK_DEADLOCK FALSE
