SPECIFICATION Spec
CONSTANTS
    Containers <- MCContainers
    Slots <- MCSlots
    SectionBase = 2000
    SectionStride = 500
    ImageBase = 1000
    DescriptorBase = 4000
    GuestRanges <- MCGuestRanges
INVARIANTS
    ImagesAsLinked
    RelocatedAsWrittenOut
    ImportsBound
    NoWritableCode
CHECK_DEADLOCK FALSE
