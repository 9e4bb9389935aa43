SPECIFICATION Spec
CONSTANTS
    Routines = {"framed", "tiny"}
    Tiny = {"tiny"}
    Imports = {"words", "straddle", "doubles", "many"}
    Inline = {"words", "many"}
    Signature <- MCSignature
    MaxDepth = 3
    MaxImports = 2
INVARIANTS
    OwnRegisters
    DescriptorInR12
    ReturnsOwn
    LrIsTheSlot
    ArgsInPlace
