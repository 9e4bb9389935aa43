SPECIFICATION SearchSpec
CONSTANTS
    Names <- MCNames
    Fold <- MCFold
    BuildRoot <- MCBuildRoot
    Disks <- MCDisks
    MainFile <- MCMainFile
    UserPaths <- MCUserPaths
    SystemPaths <- MCSystemPaths
    Plain = {"A", "a", "b"}
    Slashed <- MCSlashed
    Colons <- MCColons
INVARIANTS SearchOrder Confined KeepsVolume NamesLeadBack
CHECK_DEADLOCK FALSE
