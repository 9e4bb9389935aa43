SPECIFICATION Spec
CONSTANTS
    ResourceFiles = {"plugin", "patch", "broken"}
    Strings <- MCStrings
    MaxOpens = 3
    Files <- MCFiles
    MainFile = "main"
    Panels <- MCPanels
    Cookies = {"c1", "c2"}
    ScratchSize = 144
INVARIANTS
    LookupOrder
    ScratchApart
    AnswersStable
CHECK_DEADLOCK FALSE
