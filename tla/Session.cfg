SPECIFICATION Spec
CONSTANTS
    Results = {0, 1}
    Kinds = {"object"}
    MaxRequests = 3
INVARIANT TermAfterTerminate
PROPERTIES ReturnsTheAnswer TerminateIsFinal ClosedAfterTerminate
