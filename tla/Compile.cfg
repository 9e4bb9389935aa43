SPECIFICATION CompileSpec
CONSTANTS
    Results = {0, 1}
    Kinds = {"object", "other"}
    MaxRequests = 3
INVARIANTS SuccessIsComplete PluginProtocol
PROPERTIES OutputOnlyAfterSuccess NothingAfterClose EventuallyExits
CHECK_DEADLOCK FALSE
