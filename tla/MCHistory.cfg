SPECIFICATION Spec
CONSTANTS
    Ids = {"x", "y"}
    Kinds = {"tool", "input"}
    Sizes = {1, 6}
    CountLimit = 5
    Budget = 5
    MaxMessages = 8
    MaxCalls = 2
CHECK_DEADLOCK FALSE
INVARIANT CallsAreAnsweredOnce
INVARIANT HistoriesAgree
INVARIANT ResultsAreTold
