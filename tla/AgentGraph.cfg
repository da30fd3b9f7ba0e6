SPECIFICATION Spec
CHECK_DEADLOCK FALSE
CONSTANTS
    Branches = {"control", "analysis"}
    MaxTokens = 4
    RecursionLimit = 7
    MaxParallel = 2
    MaxCalls = 3
    MaxInputs = 3

    
    
PROPERTIES
    HandoffsFollowed
