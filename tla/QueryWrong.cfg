CONSTANTS
    Tags = {"a", "b", "c"}
    MaxTokens = 6
SPECIFICATION Spec
INVARIANT WrongQueriesReported
CHECK_DEADLOCK FALSE
