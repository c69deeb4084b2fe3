CONSTANTS
    Tags = {"a", "b", "c"}
    MaxTokens = 6
SPECIFICATION Spec
INVARIANT NegationExcludes
CHECK_DEADLOCK FALSE
