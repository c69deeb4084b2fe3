CONSTANTS
    Tags = {"a", "b", "c"}
    MaxTokens = 6
SPECIFICATION Spec
INVARIANTS DescribedFilesFound NegationOfFirstTag CreatedFileIsFound DescribedQueriesParse
CHECK_DEADLOCK FALSE
