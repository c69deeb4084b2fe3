CONSTANTS
    Tags = {t1, t2, t3}
    MaxRelations = 4
SPECIFICATION FairSpec
INVARIANTS ReasonsExactly NoTagTwice ExcludedIsNotRelated
PROPERTY ReasonerReturns
