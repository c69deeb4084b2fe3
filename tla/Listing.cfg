CONSTANTS
    Flat = {"rock", "jazz"}
    Namespaces = {"time:"}
    Keys = {"year"}
    Values = {"2000"}
    Lookalikes = {}
    Typed = {"jazz", "time:", "year", "2000"}
    Skipped = {"inc", "lt", "excludes", "is_equivalent", "=mine", "alias", "archive"}
    Aliases = {"=mine"}
    MaxTag = 3
    MaxRelations = 2
    MaxDepth = 6
    MaxStore = 4
SPECIFICATION Spec
INVARIANTS
    ListedCanBeEntered
    RelationsCanBeEntered
    CreatedIsListed
    RemovedIsGone
    OfferedPathsParse
