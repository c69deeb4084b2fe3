CONSTANTS
    a = a
    b = b
    c = c
    t1 = t1
    t2 = t2
    Threads = {w1, w2}
    Names = {a, b}
    Tags = {t1, t2}
    Debris = Debris
    Missing = Missing
    Prefix <- NoPrefix
    Values <- NestedValues
    Paths <- NestedPaths
    Ops = {"query", "update", "create", "delete", "rename", "write", "truncate", "getattr"}
    MaxPath = 6
    MaxEdits = 5
SPECIFICATION FairSpec
INVARIANTS ExpandsExactly AliasStaysForGetattr
CHECK_DEADLOCK FALSE
PROPERTY ExpansionEnds
