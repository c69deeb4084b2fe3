CONSTANTS
    a = a
    b = b
    c = c
    t1 = t1
    t2 = t2
    Threads = {w1}
    Names = {a, b}
    Tags = {t1, t2}
    Debris = Debris
    Missing = Missing
    Prefix <- NoPrefix
    Values <- NestedValues
    Paths <- NestedPaths
    Ops = {"target", "create", "write"}
    MaxPath = 6
    MaxEdits = 4
SPECIFICATION Spec
INVARIANT TargetsExpand
