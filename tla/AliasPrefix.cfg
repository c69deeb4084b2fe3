CONSTANTS
    a = a
    b = b
    c = c
    t1 = t1
    t2 = t2
    Threads = {w1}
    Names = {a, c}
    Tags = {t1, t2}
    Debris = Debris
    Missing = Missing
    Prefix <- AIsPrefixOfC
    Values <- PrefixValues
    Paths <- PrefixPaths
    Ops = {"query", "create", "write"}
    MaxPath = 6
    MaxEdits = 4
SPECIFICATION Spec
INVARIANT ExpandsExactly
