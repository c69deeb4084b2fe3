CONSTANTS
    a = a
    b = b
    c = c
    t1 = t1
    t2 = t2
    Threads = {w1, w2}
    Names = {a, b}
    Tags = {t1, t2}
    Debris = Debris
    Missing = Missing
    Prefix <- NoPrefix
    Values <- CircleValues
    Paths <- OneAlias
    Ops = {"query", "create", "write"}
    MaxPath = 3
    MaxEdits = 4
SPECIFICATION FairSpec
PROPERTY AliasesExpand
CHECK_DEADLOCK FALSE
