CONSTANTS
    NoKV = NoKV NoName = NoName NoTarget = NoTarget
    TagNames <- Triples
    ObjNames = {"f", "g"}
    Targets = {"t"}
    Requests <- Machine
    Linkers = {}
    Links = {}
    Lookups <- ExactLookups
    DiskFails = FALSE
    Races = FALSE
    MaxTag = 3
    MaxInode = 1
    MaxCrashes = 0
SPECIFICATION Spec
INVARIANT CacheCoherent
