CONSTANTS
    NoKV = NoKV NoName = NoName NoTarget = NoTarget
    TagNames <- ThreeTags
    ObjNames = {"f", "g"}
    Targets = {"t"}
    Requests <- Misspelt
    Linkers = {}
    Links = {}
    Lookups <- ThreeTags
    DiskFails = FALSE
    Races = FALSE
    MaxTag = 3
    MaxInode = 1
    MaxCrashes = 0
SPECIFICATION Spec
INVARIANT UnlinkSparesTagged
