CONSTANTS
    NoKV = NoKV NoName = NoName NoTarget = NoTarget
    TagNames <- FlatTags
    ObjNames = {"f", "g"}
    Targets = {"t"}
    Requests <- AllWork
    Linkers = {l1, l2}
    Links <- SomeLinks
    Lookups <- FlatTags
    DiskFails = TRUE
    Races = FALSE
    MaxTag = 4
    MaxInode = 2
    MaxCrashes = 1
SPECIFICATION Spec
INVARIANTS TypeOK TaggedObjectsExist CacheCoherent IdsAreLive CrashDamage
PROPERTY RequestsAreAtomic
