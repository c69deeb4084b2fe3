CONSTANTS
    c1 = c1 c2 = c2 t1 = t1 t2 = t2
    AutoTag = AutoTag Empty = Empty full = full NoSum = NoSum
    Contents = {Empty, full}
    Tags = {t1, t2}
    Clients <- OneClient
    PathsOf <- AloneCommonTag
    Truncates = FALSE
    SharesHandle = FALSE
    Unlinks = FALSE
    MaxInode = 2
    MaxOpens = 2
SPECIFICATION Spec
INVARIANT AllTagsTransferred
