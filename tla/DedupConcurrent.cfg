CONSTANTS
    c1 = c1 c2 = c2 t1 = t1 t2 = t2
    AutoTag = AutoTag Empty = Empty full = full NoSum = NoSum
    Contents = {Empty, full}
    Tags = {t1, t2}
    Clients <- TwoClients
    PathsOf <- Shared
    Truncates = TRUE
    SharesHandle = TRUE
    Unlinks = TRUE
    MaxInode = 3
    MaxOpens = 3
SPECIFICATION Spec
INVARIANTS FilesMatchRows
CHECK_DEADLOCK FALSE
