CONSTANTS
    h1 = h1 h2 = h2 f1 = f1 f2 = f2 v = v
    Special = Special Foreign = Foreign NoFile = NoFile Free = Free Empty = Empty
    Handles <- Two
    Files <- TwoFiles
    Values <- Contents
    MaxFd = 4
    MaxOthers = 1
    MaxLost = 1
    Environments <- OnlyShared
SYMMETRY Symmetry
SPECIFICATION Spec
PROPERTY NothingEverShows
CHECK_DEADLOCK FALSE
