CONSTANTS
    Sqlite = Sqlite Mysql = Mysql None = None Absent = Absent NoSum = NoSum Junk = Junk
    Everything = Everything NoFilter = NoFilter
    MaxKeywords = 3
    MaxInode = 3
    Kind <- Files
    Contents <- TwoContents
    Data <- ThreeData
    Databases = {Sqlite, Mysql}
    Installed <- ImagePlugins
    BrokenPlugins <- NoPdf
    Environments <- BackgroundOnly
SPECIFICATION Spec
PROPERTY TouchedFilesRescanned
CHECK_DEADLOCK FALSE
