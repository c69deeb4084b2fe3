CONSTANTS
    t1 = t1 t2 = t2
    c1 = c1 c2 = c2 c3 = c3 c4 = c4
    NoThread = NoThread
    NoConn = NoConn
    Threads <- TwoThreads
    Nesters <- OneThread
    Conns <- FourConns
    MaxStatements = 2
    MaxQueries = 1
    MaxDrops = 1
    MaxLeaks = 1
SPECIFICATION FairSpec
INVARIANTS TypeOK WriterExclusion ExclusiveConnection NoStrayTransaction SessionsAreWarranted AllOrNothing
PROPERTY ReadersAreServed
