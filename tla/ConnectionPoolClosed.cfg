CONSTANTS
    t1 = t1 t2 = t2
    c1 = c1 c2 = c2 c3 = c3 c4 = c4
    NoThread = NoThread
    NoConn = NoConn
    Threads <- TwoThreads
    Nesters <- OneThread
    Conns <- ThreeConns
    MaxStatements = 1
    MaxQueries = 1
    MaxDrops = 1
    MaxLeaks = 0
SPECIFICATION Spec
INVARIANT HandsOutUsableConnection
