\* Three threads on two pools, one of them named "", and two connections.
CONSTANTS
    c1 = c1
    c2 = c2
    db = db
    AllParams = AllParams
    NoThread = NoThread
    NoConn = NoConn
    NoParam = NoParam
    Threads = {1, 2, 3}
    Params <- MCParams
    Conns <- MCConns
SYMMETRY Interchangeable
SPECIFICATION Spec
INVARIANTS
    TypeOK
    UsedIsPooled
    Exclusive
    ConnectOnlyIfNoneIdle
    PurgeIsComplete
