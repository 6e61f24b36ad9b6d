\* Two threads of the program, at most two in the pool. A handler that calls back can block its thread for good.
CONSTANTS
    Clients = {1, 2}
    Workers = {3, 4}
    Programs <- MCPrograms
    MaxQueue = 1
    NoThread = NoThread
SPECIFICATION FairSpec
INVARIANTS
    TypeOK
    OneGeneration
    GuardKept
PROPERTIES
    CallsReturn
CHECK_DEADLOCK FALSE
