\* Two threads, two observers, one of which stays; two set() calls at once, on one thread or on both.
CONSTANTS
    t1 = t1
    t2 = t2
    o1 = o1
    o2 = o2
    NoThread = NoThread
    NoObserver = NoObserver
    Threads <- MCThreads
    Observers <- MCObservers
    Values <- MCValues
    Transient = {o1}
    MaxSets = 2
SPECIFICATION FairSpec
INVARIANTS
    TypeOK
    NoDuplicates
    UpdateOnItsWay
PROPERTIES
    CallsReturn
