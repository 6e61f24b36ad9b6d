\* Three threads, a counter of 0..3: permits, sleepers and wrap-around mixed.
CONSTANTS
    t1 = t1
    t2 = t2
    t3 = t3
    NoThread = NoThread
    Threads <- MCThreads
    Modulus = 4
    InitCounts <- MCInitCounts
SPECIFICATION FairSpec
INVARIANTS
    TypeOK
    NoStrandedPermit
PROPERTIES
    AbsSpec
    SleepersNeedPermits
    DestructionEndsWaits
