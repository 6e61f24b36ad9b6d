\* The destructor notifies without the mutex: a thread between the predicate
\* of the wait loop and the wait misses it.
CONSTANTS
    t1 = t1
    t2 = t2
    t3 = t3
    NoThread = NoThread
    Threads <- MCTwoThreads
    Modulus = 4
    InitCounts <- MCInitCounts
SPECIFICATION Spec
INVARIANT NobodySleepsAfterDestruction
