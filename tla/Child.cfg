\* Two threads that fork twice in all; a command writes at most twice what a pipe holds.
CONSTANTS
    Threads = {1, 2}
    Programs <- MCPrograms
    MaxForks = 2
    MaxChunks = 2
    PipeSize = 1
    NoThread = NoThread
SPECIFICATION FairSpec
INVARIANTS
    TypeOK
    StatusIsOwn
    OutputComplete
    NothingLeft

    
