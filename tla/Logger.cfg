\* Two threads that log and reconfigure, and a name of length 1 of which 2 are to be stripped.
CONSTANTS
    t1 = t1
    t2 = t2
    Syslog = Syslog
    NoStream = NoStream
    NoThread = NoThread
    NameLength = 1
    Priorities <- MCPriorities
    Threads = {t1, t2}
    Streams = {"out", "err"}
    Strips = {0, 2}
    MaxLevels <- MCMaxLevels
SPECIFICATION Spec
INVARIANTS
    TypeOK
    Settled
    ExactIfUndisturbed
    CurrentDestination
    NothingLost
