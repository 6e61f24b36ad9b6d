\* One thread logs while another switches from a stream to syslog.
CONSTANTS
    t1 = t1
    t2 = t2
    Syslog = Syslog
    NoStream = NoStream
    NoThread = NoThread
    NameLength = 1
    Priorities <- MCPriorities
    Threads = {t1, t2}
    Streams = {"out"}
    Strips = {0}
    MaxLevels <- MCAllLevels
SPECIFICATION Spec
INVARIANTS
    DestinationFound
