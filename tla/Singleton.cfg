\* An application object that logs when it is constructed and destroyed; three threads.
CONSTANTS
    Threads = {1, 2, 3}
    Classes <- MCClasses
    CtorUses <- MCUses
    DtorUses <- MCUses
    Programs <- MCPrograms
    MaxMade = 2
    NoThread = NoThread
SPECIFICATION FairSpec
INVARIANTS
    TypeOK
    OneInstance
    NoneLeft
PROPERTIES
    ExitConstructsNothing
    CallsReturn
