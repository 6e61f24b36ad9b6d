\* The template's main(): stopWhenIdle(false), then runHere().
CONSTANTS
    Clients = {1, 2}
    Workers = {3}
    Programs <- MCCareful
    MaxQueue = 1
    NoThread = NoThread
SPECIFICATION Spec
INVARIANTS
    KeepsRunning
CHECK_DEADLOCK FALSE
