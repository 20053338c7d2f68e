CONSTANTS
    Symbol = {a}
    Contract = {x}
    Closing = TRUE
    MaxSignals = 2
    Worker = {w1}
    QueueDepth = 1
    Faults = {}
    None = None
SPECIFICATION FairSpec
CHECK_DEADLOCK FALSE
PROPERTY CloseIsPersisted
