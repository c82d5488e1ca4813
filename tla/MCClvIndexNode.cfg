SPECIFICATION Spec
CONSTANTS
    Nodes = {n1, n2}
    Closed = {n1}
    SHARDBUFFER = 1
    MaxLogs = 3
CHECK_DEADLOCK FALSE
INVARIANT TypeOK
PROPERTY CloseStopsUpdater
PROPERTY CallerReturns
