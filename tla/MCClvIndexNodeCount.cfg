SPECIFICATION Spec
CONSTANTS
    Nodes = {n1, n2}
    Closed = {n1, n2}
    SHARDBUFFER = 2
    MaxLogs = 3
CHECK_DEADLOCK FALSE
INVARIANT SignalMeansFullBuffer
