SPECIFICATION Spec
CONSTANTS
    Nodes = {n1}
    Closed = {n1}
    SHARDBUFFER = 2
    MaxLogs = 3
CHECK_DEADLOCK FALSE
PROPERTY BufferedLogsAreIndexed
