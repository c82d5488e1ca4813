SPECIFICATION Spec
CONSTANTS
    WindowNum = 2
    Window = 2
    FieldCallsLen = 1
    Dests = {7}
    UintMax = 255
    CacheCap = 1
    Times = {1}
    FieldSets = {{0}}
    MaxBatch = 1
    MaxRows = 2
    MaxTicks = 3
PROPERTY FlushReturns
PROPERTY CacheIsDrained
PROPERTY StopTerminates
