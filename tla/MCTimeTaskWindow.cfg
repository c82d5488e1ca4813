SPECIFICATION Spec
CONSTANTS
    WindowNum = 2
    Window = 2
    FieldCallsLen = 2
    Dests = {7}
    UintMax = 255
    CacheCap = 1
    Times = {1, 2, 3, 4, 5, 6}
    FieldSets = {{0, 1}, {1}}
    MaxBatch = 1
    MaxRows = 1
    MaxTicks = 5
INVARIANT WrittenRowsBelongToWindow
