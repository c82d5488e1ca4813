SPECIFICATION Spec
CONSTANTS
    WindowNum = 2
    Window = 2
    FieldCallsLen = 2
    CountCalls = {0}
    Dests = {7}
    MCTimes = {1, 3, 4}
    MCTypes = {"float", "int", "none"}
    MaxRecRows = 2
    MaxRecs = 1
    MaxUpdates = 1
    Records <- MCNilsCountedOnly
INVARIANT RowsOutsideRingAreSkipped
