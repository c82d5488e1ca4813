SPECIFICATION Spec
CONSTANTS
    WindowNum = 2
    Window = 2
    FieldCallsLen = 2
    CountCalls = {0}
    Dests = {7, 8}
    MCTimes = {1, 3, 4}
    MCTypes = {"float", "none"}
    MaxRecRows = 2
    MaxRecs = 2
    MaxUpdates = 2
    Records <- MCNilsCountedOnly
INVARIANT TypeOK
INVARIANT RecordFoldedAsBelongs
