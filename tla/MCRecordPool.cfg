SPECIFICATION Spec
CONSTANTS
    Cursors = {c1, c2}
    Records = {r1, r2, r3, r4}
    Schemas <- MCSchemas
    Nil = Nil
    CpuNum = 1
    MinCacheSize = 2
    MaxCacheSize = 3
    RecordNum = 2
    RecMaxLenForRuse = 2
    RecMaxRowNumForRuse = 1
    MaxRows = 2
    Lookback = 1
SYMMETRY MCSymmetry
INVARIANT TypeOK
PROPERTY ImplementsOwnership
PROPERTY GetLeavesHeldRecords
