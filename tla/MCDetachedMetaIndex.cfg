SPECIFICATION Spec
CONSTANTS
    MaxChunks = 3
    TailSizes = {0, 30}
    Nil = Nil
CHECK_DEADLOCK FALSE
INVARIANT TypeOK
INVARIANT ChunkIdsNameTheirItems
