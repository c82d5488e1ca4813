SPECIFICATION StoreSpec
CONSTANTS
    Files <- MCFiles
    Measurements = {mst}
    Threads = {t1, t2}
    Compactors = {c1}
    LevelMinGroupFiles <- MCLevelMinGroupFiles
    Cacheable <- MCCacheable
    Nil = Nil
CHECK_DEADLOCK FALSE
INVARIANT CompactionsShareNoFile
PROPERTY ImplementsFileLease
PROPERTY DroppedMeasurementStaysAbsent
PROPERTY CompactMarksAreCleared
PROPERTY ClosedFilesAreReleased
