SPECIFICATION Spec
CONSTANTS
    Nil = Nil
    Names = {1, 2}
    Times = {1, 2, 3}
    MaxRows = 3
    MaxNils = 1
    MaxLimit = 3
CHECK_DEADLOCK FALSE
INVARIANT PagesAreTheMerge
INVARIANT PageFillsTheLimit
INVARIANT KickNilRowKeepsValuedRows
INVARIANT ValueIndexRangeNamesTheValues
INVARIANT IntervalFillKeepsValuedRows
