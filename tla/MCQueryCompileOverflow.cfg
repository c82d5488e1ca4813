SPECIFICATION Spec
CONSTANTS
    Statements <- MCStatements
    Parents <- MCParents
    ProjectOps <- MCProjectOps
    AggregateOps <- MCAggregateOps
    MathFunctions <- MCMathFunctions
    CompileOp <- MCCompileOp
    MinTime <- MCMinTime
    MaxTime = 8
    Now = 6
    ZeroTime = ZeroTime
    DurationBits = 3
    Nil = Nil
CHECK_DEADLOCK FALSE
INVARIANT ShardsCoverTheTimeRange
