SPECIFICATION Spec
CONSTANTS
    Records = {r1, r2}
    Nil = Nil
    Values = {1}
    SchemaLens = {1, 2}
    MaxCols = 2
    MaxRows = 2
    MaxTimes = 2
    MaxCalls = 7
SYMMETRY Symmetry
INVARIANT TypeOK
PROPERTY ForwardSlicesReadTheirRows
