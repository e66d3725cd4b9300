\* Bodies of up to two assignments and a RETURN over one parameter, one
\* variable and one constant, with every 2-bit integer as a literal.
SPECIFICATION Spec
CONSTANTS
    Parameters = {p}
    Variables = {x}
    Constants = {k}
    NullOpt = NullOpt
    Half = 2
    MaxStatements = 2
    MaxNodes = 5
INVARIANTS
    TypeOK
    KnownIsCurrent
    FoldsAreTrue
    OptimizedAgrees
    NulloptIsReported
\* A body ends with its RETURN.
CHECK_DEADLOCK FALSE
