\* Bodies of up to two assignments and a RETURN over one parameter, one
\* variable and one constant, on 2-bit integers.
SPECIFICATION Spec
CONSTANTS
    Parameters = {p}
    Variables = {x}
    Constants = {k}
    NullOpt = NullOpt
    Half = 2
    MaxStatements = 2
    MaxNodes = 3
INVARIANT SameFailure
\* A body ends with its RETURN.
CHECK_DEADLOCK FALSE
