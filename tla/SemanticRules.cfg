\* Every text of up to three declarations and three statements, whose
\* expressions have up to two activations waiting below their statement.
SPECIFICATION Spec
CONSTANTS
    Names = {x, y, z}
    NoName = NoName
    MaxDeclarations = 3
    MaxStatements = 3
    MaxFrames = 3
SYMMETRY Renaming
INVARIANTS
    TypeOK
    AnalysisIsExact
    OneMessagePerRejection
    ReadsHaveValue
    AssertionsHold
    NulloptIsReported
    ArgumentsInOrder
\* The call returns.
CHECK_DEADLOCK FALSE
