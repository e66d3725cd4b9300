\* Two threads call two functions of any kind, or three that the parser
\* refuses, twice, while the parser numbers its nodes.
SPECIFICATION FairNodesSpec
CONSTANTS
    t1 = t1
    t2 = t2
    Callers = {t1, t2}
    NoCaller = NoCaller
    MaxFunctions = 3
    MaxCalls = 2
    Sources = {"parseError", "brokenDeclaration", "unfinished", "foldTraps", "valid"}
    MaxErrors = 1
    Pieces = 1
    MaxNodes = 3
    MaxMixed = 2
    Builders = {"parse"}
INVARIANTS
    NodesTypeOK
    CompileOnce
    EvaluateOptimizedOnly
    RepliesAgree
    NoResidue
    UndisturbedMessage
    NumbersAreUnique
PROPERTIES
    VerdictIsFinal
    ImplementsService
    EveryCallReturns
\* Every thread stops after MaxCalls calls.
CHECK_DEADLOCK FALSE
