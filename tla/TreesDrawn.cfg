\* Every text of up to eleven tokens of one of three alphabets: its parse tree,
\* its abstract tree, and the drawings of both.
SPECIFICATION TreeSpec
CONSTANTS
    MaxTokens = 11
    Alphabets <- Constructs
INVARIANTS
    TreeTypeOK
    LeavesAreTheText
    DotsShowTheTree
    AstIsTheMeaning
    AstDotsShowTheTree
\* compileCode ends.
CHECK_DEADLOCK FALSE
