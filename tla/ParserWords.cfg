\* Every token stream of up to ten tokens, beside the grammar.
SPECIFICATION CheckedSpec
CONSTANT MaxTokens = 10
INVARIANTS
    TypeOK
    RejectedIsReported
    AcceptsOnlyWords
    RefusesOnlyNonWords
    AdviceIsViable
PROPERTY Terminates
\* compileCode ends.
CHECK_DEADLOCK FALSE
