\* The assertion on looking at the next token.
SPECIFICATION Spec
CONSTANT MaxTokens = 7
INVARIANT LookupHasToken
\* compileCode ends.
CHECK_DEADLOCK FALSE
