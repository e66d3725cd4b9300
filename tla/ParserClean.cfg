\* The assertion on the messages of a successful parse.
SPECIFICATION Spec
CONSTANT MaxTokens = 7
INVARIANT AcceptedIsClean
\* compileCode ends.
CHECK_DEADLOCK FALSE
