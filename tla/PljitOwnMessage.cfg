\* Two threads divide by zero in the same function (TestThreadSafe).
SPECIFICATION Spec
CONSTANTS
    Callers = {"t1", "t2"}
    NoCaller = "none"
    MaxFunctions = 1
    MaxCalls = 1
    Sources = {"valid"}
    MaxErrors = 1
    Pieces = 2
INVARIANT OwnMessage
CHECK_DEADLOCK FALSE
