\* A text that ends with an empty line.
SPECIFICATION Spec
CONSTANTS
    Letters = {"E", "x"}
    Gap = {"_"}
    Digits = {"0", "7"}
    Signs = {"+"}
    Blanks = {" "}
    Others = {"?"}
    Keywords <- Reserved
    Half = 128
    MaxLength = 3
INVARIANT LastLineIsNotEmpty
\* The call returns.
CHECK_DEADLOCK FALSE
