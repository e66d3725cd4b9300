\* Every text of up to five characters.
SPECIFICATION FairSpec
CONSTANTS
    Letters = {"E", "x"}
    Gap = {"_"}
    Digits = {"0", "7"}
    Signs = {"+"}
    Blanks = {" "}
    Others = {"?"}
    Keywords <- Reserved
    Half = 128
    MaxLength = 5
INVARIANTS
    TypeOK
    LinesAreTheText
    TokensAreLexemes
    FirstMistakeIsReported
    ReferencesFit
    LiteralsHaveTheirNumber
PROPERTY LexingEnds
\* The call returns.
CHECK_DEADLOCK FALSE
