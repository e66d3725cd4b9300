------------------------------- MODULE Lexer -------------------------------
(***************************************************************************)
(* The lexer (pljit/syntax/TokenStream.cpp) and the lines and positions it *)
(* works with (pljit/management/CodeManager.cpp).                          *)
(*                                                                         *)
(* A behaviour is one text: CodeManager's constructor splits it, then      *)
(* compileCode walks through each line; its loops over characters are the  *)
(* operator Until, each round of the loops around them is an action.       *)
(* Lines are views into the text, as the string_views of code_lines are.   *)
(* Lines and columns count from 1, as in the messages.                     *)
(***************************************************************************)
EXTENDS Lexemes, FiniteSets

CONSTANT MaxLength  \* bound: characters of the text

ASSUME LengthAssumption == MaxLength \in Nat

VARIABLES
    text,          \* sourceCode
    stage,         \* how far text and tokens are read
    next_line,     \* where the constructor's next line begins
    code_lines,    \* the lines: where each begins, and its size
    line_index,    \* the line compileCode is in
    begin_index,   \* and the column
    streamTokens,  \* tokens found: CodeReference and type
    printed        \* CodeReferences of the messages printed

lines == <<text, next_line, code_lines>>
vars == <<text, stage, next_line, code_lines, line_index, begin_index,
          streamTokens, printed>>

Views == [from : Nat \ {0}, size : Nat]
References == [line : Nat \ {0}, first : Nat \ {0}, last : Nat]
Whole == [from |-> 1, size |-> Len(text)]

\* Position in the text of a column of a view.
At(view, column) == view.from + column - 1

CharAt(view, column) == text[At(view, column)]

\* The first column from begin on that is end or holds a character in S.
Until(view, begin, end, S) ==
    CHOOSE column \in begin .. end :
        /\ column = end \/ CharAt(view, column) \in S
        /\ \A c \in begin .. column - 1 : CharAt(view, c) \notin S

Reference(line, first, last) == [line |-> line, first |-> first, last |-> last]

Init ==
    /\ text \in UNION {[1 .. n -> Characters] : n \in 0 .. MaxLength}
    /\ stage = "splitting"
    /\ next_line = 1
    /\ code_lines = <<>>
    /\ line_index = 1
    /\ begin_index = 1
    /\ streamTokens = <<>>
    /\ printed = <<>>

-----------------------------------------------------------------------------
(* CodeManager::CodeManager.                                               *)

LineEnd == Until(Whole, next_line, Len(text) + 1, {Newline})

\* A mutation: empty lines are left out.
SplitNonemptyLine ==
    /\ stage = "splitting"
    /\ next_line <= Len(text)
    /\ code_lines' = IF LineEnd = next_line THEN code_lines
                     ELSE Append(code_lines, [from |-> next_line,
                                              size |-> LineEnd - next_line])
    /\ next_line' = LineEnd + 1
    /\ UNCHANGED <<text, stage, line_index, begin_index, streamTokens, printed>>

SplitLine ==
    /\ stage = "splitting"
    /\ next_line <= Len(text)
    /\ code_lines' = Append(code_lines, [from |-> next_line,
                                         size |-> LineEnd - next_line])
    /\ next_line' = LineEnd + 1
    /\ UNCHANGED <<text, stage, line_index, begin_index, streamTokens, printed>>

\* The text is split, and Pljit calls compileCode.
StartLexing ==
    /\ stage = "splitting"
    /\ next_line > Len(text)
    /\ stage' = "lexing"
    /\ UNCHANGED <<lines, line_index, begin_index, streamTokens, printed>>

-----------------------------------------------------------------------------
(* TokenStream::compileCode.                                               *)

isKeyword(word) == word \in Keywords

isIdentifier(word) == \A c \in DOMAIN word : word[c] \in Letters \cup Gap

isLiteral(word) == \A c \in DOMAIN word : word[c] \in Digits

NoType == "unexpected token"

ASSUME TypeAssumption == NoType \notin Types

\* A mutation: the first character decides.
TokenTypeByFirst(word) ==
    IF isKeyword(word) THEN "KEYWORD"
    ELSE IF word[1] \in Letters \cup Gap THEN "IDENTIFIER"
    ELSE IF word[1] \in Digits THEN "LITERAL"
    ELSE IF word = <<":", "=">> THEN ":="
    ELSE IF word[1] \in Signs \cup {"="} THEN word[1]
    ELSE NoType

TokenType(word) ==
    IF isKeyword(word) THEN "KEYWORD"
    ELSE IF isIdentifier(word) THEN "IDENTIFIER"
    ELSE IF isLiteral(word) THEN "LITERAL"
    ELSE IF word = <<":", "=">> THEN ":="
    ELSE IF word[1] \in Signs \cup {"="} THEN word[1]
    ELSE NoType

NoIndex == 0

\* A mutation: a token ends where letters turn into digits.
getNextIndexOfOneKind(line, begin, end) ==
    LET c == CharAt(line, begin)
        kind == IF c \in Digits THEN Digits ELSE Letters \cup Gap
    IN IF c \in WordCharacters
       THEN Until(line, begin + 1, end, Characters \ kind)
       ELSE IF c \in Signs \cup {"="} THEN begin + 1
       ELSE IF c = ":" /\ begin + 1 < end /\ CharAt(line, begin + 1) = "="
       THEN begin + 2
       ELSE NoIndex

\* The column after the token that begins at begin; end is the next white
\* space or the end of the line.
getNextIndex(line, begin, end) ==
    LET c == CharAt(line, begin)
    IN IF c \in WordCharacters
       THEN Until(line, begin + 1, end, Characters \ WordCharacters)
       ELSE IF c \in Signs \cup {"="} THEN begin + 1
       ELSE IF c = ":" /\ begin + 1 < end /\ CharAt(line, begin + 1) = "="
       THEN begin + 2
       ELSE NoIndex

Line == code_lines[line_index]

InLine ==
    /\ stage = "lexing"
    /\ line_index <= Len(code_lines)
    /\ begin_index <= Line.size

\* end_index: the same for each token of a stretch without white space.
WordEnd == Until(Line, begin_index, Line.size + 1, WhiteSpace)

NextIndex == getNextIndex(Line, begin_index, WordEnd)

Word(next) == SubSeq(text, At(Line, begin_index), At(Line, next) - 1)

\* A mutation: the loop does not count on.
SkipNothing ==
    /\ InLine
    /\ CharAt(Line, begin_index) \in WhiteSpace
    /\ begin_index' = begin_index
    /\ UNCHANGED <<lines, stage, line_index, streamTokens, printed>>

\* No token begins here; the outer loop counts on.
SkipWhiteSpace ==
    /\ InLine
    /\ CharAt(Line, begin_index) \in WhiteSpace
    /\ begin_index' = begin_index + 1
    /\ UNCHANGED <<lines, stage, line_index, streamTokens, printed>>

TakeToken ==
    /\ InLine
    /\ CharAt(Line, begin_index) \notin WhiteSpace
    /\ NextIndex # NoIndex
    /\ TokenType(Word(NextIndex)) # NoType
    /\ streamTokens' = Append(streamTokens,
          [reference |-> Reference(line_index, begin_index, NextIndex - 1),
           type |-> TokenType(Word(NextIndex))])
    /\ begin_index' = NextIndex
    /\ UNCHANGED <<lines, stage, line_index, printed>>

\* A mutation: the exclusive end is printed as the last character.
printTokenFailureBeyond(first, last) ==
    /\ printed' = Append(printed, Reference(line_index, first, last + 1))
    /\ stage' = "rejected"

printTokenFailure(first, last) ==
    /\ printed' = Append(printed, Reference(line_index, first, last))
    /\ stage' = "rejected"

RejectCharacter ==
    /\ InLine
    /\ CharAt(Line, begin_index) \notin WhiteSpace
    /\ NextIndex = NoIndex
    /\ printTokenFailure(begin_index, begin_index)
    /\ UNCHANGED <<lines, line_index, begin_index, streamTokens>>

RejectWord ==
    /\ InLine
    /\ CharAt(Line, begin_index) \notin WhiteSpace
    /\ NextIndex # NoIndex
    /\ TokenType(Word(NextIndex)) = NoType
    /\ printTokenFailure(begin_index, NextIndex - 1)
    /\ UNCHANGED <<lines, line_index, begin_index, streamTokens>>

EndLine ==
    /\ stage = "lexing"
    /\ line_index <= Len(code_lines)
    /\ begin_index > Line.size
    /\ line_index' = line_index + 1
    /\ begin_index' = 1
    /\ UNCHANGED <<lines, stage, streamTokens, printed>>

Accept ==
    /\ stage = "lexing"
    /\ line_index > Len(code_lines)
    /\ stage' = "accepted"
    /\ UNCHANGED <<lines, line_index, begin_index, streamTokens, printed>>

-----------------------------------------------------------------------------
(* CodeManager::printCompileError for the end of the text, which the       *)
(* parser calls when it needs a token and none is left.                    *)

\* A mutation: a text without lines is not looked at.
EndOfLines == Reference(Len(code_lines), 1, 1)

EndOfText ==
    IF code_lines = <<>> THEN Reference(1, 1, 1)
    ELSE LET size == code_lines[Len(code_lines)].size
         IN Reference(Len(code_lines), size + 1, size + 1)

ReportEndOfText ==
    /\ stage = "accepted"
    /\ printed' = Append(printed, EndOfText)
    /\ stage' = "reported"
    /\ UNCHANGED <<lines, line_index, begin_index, streamTokens>>

Next ==
    \/ SplitLine
    \/ StartLexing
    \/ SkipWhiteSpace
    \/ TakeToken
    \/ RejectCharacter
    \/ RejectWord
    \/ EndLine
    \/ Accept
    \/ ReportEndOfText

Spec == Init /\ [][Next]_vars

\* The constructor and compileCode run to their ends.
FairSpec == Spec /\ WF_vars(Next)

-----------------------------------------------------------------------------
(* Properties.                                                             *)

\* The position of a reference's first and last character in the text.
From(r) == At(code_lines[r.line], r.first)
To(r) == At(code_lines[r.line], r.last)

\* Type invariant.
TypeOK ==
    /\ text \in Seq(Characters)
    /\ stage \in {"splitting", "lexing", "accepted", "rejected", "reported"}
    /\ next_line \in 1 .. Len(text) + 2
    /\ code_lines \in Seq(Views)
    /\ line_index \in 1 .. Len(code_lines) + 1
    /\ begin_index \in Nat \ {0}
    /\ streamTokens \in Seq([reference : References, type : Types])
    /\ printed \in Seq(References)

\* CodeManager's constructor gives every character the line and the column
\* that an editor shows: the line after as many newlines as precede it, the
\* column that counts from the last of them.  Messages are made of these.
LinesAreTheText ==
    stage # "splitting" =>
        \A p \in DOMAIN text :
            text[p] = Newline \/
            \E k \in DOMAIN code_lines :
                LET line == code_lines[k]
                IN /\ p \in line.from .. line.from + line.size - 1
                   /\ \A q \in line.from .. p : text[q] # Newline
                   /\ line.from > 1 => text[line.from - 1] = Newline
                   /\ k = 1 + Cardinality({q \in 1 .. p : text[q] = Newline})

\* The tokens of an accepted text are its lexemes, of a rejected text those
\* before the message: none is cut short, glued to its neighbour, lost at the
\* end of a line or of the wrong type, although the loops look at a line at a
\* time and at a stretch without white space at a time.
TokensAreLexemes ==
    /\ \A n \in DOMAIN streamTokens :
          LET token == streamTokens[n]
          IN /\ IsLexeme(text, From(token.reference), To(token.reference), token.type)
             /\ n > 1 => To(streamTokens[n - 1].reference) < From(token.reference)
    /\ stage \in {"accepted", "reported", "rejected"} =>
          \A from, to \in DOMAIN text : \A type \in Types :
              IsLexeme(text, from, to, type) =>
                  \/ stage = "rejected" /\ from > From(printed[1])
                  \/ \E n \in DOMAIN streamTokens :
                        /\ From(streamTokens[n].reference) = from
                        /\ To(streamTokens[n].reference) = to
                        /\ streamTokens[n].type = type

\* compileCode returns false exactly for a text with a mistake, and the one
\* message shows the first mistake and nothing else of the text.
FirstMistakeIsReported ==
    /\ stage \in {"accepted", "reported"} =>
          \A from, to \in DOMAIN text : ~IsMistake(text, from, to)
    /\ stage = "rejected" =>
          /\ Len(printed) = 1
          /\ IsMistake(text, From(printed[1]), To(printed[1]))
          /\ \A from, to \in DOMAIN text :
                IsMistake(text, from, to) => from >= From(printed[1])

\* The assertions of the printing functions, and what substr asks for: a
\* CodeReference is a range of characters of one line that exists.
FitsInLine(r) ==
    /\ r.line \in DOMAIN code_lines
    /\ r.first <= r.last /\ r.last <= code_lines[r.line].size

ReferencesFit ==
    /\ \A n \in DOMAIN streamTokens : FitsInLine(streamTokens[n].reference)
    /\ stage = "rejected" => FitsInLine(printed[1])

\* The constructor and compileCode end for every text.
LexingEnds == <>(stage \in {"accepted", "reported", "rejected"})

\* CodeManager.cpp:95 and 107 assert that the last line is not empty when an
\* error is printed at the end of the text.
LastLineIsNotEmpty ==
    stage = "reported" /\ code_lines # <<>> =>
        code_lines[Len(code_lines)].size > 0
=============================================================================
