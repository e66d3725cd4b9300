------------------------------ MODULE Lexemes ------------------------------
(***************************************************************************)
(* The characters of a source text, the tokens it consists of and what is  *)
(* wrong with it, stated of the whole text (pljit/syntax/TokenStream.cpp;  *)
(* final.pdf p. 9, but for two choices of the code: a literal that runs    *)
(* into letters is a mistake, and the six characters between 'Z' and 'a'   *)
(* may stand in identifiers).  A lexeme is a range of positions in the     *)
(* text with the type of the token.                                        *)
(***************************************************************************)
EXTENDS Naturals, Sequences

CONSTANTS
    Letters,   \* lower- and upper-case letters
    Gap,       \* the characters between 'Z' and 'a'
    Digits,
    Signs,     \* . , ; + - / * ( )
    Blanks,    \* white space other than the newline
    Others,    \* characters that belong to no token
    Keywords   \* words that are no identifiers

Newline == "\n"
WordCharacters == Letters \cup Gap \cup Digits
WhiteSpace == Blanks \cup {Newline}
Characters ==
    WordCharacters \cup Signs \cup {":", "="} \cup WhiteSpace \cup Others
Types == {"KEYWORD", "IDENTIFIER", "LITERAL", ":=", "="} \cup Signs

Kinds ==
    <<Letters, Gap, Digits, Signs, Blanks, Others, {":", "=", Newline}>>

ASSUME CharacterAssumption ==
    \A i, j \in DOMAIN Kinds : i # j => Kinds[i] \cap Kinds[j] = {}

ASSUME KeywordAssumption == Keywords \subseteq Seq(Letters)

-----------------------------------------------------------------------------

\* A run of letters and digits that cannot be made longer.
IsWord(text, from, to) ==
    /\ from \in 1 .. Len(text) /\ to \in from .. Len(text)
    /\ \A p \in from .. to : text[p] \in WordCharacters
    /\ from > 1 => text[from - 1] \notin WordCharacters
    /\ to < Len(text) => text[to + 1] \notin WordCharacters

Consists(text, from, to, S) == \A p \in from .. to : text[p] \in S

IsKeywordAt(text, from, to) == SubSeq(text, from, to) \in Keywords

\* The range from .. to of the text is a token of this type.
IsLexeme(text, from, to, type) ==
    \/ /\ IsWord(text, from, to)
       /\ \/ type = "KEYWORD" /\ IsKeywordAt(text, from, to)
          \/ /\ type = "IDENTIFIER" /\ ~IsKeywordAt(text, from, to)
             /\ Consists(text, from, to, Letters \cup Gap)
          \/ type = "LITERAL" /\ Consists(text, from, to, Digits)
    \/ /\ from \in 1 .. Len(text) /\ to = from
       /\ type = text[from]
       /\ \/ type \in Signs
          \/ type = "=" /\ (from > 1 => text[from - 1] # ":")
    \/ /\ from \in 1 .. Len(text) - 1 /\ to = from + 1
       /\ text[from] = ":" /\ text[to] = "="
       /\ type = ":="

\* The range from .. to of the text is no token and part of none.
IsMistake(text, from, to) ==
    \/ /\ IsWord(text, from, to)
       /\ ~Consists(text, from, to, Letters \cup Gap)
       /\ ~Consists(text, from, to, Digits)
    \/ /\ from \in 1 .. Len(text) /\ to = from
       /\ \/ text[from] \in Others
          \/ text[from] = ":" /\ (from < Len(text) => text[from + 1] # "=")
=============================================================================
