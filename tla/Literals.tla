------------------------------ MODULE Literals ------------------------------
(***************************************************************************)
(* The numbers that the semantic analysis (pljit/semantic/AST.cpp) reads   *)
(* from the literals of a text: it finds the digits again through the      *)
(* CodeReference that the lexer gave the token.                            *)
(***************************************************************************)
EXTENDS Lexer, Integers

CONSTANT Half  \* bound: numbers are in -Half .. Half - 1

ASSUME WidthAssumption == Half \in Nat \ {0}

Decimals == <<"0", "1", "2", "3", "4", "5", "6", "7", "8", "9">>

ASSUME DigitsAssumption == Digits \subseteq {Decimals[i] : i \in DOMAIN Decimals}

\* A character is not the name of a type of tokens.
ASSUME NameAssumption == "LITERAL" \notin Signs

\* c - '0'
DigitValue(c) == CHOOSE d \in 0 .. 9 : Decimals[d + 1] = c

\* What an int64_t keeps of n.
Wrap(n) == ((n + Half) % (2 * Half)) - Half

\* string_view::substr, which stops at the end of the view.
Substr(view, column, n) ==
    LET end == IF column + n <= view.size THEN column + n ELSE view.size + 1
    IN SubSeq(text, At(view, column), At(view, end) - 1)

\* A mutation: the last column is taken for the one after it.
print_token_exclusive(r) == Substr(code_lines[r.line], r.first, r.last - r.first)

print_token(r) == Substr(code_lines[r.line], r.first, r.last - r.first + 1)

\* There is no check of the range.
str_to_int64(literal) ==
    LET value[n \in 0 .. Len(literal)] ==
            IF n = 0 THEN 0 ELSE Wrap(value[n - 1] * 10 + DigitValue(literal[n]))
    IN value[Len(literal)]

\* The number that the digits from .. to of the text stand for: last[n] is what
\* the last n of them do, each worth its place.
Number(from, to) ==
    LET size == to - from + 1
        power[n \in 0 .. size] == IF n = 0 THEN 1 ELSE power[n - 1] * 10
        last[n \in 0 .. size] ==
            IF n = 0 THEN 0
            ELSE last[n - 1] + DigitValue(text[to - n + 1]) * power[n - 1]
    IN last[size]

\* The number of a literal is the one written in the text, whatever line and
\* column it stands in and whatever its neighbours are, if it is in range; if
\* not, it is that number modulo the width, silently.  Its characters are
\* digits, as AST.cpp:24 asserts.
LiteralsHaveTheirNumber ==
    \A n \in DOMAIN streamTokens :
        streamTokens[n].type = "LITERAL" =>
            LET r == streamTokens[n].reference
                word == print_token(r)
            IN /\ word # <<>> /\ Consists(word, 1, Len(word), Digits)
               /\ str_to_int64(word) = Wrap(Number(From(r), To(r)))
=============================================================================
