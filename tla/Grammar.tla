------------------------------ MODULE Grammar ------------------------------
(***************************************************************************)
(* The language the parser is for: the EBNF grammar of final.pdf, page 6,  *)
(* and the set of ways in which a leftmost derivation can go on after some *)
(* tokens.  Knows nothing of the parser.  An option or a repetition is a   *)
(* nonterminal of its own, named by its brackets.                          *)
(***************************************************************************)
EXTENDS Sequences

Productions == [
    definition   |-> {<<"[parameters]", "[variables]", "[constants]",
                        "compound", ".">>},
    parameters   |-> {<<"PARAM", "declarators", ";">>},
    variables    |-> {<<"VAR", "declarators", ";">>},
    constants    |-> {<<"CONST", "initialized", ";">>},
    declarators  |-> {<<"identifier", "{, identifier}">>},
    initialized  |-> {<<"declarator", "{, declarator}">>},
    declarator   |-> {<<"identifier", "=", "literal">>},
    compound     |-> {<<"BEGIN", "statements", "END">>},
    statements   |-> {<<"statement", "{; statement}">>},
    statement    |-> {<<"assignment">>, <<"RETURN", "additive">>},
    assignment   |-> {<<"identifier", ":=", "additive">>},
    additive     |-> {<<"multiplicative", "[+- additive]">>},
    multiplicative |-> {<<"unary", "[*/ multiplicative]">>},
    unary        |-> {<<"[+-]", "primary">>},
    primary      |-> {<<"identifier">>, <<"literal">>, <<"(", "additive", ")">>}]

Options == {"[parameters]", "[variables]", "[constants]", "{, identifier}",
            "{, declarator}", "{; statement}", "[+- additive]",
            "[*/ multiplicative]", "[+-]"}

OptionProductions(option) == {<<>>} \cup
    CASE option = "[parameters]" -> {<<"parameters">>}
      [] option = "[variables]" -> {<<"variables">>}
      [] option = "[constants]" -> {<<"constants">>}
      [] option = "{, identifier}" -> {<<",", "identifier", option>>}
      [] option = "{, declarator}" -> {<<",", "declarator", option>>}
      [] option = "{; statement}" -> {<<";", "statement", option>>}
      [] option = "[+- additive]" -> {<<"+", "additive">>, <<"-", "additive">>}
      [] option = "[*/ multiplicative]" ->
            {<<"*", "multiplicative">>, <<"/", "multiplicative">>}
      [] option = "[+-]" -> {<<"+">>, <<"-">>}

IsTerminal(symbol) == symbol \notin DOMAIN Productions \cup Options

\* The forms that one leftmost expansion of a form gives.
Expansions(form) ==
    IF form = <<>> \/ IsTerminal(Head(form)) THEN {form}
    ELSE {p \o Tail(form) :
             p \in IF Head(form) \in Options THEN OptionProductions(Head(form))
                   ELSE Productions[Head(form)]}

Expand(forms) == UNION {Expansions(form) : form \in forms}

\* The forms that begin with a terminal, or are empty, that forms derive.  No
\* symbol is more than five expansions away from its first terminal.
Leftmost(forms) == Expand(Expand(Expand(Expand(Expand(forms)))))

Start == Leftmost({<<"definition">>})

\* The tokens that may come next.
Viable(forms) == {Head(form) : form \in forms \ {<<>>}}

\* What is left to derive after one more token.
After(forms, token) ==
    Leftmost({Tail(form) : form \in {f \in forms \ {<<>>} : Head(f) = token}})
=============================================================================
