------------------------------ MODULE MCTrees ------------------------------
(* Three alphabets: expressions of identifiers, expressions of literals and *)
(* declarations with assignments.                                           *)
EXTENDS AstDrawings

Skeleton == {"BEGIN", "RETURN", "END", "."}

Constructs ==
    {Skeleton \cup {"identifier", "+", "*", "(", ")"},
     Skeleton \cup {"literal", "+", "-", "/"},
     Skeleton \cup {"PARAM", "VAR", "CONST", "identifier", "literal",
                "=", ";", ",", ":="}}
=============================================================================
