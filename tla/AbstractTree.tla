--------------------------- MODULE AbstractTree ---------------------------
(***************************************************************************)
(* The abstract syntax tree that analyzeStatement and analyzeExpression    *)
(* (pljit/semantic/AST.cpp) make from the parse tree.  Which texts they    *)
(* refuse is the subject of Semantic; here every name counts as declared   *)
(* and readable.                                                           *)
(*                                                                         *)
(* An expression is made after its operands, so the number of its node is  *)
(* the last one taken and n, the counter, goes on from there.              *)
(***************************************************************************)
EXTENDS ParseTree

Ast(kind, label, at, id, operands) ==
    [kind |-> kind, label |-> label, at |-> at, id |-> id, operands |-> operands]

\* at is the place in the text that messages about the node show; sums and
\* differences have none, for they cannot fail.
NoPlace == 0

Unary(label, at, id, operand) == Ast("UnaryExpression", label, at, id, <<operand>>)

\* A mutation: the operands are swapped.
BinarySwaps(label, at, id, left, right) ==
    Ast("BinaryExpression", label, at, id, <<right, left>>)

Binary(label, at, id, left, right) ==
    Ast("BinaryExpression", label, at, id, <<left, right>>)

\* made is analyzeExpression for the expressions below: made[node][n] is what
\* it makes of a sum or product when n is the next number.
AnalyzePrimary(node, n, made) ==
    LET child == node.children[1]
    IN IF child.class \in {"Identifier", "Literal"}
       THEN Ast(child.class, child.token, child.at, n, <<>>)
       ELSE made[node.children[2]][n]

AnalyzeUnary(node, n, made) ==
    IF Len(node.children) = 1 THEN AnalyzePrimary(node.children[1], n, made)
    ELSE LET operand == AnalyzePrimary(node.children[2], n, made)
         IN Unary(IF node.children[1].token = "+" THEN "+" ELSE "-",
                  node.children[1].at, operand.id + 1, operand)

AnalyzeMultiplicative(node, n, made) ==
    LET left == AnalyzeUnary(node.children[1], n, made)
    IN IF Len(node.children) = 1 THEN left
       ELSE LET right == made[node.children[3]][left.id + 1]
            IN Binary(IF node.children[2].token = "*" THEN "*" ELSE "/",
                      node.children[2].at, right.id + 1, left, right)

AnalyzeAdditive(node, n, made) ==
    LET left == AnalyzeMultiplicative(node.children[1], n, made)
    IN IF Len(node.children) = 1 THEN left
       ELSE LET right == made[node.children[3]][left.id + 1]
            IN Binary(IF node.children[2].token = "+" THEN "+" ELSE "-",
                      NoPlace, right.id + 1, left, right)

\* analyzeExpression once more: each node is a sum or a product.
Analyzed(nodes, made) ==
    [node \in nodes |-> [n \in Nat |->
        IF node.class = "AdditiveExpression" THEN AnalyzeAdditive(node, n, made)
        ELSE AnalyzeMultiplicative(node, n, made)]]

\* analyzeExpression, by how often it calls itself for a part of the text that
\* is shorter: not more often than there are tokens.
AnalyzeExpression(nodes) ==
    LET made[depth \in 0 .. Len(text)] ==
            IF depth = 0 THEN <<>> ELSE Analyzed(nodes, made[depth - 1])
    IN made[Len(text)]

\* The identifier on the left is made after the expression on the right.
AnalyzeStatement(node, n, expressions) ==
    LET first == node.children[1]
    IN IF first.class = "AssignmentExpression"
       THEN LET right == expressions[first.children[3]][n]
                left == Ast("Identifier", first.children[1].token,
                            first.children[1].at, right.id + 1, <<>>)
            IN Ast("AssignmentStatement", ":=", NoPlace, left.id + 1, <<left, right>>)
       ELSE LET input == expressions[node.children[2]][n]
            IN Ast("ReturnStatement", "RETURN", NoPlace, input.id + 1, <<input>>)

\* The number after those of some statements; 0 is the function's own.
NextNumber(statements) ==
    IF statements = <<>> THEN 1 ELSE Last(statements).id + 1

\* A child of the statement list that is no statement is a semicolon.
AddStatement(made, node, expressions) ==
    IF node.class # "Statement" THEN made
    ELSE Append(made, AnalyzeStatement(node, NextNumber(made), expressions))

\* The children of the list one after the other.
Statements(list, expressions) ==
    LET made[i \in 0 .. Len(list)] ==
            IF i = 0 THEN <<>> ELSE AddStatement(made[i - 1], list[i], expressions)
    IN made[Len(list)]

IsFirstCompound(children, i) ==
    /\ children[i].class = "CompoundStatement"
    /\ \A j \in 1 .. i - 1 : children[j].class # "CompoundStatement"

FunctionAst(root) ==
    LET compound == root.children[CHOOSE i \in DOMAIN root.children :
                                      IsFirstCompound(root.children, i)]
        list == compound.children[2].children
    IN Ast("Function", "Function", NoPlace, 0,
           Statements(list, AnalyzeExpression(Nodes)))

\* FunctionAST::compileCode answers true.
Compiles(ast) == \E i \in DOMAIN ast.operands : ast.operands[i].kind = "ReturnStatement"

-----------------------------------------------------------------------------
(* The meaning of a text, read off its tokens without a parse tree:        *)
(* final.pdf, pages 6 and 15.  Nodes have numbers in postorder.            *)

\* How many parentheses are open at position i of from .. to.
Depth(from, i) ==
    Cardinality({j \in from .. i - 1 : text[j] = "("})
        - Cardinality({j \in from .. i - 1 : text[j] = ")"})

\* The binary operators among ops in from .. to, outside parentheses.
Splits(from, to, ops) ==
    {i \in from + 1 .. to : /\ text[i] \in ops /\ Depth(from, i) = 0
                           /\ text[i - 1] \in {"identifier", "literal", ")"}}

\* A binary expression with the operator at i: meant[from][to][n] is the
\* meaning of from .. to if n is the next number.
Split(from, to, n, i, place, meant) ==
    LET left == meant[from][i - 1][n]
        right == meant[i + 1][to][left.id + 1]
    IN Ast("BinaryExpression", text[i], place, right.id + 1, <<left, right>>)

Signed(from, to, n, meant) ==
    LET operand == meant[from + 1][to][n]
    IN Ast("UnaryExpression", text[from], from, operand.id + 1, <<operand>>)

\* The expression from .. to; expressions associate to the right, so that the
\* first operator is applied last.
Meaning(from, to, n, meant) ==
    LET sums == Splits(from, to, {"+", "-"})
        products == Splits(from, to, {"*", "/"})
    IN CASE sums # {} -> Split(from, to, n, Min(sums), NoPlace, meant)
         [] sums = {} /\ products # {} ->
                Split(from, to, n, Min(products), Min(products), meant)
         [] sums = {} /\ products = {} /\ text[from] \in {"+", "-"} ->
                Signed(from, to, n, meant)
         [] sums = {} /\ products = {} /\ text[from] = "(" -> meant[from + 1][to - 1][n]
         [] sums = {} /\ products = {} /\ text[from] = "literal" ->
                Ast("Literal", text[from], from, n, <<>>)
         [] sums = {} /\ products = {} /\ text[from] = "identifier" ->
                Ast("Identifier", text[from], from, n, <<>>)

\* The same for every part of the text.
Longer(meant) ==
    [from \in DOMAIN text |-> [to \in DOMAIN text |-> [n \in Nat |->
        Meaning(from, to, n, meant)]]]

\* The meaning of the expressions in the text: a part of one is shorter.
Meanings ==
    LET meant[length \in 0 .. Len(text)] ==
            IF length = 0 THEN <<>> ELSE Longer(meant[length - 1])
    IN meant[Len(text)]

StatementMeaning(from, to, n, meanings) ==
    IF text[from] = "RETURN"
    THEN LET value == meanings[from + 1][to][n]
         IN Ast("ReturnStatement", "RETURN", NoPlace, value.id + 1, <<value>>)
    ELSE LET value == meanings[from + 2][to][n]
             variable == Ast("Identifier", text[from], from, value.id + 1, <<>>)
         IN Ast("AssignmentStatement", ":=", NoPlace, value.id + 2, <<variable, value>>)

\* Where BEGIN or a semicolon was, before i.
LastCut(begin, i) == Max({j \in begin .. i - 1 : text[j] \in {"BEGIN", ";"}})

\* At a semicolon or END the statement is complete that began after the last
\* cut.
EndAt(meant, begin, i, meanings) ==
    IF i <= begin \/ text[i] \notin {";", "END"} THEN meant
    ELSE Append(meant, StatementMeaning(LastCut(begin, i) + 1, i - 1,
                                        NextNumber(meant), meanings))

\* The statements that are complete before the end of the text.
BodyMeaning(begin, meanings) ==
    LET meant[i \in 0 .. Len(text)] ==
            IF i = 0 THEN <<>> ELSE EndAt(meant[i - 1], begin, i, meanings)
    IN meant[Len(text)]

TextMeaning ==
    LET begin == CHOOSE i \in DOMAIN text : text[i] = "BEGIN"
    IN Ast("Function", "Function", NoPlace, 0, BodyMeaning(begin, Meanings))

-----------------------------------------------------------------------------
(* Properties.                                                             *)

Compiled == verdict = "accepted" /\ errors = 0 /\ Compiles(FunctionAst(Root))

\* The tree is the one the text means: precedence, parentheses, signs and the
\* right-to-left associativity that final.pdf, page 15, asks it to reproduce.
\* A division that fails shows its own operator, an identifier its own place,
\* and the nodes are numbered in the order in which they are made.
AstIsTheMeaning == Compiled => FunctionAst(Root) = TextMeaning
=============================================================================
