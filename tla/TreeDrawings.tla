---------------------------- MODULE TreeDrawings ----------------------------
(***************************************************************************)
(* The two drawings of the parse tree that the program can print           *)
(* (pljit/syntax/PrintParseTreeVisitor.hpp).  A drawing is a sequence of   *)
(* lines: vertices with a label, and edges.                                *)
(***************************************************************************)
EXTENDS ParseTree

-----------------------------------------------------------------------------
(* The print visitor: the children each visit function has a case for, and *)
(* the names under which it prints them.                                   *)

DrawnFunctionDeclaration ==
    {"ParameterDeclaration", "VariableDeclaration", "ConstantDeclaration",
     "CompoundStatement", "GenericToken"}
DrawnParameterDeclaration == {"DeclaratorList", "GenericToken"}
DrawnVariableDeclaration == {"DeclaratorList", "GenericToken"}
DrawnConstantDeclaration == {"InitDeclaratorList", "GenericToken"}
DrawnDeclaratorList == {"Identifier", "GenericToken"}
DrawnInitDeclaratorList == {"InitDeclarator", "GenericToken"}
DrawnInitDeclarator == {"Identifier", "GenericToken", "Literal"}
DrawnCompoundStatement == {"StatementList", "GenericToken"}
DrawnStatementList == {"Statement", "GenericToken"}
DrawnStatement == {"AssignmentExpression", "GenericToken", "AdditiveExpression"}
DrawnAssignmentExpression == {"Identifier", "GenericToken", "AdditiveExpression"}
DrawnAdditiveExpression ==
    {"MultiplicativeExpression", "GenericToken", "AdditiveExpression"}
DrawnMultiplicativeExpression ==
    {"MultiplicativeExpression", "GenericToken", "UnaryExpression"}
DrawnUnaryExpression == {"GenericToken", "PrimaryExpression"}

\* A mutation: the case for a parenthesised expression is missing.
DrawnPrimaryExpressionFlat == {"Identifier", "GenericToken", "Literal"}

DrawnPrimaryExpression ==
    {"Identifier", "GenericToken", "Literal", "AdditiveExpression"}

Drawn(class) ==
    CASE class = "FunctionDeclaration" -> DrawnFunctionDeclaration
      [] class = "ParameterDeclaration" -> DrawnParameterDeclaration
      [] class = "VariableDeclaration" -> DrawnVariableDeclaration
      [] class = "ConstantDeclaration" -> DrawnConstantDeclaration
      [] class = "DeclaratorList" -> DrawnDeclaratorList
      [] class = "InitDeclaratorList" -> DrawnInitDeclaratorList
      [] class = "InitDeclarator" -> DrawnInitDeclarator
      [] class = "CompoundStatement" -> DrawnCompoundStatement
      [] class = "StatementList" -> DrawnStatementList
      [] class = "Statement" -> DrawnStatement
      [] class = "AssignmentExpression" -> DrawnAssignmentExpression
      [] class = "AdditiveExpression" -> DrawnAdditiveExpression
      [] class = "MultiplicativeExpression" -> DrawnMultiplicativeExpression
      [] class = "UnaryExpression" -> DrawnUnaryExpression
      [] class = "PrimaryExpression" -> DrawnPrimaryExpression
      [] OTHER -> {}  \* Identifier, Literal, GenericToken

\* A node is printed as its class, a token as itself.  The body of a function
\* has one name as a child and another one as a parent.
AsChild(node) ==
    CASE node.class = "GenericToken" -> node.token
      [] node.class = "CompoundStatement" -> "compound-declaration"
      [] OTHER -> node.class

Vertex(id, label) == [kind |-> "vertex", id |-> id, label |-> label]
Edge(from, to) == [kind |-> "edge", from |-> from, to |-> to]

\* visit(node): first the lines of its children, then each child in turn.
RECURSIVE Visit(_, _)
Visit(node, isLabeled) ==
    LET lines(child) ==
            IF child.class \notin Drawn(node.class) THEN <<>>
            ELSE IF isLabeled
            THEN <<Vertex(child.id, AsChild(child)), Edge(node.id, child.id)>>
            ELSE <<Edge(node.class, AsChild(child))>>
        visits == [i \in DOMAIN node.children |-> Visit(node.children[i], isLabeled)]
    IN IF node.class \in {"Identifier", "Literal"}
       THEN IF isLabeled THEN <<>> ELSE <<Edge(node.class, node.token)>>
       ELSE FlattenSeq([i \in DOMAIN node.children |-> lines(node.children[i])])
            \o FlattenSeq(visits)

VisualizeDot(root) ==
    <<Vertex(root.id, "function-definition")>> \o Visit(root, TRUE)
TestDot(root) == Visit(root, FALSE)

-----------------------------------------------------------------------------
(* What the properties say of drawings.                                    *)

RECURSIVE Preorder(_)
Preorder(node) ==
    <<node>> \o FlattenSeq([i \in DOMAIN node.children |-> Preorder(node.children[i])])

\* The lines describe a tree that hangs on root and has n vertices: every
\* vertex is labelled by one line, and entered by one edge unless it is root,
\* from a vertex that was drawn before it.
IsDrawingOfTree(lines, root, n) ==
    LET labelled(id) == {i \in DOMAIN lines :
                            lines[i].kind = "vertex" /\ lines[i].id = id}
        entering(id) == {i \in DOMAIN lines :
                            lines[i].kind = "edge" /\ lines[i].to = id}
        ids == {lines[i].id : i \in {j \in DOMAIN lines : lines[j].kind = "vertex"}}
    IN /\ Cardinality(ids) = n
       /\ labelled(root) = {1} /\ entering(root) = {}
       /\ \A id \in ids \ {root} : \E i, j \in DOMAIN lines :
             /\ labelled(id) = {i} /\ entering(id) = {j}
             /\ \E k \in 1 .. i - 1 : k \in labelled(lines[j].from)

\* Reading a test drawing: lines of one class, as long as they last, are the
\* children of one node; then comes what the first of these children drew.
RECURSIVE Trace(_, _), TraceAll(_, _)
Trace(class, lines) ==
    LET others == {i \in DOMAIN lines : lines[i].from # class}
        end == IF others = {} THEN Len(lines)
               ELSE (CHOOSE i \in others : \A j \in others : i <= j) - 1
        targets == [i \in 1 .. end |-> lines[i].to]
        rest == SubSeq(lines, end + 1, Len(lines))
    IN IF class \in {"Identifier", "Literal"}
       THEN [read |-> <<lines[1].to>>, rest |-> Tail(lines)]
       ELSE TraceAll(targets, rest)
TraceAll(targets, lines) ==
    IF targets = <<>> THEN [read |-> <<>>, rest |-> lines]
    ELSE LET target == Head(targets)
             first == IF target \in Tokens THEN [read |-> <<target>>, rest |-> lines]
                      ELSE Trace(IF target = "compound-declaration"
                                 THEN "CompoundStatement" ELSE target, lines)
             others == TraceAll(Tail(targets), first.rest)
         IN [read |-> first.read \o others.read, rest |-> others.rest]

-----------------------------------------------------------------------------
(* Properties.                                                             *)

\* visualizeDot draws the whole tree and nothing else, whatever declarations
\* were dropped.  No two nodes have one number, although some are numbered
\* twice and the numbers of dropped nodes are lost (ParseTree.cpp:186, 839,
\* 849).
VisualizeDotIsTheTree ==
    verdict = "accepted" =>
        IsDrawingOfTree(VisualizeDot(Root), Root.id, Len(Preorder(Root)))

\* The comment PrintParseTreeVisitor.hpp:15: the test drawing can be traced;
\* it determines the text, so that no two trees have the same one.
TestDotCanBeTraced ==
    verdict = "accepted" =>
        Trace("FunctionDeclaration", TestDot(Root)) =
            [read |-> TokensOf(Leaves(<<Root>>)), rest |-> <<>>]

\* Both drawings show the tree completely.
DotsShowTheTree == VisualizeDotIsTheTree /\ TestDotCanBeTraced
=============================================================================
