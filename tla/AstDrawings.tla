---------------------------- MODULE AstDrawings ----------------------------
(***************************************************************************)
(* The two drawings of the abstract syntax tree                            *)
(* (pljit/semantic/PrintASTVisitor.hpp), lines like those of the parse     *)
(* tree.                                                                   *)
(***************************************************************************)
EXTENDS AbstractTree, TreeDrawings

-----------------------------------------------------------------------------
(* The print visitor.                                                      *)

\* How the test drawing names a node.
Name(node) ==
    IF node.kind \in {"Identifier", "Literal"} THEN <<node.kind>>
    ELSE <<node.kind, node.label>>

\* print_expression, and the same lines for a statement.
Child(parent, node, isLabeled) ==
    IF isLabeled THEN <<Vertex(node.id, node.label), Edge(parent.id, node.id)>>
    ELSE <<Edge(Name(parent), Name(node))>>

\* A mutation: the left identifier is not drawn.
VisitAssignmentRightOnly(node, isLabeled) ==
    Child(node, node.operands[2], isLabeled)

VisitAssignment(node, isLabeled) ==
    Child(node, node.operands[1], isLabeled)
    \o Child(node, node.operands[2], isLabeled)

\* The lines of a node's children, then what each child draws; the left side
\* of an assignment is not visited.
RECURSIVE VisitAst(_, _)
VisitAst(node, isLabeled) ==
    LET operands == node.operands
        children == [i \in DOMAIN operands |-> Child(node, operands[i], isLabeled)]
        visits == [i \in DOMAIN operands |-> VisitAst(operands[i], isLabeled)]
    IN CASE node.kind = "AssignmentStatement" ->
                VisitAssignment(node, isLabeled) \o visits[2]
         [] node.kind \in {"Identifier", "Literal"} ->
                IF isLabeled THEN <<>> ELSE <<Edge(Name(node), node.label)>>
         [] OTHER -> FlattenSeq(children) \o FlattenSeq(visits)

VisualizeAst(ast) == <<Vertex(ast.id, "Function")>> \o VisitAst(ast, TRUE)
TestAst(ast) == VisitAst(ast, FALSE)

-----------------------------------------------------------------------------
(* What the properties say of drawings.                                    *)

RECURSIVE NodesOf(_)
NodesOf(ast) ==
    1 + FoldLeft(LAMBDA sum, operand : sum + NodesOf(operand), 0, ast.operands)

\* Reading a test drawing: a node whose name is known has its first lines to
\* name the operands; then comes what each operand drew.
Arity(name, lines) ==
    CASE name[1] = "Function" ->
             Cardinality({i \in DOMAIN lines : lines[i].from = name})
      [] name[1] \in {"ReturnStatement", "UnaryExpression"} -> 1
      [] name[1] \in {"AssignmentStatement", "BinaryExpression"} -> 2

RECURSIVE TraceAst(_, _)
TraceAst(name, lines) ==
    IF name[1] \in {"Identifier", "Literal"}
    THEN [read |-> <<name[1], lines[1].to>>, rest |-> Tail(lines)]
    ELSE LET arity == Arity(name, lines)
             named == [i \in 1 .. arity |-> lines[i].to]
             operand(traced, i) ==
                 IF name[1] = "AssignmentStatement" /\ i = 1
                 THEN [traced EXCEPT !.read = Append(@, named[i])]
                 ELSE LET t == TraceAst(named[i], traced.rest)
                      IN [read |-> Append(traced.read, t.read), rest |-> t.rest]
         IN FoldLeft(operand,
                     [read |-> name, rest |-> SubSeq(lines, arity + 1, Len(lines))],
                     [i \in 1 .. arity |-> i])

\* The tree as the test drawing shows it: the name of an assigned variable is
\* not part of it.
RECURSIVE Visible(_)
Visible(node) ==
    IF node.kind \in {"Identifier", "Literal"} THEN <<node.kind, node.label>>
    ELSE Name(node) \o [i \in DOMAIN node.operands |->
             IF node.kind = "AssignmentStatement" /\ i = 1
             THEN Name(node.operands[i]) ELSE Visible(node.operands[i])]

-----------------------------------------------------------------------------
(* Properties.                                                             *)

\* visualizeDot draws the whole abstract tree, each node under a number of its
\* own, although statements, operands and left sides are made in an order that
\* is not the one in which they are drawn.
VisualizeAstIsTheTree ==
    Compiled =>
        IsDrawingOfTree(VisualizeAst(FunctionAst(Root)), 0,
                        NodesOf(FunctionAst(Root)))

\* The drawing by which the tests compare abstract trees (testDot) determines
\* the tree, but for the variables that are assigned: two functions that the
\* tests take for equal differ in nothing else.
TestAstCanBeTraced ==
    Compiled =>
        LET ast == FunctionAst(Root)
        IN TraceAst(Name(ast), TestAst(ast)) = [read |-> Visible(ast), rest |-> <<>>]

\* Both drawings show the abstract tree, as far as they can.
AstDotsShowTheTree == VisualizeAstIsTheTree /\ TestAstCanBeTraced
=============================================================================
