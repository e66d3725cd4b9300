----------------------------- MODULE ParseTree -----------------------------
(***************************************************************************)
(* The tree that the parser builds (pljit/syntax/ParseTree.cpp): growing   *)
(* holds the node of each activation, with the children it has so far, and *)
(* node_index_incrementer numbers the nodes.                               *)
(***************************************************************************)
EXTENDS Parser

CONSTANT Alphabets  \* bound: the tokens of one text are in one of these sets

ASSUME AlphabetsAssumption == Alphabets \subseteq SUBSET Tokens

VARIABLES
    alphabet,                \* the tokens of this text
    node_index_incrementer,  \* the static counter
    growing,                 \* a node per frame, the innermost one last
    text                     \* history: the tokens consumed

treeVars == <<node_index_incrementer, growing, text>>
allVars == <<vars, alphabet, treeVars>>

\* A terminal that is constructed from its token, or after it, is numbered
\* anew, and so is a variable-declaration.
Numbers(class) ==
    IF class \in {"VariableDeclaration", "GenericToken"} THEN 2 ELSE 1

\* A token refers to its place in the text (getReference).
NewNode(class, token, at) ==
    [class |-> class, id |-> node_index_incrementer + Numbers(class) - 1,
     token |-> token, at |-> at, children |-> <<>>]

Adopt(child) ==
    [Last(growing) EXCEPT !.children = Append(@, child)]

TreeInit ==
    /\ Init
    /\ alphabet \in Alphabets /\ ahead \in alphabet \cup {NoToken}
    /\ node_index_incrementer = 1
    /\ growing = <<[class |-> "FunctionDeclaration", id |-> 0,
                    token |-> NoToken, at |-> 0, children |-> <<>>]>>
    /\ text = <<>>

\* A child is constructed, then asked to parse.
GrowChild ==
    /\ Len(frames') > Len(frames)
    /\ growing' = Append(growing, NewNode(Current.class, NoToken, 0))
    /\ node_index_incrementer' = node_index_incrementer + Numbers(Current.class)
    /\ UNCHANGED text

\* A mutation: the node of a token is left out if it is a sign.
GrowLeafSkipsSign ==
    /\ consumed' # consumed
    /\ text' = Append(text, ahead)
    /\ growing' = Append(Front(growing),
           CASE Top.class = "Identifier" ->
                    [Last(growing) EXCEPT !.token = ahead, !.at = consumed']
             [] Top.class = "Literal" ->
                    [Last(growing) EXCEPT !.token = ahead, !.at = consumed',
                                          !.id = node_index_incrementer]
             [] Top.class = "UnaryExpression" -> Last(growing)
             [] OTHER -> Adopt(NewNode("GenericToken", ahead, consumed')))
    /\ node_index_incrementer' = node_index_incrementer +
           CASE Top.class = "Identifier" -> 0
             [] Top.class = "Literal" -> 1
             [] OTHER -> Numbers("GenericToken")

\* A token is consumed: identifiers and literals keep it themselves, and a
\* literal is numbered a second time; for others it is a child.
GrowLeaf ==
    /\ consumed' # consumed
    /\ text' = Append(text, ahead)
    /\ growing' = Append(Front(growing),
           CASE Top.class = "Identifier" ->
                    [Last(growing) EXCEPT !.token = ahead, !.at = consumed']
             [] Top.class = "Literal" ->
                    [Last(growing) EXCEPT !.token = ahead, !.at = consumed',
                                          !.id = node_index_incrementer]
             [] OTHER -> Adopt(NewNode("GenericToken", ahead, consumed')))
    /\ node_index_incrementer' = node_index_incrementer +
           CASE Top.class = "Identifier" -> 0
             [] Top.class = "Literal" -> 1
             [] OTHER -> Numbers("GenericToken")

\* A mutation: the memory of a child that failed is not freed.
AttachLeavesFailed ==
    /\ Len(frames') < Len(frames)
    /\ growing' =
           IF answer = "true"
           THEN LET parent == growing[Len(growing) - 1]
                IN Append(Front(Front(growing)),
                          [parent EXCEPT !.children = Append(@, Last(growing))])
           ELSE growing
    /\ UNCHANGED <<node_index_incrementer, text>>

\* An activation ends: its node becomes a child, or is dropped.
Attach ==
    /\ Len(frames') < Len(frames)
    /\ growing' =
           IF answer = "true"
           THEN LET parent == growing[Len(growing) - 1]
                IN Append(Front(Front(growing)),
                          [parent EXCEPT !.children = Append(@, Last(growing))])
           ELSE Front(growing)
    /\ UNCHANGED <<node_index_incrementer, text>>

TreeNext ==
    /\ Next
    /\ UNCHANGED alphabet /\ ahead' \in alphabet \cup {NoToken}
    /\ \/ GrowChild \/ GrowLeaf \/ Attach
       \/ Len(frames') = Len(frames) /\ consumed' = consumed /\ UNCHANGED treeVars

TreeSpec == TreeInit /\ [][TreeNext]_allVars

\* The node of the whole text.
Root == growing[1]

-----------------------------------------------------------------------------
(* Properties.                                                             *)

\* A node that holds a token stays, another one is replaced by its children.
Below(node) == IF node.token # NoToken THEN <<node>> ELSE node.children

\* One level of some trees is opened, if there is anything to open.
Opened(nodes) ==
    IF \A i \in DOMAIN nodes : nodes[i].token # NoToken THEN nodes
    ELSE FlattenSeq([i \in DOMAIN nodes |-> Below(nodes[i])])

OpenedOften(nodes, times) ==
    LET opened[n \in 0 .. times] ==
            IF n = 0 THEN nodes ELSE Opened(opened[n - 1])
    IN opened[times]

\* The nodes that hold a token, from left to right: no tree is higher than the
\* number of nodes ever made.
Leaves(nodes) == OpenedOften(nodes, node_index_incrementer)

\* All nodes of the tree of the whole text, opened level by level.
Nodes ==
    UNION {Range(OpenedOften(<<Root>>, n)) : n \in 0 .. node_index_incrementer}

TokensOf(nodes) == [i \in DOMAIN nodes |-> nodes[i].token]

\* Type invariant of the tree: each activation builds one node.
TreeTypeOK ==
    /\ alphabet \in Alphabets
    /\ node_index_incrementer \in Nat
    /\ text \in Seq(Tokens) /\ Len(text) = consumed
    /\ Len(growing) = Len(frames)
    /\ \A i \in DOMAIN growing : growing[i].class = frames[i].class

\* As long as no message was printed the nodes under construction hold the
\* tokens consumed, each one once, in the order of the text and with its
\* place: a child that is dropped had taken none (ParseTree.cpp:78-104).
LeavesAreTheText ==
    errors = 0 /\ verdict # "rejected" =>
        LET leaves == Leaves(growing)
        IN /\ TokensOf(leaves) = text
           /\ \A i \in DOMAIN text : leaves[i].at = i

\* At every moment the nodes below the root are a tree, and a number of theirs
\* means one node: no node is the child of two others or twice of one, although
\* a literal takes a second number after its parent and a dropped child leaves
\* a gap (ParseTree.cpp:186, 839, 849).
NumbersMakeATree ==
    /\ \A x, y \in Nodes : x.id = y.id => x = y
    /\ \A x, y \in Nodes : \A i \in DOMAIN x.children, j \in DOMAIN y.children :
          x.children[i] = y.children[j] => x = y /\ i = j
    /\ \A x \in Nodes : Root \notin Range(x.children)
=============================================================================
