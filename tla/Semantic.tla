------------------------------ MODULE Semantic ------------------------------
(***************************************************************************)
(* Semantic analysis and evaluation (pljit/semantic/AST.cpp).              *)
(*                                                                         *)
(* A behaviour is one text: identifiers are declared one by one, then      *)
(* statements are analysed.  The activations of analyzeStatement and       *)
(* analyzeExpression that wait for a result are in frames; nullptr, the    *)
(* result of an analysis that has printed an error, is handed from each of *)
(* them to its caller, up to compileCode.  Tail calls leave no frame.      *)
(* If the analysis succeeds the function is called once, with an           *)
(* EvaluationContext made from the symbol table; an expression is then the *)
(* set of identifiers it reads.                                            *)
(***************************************************************************)
EXTENDS Naturals, Sequences, FiniteSets

CONSTANTS
    Names,            \* identifiers of the text
    NoName,           \* the target of a RETURN statement
    MaxDeclarations,  \* bound: declared identifiers
    MaxStatements,    \* bound: statements
    MaxFrames         \* bound: activations waiting at the same time

ASSUME NamesAssumption == NoName \notin Names
ASSUME BoundsAssumption ==
    /\ MaxDeclarations \in Nat
    /\ MaxStatements \in Nat
    /\ MaxFrames \in Nat

Kinds == {"parameter", "variable", "constant"}
Levels == {"additive", "multiplicative", "unary", "primary"}
Results == {"node", "nullptr"}
Statements == [target : Names \cup {NoName}, reads : SUBSET Names]
NoStatement == [target |-> NoName, reads |-> {}]

\* An activation, and the child whose analysis it waits for.
Frames == [caller : {"assignment", "return"} \cup Levels,
           child : {"left", "right", "only"}]
Frame(caller, child) == [caller |-> caller, child |-> child]

VARIABLES
    stage,        \* the declarations' kind; "body", the loop of compileCode;
                  \* the level of the analyzeExpression that is entered;
                  \* the result returned; or the verdict
    isCompiled,   \* of the symbol table
    frames,       \* the activations that wait, the innermost last
    table,        \* tableIdentifier: the identifiers of each kind
    index,        \* position of a parameter's argument
    initialized,  \* initializedVariables
    statement,    \* the statement whose expression is being analysed
    returns,      \* returnStatementTriggered
    messages,     \* semantic errors printed
    declared,     \* the declarations so far, in the order of the text
    body,         \* children: the statements so far
    seen,         \* the part of the text looked at last
    outcome,      \* of the call: not begun, running, finished or aborted
    given,        \* its arguments
    at,           \* the statement evaluated next
    valued,       \* identifiers that have a value in the context
    failures      \* run-time errors printed

symbols == <<isCompiled, table, index, declared>>
compiled == <<returns, body>>
analysis == <<symbols, compiled, stage, frames, initialized, statement,
              messages, seen>>
evaluation == <<outcome, given, at, valued, failures>>
vars == <<analysis, evaluation>>

Init ==
    /\ stage = "parameter"
    /\ isCompiled = TRUE
    /\ frames = <<>>
    /\ table = [kind \in Kinds |-> {}]
    /\ index = [x \in Names |-> 0]
    /\ initialized = {}
    /\ statement = NoStatement
    /\ returns = FALSE
    /\ messages = 0
    /\ declared = <<>>
    /\ body = <<>>
    /\ seen = "declaration"
    /\ outcome = "none"
    /\ given = 0
    /\ at = 1
    /\ valued = {}
    /\ failures = 0

-----------------------------------------------------------------------------
(* Declarations.                                                           *)

\* A mutation: one of the three comparisons is the wrong way round.
IsDeclaredInverted(x) ==
    x \in table["parameter"] \/ x \in table["variable"] \/ x \notin table["constant"]

IsDeclared(x) == \E kind \in Kinds : x \in table[kind]

\* printSemanticError
PrintError == messages' = messages + 1

\* A mutation: the index counts the commas between the parameters too.
NumberByChild(x) ==
    index' = [index EXCEPT ![x] = 2 * Cardinality(table["parameter"])]

\* parameter_index
Number(x) ==
    index' = [index EXCEPT ![x] = Cardinality(table["parameter"])]

\* The sections of a text come in this order, each of them optional.
Before(kind) ==
    CASE kind = "parameter" -> {"parameter"}
      [] kind = "variable" -> {"parameter", "variable"}
      [] kind = "constant" -> {"parameter", "variable", "constant"}

Insert(kind, x) ==
    /\ table' = [table EXCEPT ![kind] = @ \cup {x}]
    /\ IF kind = "parameter" THEN Number(x) ELSE UNCHANGED index

\* addAttributes, for one identifier; it returns, and the constructor's loop
\* ends, as soon as isCompiled is false.
Declare(kind, x) ==
    /\ isCompiled
    /\ stage \in Before(kind)
    /\ Len(declared) < MaxDeclarations
    /\ stage' = kind
    /\ declared' = Append(declared, [kind |-> kind, name |-> x])
    /\ seen' = "declaration"
    /\ \/ /\ ~IsDeclared(x)
          /\ Insert(kind, x)
          /\ UNCHANGED <<isCompiled, messages>>
       \/ /\ IsDeclared(x)
          /\ PrintError
          /\ isCompiled' = FALSE
          /\ UNCHANGED <<table, index>>
    /\ UNCHANGED <<compiled, frames, initialized, statement, evaluation>>

\* compileCode asks the finished symbol table.
EndDeclarations ==
    /\ stage \in Kinds
    /\ stage' = IF isCompiled THEN "body" ELSE "rejected"
    /\ UNCHANGED <<symbols, compiled, frames, initialized, statement, messages,
                   seen, evaluation>>

-----------------------------------------------------------------------------
(* Statements: analyzeStatement is entered.                                *)

\* A mutation: the left side may be a constant.
BeginAssignmentToAnything(x) ==
    /\ stage = "body"
    /\ Len(body) < MaxStatements
    /\ statement' = [target |-> x, reads |-> {}]
    /\ seen' = "statement"
    /\ \/ /\ IsDeclared(x)
          /\ stage' = "additive"
          /\ frames' = <<Frame("assignment", "only")>>
          /\ UNCHANGED messages
       \/ /\ ~IsDeclared(x)
          /\ PrintError
          /\ stage' = "nullptr"
          /\ UNCHANGED frames
    /\ UNCHANGED <<symbols, compiled, initialized, evaluation>>

\* The left side is looked up first.
BeginAssignment(x) ==
    LET assignable == IsDeclared(x) /\ x \notin table["constant"] IN
    /\ stage = "body"
    /\ Len(body) < MaxStatements
    /\ statement' = [target |-> x, reads |-> {}]
    /\ seen' = "statement"
    /\ \/ /\ assignable
          /\ stage' = "additive"
          /\ frames' = <<Frame("assignment", "only")>>
          /\ UNCHANGED messages
       \/ /\ ~assignable
          /\ PrintError
          /\ stage' = "nullptr"
          /\ UNCHANGED frames
    /\ UNCHANGED <<symbols, compiled, initialized, evaluation>>

BeginReturn ==
    /\ stage = "body"
    /\ Len(body) < MaxStatements
    /\ statement' = NoStatement
    /\ seen' = "statement"
    /\ stage' = "additive"
    /\ frames' = <<Frame("return", "only")>>
    /\ UNCHANGED <<symbols, compiled, initialized, messages, evaluation>>

-----------------------------------------------------------------------------
(* Expressions: analyzeExpression of the four levels is entered.           *)

\* What the levels of an expression do not touch.
OutsideExpression == <<symbols, compiled, initialized, seen, evaluation>>

Push(caller, child) ==
    /\ Len(frames) < MaxFrames
    /\ frames' = Append(frames, Frame(caller, child))

\* An additive or multiplicative expression with an operator analyses its
\* left child, one without is its only child.
Binary(level, below) ==
    /\ stage = level
    /\ stage' = below
    /\ Push(level, "left") \/ UNCHANGED frames
    /\ UNCHANGED <<statement, messages, OutsideExpression>>

AdditiveExpression == Binary("additive", "multiplicative")
MultiplicativeExpression == Binary("multiplicative", "unary")

UnaryExpression ==
    /\ stage = "unary"
    /\ stage' = "primary"
    /\ Push("unary", "only") \/ UNCHANGED frames
    /\ UNCHANGED <<statement, messages, OutsideExpression>>

\* A primary expression that is an identifier.
ReadIdentifier(x) ==
    LET readable == IsDeclared(x) /\ (x \in table["variable"] => x \in initialized)
    IN /\ stage = "primary"
       /\ statement' = [statement EXCEPT !.reads = @ \cup {x}]
       /\ \/ readable /\ stage' = "node" /\ UNCHANGED messages
          \/ ~readable /\ stage' = "nullptr" /\ PrintError
       /\ UNCHANGED <<frames, OutsideExpression>>

\* A literal, or an additive expression in parentheses.
ReadLiteralOrParenthesis ==
    /\ stage = "primary"
    /\ stage' \in {"node", "additive"}
    /\ UNCHANGED <<frames, statement, messages, OutsideExpression>>

-----------------------------------------------------------------------------
(* A result, a node or nullptr, is returned to the activation that waits.  *)

Waits(caller, child) ==
    /\ stage \in Results
    /\ frames # <<>>
    /\ frames[Len(frames)] = Frame(caller, child)

Pop == frames' = SubSeq(frames, 1, Len(frames) - 1)

\* A mutation: the left child is not compared with nullptr.
ReturnToLeftGoesOn(level) ==
    /\ Waits(level, "left")
    /\ stage' = level
    /\ frames' = [frames EXCEPT ![Len(frames)] = Frame(level, "right")]
    /\ UNCHANGED <<statement, messages, OutsideExpression>>

\* The right child is analysed only after a left one that is a node.
ReturnToLeft(level) ==
    /\ Waits(level, "left")
    /\ \/ /\ stage = "nullptr"
          /\ Pop
          /\ UNCHANGED stage
       \/ /\ stage = "node"
          /\ stage' = level
          /\ frames' = [frames EXCEPT ![Len(frames)] = Frame(level, "right")]
    /\ UNCHANGED <<statement, messages, OutsideExpression>>

\* After the right child, below a sign and in a RETURN statement: a node is
\* made of a node, nullptr is returned for nullptr.
ReturnThrough ==
    /\ \/ Waits("additive", "right") \/ Waits("multiplicative", "right")
       \/ Waits("unary", "only") \/ Waits("return", "only")
    /\ Pop
    /\ UNCHANGED <<stage, statement, messages, OutsideExpression>>

\* A mutation: every declared variable counts as initialized.
ReturnToAssignmentInitializesAll ==
    /\ Waits("assignment", "only")
    /\ Pop
    /\ \/ stage = "nullptr" /\ UNCHANGED initialized
       \/ stage = "node" /\ initialized' = table["variable"]
    /\ UNCHANGED <<symbols, compiled, stage, statement, messages, seen, evaluation>>

\* A mutation: parameters are noted as well.
ReturnToAssignmentNotesAll ==
    /\ Waits("assignment", "only")
    /\ Pop
    /\ \/ stage = "nullptr" /\ UNCHANGED initialized
       \/ stage = "node" /\ initialized' = initialized \cup {statement.target}
    /\ UNCHANGED <<symbols, compiled, stage, statement, messages, seen, evaluation>>

\* The variable is noted only now, and not after nullptr.
ReturnToAssignment ==
    /\ Waits("assignment", "only")
    /\ Pop
    /\ \/ stage = "nullptr" /\ UNCHANGED initialized
       \/ /\ stage = "node"
          /\ initialized' =
                initialized \cup ({statement.target} \cap table["variable"])
    /\ UNCHANGED <<symbols, compiled, stage, statement, messages, seen, evaluation>>

\* analyzeStatement has returned to the loop of compileCode.
EndStatement ==
    /\ stage \in Results
    /\ frames = <<>>
    /\ \/ /\ stage = "nullptr"
          /\ stage' = "rejected"
          /\ UNCHANGED <<compiled, statement>>
       \/ /\ stage = "node"
          /\ stage' = "body"
          /\ returns' = (returns \/ statement.target = NoName)
          /\ body' = Append(body, statement)
          /\ statement' = NoStatement
    /\ UNCHANGED <<symbols, frames, initialized, messages, seen, evaluation>>

\* A mutation: the last statement is not looked at.
EndBodyWithoutReturn ==
    /\ stage = "body"
    /\ body # <<>>
    /\ seen' = "end"
    /\ stage' = "accepted"
    /\ UNCHANGED <<symbols, compiled, frames, initialized, statement, messages,
                   evaluation>>

\* After the last statement; a text has at least one.
EndBody ==
    /\ stage = "body"
    /\ body # <<>>
    /\ seen' = "end"
    /\ \/ returns /\ stage' = "accepted" /\ UNCHANGED messages
       \/ ~returns /\ stage' = "rejected" /\ PrintError
    /\ UNCHANGED <<symbols, compiled, frames, initialized, statement, evaluation>>

-----------------------------------------------------------------------------
(* Evaluation.                                                             *)

Disjoint == \A k, l \in Kinds : k # l => table[k] \cap table[l] = {}

\* EvaluationContext(parameter_list, symbolTable), with a list of any length;
\* its assertions are that each index has an argument and that no identifier
\* is pushed twice.
NewContext ==
    /\ stage = "accepted"
    /\ outcome = "none"
    /\ given' \in 0 .. MaxDeclarations
    /\ valued' = table["parameter"] \cup table["constant"]
    /\ outcome' = IF Disjoint /\ \A x \in table["parameter"] : index[x] < given'
                  THEN "running" ELSE "aborted"
    /\ UNCHANGED <<at, failures, analysis>>

\* updateIdentifier's assertions.
MayBeUpdated(x) ==
    x \in table["parameter"] \cup table["variable"] /\ x \notin table["constant"]

\* An expression yields a value if every identifier has one and no division
\* fails; the division prints an error.
EvaluateAssignment ==
    /\ outcome = "running"
    /\ at <= Len(body)
    /\ body[at].target # NoName
    /\ \E failed \in BOOLEAN :
          LET hasValue == ~failed /\ body[at].reads \subseteq valued
              updates == hasValue /\ MayBeUpdated(body[at].target)
          IN /\ failures' = IF failed THEN failures + 1 ELSE failures
             /\ outcome' = IF ~hasValue THEN "nullopt"
                           ELSE IF updates THEN "running" ELSE "aborted"
             /\ valued' = IF updates THEN valued \cup {body[at].target} ELSE valued
             /\ at' = IF updates THEN at + 1 ELSE at
    /\ UNCHANGED <<given, analysis>>

\* RETURN, or nullopt after the last statement.
EvaluateReturn ==
    LET returned == at <= Len(body)
    IN /\ outcome = "running"
       /\ returned => body[at].target = NoName
       /\ \E failed \in BOOLEAN :
             /\ failed => returned
             /\ failures' = IF failed THEN failures + 1 ELSE failures
             /\ outcome' =
                   IF returned /\ ~failed /\ body[at].reads \subseteq valued
                   THEN "value" ELSE "nullopt"
       /\ UNCHANGED <<given, at, valued, analysis>>

Next ==
    \/ \E kind \in Kinds, x \in Names : Declare(kind, x)
    \/ EndDeclarations
    \/ \E x \in Names : BeginAssignment(x)
    \/ BeginReturn
    \/ AdditiveExpression \/ MultiplicativeExpression \/ UnaryExpression
    \/ \E x \in Names : ReadIdentifier(x)
    \/ ReadLiteralOrParenthesis
    \/ \E level \in {"additive", "multiplicative"} : ReturnToLeft(level)
    \/ ReturnThrough
    \/ ReturnToAssignment
    \/ EndStatement
    \/ EndBody
    \/ NewContext
    \/ EvaluateAssignment
    \/ EvaluateReturn

Spec == Init /\ [][Next]_vars

-----------------------------------------------------------------------------
(* The rules of the language, stated of a text.                            *)

DeclaredAs(kind) ==
    {declared[i].name : i \in {j \in DOMAIN declared : declared[j].kind = kind}}

DeclaredTwice ==
    \E i, j \in DOMAIN declared : i # j /\ declared[i].name = declared[j].name

\* Variables that the statements before the k-th one assign.
AssignedBefore(k) ==
    {body[j].target : j \in {i \in DOMAIN body : i < k}} \cap DeclaredAs("variable")

\* What the k-th statement may be, given the ones before it.
StatementIsValid(s, k) ==
    /\ s.target \in DeclaredAs("parameter") \cup DeclaredAs("variable") \cup {NoName}
    /\ s.reads \subseteq DeclaredAs("parameter") \cup DeclaredAs("constant")
                            \cup AssignedBefore(k)

\* Some parameter stands at a position for which there is no argument.
ArgumentsMissing ==
    \E i \in DOMAIN declared : declared[i].kind = "parameter" /\ given < i

Returns == \E k \in DOMAIN body : body[k].target = NoName

-----------------------------------------------------------------------------
(* Properties.                                                             *)

\* Type invariant; only declared variables are ever noted as initialized.
TypeOK ==
    /\ stage \in Kinds \cup Levels \cup Results \cup {"body", "accepted", "rejected"}
    /\ isCompiled \in BOOLEAN
    /\ frames \in Seq(Frames)
    /\ seen \in {"declaration", "statement", "end"}
    /\ table \in [Kinds -> SUBSET Names]
    /\ index \in [Names -> Nat]
    /\ initialized \in SUBSET table["variable"]
    /\ statement \in Statements
    /\ returns \in BOOLEAN
    /\ messages \in Nat
    /\ declared \in Seq([kind : Kinds, name : Names])
    /\ body \in Seq(Statements)
    /\ outcome \in {"none", "running", "value", "nullopt", "aborted"}
    /\ given \in Nat
    /\ at \in 1 .. Len(body) + 1
    /\ valued \in SUBSET Names
    /\ failures \in Nat

\* FunctionAST::compileCode accepts a text only if it has read it to the end
\* and it breaks none of the rules; it rejects one only for what it looked at
\* last, a declaration, a statement or the missing RETURN, and everything
\* before that breaks none: the table, the set of initialized variables and
\* what the activations return say the same as the text (AST.cpp:327-375).
AnalysisIsExact ==
    /\ stage \in {"accepted", "rejected"} =>
          /\ seen # "declaration" => ~DeclaredTwice
          /\ \A k \in DOMAIN body : StatementIsValid(body[k], k)
    /\ stage = "accepted" => seen = "end" /\ Returns
    /\ stage = "rejected" =>
          CASE seen = "declaration" -> DeclaredTwice
            [] seen = "statement" -> ~StatementIsValid(statement, Len(body) + 1)
            [] seen = "end" -> ~Returns

\* The assertions Pljit.hpp:91 and 95: a failed analysis has printed exactly
\* one message, a successful one none.  nullptr or false passes through up to
\* MaxFrames activations, the constructor of the table and the loop of
\* compileCode, each of which must stop at it without printing again
\* (AST.cpp:79-108, 138-143, 180, 196, 271-287, 327-330, 359).
OneMessagePerRejection ==
    /\ messages <= 1
    /\ stage \in {"accepted", "rejected"} => (messages = 1 <=> stage = "rejected")

\* No evaluation reads an identifier that has no value: IdentifierAST::evaluate
\* would return nullopt for it without an error.
ReadsHaveValue ==
    outcome = "running" /\ at <= Len(body) => body[at].reads \subseteq valued

\* The comment Pljit.hpp:61 and the assertions of EvaluationContext (each
\* index has an argument, no identifier is pushed twice, only parameters and
\* variables are updated): they fail exactly if the client has given fewer
\* arguments than there are parameters.
AssertionsHold == outcome # "none" => (outcome = "aborted" <=> ArgumentsMissing)

\* A call returns nullopt exactly if it has printed an error; it never runs
\* off the end of the body.
NulloptIsReported == (outcome = "nullopt") = (failures > 0)

\* An argument reaches the parameter that stands at its position in the text.
ArgumentsInOrder ==
    isCompiled =>
        \A i \in DOMAIN declared :
            declared[i].kind = "parameter" => index[declared[i].name] = i - 1
=============================================================================
