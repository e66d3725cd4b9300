----------------------------- MODULE Optimizer -----------------------------
(***************************************************************************)
(* OptimizationVisitor against FunctionAST::evaluate.                      *)
(*                                                                         *)
(* Both walk the tree of a function in post-order, statement by statement. *)
(* A behaviour of this module is one function body, met node by node in    *)
(* that order, on which three computations advance together:               *)
(*   - the optimizer, which knows constants but no parameters;             *)
(*   - evaluate on the tree as it was analysed;                            *)
(*   - evaluate on the tree as the optimizer leaves it.                    *)
(* An entry of operands stands for a finished subtree and records what     *)
(* each of the three gets for it: NullOpt where the code has nullopt.      *)
(***************************************************************************)
EXTENDS Integers, Sequences, SequencesExt

CONSTANTS
    Parameters, Variables, Constants, \* identifiers of the declarations
    NullOpt,        \* an optional without a value
    Half,           \* integers are -Half .. Half - 1 (int64_t: Half = 2^63)
    MaxStatements,  \* bound: statements before the RETURN
    MaxNodes        \* bound: nodes of one statement's expression

Identifiers == Parameters \cup Variables \cup Constants
Values == -Half .. Half - 1
Optional == Values \cup {NullOpt}

ASSUME WidthAssumption == Half \in Nat \ {0} /\ NullOpt \notin Int
ASSUME DeclarationAssumption ==
    /\ Parameters \cap Variables = {}
    /\ Parameters \cap Constants = {}
    /\ Variables \cap Constants = {}
ASSUME SizeAssumption == MaxStatements \in Nat /\ MaxNodes \in Nat

VARIABLES
    operands,   \* finished subtrees that wait for their parent
    known,      \* the EvaluationContext of the visitor
    original,   \* evaluate before optimization
    optimized,  \* evaluate after optimization
    assigned,   \* variables assigned so far: what the semantic analysis lets
                \* an expression read
    statements, \* statements finished
    nodes,      \* nodes of the current expression
    done,       \* the RETURN statement has been handled
    crashed,    \* the visitor trapped: compilation ends the process
    \* history, read by properties only
    outdated,   \* identifiers whose value in known was true earlier only
    misled,     \* the visitor read an outdated value
    silenced,   \* a statement that failed or trapped was removed by a
                \* constant RETURN
    premature   \* the visitor trapped at a division that the written
                \* function, having failed or trapped, does not reach

vars == <<operands, known, original, optimized, assigned, statements, nodes,
          done, crashed, outdated, misled, silenced, premature>>

-----------------------------------------------------------------------------
(* int64_t.  Signed overflow wraps in the builds of the repository, except *)
(* that the quotient of the least value and -1 traps.                      *)

\* A mutation: sums and products keep every digit.
WrapNothing(n) == n

Wrap(n) == ((n + Half) % (2 * Half)) - Half

Abs(n) == IF n < 0 THEN -n ELSE n

\* C++ division truncates towards zero.
Quotient(a, b) ==
    IF (a < 0) = (b < 0) THEN Abs(a) \div Abs(b) ELSE -(Abs(a) \div Abs(b))

Operators == {"PLUS", "MINUS", "MULTIPLY", "DIVIDE"}

Apply(op, a, b) ==
    CASE op = "PLUS" -> Wrap(a + b)
      [] op = "MINUS" -> Wrap(a - b)
      [] op = "MULTIPLY" -> Wrap(a * b)
      [] op = "DIVIDE" -> Wrap(Quotient(a, b))

DividesByZero(op, a, b) == op = "DIVIDE" /\ a # NullOpt /\ b = 0

Traps(op, a, b) == op = "DIVIDE" /\ a = -Half /\ b = -1

\* The optional that visitor and evaluate compute from two optionals.
Result(op, a, b) ==
    IF a = NullOpt \/ b = NullOpt \/ DividesByZero(op, a, b)
    THEN NullOpt ELSE Apply(op, a, b)

Negate(a) == IF a = NullOpt THEN NullOpt ELSE Wrap(-a)

-----------------------------------------------------------------------------
(* Evaluation of a body: a context, and what the caller gets.              *)

NewRun(context) ==
    [env |-> context, status |-> "running", result |-> NullOpt, errors |-> 0]

\* A binary expression whose operands gave a and b; once a statement has
\* failed none is executed any more.  A division by zero prints its error.
Perform(run, op, a, b) ==
    IF run.status # "running" THEN run
    ELSE IF DividesByZero(op, a, b) THEN [run EXCEPT !.errors = @ + 1]
    ELSE IF Traps(op, a, b) THEN [run EXCEPT !.status = "trapped"]
    ELSE run

\* FunctionAST::evaluate after an assignment's right side gave v.
Store(run, x, v) ==
    IF run.status # "running" THEN run
    ELSE IF v = NullOpt THEN [run EXCEPT !.status = "failed"]
    ELSE [run EXCEPT !.env[x] = v]

\* FunctionAST::evaluate at the RETURN statement.
Finish(run, v) ==
    IF run.status # "running" THEN run
    ELSE IF v = NullOpt THEN [run EXCEPT !.status = "failed"]
    ELSE [run EXCEPT !.status = "returned", !.result = v]

\* What the rewritten child computes: a folded one has become a literal.
Rewritten(e) == IF e.folded # NullOpt THEN e.folded ELSE e.reduced

\* The stack s without its n last entries.
Drop(s, n) == SubSeq(s, 1, Len(s) - n)

-----------------------------------------------------------------------------
\* A mutation: the visitor starts from parameters that are zero.
InitKnowsParameters(context) ==
    [x \in Identifiers |-> IF x \in Constants THEN context[x]
                           ELSE IF x \in Parameters THEN 0 ELSE NullOpt]

\* EvaluationContext(SymbolTable): constants are known, nothing else is.
InitialKnowledge(context) ==
    [x \in Identifiers |-> IF x \in Constants THEN context[x] ELSE NullOpt]

Init ==
    /\ \E context \in [Identifiers -> Optional] :
          /\ \A x \in Identifiers : context[x] = NullOpt <=> x \in Variables
          /\ known = InitialKnowledge(context)
          /\ original = NewRun(context)
          /\ optimized = NewRun(context)
    /\ operands = <<>>
    /\ assigned = {}
    /\ statements = 0
    /\ nodes = 0
    /\ done = FALSE
    /\ crashed = FALSE
    /\ outdated = {}
    /\ misled = FALSE
    /\ silenced = FALSE
    /\ premature = FALSE

Running == ~done /\ ~crashed

\* A node is met after its children, whose entries it replaces by its own.
Node(children, entry) ==
    /\ Running
    /\ nodes < MaxNodes
    /\ nodes' = nodes + 1
    /\ operands' = Append(Drop(operands, children), entry)
    /\ UNCHANGED <<known, assigned, statements, done, outdated, silenced>>

\* A literal of the text may have wrapped to any value (AST.cpp:19-28).
Literal(v) ==
    /\ Node(0, [folded |-> v, plain |-> v, reduced |-> v])
    /\ UNCHANGED <<original, optimized, misled, crashed, premature>>

Identifier(x) ==
    /\ x \in assigned \cup Parameters \cup Constants
    /\ Node(0, [folded |-> known[x], plain |-> original.env[x],
                reduced |-> optimized.env[x]])
    /\ misled' = (misled \/ x \in outdated)
    /\ UNCHANGED <<original, optimized, crashed, premature>>

\* A mutation: the visitor forgets the sign.
UnaryFoldsWithoutSign(type) ==
    LET child == Last(operands)
        sign(a) == IF type = "MINUS" THEN Negate(a) ELSE a
    IN /\ Len(operands) >= 1
       /\ Node(1, [folded |-> child.folded, plain |-> sign(child.plain),
                   reduced |-> sign(Rewritten(child))])
       /\ UNCHANGED <<original, optimized, misled, crashed, premature>>

UnaryExpression(type) ==
    LET child == Last(operands)
        sign(a) == IF type = "MINUS" THEN Negate(a) ELSE a
    IN /\ Len(operands) >= 1
       /\ Node(1, [folded |-> sign(child.folded), plain |-> sign(child.plain),
                   reduced |-> sign(Rewritten(child))])
       /\ UNCHANGED <<original, optimized, misled, crashed, premature>>

\* A mutation: evaluate forgets to print the error.
BinarySilently(op) ==
    LET right == Last(operands)
        left == Last(Drop(operands, 1))
    IN /\ Len(operands) >= 2
       /\ Node(2, [folded |-> Result(op, left.folded, right.folded),
                   plain |-> Result(op, left.plain, right.plain),
                   reduced |-> Result(op, Rewritten(left), Rewritten(right))])
       /\ UNCHANGED <<original, optimized, misled, crashed, premature>>

\* A mutation: the visitor folds a division by zero.
BinaryFoldsZeroDivision(op) ==
    LET right == Last(operands)
        left == Last(Drop(operands, 1))
        folded == Result(op, left.folded, right.folded)
    IN /\ Len(operands) >= 2
       /\ Node(2, [folded |-> IF DividesByZero(op, left.folded, right.folded)
                              THEN 0 ELSE folded,
                   plain |-> Result(op, left.plain, right.plain),
                   reduced |-> Result(op, Rewritten(left), Rewritten(right))])
       /\ original' = Perform(original, op, left.plain, right.plain)
       /\ UNCHANGED <<optimized, misled, crashed, premature>>

\* Both operands have been evaluated, whatever the left one gave.
BinaryExpression(op) ==
    LET right == Last(operands)
        left == Last(Drop(operands, 1))
    IN /\ Len(operands) >= 2
       /\ Node(2, [folded |-> Result(op, left.folded, right.folded),
                   plain |-> Result(op, left.plain, right.plain),
                   reduced |-> Result(op, Rewritten(left), Rewritten(right))])
       /\ original' = Perform(original, op, left.plain, right.plain)
       /\ crashed' = Traps(op, left.folded, right.folded)
       /\ optimized' =
             IF crashed' THEN [optimized EXCEPT !.status = "trapped"]
             ELSE Perform(optimized, op, Rewritten(left), Rewritten(right))
       /\ premature' = (crashed' /\ original.status # "running")
       /\ UNCHANGED misled

\* A constant right side becomes a literal and is remembered; any other one
\* leaves the visitor's context as it was.
AssignmentStatement(x) ==
    LET e == operands[1] IN
    /\ Running
    /\ Len(operands) = 1
    /\ statements < MaxStatements
    /\ x \in Parameters \cup Variables
    /\ original' = Store(original, x, e.plain)
    /\ optimized' = Store(optimized, x, Rewritten(e))
    /\ known' = IF e.folded = NullOpt THEN known
                ELSE [known EXCEPT ![x] = e.folded]
    /\ outdated' = IF e.folded # NullOpt THEN outdated \ {x}
                   ELSE IF known[x] # NullOpt THEN outdated \cup {x}
                   ELSE outdated
    /\ assigned' = assigned \cup ({x} \cap Variables)
    /\ statements' = statements + 1
    /\ nodes' = 0
    /\ operands' = <<>>
    /\ UNCHANGED <<done, crashed, misled, silenced, premature>>

\* A constant RETURN replaces the whole body by one literal; any other one
\* cuts what follows, which no evaluation would have reached.
ReturnStatement ==
    LET e == operands[1] IN
    /\ Running
    /\ Len(operands) = 1
    /\ done' = TRUE
    /\ original' = Finish(original, e.plain)
    /\ IF e.folded = NullOpt
       THEN /\ optimized' = Finish(optimized, e.reduced)
            /\ UNCHANGED silenced
       ELSE /\ optimized' = Finish(NewRun(optimized.env), e.folded)
            /\ silenced' = (original.status # "running")
    /\ UNCHANGED <<operands, known, assigned, statements, nodes, crashed,
                   outdated, misled, premature>>

Next ==
    \/ \E v \in Values : Literal(v)
    \/ \E x \in Identifiers : Identifier(x) \/ AssignmentStatement(x)
    \/ \E type \in {"PLUS", "MINUS"} : UnaryExpression(type)
    \/ \E op \in Operators : BinaryExpression(op)
    \/ ReturnStatement

Spec == Init /\ [][Next]_vars

-----------------------------------------------------------------------------
(* Properties.                                                             *)

Entries == [folded : Optional, plain : Optional, reduced : Optional]
Runs == [env : [Identifiers -> Optional],
         status : {"running", "failed", "trapped", "returned"},
         result : Optional, errors : Nat]

\* Type invariant: every value computed by any of the three fits the width.
TypeOK ==
    /\ operands \in Seq(Entries)
    /\ known \in [Identifiers -> Optional]
    /\ original \in Runs
    /\ optimized \in Runs
    /\ assigned \subseteq Variables
    /\ statements \in 0 .. MaxStatements
    /\ nodes \in 0 .. MaxNodes
    /\ done \in BOOLEAN
    /\ crashed \in BOOLEAN
    /\ outdated \subseteq Parameters \cup Variables
    /\ misled \in BOOLEAN
    /\ silenced \in BOOLEAN
    /\ premature \in BOOLEAN

\* What the visitor believes of an identifier is its value at run time, for
\* every argument list, unless the identifier was overwritten by a
\* non-constant expression (OptimizationASTVisitor.cpp:33-41).
KnownIsCurrent ==
    ~misled /\ original.status = "running" =>
        \A x \in Identifiers \ outdated :
            known[x] # NullOpt => known[x] = original.env[x]

\* While no outdated value has been read, a subtree that is folded folds to
\* the value evaluate gives it, and rewriting leaves the value of every other
\* subtree alone, failures included.
FoldsAreTrue ==
    ~misled /\ original.status = "running" =>
        \A i \in DOMAIN operands :
            /\ operands[i].folded # NullOpt =>
                  operands[i].folded = operands[i].plain
            /\ Rewritten(operands[i]) = operands[i].plain

\* The optimized function behaves as the written one: it returns, fails or
\* traps if that one does, with the same result and the same number of
\* run-time errors printed.  A trap of the visitor ends the process before the
\* call, and counts as one.  There are three ways to differ: an outdated
\* value was read, a statement that failed or trapped was removed, or the
\* visitor trapped at a division that the written function does not reach.
OptimizedAgrees ==
    (done \/ crashed) /\ ~misled /\ ~silenced /\ ~premature =>
        /\ optimized.status = original.status
        /\ original.status # "trapped" =>
              /\ optimized.result = original.result
              /\ optimized.errors = original.errors

\* evaluate returns nullopt exactly when it has printed an error, before and
\* after optimization: the message a failing call fetches is never missing
\* (Pljit.hpp:109-111), because no nullopt comes from an unset variable.
NulloptIsReported ==
    \A run \in {original, optimized} :
        /\ run.status = "failed" => run.errors > 0
        /\ run.status = "returned" => run.errors = 0

\* test_semantic/TestOptimization.cpp:174: a value computed before optimization is the
\* value computed after it.
SameValue ==
    done /\ original.status = "returned" =>
        optimized.status = "returned" /\ optimized.result = original.result

\* test_semantic/TestOptimization.cpp:631: a function that fails before optimization fails
\* after it.
SameFailure ==
    done /\ original.status = "failed" => optimized.status = "failed"
=============================================================================
