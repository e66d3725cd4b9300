# A verification of the PL/0 just-in-time compiler

The repository is a small compiler and interpreter for a dialect of PL/0. A
client registers the text of a function with `Pljit::registerFunction` and gets
a handle; the first call of the handle compiles the function (lexer, parser,
semantic analysis, optimizer), every call evaluates its tree, and handles may
be called from several threads. This directory holds TLA+ models of it, the TLC
runs that check them on small instances, and proofs that TLAPS checks for every
value of the constants.

## 1. The system

| Part | Source | State | Operations | Modelled in |
|---|---|---|---|---|
| `Pljit` | `pljit/Pljit.hpp` | vectors indexed by function: trigger, mutex, code manager, the results of the passes; `capacity` | `registerFunction`, the handle it returns | `Pljit`, `JitService` |
| `CodeManager` | `pljit/management/CodeManager.cpp` | lines of the text, compile-error stream and flag, run-time error stream | constructor, five printing functions, `error_message`, `runtimeErrorMessage` | `Lexer` (lines and positions), `Pljit` (the streams) |
| `CodeReference` | `pljit/management/CodeReference.*` | an immutable range of columns in a line | getters | `Lexer` |
| `TokenStream` | `pljit/syntax/TokenStream.cpp` | queue of tokens | `compileCode`, `lookup`, `nextToken`, `isEmpty` | `Lexer`, `Lexemes`; `Literals` (reading a token's text again); `Parser` (taking tokens); `Pljit` (its verdict) |
| Parse tree | `pljit/syntax/ParseTree.cpp` | a node per nonterminal, static node counter | `recursiveDescentParser` per nonterminal | `Parser`, `Grammar`, `ParserGrammar`; `ParseTree` (the nodes); `NodeNumbers` (the counter); `Pljit` (its verdict) |
| AST, `SymbolTable` | `pljit/semantic/AST.cpp` | symbol table, statements, static node counter | `compileCode`, `analyzeStatement`, `analyzeExpression`, `evaluate` | `Semantic`; `AbstractTree` (the nodes); `Literals`; `NodeNumbers` (the counter); `Optimizer` (`evaluate`); `Pljit` (its verdict) |
| `EvaluationContext` | `pljit/semantic/EvaluationContext.cpp` | optional value per identifier | two constructors, `updateIdentifier`, `getIdentifier` | `Semantic` (who has a value), `Optimizer` (which one) |
| `OptimizationVisitor` | `pljit/semantic/OptimizationASTVisitor.cpp` | an `EvaluationContext` | one `visitOptimization` per kind of node | `Optimizer` |
| Print visitors | `PrintParseTreeVisitor.hpp`, `PrintASTVisitor.hpp` | output text | one `visit` per kind of node, `visualizeDot`, `testDot` | `TreeDrawings`, `AstDrawings` |
| Visitor interfaces, `main` | `*Visitor.hpp`, `main.cpp` | none | abstract classes, a demonstration | not modelled |

How they interact. A handle takes the mutex of its function exclusively, runs
the four passes once, one after the other on the results of the one before, and
leaves a verdict in `compileTrigger`; it then takes the same mutex shared and
either evaluates the tree or returns the stored error text. The passes print to
the compile-error stream of the function's `CodeManager`; evaluation prints to
its run-time error stream, which every concurrent evaluation of that function
shares. The optimizer rewrites the tree in place before the first evaluation. The two
kinds of tree take the numbers of their nodes from a static counter each, which
all compilations of the process share. The print visitors walk a finished tree;
the tests compare trees by what they print.

What is hard. The first call races with other first calls; a pass may fail and
return from inside the locked section; evaluations are readers of the mutex but
writers of the error stream; the optimizer runs the function ahead of time with
partial knowledge and edits it while doing so; error reporting and `nullopt`
have to agree along every path, because the client's result is a pair of both.
The static counters are incremented without a lock by compilations of different
functions. A failed child is dropped with the numbers it took. Nodes of an
abstract tree are made in one order and drawn in another.

What makes each part correct. `Pljit`: one compilation, one final verdict, no
evaluation of an unfinished tree, answers that agree with the verdict, every
call returns. Error streams: a message is the call's own, nothing is left for
the next call. Lexer: the tokens are those of the text, the first mistake is the
one reported, every position named exists. Parser: it accepts the words of the
grammar and no others, a failure has a message and the message gives advice that
leads on, nothing of the text is missing in the tree, no two nodes of it have one
number. Drawings: they show the whole tree, and tell different trees apart.
Literals: the number in the text. Semantic analysis: it
refuses exactly the texts that break a rule of the language, and after it no
evaluation reads an identifier without a value or fails an assertion; its tree is
the one the text means. Optimizer:
the same result and the same errors as the tree as written, for every argument
list. Evaluation: `nullopt` exactly when an error was printed.

## 2. The modules

**JitService** is the abstract service: functions, verdicts, pending calls and
answers, without locks, passes or streams.

**Pljit** is the call path at the granularity at which threads interleave. The
variables are the fields of the class (one function from index to value per
vector), the two streams, the two sides of the `std::shared_mutex`, and for
each calling thread its program counter and locals. `Register` is
`registerFunction`; the other actions are the statements of the handle in
program order: `Call`, `LockExclusive`, `CheckTrigger`, `Lex`, `Parse`,
`Analyse`, `Optimize`, `ReturnRejected`, `UnlockExclusive`, `LockShared`,
`Explain`, `Evaluate`, `PrintDivZeroError`, `ReadMessage`, `ClearStream`,
`Release`. A text is refused by the lexer, the parser or the semantic analysis,
or valid, or it is one of three kinds that end the process: the parser accepts what it
has printed an error for (`brokenDeclaration`, `ParseTree.cpp:82`) and the assertion
after the pass fails, the parser meets the end of the text where it does not ask for it
(`unfinished`, `ParseTree.cpp:711`, `CodeManager.cpp:95`), or the optimizer folds the least
integer divided by -1 (`foldTraps`). `Abort` is the end of the process, under whatever
lock the thread holds; an evaluation may abort as well. The builds of the
repository have assertions (`.gitlab-ci.yml:5`). A message is a sequence of insertions, each named
by the thread that made it. Unsynchronised accesses of two threads to one
stringstream are undefined behaviour: the model lets the access take effect or
be lost (`Racing`). Corruption of memory by a racing stream is not modelled.
`compilations`, `owed` and `disturbed` are history variables.

**NodeNumbers** puts the counters beside `Pljit`: while a thread is in the pass
that builds a tree, `ReadCounter` and `WriteCounter` are the two halves of
`node_index_incrementer++`, and `RegisterRoots` makes the roots, which
`registerFunction` constructs. Every other step is one of `Pljit` (`Beside`), so
that the lock protocol is the same text and not a copy. `overlapped` is a history
variable: a function was in a pass in which another function was too. A run with many
functions only needs those that get no further than the counter: `FewOrRefused` lets
there be more than `MaxMixed` functions if the parser refuses them all. Both
counters, of parse trees and of abstract trees, are in the module; the run looks
at the first, the theorems hold for any of them.

**Optimizer** meets one function body node by node in post-order and advances
three computations together: the visitor's folding, `evaluate` on the written
tree and `evaluate` on the rewritten tree. Every body within the bounds, and
every argument list, is one of its behaviours. Integers have the width `Half`
and wrap (the builds define no other overflow), except for the quotient that
traps. Each computation traps by itself: a run that does is `trapped` and executes nothing
more, and a trap of the visitor (`crashed`) ends the process before any call. `outdated`,
`misled`, `silenced` and `premature` are history variables that say when the visitor has
used a value that was overwritten, dropped a statement that failed or trapped, or
trapped at a division that the written function does not reach.

**Lexemes** says what the tokens of a text are without reading it from left to
right: a lexeme is a range of positions with a type, a mistake a range that can
be part of none. Characters are known by their kind, and the keywords are a
constant. Two choices follow the code and not final.pdf (p. 6 and p. 9): the six
characters between `Z` and `a` may stand in identifiers, and `1234a` is a mistake
and not a literal followed by an identifier (`TestTokenStream.cpp` tests that).

**Lexer** is the constructor of `CodeManager` and `TokenStream::compileCode` on
one text. Lines are views into it, as the `string_view`s of the code are, and
positions count from 1. The inner loops over characters are the operator
`Until`; each round of the outer ones is an action: `SplitLine`, `StartLexing`,
`SkipWhiteSpace`, `TakeToken`, `RejectCharacter`, `RejectWord`, `EndLine`,
`Accept`. `ReportEndOfText` is the message a parser prints when the tokens end.

**Literals** reads the digits of a literal as `LiteralAST` does, through the
`CodeReference` of its token, and computes its value with the width `Half`.
`str_to_int64` has no range check; what the builds make of an overflow is the
number modulo the width.

**Parser** is the recursive descent. Every `recursiveDescentParser` is a list of
blocks (need a child, an optional child, expect a token, repeat after a
separator, and so on), one operator per class, so that it can be compared with
the code function by function; each kind of block is an action. A frame is an
activation: its class and the blocks it has left. A token is
chosen when it becomes the next one, so the behaviours are all token streams.

**Grammar** is the EBNF of final.pdf p. 6 as sets of sentential forms. An option or
a repetition is a nonterminal of its own, named by its brackets; `Leftmost` makes
five leftmost expansions of every form, as many as lie between any symbol and its
first token. **ParserGrammar** runs both side by side: `forms` holds every way to
complete the tokens consumed so far to a word.

**ParseTree** runs the parser and builds the tree beside it: `growing` has the node
of every activation, `GrowChild` constructs a child, `GrowLeaf` takes a token into
a leaf, and `Attach` gives a finished child to its parent or drops it, each
together with the parser's own step. `node_index_incrementer` counts as the code
does: two numbers for a literal, a variable declaration and a generic token.
`Leaves` are the tokens a tree holds. It opens all nodes, one level at a time, as
often as there have been nodes, which is more often than a tree is high.

**TreeDrawings** is `PrintVisitor`: `Drawn...` are the cases of each visit
function, `Visit` its two loops, and `VisualizeDot` and `TestDot` the two drawings
as sequences of vertices and edges.

**AbstractTree** makes the abstract tree from it: `AnalyzePrimary`, `AnalyzeUnary`,
`AnalyzeMultiplicative`, `AnalyzeAdditive` and `AnalyzeStatement` are the overloads
of `analyzeExpression` and `analyzeStatement`. Nodes have the number and the place
they show in messages. Names count as declared and readable, for which texts are
refused is the subject of `Semantic`. The recursion is a function of its depth:
`made`, the argument of the first four, is `analyzeExpression` one call further down,
and `AnalyzeExpression` goes as deep as there are tokens, which is deep enough for
every part of the text. `Statements` is the loop of `FunctionAST::compileCode`.
`TextMeaning` is what the tree is compared with: it reads tokens, not trees, and knows
the language from final.pdf (p. 6, p. 15). `Meaning` splits the tokens `from .. to` at
the first operator of the lowest precedence outside parentheses.

**AstDrawings** is `PrintASTVisitor` on that tree, with `VisualizeAst` and `TestAst` as
its two drawings.

**Semantic** is the symbol table, the analysis of statements and expressions and
one call of the function. `Declare` is a round of the loops in `addAttributes` and the
constructor, `EndDeclarations` the question `compileCode` asks of the table. The rest
of the analysis is recursive: `frames` holds the activations of `analyzeStatement` and
`analyzeExpression` that wait for a child, and `stage` the level that is entered or the
result, a node or `nullptr`, that is returned. `BeginAssignment` and `BeginReturn` enter a
statement; `AdditiveExpression`, `MultiplicativeExpression`, `UnaryExpression`,
`ReadIdentifier` and `ReadLiteralOrParenthesis` the overloads of `analyzeExpression`;
`ReturnToLeft`, `ReturnThrough` and `ReturnToAssignment` are what a caller does with a
result, one action per activation that is left; `EndStatement` and `EndBody` are
`compileCode`. A call that only passes its result on leaves no frame. `NewContext`,
`EvaluateAssignment` and `EvaluateReturn` are the call, which may have too few or too many
arguments; an expression is then the set of identifiers it reads, and a division may fail
whenever there is one. The properties are stated of the text (`declared`, `statement`,
`body`), not of the table.

**MCPljit** adds the model values of threads, **MCSemantic** the symmetry of
identifiers, **MCLexer** a keyword of one letter, **MCTrees** the alphabets of texts.
**PljitProofs** (with the counters), **LexerProofs** (with the literals),
**ParserProofs**, **ParserGrammarProofs**, **ParseTreeProofs**, **AbstractTreeProofs**,
**SemanticProofs** and **OptimizerProofs** hold the theorems.

The modules meet at the verdicts of the passes: `Pljit` takes the verdict of
each pass from the kind of the text, and `Lexer`, `Parser` and `Semantic` show
what a verdict promises of the text and the error stream. The assertions that
`Pljit.hpp` makes between the passes are properties of those modules.

## 3. The runs

| Run | Bounds | Shows |
|---|---|---|
| `PljitService.cfg` | 2 threads, 2 functions of five kinds or 3 that the parser refuses, 2 calls each, 1 error of 1 insertion, 3 nodes of a parse tree | types; `CompileOnce`; `EvaluateOptimizedOnly`; `RepliesAgree`; `NoResidue`; `UndisturbedMessage`; `VerdictIsFinal`; refinement of `JitService`; `EveryCallReturns`; `NumbersAreUnique` |
| `PljitOwnMessage.cfg` | 2 threads, 1 function, 1 call each | `OwnMessage` is violated |
| `LexerTexts.cfg` | every text of up to 5 of 11 characters, two of them digits, the keyword `E`; 8-bit integers | types; `LinesAreTheText`; `TokensAreLexemes`; `FirstMistakeIsReported`; `ReferencesFit`; `LiteralsHaveTheirNumber`; `LexingEnds` |
| `LexerLastLine.cfg` | the same with 3 characters | `LastLineIsNotEmpty` is violated |
| `ParserWords.cfg` | every stream of up to 10 tokens | types; `RejectedIsReported`; `AcceptsOnlyWords`; `RefusesOnlyNonWords`; `AdviceIsViable`; `Terminates` |
| `TreesDrawn.cfg` | every text of up to 11 tokens of one of three alphabets | types; `LeavesAreTheText`; `DotsShowTheTree`; `AstIsTheMeaning`; `AstDotsShowTheTree` |
| `ParserClean.cfg` | up to 7 tokens | `AcceptedIsClean` is violated |
| `ParserLookup.cfg` | up to 7 tokens | `LookupHasToken` is violated |
| `SemanticRules.cfg` | 3 names, 3 declarations, 3 statements, 3 activations, up to 3 arguments | types; `AnalysisIsExact`; `OneMessagePerRejection`; `ReadsHaveValue`; `AssertionsHold`; `NulloptIsReported`; `ArgumentsInOrder` |
| `OptimizerAgrees.cfg` | 1 parameter, variable and constant, 2-bit integers, 2 assignments, 5 nodes | types; `KnownIsCurrent`; `FoldsAreTrue`; `OptimizedAgrees`; `NulloptIsReported` |
| `OptimizerValue.cfg` | the same with 3 nodes | `SameValue` is violated |
| `OptimizerFailure.cfg` | the same with 3 nodes | `SameFailure` is violated |

Why the bounds are enough. Two threads are a winner of the first call and a loser
that waits for it, or two evaluations side by side, or two compilations of
different functions; a second call of each meets every state a function can be
left in. Two functions show that they do not share anything but the object and
the counters. Three are needed for the counters: two that race for one and leave it
behind numbers they have given, and a third that is compiled alone after them. A text
that the lexer or the analysis refuses takes the same way out as one that the parser
refuses. One insertion is enough for a message to be lost or doubled;
`PljitOwnMessage.cfg` has two insertions, so that it can be torn. Every safety
property of this run is proved for any number of threads, functions, calls,
errors and insertions. Three nodes are the root, made at registration, and two
that a racing compilation may number. In the optimizer five nodes hold an operation whose
two operands are an operation and a leaf, or two signed leaves; two assignments
hold an overwrite and its use; two bits hold zero, both signs, an overflow in
each operation and the trapping quotient; a literal may have any of the values,
since one that overflows in `str_to_int64` may be negative. Five characters hold a word between
two others, a two-character token cut by a newline, and an empty line between
two lines. Literals of three digits pass the width of eight bits, those of five several times.
The shortest function is `BEGIN RETURN 1 END .`, five tokens; ten hold
each declaration with a body, an assignment before the `RETURN`, a list of three,
parentheses and signs. The alphabets of `MCTrees` keep trees of eleven tokens
apart by what they are about: sums, products and parentheses (an expression of
seven tokens has three operators, or two and a pair of parentheses), signs beside binary operators, and
declarations with assignments; the parser itself meets every mixture in
`ParserWords.cfg`. Three statements hold a variable that is assigned, read
and read too early; three declarations hold two kinds of one name and a third
name beside them; three activations are a statement, an operator and an operand that is
a sum, a product or a sign, at which `nullptr` arrives from below. The proofs remove the bounds for every property except
`EveryCallReturns`, `LexingEnds`, `Terminates`, and the two about drawings of
`TreesDrawn.cfg`.

Fairness. `FairSpec` asks weak fairness of each thread's next step: a thread
inside a call keeps running, and one that waits for a mutex which stays free
gets it, unless the process ends, which ends all threads. Nothing forces a client to call. `std::shared_mutex` promises no
fairness between waiting threads, so a client that called without end could
starve another one; `EveryCallReturns` is checked for finitely many calls
(`MaxCalls`), after which every mutex stays free. `FairNodesSpec` asks the same of
the steps with the node counters in between. `Lexer` and `Parser` ask weak
fairness of their next step: `compileCode` is a call in one thread, which goes
on until it returns.

## 4. Where the code and its documents disagree

* A failing call may return another call's message, a mixture, or nothing
  (`OwnMessage`): evaluations share the run-time error stream under a *shared*
  lock. `TestPljit.cpp:169` asserts the exact message under concurrency. What
  does hold, and is proved, is that a call not overlapped by another failing one
  returns its own text (`UndisturbedMessage`) and that nothing is left behind
  (`NoResidue`).
* Optimization may change a function's value (`SameValue`):
  `x := 1; x := p; RETURN x` becomes `RETURN 1`, because a non-constant
  assignment leaves the visitor's context as it was. `test_semantic/TestOptimization.cpp:174`
  asserts equal values.
* Optimization may remove a failure (`SameFailure`): a constant `RETURN` clears
  the statements before it. `test_semantic/TestOptimization.cpp:631` asserts that failures
  stay.

* A declaration that fails after its keyword has printed an error, but
  `FunctionDeclaration` ignores its answer, and parsing may succeed
  (`AcceptedIsClean`: `PARAM a BEGIN RETURN 1 END.`, `ParseTree.cpp:82`).
  `Pljit.hpp:87` asserts that the stream is empty then. `AcceptsOnlyWords` holds
  for every text accepted without a message.
* `UnaryExpression` looks at the next token without asking whether there is one
  (`LookupHasToken`, `ParseTree.cpp:711`), against the assertion at
  `TokenStream.cpp:175`: a text that ends after `:=` or an operator aborts.
* The error at the end of a text asserts that its last line is not empty
  (`LastLineIsNotEmpty`, `CodeManager.cpp:95`), but the constructor keeps empty
  lines, the last one included (`CodeManager.cpp:14`).

Two comments are narrower than they read. "Unique" of node numbers
(`ParseTree.hpp:19`, `AST.hpp:108`) holds for trees whose pass no other function
was in: a thread that was interrupted inside `node_index_incrementer++` takes the
counter back, and numbers come twice (drop the condition on `overlapped` and
`PljitService.cfg` shows it). A tree made alone after such a race may share numbers with
those that raced, but not with one that was made alone before. Only the drawings read them. And the drawing that
the tests compare abstract trees by (`testDot`) leaves out which variable is
assigned (`PrintASTVisitor.hpp:81` has a note of that): `TestAstCanBeTraced` says
that it leaves out nothing else.

`OptimizedAgrees` says, and its theorem proves, in which ways the optimizer changes what
a function does, traps included. There are three. A constant is outdated (`misled`); a
constant `RETURN` has removed a statement that failed or trapped (`silenced`: `x := 1/p;
RETURN 1` for `p = 0`, or a quotient of the least integer and `p = -1`); or the visitor
traps at the least integer divided by -1 although the written function has failed or trapped
before that (`premature`: `x := 1/p; RETURN` that quotient, for `p = 0`). The third has
no test or comment that speaks of it, so it is no run of its own.

## 5. What is proved

All proofs are by the SMT solver and Zenon, PTL for the temporal steps; they
assume only the named assumptions on the constants (bounds are naturals, a
message has at least one insertion, the no-thread value is no thread, the width
is positive, `NullOpt` is no integer, the three kinds of identifiers are
disjoint, `NoName` is no name, the kinds of characters are disjoint, keywords
consist of letters, digits are decimal, `LITERAL` is no character).

`PljitProofs`. `TypeCorrect` is inductive. The other invariants rest on an
inductive invariant of three parts: the lock (the owner of the mutex is exactly
the thread whose program counter is inside the exclusive section, its sharers
exactly those inside the shared one, never both), the code (what the stage, the
trigger and the error text of a function must be, given where its compiling
thread stands), and the stream (its content is empty unless somebody is failing,
and is the prefix printed so far by the only failing thread if it is
undisturbed). None of the properties is inductive alone: `CompileOnce`, for
example, needs that a thread between the test and the verdict owns the mutex.
`VerdictsAreFinal` and `RefinesService` are step theorems from the same
invariant; the refinement maps a call's return to an abstract answer, the step
that writes the trigger to `Settle`, and everything else to a stutter.

The counters, in `PljitProofs` too. The calls beside the counters are those of `Pljit`
(`NodesRefine`), so the lock part of its invariant is there to use: two threads in
one pass have two functions. `BeyondInv` is the strengthening: the counter is beyond every
number of a tree whose pass nobody shared, up to the node that is just being made,
and no thread that has read the counter will take it back to one of them. Uniqueness
inside a tree and between two trees needs it at each `ReadCounter`, and it needs
`OverlapInv`, that whoever is pending beside a pass has been noticed there.

`OptimizerProofs`. `ReportInv` relates the number of errors of a run in progress
to the `NullOpt` entries on the stack, and says that readable identifiers have
values; it gives `FailuresAreReported`. `SoundInv` adds that the two runs mirror
each other, traps included, while no outdated value has been read; at a constant `RETURN`
it needs `ReportInv` to know that a written body which is still running has printed nothing,
and at a division `FoldsAreTrue` to know that what traps in the visitor traps in the
written function too, if that one gets there.

`LexerProofs`. Five properties rest on `LexInv`, of four parts beside the types.
`SplitInv`: the lines cover the text up to `next_line`, each begins where the one
before ended and its number is one more than the newlines before it. `PlaceInv`:
between two rounds of the loop the lexer stands where a token may begin, never
inside a word. `TokenInv`: what was passed holds no mistake, and the tokens found
are all lexemes that lie in it, in order. `MessageInv`: the lexer has
printed nothing, or rejected a mistake that begins where it stands. None is
inductive alone; `TokenInv` needs `PlaceInv`, for a token found inside a word would be no lexeme, and
`PlaceInv` needs `SplitInv`, for a word ends at the end of its line. `Until`
chooses the first position with a property: that there is one is `WFMin`, from
the well-foundedness of the naturals.

The literals, in `LexerProofs` too. `LiteralsHaveTheirNumber` needs no invariant of its own: that a
literal is a range of digits and its reference a range of a line are the theorems
about the lexer. What it needs is that the loop of `str_to_int64`, which wraps at each
digit, computes the number modulo the width. `LoopComputesNumber` shows
that what has been read, at the place of the digits to come, and the digits to
come differ from the number by a multiple of the width after every digit
(`OneDigit` is the step), and `WrapOfCongruent` that this determines the result.
Induction and recursion are over the digits of one literal: `BoundedInduction` and
`RecursionExists` state them of sets and functions and not of operators, which is what
the provers can use. (`ParseTreeProofs` has the same two lemmas: the modules share no
other fact, and neither can extend the other.)

`ParserProofs`. `ParserInv` is the types with three parts: the activations form a
chain, each but the innermost waiting at the block that made the next one, and a
keyword that may be missing is looked for by optional children only (`Chain`);
the token ahead agrees with the count (`Window`); and who returns false has
printed a message or was optional (`Reported`). Without `Chain` the last part
does not survive a return through several activations.

`ParserGrammarProofs` shows that the parser and the grammar agree on texts of every
length. What a message promises is proved of the moment it is printed, so the invariant
(`GrammarInv`) has to say what is true until then. While there is no message
(`OnCourse`) the stack of activations stands for one sentential form: each block
that is left in an activation explains one symbol (`Explains`), the blocks of an
activation its part of the form (`Describes`), and the activations that wait, one
after the other, the rest (`StackOf`). The forms the grammar can go on with are the
leftmost expansions of that form, but for some that do not begin with the next
token (`Expects`): the parser has chosen one alternative by looking at one token,
and the others are out. That the choice loses nothing is the LL(1) property of the
grammar: `Follows` says what can come after each class, `Begins0` to `Begins5` what
a form begins with after so many expansions, and the lemmas on alternatives that
no two of them begin with the same token. An activation that looks for a keyword
which may be missing stands for two forms, with its declaration and without it
(`Goals`). After a message no form begins with the next token (`Refused`), and this
stays so: if the parser goes on and consumes a token all the same, no form is left.
`Chain` of `ParserInv` carries the advice from the message to the end of the call. A list of blocks or a stack has any length; that it stands for a form
is said by a set of pairs in which each pair is justified by a shorter one
(`Justified`, `Supported`) instead of a recursive function, so that a step only has
to add or take one pair. `ExpandNonterminal` and `ExpandOption` are the grammar
as lemmas, the only ones that know its productions.

`ParseTreeProofs`. `LeavesAreTheText` is not inductive: it says what the nodes under
construction hold, but not that they are where a parent can take them. `TreeInv`
adds to `ParserInv` what the steps need (`Grown`). `Trees`: there is one node for each
activation, and of `n` numbers given out the tree of the `i`-th activation has no more
than `n + 1 - i` levels, so that it can be attached one level further down and `Leaves`
still reaches its tokens. `Fits`: only a terminal that is finished holds a token, and a
terminal or a declaration that is still waiting for its first token has no child; with `Chain` of `ParserInv`,
which says that only such an activation fails without a message, what is dropped
silently is empty. `NextIs` sorts the steps of the parser by what they do to the
stack (enter, continue, return, stay), and each kind has its lemma (`EnterKeeps`,
`TerminalKeeps` and `ChildKeeps`, `FailureKeeps` and `SuccessKeeps`, `StayKeeps`).
The lemmas about `Opened` are an induction over the number of levels and none over trees:
the leaves of two lists one after the other are the leaves of each (`OftenConcat`), and
giving the last node to the one before it leaves them in order
(`OftenAdopted`, `OftenReplaced`).

`TreeIsNumbered`, in `ParseTreeProofs` too, is about the numbers of the nodes below the
root, at every moment and whatever was dropped: `NumbersMakeATree` says that no two
have one number, that none is a child twice, and that the root is a child of none. Its
invariant (`NumbersInv`) also speaks of the nodes under construction: neither they nor
the finished ones share a number or a child, and the counter is beyond them all. An
attached node was in no list of children before, for these lists hold finished nodes
only (`AdoptedDiffers`). With two numbers for a literal the second is greater than
those of its parents and brothers so far, which is why the counter and not the order of
construction has to bound them. No run checks this property by itself; a part of what
`DotsShowTheTree` says of `visualizeDot` is the same.

`AbstractTreeProofs` shows that the abstract tree of an accepted text is the one the text
means, for texts of every length. The types and leaves of `TreeInv` are not enough, since
two trees may have the same leaves. The invariant that is (`SpanInv`) adds, for as long as
nothing was printed, a set `T` of nodes and a set `D` of triples `<<x, a, b>>`: node `x`
stands for the tokens after the `a`-th up to the `b`-th. `Spans` says three things of
them. The children of `x` cover its part without a gap (`Covers`). The pattern of the
children so far and the blocks that are left are one of the stages of the class of `x`
(`Stage`): there are finitely many for an expression, while lists and the function have
stages that repeat, and a finished node is at a stage without blocks. And the part of `x`
has none of the tokens that would end a statement or a body (`Forbidden`), for otherwise
the text could be split at another place than the tree. Nodes under construction stand
for the parts between the `cuts`, the places at which their activations began.
`Moves` is what a block may do to a pattern; `MovesAvoid` and `StageMoves` show that each step of
the parser keeps the last two, and the lemmas on laying (`BegunLays`,
`TerminalLays`, `TokenLays`, `CompletedLays`, `LeftOutLays`) that it keeps the cover. `Outermost` is needed besides: the
activation that accepts is the function's.

From a finished tree on nothing is temporal. Each node's children are one of a few kinds
(`OperatorKidsAre`, `UnaryKidsAre`, `PrimaryKidsAre`), each with its part of the text.
`Means` says that at every depth that suffices the recursion over the tree
and the one over the tokens give the same node, and that the part can be read as the
class says (`Reads`): it is balanced in its parentheses, and outside of them only a sum
has a `+` or `-` between operands and only a sum or a product a `*` or `/`. These facts locate the operator of a parent
(`BinaryRead`, `SignRead`, `ParenRead`): it is the first one outside parentheses whatever the right side
is. `ExpressionsMean` is by induction on the length of the part. The statements are by
induction over the list (`ListMeans`), beside the reading of the body from one end of
a statement to the next, which works since the separators are the only ones
(`NothingEnds`, `LastCutIs`).

`SemanticProofs`. `TableInv` relates the symbol table to the declarations of the
text, up to the one that was refused, the indices of parameters to their positions, and
initialized variables to the assignments so far. `FramesInv` says what the activations
may be: the statement's own one waits below the others and nowhere else, and an
expression is never analysed without it. `BodyInv` says that every statement accepted is
valid given those before it, that what was read so far of the one being analysed is valid
too, unless a `nullptr` is on its way up, and that there is one message from the moment a
mistake is met, at whatever depth, to the verdict. An activation that goes on after
`nullptr` breaks both: a statement with a mistake would count as read, and print again.
`ExactAnalysis` and `RejectionHasMessage` follow from it. `CallInv` says that the identifiers
with a value are exactly the parameters, the constants and what the statements before the
present one assign. Together they carry the rules from the analysis to the evaluation:
`ReadsHaveValue` and `AssertionsHold` follow from no single one. `AssertionsHold` says that
the assertions of `EvaluationContext` fail exactly for a call with fewer arguments than the
function has parameters, which `Pljit.hpp:61` leaves to the client.

Only model-checked: `EveryCallReturns`, `LexingEnds` and `Terminates` (liveness is
out of the provers' reach), and the last properties of `TreesDrawn.cfg` on either kind
of tree, `DotsShowTheTree` and `AstDotsShowTheTree`. A drawing, and what is read from
one, is the result of RECURSIVE operators over trees of any depth, about which the
provers know nothing. Written as functions of their depth, as `AbstractTree` is, they
could be proved about; that has not been done.

## 6. What is left out

* Registration beside calls (`Pljit.hpp:45`). `registerFunction` grows seven vectors
  that handles index without a lock. A reallocation under a handle leaves nothing
  defined that a property could speak of, and neither the code nor final.pdf (p. 18)
  offers it; `Register` is enabled while no call is in progress.
* Builds without assertions (`NDEBUG`). There a function whose broken declaration was
  accepted goes on, with its error text left in the stream, an unfinished text makes the
  parser read past its tokens, and too few arguments are read past their list.
* Memory corrupted by a racing stream or counter. A racing access to a stream takes
  effect or is lost; a racing increment reads and writes the old value.
* The layout of messages and drawings, and `main`, which only writes.
* Drawings of optimized trees: the visitor is the same, the tree the optimizer's.
* The six characters between `Z` and `a` that `isLetter` lets through
  (`TokenStream.cpp:30`) are letters in `Lexemes`; no property asks whether they
  should be.
* `cmake/thirdparty`: the vendored googletest and benchmark are libraries of the
  tests and no part of the program, which is the 4322 lines under `pljit`. Their code
  is never reached by a function that is registered and called.
