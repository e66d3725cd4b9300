------------------------------- MODULE Pljit -------------------------------
(***************************************************************************)
(* The call path of class Pljit (pljit/Pljit.hpp): registration, the lazy  *)
(* compilation of a function inside its first call, and the evaluation of  *)
(* concurrent calls, at the granularity at which threads can interleave:   *)
(* every lock operation, every pass of the compiler and every access to    *)
(* the run-time error stream is a step of its own.                         *)
(*                                                                         *)
(* What a pass does to the text is abstracted to what it answers: a source *)
(* text is one of the kinds in Sources.  Three of them end the process in  *)
(* the build the repository makes, with assertions: the parser accepts     *)
(* what it has printed an error for (brokenDeclaration), or itself fails   *)
(* at the end of the text (unfinished), or the optimizer folds MIN / -1    *)
(* (foldTraps).  A printed error message is a sequence of pieces (the <<   *)
(* insertions of printDivZeroError), each named by the thread that wrote   *)
(* it.                                                                     *)
(***************************************************************************)
EXTENDS Naturals, Sequences, FiniteSets

CONSTANTS
    Callers,       \* threads that call function handles
    NoCaller,      \* value of exclusive[f] when no thread owns the lock
    MaxFunctions,  \* bound: functions registered in a behaviour
    MaxCalls,      \* bound: calls each thread makes
    Sources,       \* kinds of source text given to registerFunction
    MaxErrors,     \* bound: divisions by zero in one evaluation
    Pieces         \* stream insertions of one printDivZeroError

ASSUME CallersAssumption == NoCaller \notin Callers
ASSUME BoundsAssumption ==
    /\ MaxFunctions \in Nat
    /\ MaxCalls \in Nat
    /\ MaxErrors \in Nat
    /\ Pieces \in Nat \ {0}
ASSUME SourcesAssumption ==
    Sources \subseteq {"lexError", "parseError", "semanticError", "valid",
                       "brokenDeclaration", "unfinished", "foldTraps"}

VARIABLES
    capacity,       \* number of registered functions
    source,         \* index -> kind of the registered text
    aborted,        \* the process has ended: an assertion or a signal
    compileTrigger, \* index -> "unset" | "success" | "failure"
    stage,          \* index -> last pass that finished
    compileError,   \* index -> CodeManager::compileErrorStream
    runtimeError,   \* index -> CodeManager::runtimeErrorStream
    exclusive,      \* index -> owner of the unique_lock
    shared,         \* index -> owners of a shared_lock
    pc,             \* caller -> the statement it is about to execute
    fn,             \* caller -> index captured by the handle it calls
    isCompiled,     \* caller -> the local of that name
    printed,        \* caller -> pieces written by the current evaluation
    reply,          \* caller -> the pair its last call returned
    callsLeft,      \* caller -> calls it may still make
    \* history, read by properties only
    compilations,   \* index -> times the compiler was started
    owed,           \* caller -> pieces its evaluation writes in all
    disturbed       \* caller -> another failing evaluation overlapped

functionVars == <<capacity, source, aborted>>
codeVars == <<compileTrigger, stage, compileError, compilations>>
lockVars == <<exclusive, shared>>
evalVars == <<runtimeError, printed, owed, disturbed>>
callVars == <<fn, isCompiled, reply, callsLeft>>
vars == <<functionVars, codeVars, lockVars, evalVars, callVars, pc>>

Indices == 0 .. MaxFunctions - 1

Labels == {"idle", "lock", "check", "lex", "parse", "analyse", "optimize",
           "reject", "unlock", "share", "evaluate", "print", "read", "clear",
           "explain", "release"}

NoReply == [kind |-> "none", function |-> 0, message |-> <<>>]

\* The text one thread writes with n insertions.
Text(c, n) == [i \in 1 .. n |-> c]

-----------------------------------------------------------------------------
Init ==
    /\ capacity = 0
    /\ source = [f \in Indices |-> "none"]
    /\ aborted = FALSE
    /\ compileTrigger = [f \in Indices |-> "unset"]
    /\ stage = [f \in Indices |-> "registered"]
    /\ compileError = [f \in Indices |-> <<>>]
    /\ runtimeError = [f \in Indices |-> <<>>]
    /\ exclusive = [f \in Indices |-> NoCaller]
    /\ shared = [f \in Indices |-> {}]
    /\ pc = [c \in Callers |-> "idle"]
    /\ fn = [c \in Callers |-> 0]
    /\ isCompiled = [c \in Callers |-> FALSE]
    /\ printed = [c \in Callers |-> 0]
    /\ reply = [c \in Callers |-> NoReply]
    /\ callsLeft = [c \in Callers |-> MaxCalls]
    /\ compilations = [f \in Indices |-> 0]
    /\ owed = [c \in Callers |-> 0]
    /\ disturbed = [c \in Callers |-> FALSE]

Goto(c, label) == pc' = [pc EXCEPT ![c] = label]

\* registerFunction: its vectors grow without a lock, so here it runs only
\* while no handle is being called.  Nothing is compiled yet.
Register(kind) ==
    /\ ~aborted
    /\ capacity < MaxFunctions
    /\ \A c \in Callers : pc[c] = "idle"
    /\ source' = [source EXCEPT ![capacity] = kind]
    /\ capacity' = capacity + 1
    /\ UNCHANGED <<aborted, codeVars, lockVars, evalVars, callVars, pc>>

-----------------------------------------------------------------------------
(* The locks.                                                              *)

\* A mutation: the unique_lock does not wait for readers.
LockExclusiveIgnoresReaders(c) ==
    /\ pc[c] = "lock"
    /\ exclusive[fn[c]] = NoCaller
    /\ exclusive' = [exclusive EXCEPT ![fn[c]] = c]
    /\ Goto(c, "check")
    /\ UNCHANGED <<functionVars, codeVars, evalVars, callVars, shared>>

\* A handle is called; every call starts at the unique_lock.
Call(c, f) ==
    /\ ~aborted
    /\ pc[c] = "idle"
    /\ callsLeft[c] > 0
    /\ f < capacity
    /\ fn' = [fn EXCEPT ![c] = f]
    /\ callsLeft' = [callsLeft EXCEPT ![c] = @ - 1]
    /\ reply' = [reply EXCEPT ![c] = NoReply]
    /\ Goto(c, "lock")
    /\ UNCHANGED <<functionVars, codeVars, lockVars, evalVars, isCompiled>>

LockExclusive(c) ==
    /\ pc[c] = "lock"
    /\ exclusive[fn[c]] = NoCaller
    /\ shared[fn[c]] = {}
    /\ exclusive' = [exclusive EXCEPT ![fn[c]] = c]
    /\ Goto(c, "check")
    /\ UNCHANGED <<functionVars, codeVars, evalVars, callVars, shared>>

\* A mutation: the outcome is assumed instead of read under the lock.
UnlockExclusiveAssumes(c) ==
    /\ pc[c] = "unlock"
    /\ isCompiled' = [isCompiled EXCEPT ![c] = TRUE]
    /\ exclusive' = [exclusive EXCEPT ![fn[c]] = NoCaller]
    /\ Goto(c, "share")
    /\ UNCHANGED <<functionVars, codeVars, evalVars, shared,
                   fn, reply, callsLeft>>

\* isCompiled is read, then the scope of the unique_lock ends.
UnlockExclusive(c) ==
    /\ pc[c] = "unlock"
    /\ isCompiled' =
          [isCompiled EXCEPT ![c] = compileTrigger[fn[c]] = "success"]
    /\ exclusive' = [exclusive EXCEPT ![fn[c]] = NoCaller]
    /\ Goto(c, "share")
    /\ UNCHANGED <<functionVars, codeVars, evalVars, shared,
                   fn, reply, callsLeft>>

LockShared(c) ==
    /\ pc[c] = "share"
    /\ exclusive[fn[c]] = NoCaller
    /\ shared' = [shared EXCEPT ![fn[c]] = @ \cup {c}]
    /\ Goto(c, IF isCompiled[c] THEN "evaluate" ELSE "explain")
    /\ UNCHANGED <<functionVars, codeVars, evalVars, callVars, exclusive>>

\* A mutation: an early return forgets the shared_lock.
ReleaseForgets(c) ==
    /\ pc[c] = "release"
    /\ Goto(c, "idle")
    /\ UNCHANGED <<functionVars, codeVars, evalVars, callVars, lockVars>>

\* The shared_lock is destroyed and the call returns.
Release(c) ==
    /\ pc[c] = "release"
    /\ shared' = [shared EXCEPT ![fn[c]] = @ \ {c}]
    /\ Goto(c, "idle")
    /\ UNCHANGED <<functionVars, codeVars, evalVars, callVars, exclusive>>

-----------------------------------------------------------------------------
(* Compilation, under the unique_lock.                                     *)

CheckTrigger(c) ==
    /\ pc[c] = "check"
    /\ \/ /\ compileTrigger[fn[c]] = "unset"
          /\ Goto(c, "lex")
          /\ compilations' = [compilations EXCEPT ![fn[c]] = @ + 1]
       \/ /\ compileTrigger[fn[c]] # "unset"
          /\ Goto(c, "unlock")
          /\ UNCHANGED compilations
    /\ UNCHANGED <<functionVars, lockVars, evalVars, callVars,
                   compileTrigger, stage, compileError>>

\* What the code asserts after each pass that did not fail.
NothingPrinted(c) == compileError[fn[c]] = <<>>

\* One pass: it fails on the kind of text it is there to refuse, printing an
\* error, or hands over to the next pass.
Pass(c, here, refused, done, next) ==
    LET f == fn[c] IN
    /\ pc[c] = here
    /\ \/ /\ source[f] = refused
          /\ compileError' = [compileError EXCEPT ![f] = Append(@, here)]
          /\ compileTrigger' = [compileTrigger EXCEPT ![f] = "failure"]
          /\ Goto(c, "reject")
          /\ UNCHANGED stage
       \/ /\ source[f] # refused
          /\ stage' = [stage EXCEPT ![f] = done]
          /\ Goto(c, next)
          /\ UNCHANGED <<compileError, compileTrigger>>
    /\ UNCHANGED <<functionVars, lockVars, evalVars, callVars, compilations>>

Lex(c) == Pass(c, "lex", "lexError", "lexed", "parse")

\* A declaration list whose last declaration is broken: the parser prints
\* an error and goes on to accept.
ParseBroken(c) ==
    LET f == fn[c] IN
    /\ pc[c] = "parse"
    /\ source[f] = "brokenDeclaration"
    /\ compileError' = [compileError EXCEPT ![f] = Append(@, "parse")]
    /\ stage' = [stage EXCEPT ![f] = "parsed"]
    /\ Goto(c, "analyse")
    /\ UNCHANGED <<functionVars, lockVars, evalVars, callVars,
                   compilations, compileTrigger>>

\* A mutation: the early return leaves the trigger unset.
ParseForgetsTrigger(c) ==
    /\ pc[c] = "parse"
    /\ source[fn[c]] = "parseError"
    /\ compileError' = [compileError EXCEPT ![fn[c]] = Append(@, "parse")]
    /\ Goto(c, "reject")
    /\ UNCHANGED <<functionVars, lockVars, evalVars, callVars,
                   compilations, stage, compileTrigger>>

Parse(c) ==
    /\ NothingPrinted(c)
    /\ \/ /\ source[fn[c]] \notin {"brokenDeclaration", "unfinished"}
          /\ Pass(c, "parse", "parseError", "parsed", "analyse")
       \/ ParseBroken(c)

Analyse(c) ==
    /\ NothingPrinted(c)
    /\ Pass(c, "analyse", "semanticError", "analysed", "optimize")

\* acceptOptimization cannot fail; only then is the function published.
Optimize(c) ==
    /\ pc[c] = "optimize"
    /\ NothingPrinted(c)
    /\ source[fn[c]] # "foldTraps"
    /\ stage' = [stage EXCEPT ![fn[c]] = "optimized"]
    /\ compileTrigger' = [compileTrigger EXCEPT ![fn[c]] = "success"]
    /\ Goto(c, "unlock")
    /\ UNCHANGED <<functionVars, lockVars, evalVars, callVars,
                   compileError, compilations>>

\* return {nullopt, manager.error_message()} inside the locked scope.
ReturnRejected(c) ==
    /\ pc[c] = "reject"
    /\ reply' = [reply EXCEPT ![c] =
                    [kind |-> "rejected", function |-> fn[c],
                     message |-> compileError[fn[c]]]]
    /\ exclusive' = [exclusive EXCEPT ![fn[c]] = NoCaller]
    /\ Goto(c, "idle")
    /\ UNCHANGED <<functionVars, codeVars, evalVars, shared,
                   fn, isCompiled, callsLeft>>

\* A mutation: error_message empties its stream, as runtimeErrorMessage does.
ExplainOnce(c) ==
    LET f == fn[c] IN
    /\ pc[c] = "explain"
    /\ reply' = [reply EXCEPT ![c] =
                    [kind |-> "rejected", function |-> f,
                     message |-> compileError[f]]]
    /\ compileError' = [compileError EXCEPT ![f] = <<>>]
    /\ Goto(c, "release")
    /\ UNCHANGED <<functionVars, compilations, compileTrigger, stage, lockVars,
                   evalVars, fn, isCompiled, callsLeft>>

\* A later call of a function that was refused, under the shared_lock.
Explain(c) ==
    /\ pc[c] = "explain"
    /\ reply' = [reply EXCEPT ![c] =
                    [kind |-> "rejected", function |-> fn[c],
                     message |-> compileError[fn[c]]]]
    /\ Goto(c, "release")
    /\ UNCHANGED <<functionVars, codeVars, lockVars, evalVars,
                   fn, isCompiled, callsLeft>>

-----------------------------------------------------------------------------
(* Evaluation, under the shared_lock only.                                 *)

\* The threads that are using the error stream of function f.
Failing(f) == {d \in Callers : fn[d] = f /\ pc[d] \in {"print", "read", "clear"}}

\* FunctionAST::evaluate finds some number of divisions by zero: none gives
\* a value, the first makes the result nullopt, and more may follow because
\* both operands of a binary expression are always evaluated.
EvaluatesToValue(c) ==
    /\ reply' = [reply EXCEPT ![c] =
                    [kind |-> "value", function |-> fn[c], message |-> <<>>]]
    /\ Goto(c, "release")
    /\ UNCHANGED <<functionVars, codeVars, lockVars, evalVars,
                   fn, isCompiled, callsLeft>>

EvaluatesToError(c, n) ==
    /\ owed' = [owed EXCEPT ![c] = n * Pieces]
    /\ printed' = [printed EXCEPT ![c] = 0]
    /\ disturbed' = [d \in Callers |->
                       IF d = c THEN Failing(fn[c]) # {}
                       ELSE disturbed[d] \/ d \in Failing(fn[c])]
    /\ Goto(c, "print")
    /\ UNCHANGED <<functionVars, codeVars, lockVars, callVars, runtimeError>>

Evaluate(c) ==
    /\ pc[c] = "evaluate"
    /\ \/ EvaluatesToValue(c)
       \/ \E n \in 1 .. MaxErrors : EvaluatesToError(c, n)

\* Two unsynchronised accesses to one stringstream are a data race: besides
\* taking effect, the access may be lost.
Racing(c, before, after) ==
    IF Failing(fn[c]) \ {c} = {} THEN {after} ELSE {before, after}

\* A mutation: the last insertion is made twice.
PrintOnceMore(c) ==
    LET f == fn[c] IN
    /\ pc[c] = "print"
    /\ printed' = [printed EXCEPT ![c] = @ + 1]
    /\ runtimeError' = [runtimeError EXCEPT ![f] = Append(@, c)]
    /\ Goto(c, IF printed[c] = owed[c] THEN "read" ELSE "print")
    /\ UNCHANGED <<functionVars, codeVars, lockVars, callVars, owed, disturbed>>

\* One << of printDivZeroError.
PrintDivZeroError(c) ==
    LET f == fn[c] IN
    /\ pc[c] = "print"
    /\ printed' = [printed EXCEPT ![c] = @ + 1]
    /\ \E s \in Racing(c, runtimeError[f], Append(runtimeError[f], c)) :
          runtimeError' = [runtimeError EXCEPT ![f] = s]
    /\ Goto(c, IF printed[c] + 1 = owed[c] THEN "read" ELSE "print")
    /\ UNCHANGED <<functionVars, codeVars, lockVars, callVars, owed, disturbed>>

\* runtimeErrorMessage, first statement: copy the stream.
ReadMessage(c) ==
    /\ pc[c] = "read"
    /\ reply' = [reply EXCEPT ![c] =
                    [kind |-> "runtime", function |-> fn[c],
                     message |-> runtimeError[fn[c]]]]
    /\ Goto(c, "clear")
    /\ UNCHANGED <<functionVars, codeVars, lockVars, evalVars,
                   fn, isCompiled, callsLeft>>

\* A mutation: the stream is never cleared.
ClearNothing(c) ==
    /\ pc[c] = "clear"
    /\ Goto(c, "release")
    /\ UNCHANGED <<functionVars, codeVars, lockVars, evalVars, callVars>>

\* runtimeErrorMessage, second statement: empty the stream.
ClearStream(c) ==
    LET f == fn[c] IN
    /\ pc[c] = "clear"
    /\ \E s \in Racing(c, runtimeError[f], <<>>) :
          runtimeError' = [runtimeError EXCEPT ![f] = s]
    /\ Goto(c, "release")
    /\ UNCHANGED <<functionVars, codeVars, lockVars, callVars,
                   printed, owed, disturbed>>

-----------------------------------------------------------------------------
\* What ends the process inside a call: the assertion between two passes;
\* the parser at the end of an unfinished text; the optimizer folding
\* MIN / -1; an evaluation that divides MIN by -1 or is given too few
\* arguments.
MayAbort(c) ==
    \/ pc[c] \in {"parse", "analyse", "optimize"} /\ ~NothingPrinted(c)
    \/ pc[c] = "parse" /\ source[fn[c]] = "unfinished"
    \/ pc[c] = "optimize" /\ source[fn[c]] = "foldTraps"
    \/ pc[c] = "evaluate"

\* All threads end with the process, and nothing is unlocked.
Abort(c) ==
    /\ MayAbort(c)
    /\ aborted' = TRUE
    /\ UNCHANGED <<capacity, source, codeVars, lockVars, evalVars, callVars, pc>>

\* Every step of a call that is in progress.
Move(c) ==
    \/ LockExclusive(c) \/ CheckTrigger(c)
    \/ Lex(c) \/ Parse(c) \/ Analyse(c) \/ Optimize(c)
    \/ ReturnRejected(c) \/ UnlockExclusive(c)
    \/ LockShared(c) \/ Explain(c)
    \/ Evaluate(c) \/ PrintDivZeroError(c) \/ ReadMessage(c) \/ ClearStream(c)
    \/ Release(c)
    \/ Abort(c)

Step(c) == ~aborted /\ Move(c)

Next ==
    \/ \E kind \in Sources : Register(kind)
    \/ \E c \in Callers, f \in Indices : Call(c, f)
    \/ \E c \in Callers : Step(c)

Spec == Init /\ [][Next]_vars

\* A thread inside a call keeps running; a thread waiting for a lock that
\* stays free gets it.  Nothing forces a client to call.
FairSpec == Spec /\ \A c \in Callers : WF_vars(Step(c))

-----------------------------------------------------------------------------
(* Properties.                                                             *)

Compiling == {"check", "lex", "parse", "analyse", "optimize", "reject", "unlock"}
Reading == {"evaluate", "print", "read", "clear", "explain", "release"}

\* Type invariant of the object and of the threads that call it.
TypeOK ==
    /\ capacity \in 0 .. MaxFunctions
    /\ source \in [Indices -> Sources \cup {"none"}]
    /\ aborted \in BOOLEAN
    /\ compileTrigger \in [Indices -> {"unset", "success", "failure"}]
    /\ stage \in [Indices -> {"registered", "lexed", "parsed", "analysed",
                              "optimized"}]
    /\ compileError \in [Indices -> Seq({"lex", "parse", "analyse"})]
    /\ runtimeError \in [Indices -> Seq(Callers)]
    /\ exclusive \in [Indices -> Callers \cup {NoCaller}]
    /\ shared \in [Indices -> SUBSET Callers]
    /\ pc \in [Callers -> Labels]
    /\ fn \in [Callers -> Nat]
    /\ \A c \in Callers : pc[c] # "idle" => fn[c] \in Indices
    /\ isCompiled \in [Callers -> BOOLEAN]
    /\ printed \in [Callers -> Nat]
    /\ \A c \in Callers : printed[c] <= owed[c]
    /\ reply \in [Callers -> [kind : {"none", "value", "runtime", "rejected"},
                              function : Nat,
                              message : Seq(Callers)
                                        \cup Seq({"lex", "parse", "analyse"})]]
    /\ callsLeft \in [Callers -> 0 .. MaxCalls]
    /\ compilations \in [Indices -> Nat]
    /\ owed \in [Callers -> Nat]
    /\ disturbed \in [Callers -> BOOLEAN]

\* The compiler is started at most once for a function, whatever the number
\* of threads that make its "first" call, and a started compilation that is
\* no longer running has left its verdict behind (Pljit.hpp:66-101).
CompileOnce ==
    \A f \in Indices :
        /\ compilations[f] <= 1
        /\ compilations[f] = 1 =>
              \/ compileTrigger[f] # "unset"
              \/ \E c \in Callers :
                    fn[c] = f /\ pc[c] \in {"lex", "parse", "analyse", "optimize"}

\* A tree is evaluated only in its final shape: while a thread is between
\* taking and dropping the shared_lock to evaluate, the function is
\* optimized, without errors, and no thread is inside its compiler.
EvaluateOptimizedOnly ==
    \A c \in Callers : pc[c] \in {"evaluate", "print", "read", "clear"} =>
        /\ stage[fn[c]] = "optimized"
        /\ compileError[fn[c]] = <<>>
        /\ \A d \in Callers : fn[d] = fn[c] => pc[d] \notin Compiling

\* All calls of one function agree on the verdict: a rejection carries the
\* text that the one compilation printed, never empty, and a function that
\* has rejected a call never gives another one a value or a run-time error.
RepliesAgree ==
    \A c \in Callers : LET r == reply[c] IN
        /\ r.kind = "rejected" => /\ compileTrigger[r.function] = "failure"
                                  /\ r.message = compileError[r.function]
                                  /\ r.message # <<>>
        /\ r.kind \in {"value", "runtime"} =>
              compileTrigger[r.function] = "success"

\* The verdict of a function is written once, by a thread that owns its
\* unique_lock, and the error text does not change afterwards.
VerdictIsFinal ==
    [][\A f \in Indices :
          /\ compileTrigger[f] # "unset" =>
                /\ compileTrigger'[f] = compileTrigger[f]
                /\ compileError'[f] = compileError[f]
          /\ compileTrigger'[f] # compileTrigger[f] =>
                exclusive[f] \in Callers /\ shared[f] = {}]_vars

\* Whatever threads do to the shared run-time error stream, no text survives
\* the evaluations that were failing together: a later call of the function
\* starts from an empty stream (CodeManager.cpp:157-161).
NoResidue ==
    \A f \in Indices : runtimeError[f] # <<>> => Failing(f) # {}

\* A failing evaluation that no other failing evaluation of the function
\* overlapped returns exactly the text it printed, all of it.
UndisturbedMessage ==
    \A c \in Callers :
        reply[c].kind = "runtime" /\ ~disturbed[c] =>
            reply[c].message = Text(c, owed[c])

\* What TestPljit.cpp:169 asserts of concurrent calls: each one gets exactly
\* its own error text.
OwnMessage ==
    \A c \in Callers :
        reply[c].kind = "runtime" => reply[c].message = Text(c, owed[c])

\* Every call returns unless the process ends: the two acquisitions of a
\* call cannot deadlock, and no error path keeps a lock (Pljit.hpp:66-124).
EveryCallReturns ==
    \A c \in Callers : pc[c] # "idle" ~> (pc[c] = "idle" \/ aborted)

\* The promise of the class in terms of whole calls (module JitService):
\* verdicts are reached lazily and once, calls are answered accordingly.
Service == INSTANCE JitService WITH
    Handles <- Indices,
    verdict <- compileTrigger,
    asked <- [c \in Callers |-> IF pc[c] = "idle" THEN {} ELSE {fn[c]}],
    answer <- [c \in Callers |-> IF pc[c] = "idle" THEN reply[c].kind ELSE "none"]
ImplementsService == Service!Spec
=============================================================================
