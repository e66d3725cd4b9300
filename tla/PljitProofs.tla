---------------------------- MODULE PljitProofs ----------------------------
(***************************************************************************)
(* Theorems about modules Pljit and NodeNumbers, for every number of       *)
(* threads, functions, calls, divisions by zero and nodes.                 *)
(***************************************************************************)
EXTENDS NodeNumbers, TLAPS

\* A thread that still has to print has something left to print.
PrintBound ==
    \A c \in Callers : pc[c] = "print" => printed[c] < owed[c]

TypeInv == TypeOK /\ PrintBound

\* Init gives every variable a value of its type.
LEMMA TypeInit == Init => TypeInv
  <1> SUFFICES ASSUME Init PROVE TypeInv
    OBVIOUS
  <1> USE BoundsAssumption, CallersAssumption
          DEF Init, Indices, Labels, NoReply
  <1>1. /\ capacity \in 0 .. MaxFunctions
        /\ source \in [Indices -> Sources \cup {"none"}]
        /\ aborted \in BOOLEAN
        /\ compileTrigger \in [Indices -> {"unset", "success", "failure"}]
        /\ stage \in [Indices -> {"registered", "lexed", "parsed", "analysed",
                                  "optimized"}]
        /\ compileError \in [Indices -> Seq({"lex", "parse", "analyse"})]
        /\ runtimeError \in [Indices -> Seq(Callers)]
        /\ exclusive \in [Indices -> Callers \cup {NoCaller}]
        /\ shared \in [Indices -> SUBSET Callers]
        /\ compilations \in [Indices -> Nat]
    <2>0. 0 \in 0 .. MaxFunctions
      BY SMT
    <2>1. capacity \in 0 .. MaxFunctions /\ aborted \in BOOLEAN
      BY <2>0, Zenon
    <2>2. /\ <<>> \in Seq(Callers)
          /\ <<>> \in Seq({"lex", "parse", "analyse"})
      OBVIOUS
    <2> QED
      BY <2>1, <2>2, Zenon
  <1>2. /\ pc \in [Callers -> Labels]
        /\ fn \in [Callers -> Nat]
        /\ \A c \in Callers : pc[c] # "idle" => fn[c] \in Indices
        /\ isCompiled \in [Callers -> BOOLEAN]
        /\ printed \in [Callers -> Nat]
        /\ \A c \in Callers : printed[c] <= owed[c]
        /\ callsLeft \in [Callers -> 0 .. MaxCalls]
        /\ owed \in [Callers -> Nat]
        /\ disturbed \in [Callers -> BOOLEAN]
        /\ PrintBound
    BY DEF PrintBound
  <1>3. reply \in [Callers -> [kind : {"none", "value", "runtime", "rejected"},
                              function : Nat,
                              message : Seq(Callers)
                                        \cup Seq({"lex", "parse", "analyse"})]]
    <2>1. <<>> \in Seq(Callers)
      OBVIOUS
    <2>2. NoReply \in [kind : {"none", "value", "runtime", "rejected"},
                       function : Nat,
                       message : Seq(Callers)
                                 \cup Seq({"lex", "parse", "analyse"})]
      BY <2>1
    <2> QED
      BY <2>2
  <1> QED
    BY <1>1, <1>2, <1>3 DEF TypeInv, TypeOK

\* Appending to a stream, and updating one stream of many, keep their type.
LEMMA AppendType ==
  ASSUME NEW S, NEW s \in Seq(S), NEW e \in S
  PROVE  Append(s, e) \in Seq(S)
  OBVIOUS

\* Changing one value of a function keeps its type.
LEMMA ExceptType ==
  ASSUME NEW D, NEW R, NEW g \in [D -> R], NEW d \in D, NEW r \in R
  PROVE  [g EXCEPT ![d] = r] \in [D -> R]
  OBVIOUS

\* Whatever a racing insertion leaves in a stream is a text.
LEMMA RacingType ==
  ASSUME NEW c, NEW before \in Seq(Callers), NEW after \in Seq(Callers),
         NEW t \in Racing(c, before, after)
  PROVE  t \in Seq(Callers)
  BY DEF Racing

\* A pass preserves the types, whichever pass it is.
LEMMA PassType ==
  ASSUME TypeInv, NEW c \in Callers,
         NEW here \in {"lex", "parse", "analyse"},
         NEW refused,
         NEW done \in {"lexed", "parsed", "analysed"},
         NEW next \in {"parse", "analyse", "optimize"},
         Pass(c, here, refused, done, next)
  PROVE  TypeInv'
  <1> USE DEF TypeInv, TypeOK, PrintBound, Goto, Labels,
              functionVars, codeVars, lockVars, evalVars, callVars
  <1>0. fn[c] \in Indices /\ pc[c] # "idle"
    BY DEF Pass
  <1>1. CASE source[fn[c]] = refused
    <2>1. /\ compileError' = [compileError EXCEPT ![fn[c]] = Append(@, here)]
          /\ compileTrigger' = [compileTrigger EXCEPT ![fn[c]] = "failure"]
          /\ pc' = [pc EXCEPT ![c] = "reject"]
          /\ UNCHANGED <<stage, compilations>>
          /\ UNCHANGED <<functionVars, lockVars, evalVars, callVars>>
      BY <1>1 DEF Pass
    <2>2. compileError' \in [Indices -> Seq({"lex", "parse", "analyse"})]
      BY <1>0, <2>1
    <2>3. compileTrigger' \in [Indices -> {"unset", "success", "failure"}]
      BY <1>0, <2>1
    <2> QED
      BY <1>0, <2>1, <2>2, <2>3
  <1>2. CASE source[fn[c]] # refused
    <2>1. /\ stage' = [stage EXCEPT ![fn[c]] = done]
          /\ pc' = [pc EXCEPT ![c] = next]
          /\ UNCHANGED <<compileError, compileTrigger, compilations>>
          /\ UNCHANGED <<functionVars, lockVars, evalVars, callVars>>
      BY <1>2 DEF Pass
    <2> QED
      BY <1>0, <2>1
  <1> QED
    BY <1>1, <1>2

\* The parser's pass preserves them too where it accepts what it refused.
LEMMA BrokenType ==
  ASSUME TypeInv, NEW c \in Callers, ParseBroken(c)
  PROVE  TypeInv'
  <1> USE DEF TypeInv, TypeOK, PrintBound, Goto, Labels,
              functionVars, codeVars, lockVars, evalVars, callVars
  <1>1. /\ fn[c] \in Indices /\ pc[c] # "idle"
        /\ compileError' = [compileError EXCEPT ![fn[c]] = Append(@, "parse")]
        /\ stage' = [stage EXCEPT ![fn[c]] = "parsed"]
        /\ pc' = [pc EXCEPT ![c] = "analyse"]
        /\ UNCHANGED <<compileTrigger, compilations>>
        /\ UNCHANGED <<functionVars, lockVars, evalVars, callVars>>
    BY DEF ParseBroken
  <1>2. compileError' \in [Indices -> Seq({"lex", "parse", "analyse"})]
    BY <1>1
  <1> QED
    BY <1>1, <1>2

\* No step of registration or of a call leaves the types.
LEMMA TypeStep == TypeInv /\ [Next]_vars => TypeInv'
  <1> SUFFICES ASSUME TypeInv, [Next]_vars PROVE TypeInv'
    OBVIOUS
  <1> USE BoundsAssumption, CallersAssumption
          DEF TypeInv, TypeOK, PrintBound, Indices, Goto, Labels, NoReply,
              functionVars, codeVars, lockVars, evalVars, callVars
  <1>1. CASE UNCHANGED vars
    BY <1>1 DEF vars
  <1>2. ASSUME NEW kind \in Sources, Register(kind) PROVE TypeInv'
    <2>1. /\ capacity' = capacity + 1 /\ capacity < MaxFunctions
          /\ source' = [source EXCEPT ![capacity] = kind]
          /\ UNCHANGED <<aborted, codeVars, lockVars, evalVars, callVars, pc>>
      BY <1>2 DEF Register
    <2>2. capacity' \in 0 .. MaxFunctions
      BY <2>1
    <2>3. source' \in [Indices -> Sources \cup {"none"}]
      BY <2>1
    <2> QED
      BY <2>1, <2>2, <2>3
  <1>3. ASSUME NEW c \in Callers, NEW f \in Indices, Call(c, f) PROVE TypeInv'
    <2>1. /\ fn' \in [Callers -> Nat]
          /\ \A d \in Callers : pc'[d] # "idle" => fn'[d] \in Indices
      BY <1>3 DEF Call
    <2>2. callsLeft' \in [Callers -> 0 .. MaxCalls]
      BY <1>3 DEF Call
    <2>3. reply' \in [Callers -> [kind : {"none", "value", "runtime", "rejected"},
                                  function : Nat,
                                  message : Seq(Callers)
                                     \cup Seq({"lex", "parse", "analyse"})]]
      BY <1>3 DEF Call
    <2> QED
      BY <2>1, <2>2, <2>3, <1>3 DEF Call
  <1>4. ASSUME NEW c \in Callers, LockExclusive(c) PROVE TypeInv'
    BY <1>4 DEF LockExclusive
  <1>5. ASSUME NEW c \in Callers, CheckTrigger(c) PROVE TypeInv'
    <2>0. fn[c] \in Indices /\ pc[c] = "check"
      BY <1>5 DEF CheckTrigger
    <2>1. CASE compileTrigger[fn[c]] = "unset"
      <3>1. /\ pc' = [pc EXCEPT ![c] = "lex"]
            /\ compilations' = [compilations EXCEPT ![fn[c]] = @ + 1]
            /\ UNCHANGED <<compileTrigger, stage, compileError>>
            /\ UNCHANGED <<functionVars, lockVars, evalVars, callVars>>
        BY <1>5, <2>1 DEF CheckTrigger
      <3>2. compilations' \in [Indices -> Nat]
        BY <2>0, <3>1, SMTT(30)
      <3> QED
        BY <2>0, <3>1, <3>2
    <2>2. CASE compileTrigger[fn[c]] # "unset"
      <3>1. /\ pc' = [pc EXCEPT ![c] = "unlock"]
            /\ UNCHANGED codeVars
            /\ UNCHANGED <<functionVars, lockVars, evalVars, callVars>>
        BY <1>5, <2>2 DEF CheckTrigger
      <3> QED
        BY <2>0, <3>1
    <2> QED
      BY <2>1, <2>2
  <1>6. ASSUME NEW c \in Callers, Lex(c) PROVE TypeInv'
    BY <1>6, PassType DEF Lex
  <1>7. ASSUME NEW c \in Callers, Parse(c) PROVE TypeInv'
    BY <1>7, PassType, BrokenType DEF Parse
  <1>8. ASSUME NEW c \in Callers, Analyse(c) PROVE TypeInv'
    BY <1>8, PassType DEF Analyse
  <1>9. ASSUME NEW c \in Callers, Optimize(c) PROVE TypeInv'
    BY <1>9 DEF Optimize
  <1>10. ASSUME NEW c \in Callers, ReturnRejected(c) PROVE TypeInv'
    BY <1>10 DEF ReturnRejected
  <1>11. ASSUME NEW c \in Callers, UnlockExclusive(c) PROVE TypeInv'
    BY <1>11 DEF UnlockExclusive
  <1>12. ASSUME NEW c \in Callers, LockShared(c) PROVE TypeInv'
    BY <1>12 DEF LockShared
  <1>13. ASSUME NEW c \in Callers, Explain(c) PROVE TypeInv'
    BY <1>13 DEF Explain
  <1>14. ASSUME NEW c \in Callers, Evaluate(c) PROVE TypeInv'
    <2>0. fn[c] \in Indices /\ pc[c] = "evaluate"
      BY <1>14 DEF Evaluate
    <2>1. CASE EvaluatesToValue(c)
      BY <2>0, <2>1, SMTT(30) DEF EvaluatesToValue
    <2>2. ASSUME NEW n \in 1 .. MaxErrors, EvaluatesToError(c, n)
          PROVE  TypeInv'
      <3>1. n * Pieces \in Nat /\ 0 < n * Pieces
        BY <2>2
      <3>2. disturbed' \in [Callers -> BOOLEAN]
        BY <2>2 DEF EvaluatesToError
      <3>3. /\ owed' \in [Callers -> Nat]
            /\ printed' \in [Callers -> Nat]
            /\ \A d \in Callers : printed'[d] <= owed'[d]
            /\ PrintBound'
        BY <2>2, <3>1 DEF EvaluatesToError
      <3> QED
        BY <2>0, <2>2, <3>2, <3>3 DEF EvaluatesToError
    <2> QED
      BY <1>14, <2>1, <2>2 DEF Evaluate
  <1>15. ASSUME NEW c \in Callers, PrintDivZeroError(c) PROVE TypeInv'
    <2>0. fn[c] \in Indices /\ pc[c] = "print"
      BY <1>15 DEF PrintDivZeroError
    <2>1. runtimeError' \in [Indices -> Seq(Callers)]
      <3>1. PICK t \in Racing(c, runtimeError[fn[c]], Append(runtimeError[fn[c]], c)) :
               runtimeError' = [runtimeError EXCEPT ![fn[c]] = t]
        BY <1>15 DEF PrintDivZeroError
      <3>2. t \in Seq(Callers)
        <4>1. runtimeError[fn[c]] \in Seq(Callers)
          BY <2>0
        <4>2. Append(runtimeError[fn[c]], c) \in Seq(Callers)
          BY <4>1, AppendType
        <4> QED
          BY <4>1, <4>2, RacingType
      <3> QED
        BY <2>0, <3>1, <3>2
    <2>2. /\ printed' \in [Callers -> Nat]
          /\ \A d \in Callers : printed'[d] <= owed'[d]
          /\ PrintBound'
      <3>1. /\ printed' = [printed EXCEPT ![c] = @ + 1]
            /\ pc' = [pc EXCEPT ![c] =
                        IF printed[c] + 1 = owed[c] THEN "read" ELSE "print"]
            /\ UNCHANGED owed
        BY <1>15 DEF PrintDivZeroError
      <3>2. printed[c] < owed[c]
        BY <2>0
      <3>3. /\ printed \in [Callers -> Nat]
            /\ printed[c] \in Nat
            /\ printed[c] + 1 \in Nat
        OBVIOUS
      <3>4. printed' \in [Callers -> Nat]
        BY <3>1, <3>3, ExceptType
      <3>5. \A d \in Callers : printed'[d] <= owed'[d]
        BY <3>1, <3>2
      <3>6. PrintBound'
        <4> SUFFICES ASSUME NEW d \in Callers, pc'[d] = "print"
                     PROVE  printed'[d] < owed'[d]
          OBVIOUS
        <4>1. CASE d = c
          BY <3>1, <3>2, <4>1
        <4>2. CASE d # c
          BY <3>1, <4>2
        <4> QED
          BY <4>1, <4>2
      <3> QED
        BY <3>4, <3>5, <3>6
    <2> QED
      BY <1>15, <2>1, <2>2 DEF PrintDivZeroError
  <1>16. ASSUME NEW c \in Callers, ReadMessage(c) PROVE TypeInv'
    BY <1>16 DEF ReadMessage
  <1>17. ASSUME NEW c \in Callers, ClearStream(c) PROVE TypeInv'
    <2>1. runtimeError' \in [Indices -> Seq(Callers)]
      <3>1. PICK t \in Racing(c, runtimeError[fn[c]], <<>>) :
               runtimeError' = [runtimeError EXCEPT ![fn[c]] = t]
        BY <1>17 DEF ClearStream
      <3>2. fn[c] \in Indices
        BY <1>17 DEF ClearStream
      <3> QED
        <4>1. /\ runtimeError \in [Indices -> Seq(Callers)]
              /\ runtimeError[fn[c]] \in Seq(Callers)
          BY <3>2
        <4>2. <<>> \in Seq(Callers)
          OBVIOUS
        <4>3. t \in Seq(Callers)
          BY <4>1, <4>2, RacingType
        <4> QED
          BY <3>1, <3>2, <4>1, <4>3, ExceptType
    <2> QED
      BY <1>17, <2>1 DEF ClearStream
  <1>18. ASSUME NEW c \in Callers, Release(c) PROVE TypeInv'
    BY <1>18 DEF Release
  <1>19. ASSUME NEW c \in Callers, Abort(c) PROVE TypeInv'
    BY <1>19 DEF Abort
  <1> QED
    BY <1>1, <1>2, <1>3, <1>4, <1>5, <1>6, <1>7, <1>8, <1>9, <1>10, <1>11,
       <1>12, <1>13, <1>14, <1>15, <1>16, <1>17, <1>18, <1>19
    DEF Next, Step, Move

-----------------------------------------------------------------------------
(* The locks.                                                              *)

\* Who owns a lock is exactly who is between its acquisition and its release.
LockInv ==
    /\ \A f \in Indices, c \in Callers :
          /\ exclusive[f] = c <=> fn[c] = f /\ pc[c] \in Compiling
          /\ c \in shared[f] <=> fn[c] = f /\ pc[c] \in Reading
    /\ \A f \in Indices : exclusive[f] # NoCaller => shared[f] = {}

\* At first no mutex is held and no thread is in a locked scope.
LEMMA LockInit == Init => LockInv
  BY CallersAssumption
  DEF Init, LockInv, Compiling, Reading, Indices

\* A step that moves one thread inside a locked scope, or outside of all,
\* and touches no lock.
LEMMA LocalStep ==
  ASSUME LockInv, TypeInv, NEW c \in Callers, NEW next,
         pc' = [pc EXCEPT ![c] = next],
         UNCHANGED <<exclusive, shared, fn>>,
         pc[c] \in Compiling <=> next \in Compiling,
         pc[c] \in Reading <=> next \in Reading
  PROVE  LockInv'
  BY SMTT(30) DEF LockInv, TypeInv, TypeOK

\* The steps of a call that touch no lock stay in their scope.
LEMMA ScopeOfStep ==
  ASSUME TypeInv, NEW c \in Callers,
         \/ CheckTrigger(c) \/ Lex(c) \/ Parse(c) \/ Analyse(c) \/ Optimize(c)
         \/ Explain(c) \/ Evaluate(c) \/ PrintDivZeroError(c) \/ ReadMessage(c)
         \/ ClearStream(c) \/ Abort(c)
  PROVE  /\ UNCHANGED <<exclusive, shared, fn>>
         /\ \E next : /\ pc' = [pc EXCEPT ![c] = next]
                      /\ pc[c] \in Compiling <=> next \in Compiling
                      /\ pc[c] \in Reading <=> next \in Reading
  <1> USE DEF Goto, lockVars, callVars, Compiling, Reading
  <1>1. CASE CheckTrigger(c)
    BY <1>1 DEF CheckTrigger
  <1>2. CASE Lex(c)
    BY <1>2 DEF Lex, Pass
  <1>3. CASE Parse(c)
    BY <1>3 DEF Parse, Pass, ParseBroken
  <1>4. CASE Analyse(c)
    BY <1>4 DEF Analyse, Pass
  <1>5. CASE Optimize(c)
    <2>1. /\ pc[c] = "optimize" /\ pc' = [pc EXCEPT ![c] = "unlock"]
          /\ UNCHANGED <<exclusive, shared, fn>>
      BY <1>5 DEF Optimize
    <2>2. /\ pc[c] \in Compiling <=> "unlock" \in Compiling
          /\ pc[c] \in Reading <=> "unlock" \in Reading
      BY <2>1
    <2> QED
      BY <2>1, <2>2
  <1>6. CASE Explain(c)
    BY <1>6 DEF Explain
  <1>7. CASE Evaluate(c)
    BY <1>7 DEF Evaluate, EvaluatesToValue, EvaluatesToError
  <1>8. CASE PrintDivZeroError(c)
    BY <1>8 DEF PrintDivZeroError
  <1>9. CASE ReadMessage(c)
    BY <1>9 DEF ReadMessage
  <1>10. CASE ClearStream(c)
    BY <1>10 DEF ClearStream
  <1>11. CASE Abort(c)
    <2>1. UNCHANGED <<exclusive, shared, fn>> /\ pc' = [pc EXCEPT ![c] = pc[c]]
      BY <1>11 DEF Abort, TypeInv, TypeOK
    <2> QED
      BY <2>1
  <1> QED
    BY <1>1, <1>2, <1>3, <1>4, <1>5, <1>6, <1>7, <1>8, <1>9, <1>10, <1>11

\* Both modes of the lock exclude each other as std::shared_mutex promises.
LEMMA LockStep == TypeInv /\ LockInv /\ [Next]_vars => LockInv'
  <1> SUFFICES ASSUME TypeInv, LockInv, [Next]_vars PROVE LockInv'
    OBVIOUS
  <1> USE DEF Goto, lockVars, callVars, Compiling, Reading
  <1>1. CASE UNCHANGED vars
    BY <1>1 DEF vars, LockInv
  <1>2. ASSUME NEW kind \in Sources, Register(kind) PROVE LockInv'
    BY <1>2 DEF Register, LockInv
  <1>3. ASSUME NEW c \in Callers, NEW f \in Indices, Call(c, f) PROVE LockInv'
    BY <1>3 DEF Call, LockInv, TypeInv, TypeOK
  <1>4. ASSUME NEW c \in Callers, LockExclusive(c) PROVE LockInv'
    <2>1. /\ pc[c] = "lock" /\ fn[c] \in Indices
          /\ exclusive[fn[c]] = NoCaller /\ shared[fn[c]] = {}
          /\ exclusive' = [exclusive EXCEPT ![fn[c]] = c]
          /\ pc' = [pc EXCEPT ![c] = "check"]
          /\ UNCHANGED <<shared, fn>>
      BY <1>4 DEF LockExclusive, TypeInv, TypeOK
    <2>2. \A f \in Indices, d \in Callers :
             exclusive'[f] = d <=> fn'[d] = f /\ pc'[d] \in Compiling
      BY <2>1, CallersAssumption DEF LockInv, TypeInv, TypeOK
    <2>3. \A f \in Indices, d \in Callers :
             d \in shared'[f] <=> fn'[d] = f /\ pc'[d] \in Reading
      BY <2>1 DEF LockInv, TypeInv, TypeOK
    <2>4. \A f \in Indices : exclusive'[f] # NoCaller => shared'[f] = {}
      BY <2>1 DEF LockInv, TypeInv, TypeOK
    <2> QED
      BY <2>2, <2>3, <2>4 DEF LockInv
  <1>5. ASSUME NEW c \in Callers, ReturnRejected(c) PROVE LockInv'
    BY <1>5, CallersAssumption DEF ReturnRejected, LockInv, TypeInv, TypeOK
  <1>6. ASSUME NEW c \in Callers, UnlockExclusive(c) PROVE LockInv'
    BY <1>6, CallersAssumption DEF UnlockExclusive, LockInv, TypeInv, TypeOK
  <1>7. ASSUME NEW c \in Callers, LockShared(c) PROVE LockInv'
    BY <1>7, CallersAssumption, SMTT(30) DEF LockShared, LockInv, TypeInv, TypeOK
  <1>8. ASSUME NEW c \in Callers, Release(c) PROVE LockInv'
    BY <1>8, CallersAssumption, SMTT(30) DEF Release, LockInv, TypeInv, TypeOK
  <1>9. ASSUME NEW c \in Callers,
               \/ CheckTrigger(c) \/ Lex(c) \/ Parse(c) \/ Analyse(c)
               \/ Optimize(c) \/ Explain(c) \/ Evaluate(c)
               \/ PrintDivZeroError(c) \/ ReadMessage(c) \/ ClearStream(c)
               \/ Abort(c)
        PROVE  LockInv'
    BY <1>9, ScopeOfStep, LocalStep
  <1> QED
    BY <1>1, <1>2, <1>3, <1>4, <1>5, <1>6, <1>7, <1>8, <1>9 DEF Next, Step, Move

-----------------------------------------------------------------------------
(* Verdicts.                                                               *)

\* What a function's fields say about each other.
CodeOK(f) ==
    /\ compileTrigger[f] = "success" =>
          stage[f] = "optimized" /\ compileError[f] = <<>>
    /\ compileTrigger[f] = "failure" => compileError[f] # <<>>

\* What a thread knows of the verdict at each point of its call.
CallerOK(c) ==
    LET verdict == compileTrigger[fn[c]] IN
    /\ pc[c] \in {"lex", "parse", "analyse", "optimize"} => verdict = "unset"
    /\ pc[c] = "reject" => verdict = "failure"
    /\ pc[c] = "unlock" => verdict # "unset"
    /\ pc[c] = "share" =>
          verdict # "unset" /\ (isCompiled[c] <=> verdict = "success")
    /\ pc[c] \in {"evaluate", "print", "read", "clear"} => verdict = "success"
    /\ pc[c] = "explain" => verdict = "failure"

ReplyOK(c) ==
    LET f == reply[c].function IN
    /\ reply[c].kind # "none" => f \in Indices
    /\ reply[c].kind = "rejected" => /\ compileTrigger[f] = "failure"
                                     /\ reply[c].message = compileError[f]
    /\ reply[c].kind \in {"value", "runtime"} => compileTrigger[f] = "success"

CodeInv ==
    /\ \A f \in Indices : CodeOK(f)
    /\ \A c \in Callers : CallerOK(c)
    /\ \A c \in Callers : ReplyOK(c)
    /\ CompileOnce

\* At first no function is registered, so none has a verdict.
LEMMA CodeInit == Init => CodeInv
  BY DEF Init, CodeInv, CodeOK, CallerOK, ReplyOK, CompileOnce, NoReply, Indices

\* While a thread compiles a function, no other one is in a locked scope of it.
LEMMA Exclusion ==
  ASSUME TypeInv, LockInv, NEW c \in Callers, NEW d \in Callers,
         c # d, fn[d] = fn[c], pc[c] \in Compiling
  PROVE  pc[d] \notin Compiling /\ pc[d] \notin Reading
  <1>1. fn[c] \in Indices /\ exclusive[fn[c]] = c
    BY DEF TypeInv, TypeOK, LockInv, Compiling
  <1>2. shared[fn[c]] = {}
    BY <1>1, CallersAssumption DEF LockInv
  <1> QED
    BY <1>1, <1>2 DEF LockInv

\* A step of one thread that changes no function, gets no new reply and
\* leaves the thread knowing what CallerOK asks keeps everything.
LEMMA QuietStep ==
  ASSUME TypeInv, CodeInv, NEW c \in Callers,
         UNCHANGED codeVars,
         \A d \in Callers \ {c} : /\ pc'[d] = pc[d] /\ fn'[d] = fn[d]
                                 /\ isCompiled'[d] = isCompiled[d]
                                 /\ reply'[d] = reply[d],
         pc[c] \notin {"lex", "parse", "analyse", "optimize"},
         CallerOK(c)', ReplyOK(c)'
  PROVE  CodeInv'
  <1> USE DEF codeVars
  <1>1. \A f \in Indices : CodeOK(f)'
    BY DEF CodeInv, CodeOK
  <1>2. \A d \in Callers : CallerOK(d)' /\ ReplyOK(d)'
    BY DEF CodeInv, CallerOK, ReplyOK
  <1>3. CompileOnce'
    BY DEF CodeInv, CompileOnce
  <1> QED
    BY <1>1, <1>2, <1>3 DEF CodeInv

\* The steps outside the compiler are quiet.
LEMMA CallStep ==
  ASSUME TypeInv, CodeInv, NEW c \in Callers,
         \/ \E f \in Indices : Call(c, f)
         \/ LockExclusive(c) \/ UnlockExclusive(c) \/ LockShared(c)
         \/ ReturnRejected(c) \/ Explain(c) \/ Evaluate(c)
         \/ PrintDivZeroError(c) \/ ReadMessage(c) \/ ClearStream(c)
         \/ Release(c)
  PROVE  CodeInv'
  <1> USE DEF Goto, codeVars, callVars, TypeInv, TypeOK
  <1>1. ASSUME NEW f \in Indices, Call(c, f) PROVE CodeInv'
    <2>1. CallerOK(c)' /\ ReplyOK(c)'
      BY <1>1 DEF Call, CallerOK, ReplyOK, NoReply
    <2> QED
      BY <1>1, <2>1, QuietStep DEF Call
  <1>2. CASE LockExclusive(c)
    <2>1. CallerOK(c)' /\ ReplyOK(c)'
      BY <1>2 DEF LockExclusive, CodeInv, CallerOK, ReplyOK
    <2> QED
      BY <1>2, <2>1, QuietStep DEF LockExclusive
  <1>3. CASE UnlockExclusive(c)
    <2>1. CallerOK(c)' /\ ReplyOK(c)'
      BY <1>3 DEF UnlockExclusive, CodeInv, CallerOK, ReplyOK
    <2> QED
      BY <1>3, <2>1, QuietStep DEF UnlockExclusive
  <1>4. CASE LockShared(c)
    <2>1. CallerOK(c)' /\ ReplyOK(c)'
      BY <1>4 DEF LockShared, CodeInv, CallerOK, ReplyOK
    <2> QED
      BY <1>4, <2>1, QuietStep DEF LockShared
  <1>5. CASE ReturnRejected(c)
    <2>1. CallerOK(c)' /\ ReplyOK(c)'
      BY <1>5 DEF ReturnRejected, CodeInv, CallerOK, ReplyOK
    <2> QED
      BY <1>5, <2>1, QuietStep DEF ReturnRejected
  <1>6. CASE Explain(c)
    <2>1. CallerOK(c)' /\ ReplyOK(c)'
      BY <1>6 DEF Explain, CodeInv, CallerOK, ReplyOK
    <2> QED
      BY <1>6, <2>1, QuietStep DEF Explain
  <1>7. CASE PrintDivZeroError(c)
    <2>1. CallerOK(c)' /\ ReplyOK(c)'
      BY <1>7 DEF PrintDivZeroError, CodeInv, CallerOK, ReplyOK
    <2> QED
      BY <1>7, <2>1, QuietStep DEF PrintDivZeroError
  <1>8. CASE ReadMessage(c)
    <2>1. CallerOK(c)' /\ ReplyOK(c)'
      BY <1>8 DEF ReadMessage, CodeInv, CallerOK, ReplyOK
    <2> QED
      BY <1>8, <2>1, QuietStep DEF ReadMessage
  <1>9. CASE ClearStream(c)
    <2>1. CallerOK(c)' /\ ReplyOK(c)'
      BY <1>9 DEF ClearStream, CodeInv, CallerOK, ReplyOK
    <2> QED
      BY <1>9, <2>1, QuietStep DEF ClearStream
  <1>10. CASE Release(c)
    <2>1. CallerOK(c)' /\ ReplyOK(c)'
      BY <1>10 DEF Release, CodeInv, CallerOK, ReplyOK
    <2> QED
      BY <1>10, <2>1, QuietStep DEF Release
  <1>11. CASE EvaluatesToValue(c) /\ pc[c] = "evaluate"
    <2>1. CallerOK(c)' /\ ReplyOK(c)'
      BY <1>11 DEF EvaluatesToValue, CodeInv, CallerOK, ReplyOK
    <2> QED
      BY <1>11, <2>1, QuietStep DEF EvaluatesToValue
  <1>12. ASSUME NEW n \in 1 .. MaxErrors, EvaluatesToError(c, n), pc[c] = "evaluate"
        PROVE  CodeInv'
    <2>1. CallerOK(c)' /\ ReplyOK(c)'
      BY <1>12 DEF EvaluatesToError, CodeInv, CallerOK, ReplyOK
    <2> QED
      BY <1>12, <2>1, QuietStep DEF EvaluatesToError
  <1> QED
    BY <1>1, <1>2, <1>3, <1>4, <1>5, <1>6, <1>7, <1>8, <1>9, <1>10, <1>11, <1>12
    DEF Evaluate

\* The compiler is started for a function without a verdict only, and the
\* thread that finds none is the only one in its compiler.
LEMMA CheckStep ==
  ASSUME TypeInv, LockInv, CodeInv, NEW c \in Callers, CheckTrigger(c)
  PROVE  CodeInv'
  <1> DEFINE f == fn[c]
  <1>0. /\ f \in Indices /\ pc[c] = "check"
        /\ UNCHANGED <<compileTrigger, stage, compileError, reply, fn, isCompiled>>
    BY DEF CheckTrigger, callVars, TypeInv, TypeOK
  <1>1. CASE compileTrigger[f] = "unset"
    <2>1. /\ compilations' = [compilations EXCEPT ![f] = @ + 1]
          /\ pc' = [pc EXCEPT ![c] = "lex"]
      BY <1>1 DEF CheckTrigger, Goto
    <2>2. compilations[f] = 0
      <3>1. \A d \in Callers : fn[d] = f =>
               pc[d] \notin {"lex", "parse", "analyse", "optimize"}
        BY <1>0, Exclusion DEF Compiling
      <3>2. compilations[f] # 1 /\ compilations[f] <= 1 /\ compilations[f] \in Nat
        BY <1>0, <1>1, <3>1 DEF CodeInv, CompileOnce, TypeInv, TypeOK
      <3> QED
        BY <3>2
    <2>3. \A g \in Indices : CodeOK(g)'
      BY <1>0 DEF CodeInv, CodeOK
    <2>4. \A d \in Callers : CallerOK(d)' /\ ReplyOK(d)'
      BY <1>0, <1>1, <2>1 DEF CodeInv, CallerOK, ReplyOK, TypeInv, TypeOK
    <2>5. CompileOnce'
      BY <1>0, <1>1, <2>1, <2>2 DEF CodeInv, CompileOnce, TypeInv, TypeOK
    <2> QED
      BY <2>3, <2>4, <2>5 DEF CodeInv
  <1>2. CASE compileTrigger[f] # "unset"
    <2>1. UNCHANGED codeVars /\ pc' = [pc EXCEPT ![c] = "unlock"]
      BY <1>0, <1>2 DEF CheckTrigger, codeVars, Goto
    <2>2. CallerOK(c)' /\ ReplyOK(c)'
      BY <1>0, <1>2, <2>1 DEF CodeInv, CallerOK, ReplyOK, TypeInv, TypeOK
    <2> QED
      BY <1>0, <2>1, <2>2, QuietStep DEF TypeInv, TypeOK
  <1> QED
    BY <1>1, <1>2

\* A pass either hands over or leaves the verdict "failure" with an error.
LEMMA PassStep ==
  ASSUME TypeInv, LockInv, CodeInv, NEW c \in Callers,
         NEW here \in {"lex", "parse", "analyse"}, NEW refused,
         NEW done \in {"lexed", "parsed", "analysed"},
         NEW next \in {"parse", "analyse", "optimize"},
         Pass(c, here, refused, done, next)
  PROVE  CodeInv'
  <1> DEFINE f == fn[c]
  <1>0. /\ f \in Indices /\ pc[c] = here
        /\ UNCHANGED <<reply, fn, isCompiled, compilations>>
        /\ compileTrigger[f] = "unset"
    BY DEF Pass, callVars, TypeInv, TypeOK, CodeInv, CallerOK
  <1>1. \A d \in Callers \ {c} : fn[d] = f =>
           pc[d] \notin Compiling /\ pc[d] \notin Reading
    BY <1>0, Exclusion DEF Compiling
  <1>2. \A d \in Callers : reply[d].kind # "none" => reply[d].function # f
    BY <1>0 DEF CodeInv, ReplyOK, TypeInv, TypeOK
  <1>3. CASE source[f] = refused
    <2>1. /\ compileError' = [compileError EXCEPT ![f] = Append(@, here)]
          /\ compileTrigger' = [compileTrigger EXCEPT ![f] = "failure"]
          /\ pc' = [pc EXCEPT ![c] = "reject"]
          /\ UNCHANGED stage
      BY <1>3 DEF Pass, Goto
    <2>2. compileError'[f] # <<>>
      <3>1. compileError[f] \in Seq({"lex", "parse", "analyse"})
        BY <1>0 DEF TypeInv, TypeOK
      <3>2. Append(compileError[f], here) # <<>>
        BY <3>1
      <3> QED
        BY <1>0, <2>1, <3>2 DEF TypeInv, TypeOK
    <2>3. \A g \in Indices : CodeOK(g)'
      BY <1>0, <2>1, <2>2 DEF CodeInv, CodeOK, TypeInv, TypeOK
    <2>4. \A d \in Callers : CallerOK(d)'
      <3> SUFFICES ASSUME NEW d \in Callers PROVE CallerOK(d)'
        OBVIOUS
      <3>1. CASE d = c
        BY <1>0, <2>1, <3>1 DEF CallerOK, TypeInv, TypeOK
      <3>2. CASE d # c /\ fn[d] # f
        BY <1>0, <2>1, <3>2 DEF CodeInv, CallerOK, TypeInv, TypeOK
      <3>3. CASE d # c /\ fn[d] = f
        BY <1>0, <1>1, <2>1, <3>3
        DEF CodeInv, CallerOK, TypeInv, TypeOK, Compiling, Reading
      <3> QED
        BY <3>1, <3>2, <3>3
    <2>5. \A d \in Callers : ReplyOK(d)'
      BY <1>0, <1>2, <2>1 DEF CodeInv, ReplyOK, TypeInv, TypeOK
    <2>6. CompileOnce'
      BY <1>0, <2>1 DEF CodeInv, CompileOnce, TypeInv, TypeOK
    <2> QED
      BY <2>3, <2>4, <2>5, <2>6 DEF CodeInv
  <1>4. CASE source[f] # refused
    <2>1. /\ stage' = [stage EXCEPT ![f] = done]
          /\ pc' = [pc EXCEPT ![c] = next]
          /\ UNCHANGED <<compileError, compileTrigger>>
      BY <1>4 DEF Pass, Goto
    <2>2. \A g \in Indices : CodeOK(g)'
      BY <1>0, <2>1 DEF CodeInv, CodeOK, TypeInv, TypeOK
    <2>3. \A d \in Callers : CallerOK(d)' /\ ReplyOK(d)'
      BY <1>0, <2>1 DEF CodeInv, CallerOK, ReplyOK, TypeInv, TypeOK
    <2>4. CompileOnce'
      BY <1>0, <2>1 DEF CodeInv, CompileOnce, TypeInv, TypeOK
    <2> QED
      BY <2>2, <2>3, <2>4 DEF CodeInv
  <1> QED
    BY <1>3, <1>4

\* A printed error without a verdict is one of a function still without one.
LEMMA BrokenStep ==
  ASSUME TypeInv, CodeInv, NEW c \in Callers, ParseBroken(c)
  PROVE  CodeInv'
  <1> DEFINE f == fn[c]
  <1>0. /\ f \in Indices /\ pc[c] = "parse"
        /\ compileError' = [compileError EXCEPT ![f] = Append(@, "parse")]
        /\ stage' = [stage EXCEPT ![f] = "parsed"]
        /\ pc' = [pc EXCEPT ![c] = "analyse"]
        /\ UNCHANGED <<reply, fn, isCompiled, compilations, compileTrigger>>
        /\ compileTrigger[f] = "unset"
    BY DEF ParseBroken, Goto, callVars, TypeInv, TypeOK, CodeInv, CallerOK
  <1>1. \A g \in Indices : CodeOK(g)'
    BY <1>0 DEF CodeInv, CodeOK, TypeInv, TypeOK
  <1>2. \A d \in Callers : reply[d].kind # "none" =>
           reply[d].function \in Indices
              /\ (reply[d].kind = "rejected" => reply[d].function # f)
    BY <1>0 DEF CodeInv, ReplyOK
  <1>3. \A d \in Callers : CallerOK(d)' /\ ReplyOK(d)'
    BY <1>0, <1>2 DEF CodeInv, CallerOK, ReplyOK, TypeInv, TypeOK
  <1>4. CompileOnce'
    BY <1>0 DEF CodeInv, CompileOnce, TypeInv, TypeOK
  <1> QED
    BY <1>1, <1>3, <1>4 DEF CodeInv

\* The verdict "success" is written last, on an optimized tree.
LEMMA OptimizeStep ==
  ASSUME TypeInv, LockInv, CodeInv, NEW c \in Callers, Optimize(c)
  PROVE  CodeInv'
  <1> DEFINE f == fn[c]
  <1>0. /\ f \in Indices /\ pc[c] = "optimize"
        /\ stage' = [stage EXCEPT ![f] = "optimized"]
        /\ compileTrigger' = [compileTrigger EXCEPT ![f] = "success"]
        /\ pc' = [pc EXCEPT ![c] = "unlock"]
        /\ UNCHANGED <<reply, fn, isCompiled, compilations, compileError>>
        /\ compileTrigger[f] = "unset" /\ compileError[f] = <<>>
    BY DEF Optimize, NothingPrinted, Goto, callVars, TypeInv, TypeOK, CodeInv,
           CallerOK
  <1>1. \A d \in Callers \ {c} : fn[d] = f =>
           pc[d] \notin Compiling /\ pc[d] \notin Reading
    BY <1>0, Exclusion DEF Compiling
  <1>2. \A d \in Callers : reply[d].kind # "none" => reply[d].function # f
    BY <1>0 DEF CodeInv, ReplyOK, TypeInv, TypeOK
  <1>3. \A g \in Indices : CodeOK(g)'
    BY <1>0 DEF CodeInv, CodeOK, TypeInv, TypeOK
  <1>4. \A d \in Callers : CallerOK(d)'
    <2> SUFFICES ASSUME NEW d \in Callers PROVE CallerOK(d)'
      OBVIOUS
    <2>1. CASE d = c
      BY <1>0, <2>1 DEF CallerOK, TypeInv, TypeOK
    <2>2. CASE d # c /\ fn[d] # f
      BY <1>0, <2>2 DEF CodeInv, CallerOK, TypeInv, TypeOK
    <2>3. CASE d # c /\ fn[d] = f
      BY <1>0, <1>1, <2>3
      DEF CodeInv, CallerOK, TypeInv, TypeOK, Compiling, Reading
    <2> QED
      BY <2>1, <2>2, <2>3
  <1>5. \A d \in Callers : ReplyOK(d)'
    BY <1>0, <1>2 DEF CodeInv, ReplyOK, TypeInv, TypeOK
  <1>6. CompileOnce'
    BY <1>0 DEF CodeInv, CompileOnce, TypeInv, TypeOK
  <1> QED
    BY <1>3, <1>4, <1>5, <1>6 DEF CodeInv

\* Every step keeps verdict, stage and error text of each function in
\* accordance with where its compiling thread stands.
LEMMA CodeStep == TypeInv /\ LockInv /\ CodeInv /\ [Next]_vars => CodeInv'
  <1> SUFFICES ASSUME TypeInv, LockInv, CodeInv, [Next]_vars PROVE CodeInv'
    OBVIOUS
  <1>1. CASE \/ UNCHANGED vars \/ \E kind \in Sources : Register(kind)
             \/ \E c \in Callers : Abort(c)
    <2>1. UNCHANGED <<codeVars, callVars, pc>>
      BY <1>1 DEF vars, Register, Abort
    <2> QED
      BY <2>1 DEF codeVars, callVars, CodeInv, CodeOK, CallerOK, ReplyOK, CompileOnce
  <1>2. ASSUME NEW c \in Callers, Lex(c) \/ Parse(c) \/ Analyse(c)
        PROVE  CodeInv'
    BY <1>2, PassStep, BrokenStep DEF Lex, Parse, Analyse
  <1> QED
    BY <1>1, <1>2, CheckStep, OptimizeStep, CallStep DEF Next, Step, Move

-----------------------------------------------------------------------------
(* The run-time error stream.                                              *)

\* A thread that no other failing evaluation overlapped is alone with the
\* stream, and the stream holds what it has printed so far.
StreamInv ==
    /\ NoResidue
    /\ \A c \in Callers :
          pc[c] \in {"print", "read", "clear"} /\ ~disturbed[c] =>
              Failing(fn[c]) = {c}
    /\ \A c \in Callers : pc[c] = "print" /\ ~disturbed[c] =>
          runtimeError[fn[c]] = Text(c, printed[c])
    /\ \A c \in Callers : pc[c] = "read" /\ ~disturbed[c] =>
          runtimeError[fn[c]] = Text(c, owed[c])
    /\ \A c \in Callers : pc[c] \notin {"idle", "clear", "release"} =>
          reply[c].kind # "runtime"
    /\ UndisturbedMessage

\* The text of no insertion is empty.
LEMMA TextEmpty == \A c : Text(c, 0) = <<>>
  BY DEF Text

\* One more insertion makes the text of a thread one longer.
LEMMA TextAppend ==
  ASSUME NEW c \in Callers, NEW n \in Nat
  PROVE  Append(Text(c, n), c) = Text(c, n + 1)
  BY DEF Text

\* At first every run-time error stream is empty.
LEMMA StreamInit == Init => StreamInv
  BY DEF Init, StreamInv, NoResidue, UndisturbedMessage, NoReply, Indices

\* A thread that neither enters nor leaves a failing evaluation.
LEMMA OutsideStep ==
  ASSUME TypeInv, StreamInv, NEW c \in Callers, UNCHANGED evalVars,
         \A d \in Callers \ {c} : /\ pc'[d] = pc[d] /\ fn'[d] = fn[d]
                                 /\ reply'[d] = reply[d],
         pc[c] \notin {"print", "read", "clear"},
         pc'[c] \notin {"print", "read", "clear"},
         \/ reply'[c].kind # "runtime"
         \/ reply'[c] = reply[c] /\ pc'[c] \in {"idle", "release"}
  PROVE  StreamInv'
  <1> USE DEF evalVars
  <1>1. \A f \in Indices : Failing(f)' = Failing(f)
    BY DEF Failing
  <1>2. \A d \in Callers : pc[d] \in {"print", "read", "clear"} => fn[d] \in Indices
    BY DEF TypeInv, TypeOK
  <1>3. NoResidue'
    BY <1>1 DEF StreamInv, NoResidue
  <1>4. UndisturbedMessage'
    BY DEF StreamInv, UndisturbedMessage
  <1> QED
    BY <1>1, <1>2, <1>3, <1>4 DEF StreamInv

\* A step that neither prints, reads nor clears leaves the stream as it is.
LEMMA QuietStreamStep ==
  ASSUME TypeInv, StreamInv, NEW c \in Callers,
         \/ \E f \in Indices : Call(c, f)
         \/ LockExclusive(c) \/ CheckTrigger(c) \/ Lex(c) \/ Parse(c)
         \/ Analyse(c) \/ Optimize(c) \/ ReturnRejected(c)
         \/ UnlockExclusive(c) \/ LockShared(c) \/ Explain(c) \/ Release(c)
         \/ pc[c] = "evaluate" /\ EvaluatesToValue(c)
  PROVE  StreamInv'
  <1> USE DEF Goto, callVars, TypeInv, TypeOK
  <1>1. ASSUME NEW f \in Indices, Call(c, f) PROVE StreamInv'
    BY <1>1, OutsideStep DEF Call, NoReply
  <1>2. CASE LockExclusive(c)
    <2>1. /\ UNCHANGED evalVars
          /\ \A d \in Callers \ {c} : /\ pc'[d] = pc[d] /\ fn'[d] = fn[d]
                                     /\ reply'[d] = reply[d]
          /\ pc[c] \notin {"print", "read", "clear"}
          /\ pc'[c] \notin {"print", "read", "clear"}
      BY <1>2 DEF LockExclusive
    <2>2. \/ reply'[c].kind # "runtime"
          \/ reply'[c] = reply[c] /\ pc'[c] \in {"idle", "release"}
      BY <1>2 DEF LockExclusive, StreamInv
    <2> QED
      BY <2>1, <2>2, OutsideStep
  <1>3. CASE CheckTrigger(c)
    <2>1. /\ UNCHANGED evalVars
          /\ \A d \in Callers \ {c} : /\ pc'[d] = pc[d] /\ fn'[d] = fn[d]
                                     /\ reply'[d] = reply[d]
          /\ pc[c] \notin {"print", "read", "clear"}
          /\ pc'[c] \notin {"print", "read", "clear"}
      BY <1>3 DEF CheckTrigger
    <2>2. \/ reply'[c].kind # "runtime"
          \/ reply'[c] = reply[c] /\ pc'[c] \in {"idle", "release"}
      BY <1>3 DEF CheckTrigger, StreamInv
    <2> QED
      BY <2>1, <2>2, OutsideStep
  <1>4. CASE Lex(c)
    <2>1. /\ UNCHANGED evalVars
          /\ \A d \in Callers \ {c} : /\ pc'[d] = pc[d] /\ fn'[d] = fn[d]
                                     /\ reply'[d] = reply[d]
          /\ pc[c] \notin {"print", "read", "clear"}
          /\ pc'[c] \notin {"print", "read", "clear"}
      BY <1>4 DEF Lex, Pass
    <2>2. \/ reply'[c].kind # "runtime"
          \/ reply'[c] = reply[c] /\ pc'[c] \in {"idle", "release"}
      BY <1>4 DEF Lex, Pass, StreamInv
    <2> QED
      BY <2>1, <2>2, OutsideStep
  <1>5. CASE Parse(c)
    <2>1. /\ UNCHANGED evalVars
          /\ \A d \in Callers \ {c} : /\ pc'[d] = pc[d] /\ fn'[d] = fn[d]
                                     /\ reply'[d] = reply[d]
          /\ pc[c] \notin {"print", "read", "clear"}
          /\ pc'[c] \notin {"print", "read", "clear"}
      BY <1>5 DEF Parse, Pass, ParseBroken
    <2>2. \/ reply'[c].kind # "runtime"
          \/ reply'[c] = reply[c] /\ pc'[c] \in {"idle", "release"}
      BY <1>5 DEF Parse, Pass, ParseBroken, StreamInv
    <2> QED
      BY <2>1, <2>2, OutsideStep
  <1>6. CASE Analyse(c)
    <2>1. /\ UNCHANGED evalVars
          /\ \A d \in Callers \ {c} : /\ pc'[d] = pc[d] /\ fn'[d] = fn[d]
                                     /\ reply'[d] = reply[d]
          /\ pc[c] \notin {"print", "read", "clear"}
          /\ pc'[c] \notin {"print", "read", "clear"}
      BY <1>6, SMTT(30) DEF Analyse, Pass
    <2>2. \/ reply'[c].kind # "runtime"
          \/ reply'[c] = reply[c] /\ pc'[c] \in {"idle", "release"}
      BY <1>6 DEF Analyse, Pass, StreamInv
    <2> QED
      BY <2>1, <2>2, OutsideStep
  <1>7. CASE Optimize(c)
    <2>1. /\ UNCHANGED evalVars
          /\ \A d \in Callers \ {c} : /\ pc'[d] = pc[d] /\ fn'[d] = fn[d]
                                     /\ reply'[d] = reply[d]
          /\ pc[c] \notin {"print", "read", "clear"}
          /\ pc'[c] \notin {"print", "read", "clear"}
      BY <1>7 DEF Optimize
    <2>2. \/ reply'[c].kind # "runtime"
          \/ reply'[c] = reply[c] /\ pc'[c] \in {"idle", "release"}
      BY <1>7 DEF Optimize, StreamInv
    <2> QED
      BY <2>1, <2>2, OutsideStep
  <1>8. CASE ReturnRejected(c)
    <2>1. /\ UNCHANGED evalVars
          /\ \A d \in Callers \ {c} : /\ pc'[d] = pc[d] /\ fn'[d] = fn[d]
                                     /\ reply'[d] = reply[d]
          /\ pc[c] \notin {"print", "read", "clear"}
          /\ pc'[c] \notin {"print", "read", "clear"}
      BY <1>8 DEF ReturnRejected
    <2>2. \/ reply'[c].kind # "runtime"
          \/ reply'[c] = reply[c] /\ pc'[c] \in {"idle", "release"}
      BY <1>8 DEF ReturnRejected, StreamInv
    <2> QED
      BY <2>1, <2>2, OutsideStep
  <1>9. CASE UnlockExclusive(c)
    <2>1. /\ UNCHANGED evalVars
          /\ \A d \in Callers \ {c} : /\ pc'[d] = pc[d] /\ fn'[d] = fn[d]
                                     /\ reply'[d] = reply[d]
          /\ pc[c] \notin {"print", "read", "clear"}
          /\ pc'[c] \notin {"print", "read", "clear"}
      BY <1>9 DEF UnlockExclusive
    <2>2. \/ reply'[c].kind # "runtime"
          \/ reply'[c] = reply[c] /\ pc'[c] \in {"idle", "release"}
      BY <1>9 DEF UnlockExclusive, StreamInv
    <2> QED
      BY <2>1, <2>2, OutsideStep
  <1>10. CASE LockShared(c)
    <2>1. /\ UNCHANGED evalVars
          /\ \A d \in Callers \ {c} : /\ pc'[d] = pc[d] /\ fn'[d] = fn[d]
                                     /\ reply'[d] = reply[d]
          /\ pc[c] \notin {"print", "read", "clear"}
          /\ pc'[c] \notin {"print", "read", "clear"}
      BY <1>10 DEF LockShared
    <2>2. \/ reply'[c].kind # "runtime"
          \/ reply'[c] = reply[c] /\ pc'[c] \in {"idle", "release"}
      BY <1>10 DEF LockShared, StreamInv
    <2> QED
      BY <2>1, <2>2, OutsideStep
  <1>11. CASE Explain(c)
    <2>1. /\ UNCHANGED evalVars
          /\ \A d \in Callers \ {c} : /\ pc'[d] = pc[d] /\ fn'[d] = fn[d]
                                     /\ reply'[d] = reply[d]
          /\ pc[c] \notin {"print", "read", "clear"}
          /\ pc'[c] \notin {"print", "read", "clear"}
      BY <1>11 DEF Explain
    <2>2. \/ reply'[c].kind # "runtime"
          \/ reply'[c] = reply[c] /\ pc'[c] \in {"idle", "release"}
      BY <1>11 DEF Explain, StreamInv
    <2> QED
      BY <2>1, <2>2, OutsideStep
  <1>12. CASE Release(c)
    <2>1. /\ UNCHANGED evalVars
          /\ \A d \in Callers \ {c} : /\ pc'[d] = pc[d] /\ fn'[d] = fn[d]
                                     /\ reply'[d] = reply[d]
          /\ pc[c] \notin {"print", "read", "clear"}
          /\ pc'[c] \notin {"print", "read", "clear"}
      BY <1>12 DEF Release
    <2>2. \/ reply'[c].kind # "runtime"
          \/ reply'[c] = reply[c] /\ pc'[c] \in {"idle", "release"}
      BY <1>12 DEF Release, StreamInv
    <2> QED
      BY <2>1, <2>2, OutsideStep
  <1>13. CASE pc[c] = "evaluate" /\ EvaluatesToValue(c)
    BY <1>13, OutsideStep DEF EvaluatesToValue
  <1> QED
    BY <1>1, <1>2, <1>3, <1>4, <1>5, <1>6, <1>7, <1>8, <1>9, <1>10, <1>11, <1>12,
       <1>13

\* A step of a failing evaluation that stays failing does not change who is.
LEMMA SameFailing ==
  ASSUME TypeInv, NEW c \in Callers,
         pc[c] \in {"print", "read", "clear"},
         pc'[c] \in {"print", "read", "clear"},
         \A d \in Callers \ {c} : pc'[d] = pc[d],
         UNCHANGED fn
  PROVE  \A f \in Indices : Failing(f)' = Failing(f)
  BY DEF Failing

\* A thread that begins to fail is undisturbed exactly if no other one is
\* failing in the same function, and disturbs those that are.
LEMMA EnterStep ==
  ASSUME TypeInv, StreamInv, NEW c \in Callers, NEW n \in 1 .. MaxErrors,
         pc[c] = "evaluate", EvaluatesToError(c, n)
  PROVE  StreamInv'
  <1> DEFINE f == fn[c]
  <1>0. /\ f \in Indices /\ printed' = [printed EXCEPT ![c] = 0]
        /\ owed' = [owed EXCEPT ![c] = n * Pieces]
        /\ disturbed' = [d \in Callers |-> IF d = c THEN Failing(f) # {}
                                          ELSE disturbed[d] \/ d \in Failing(f)]
        /\ pc' = [pc EXCEPT ![c] = "print"]
        /\ UNCHANGED <<runtimeError, fn, reply>>
    BY DEF EvaluatesToError, Goto, callVars, TypeInv, TypeOK
  <1> USE DEF TypeInv, TypeOK
  <1>1. /\ Failing(f)' = Failing(f) \cup {c}
        /\ \A g \in Indices \ {f} : Failing(g)' = Failing(g)
    BY <1>0 DEF Failing
  <1>2. NoResidue'
    BY <1>0, <1>1 DEF StreamInv, NoResidue
  <1>3. ASSUME NEW d \in Callers, pc'[d] \in {"print", "read", "clear"},
               ~disturbed'[d]
        PROVE  /\ Failing(fn[d])' = {d}
               /\ pc'[d] = "print" => runtimeError'[fn[d]] = Text(d, printed'[d])
               /\ pc'[d] = "read" => runtimeError'[fn[d]] = Text(d, owed'[d])
    <2>1. CASE d = c
      <3>1. Failing(f) = {}
        BY <1>0, <1>3, <2>1
      <3>2. runtimeError[f] = <<>>
        BY <1>0, <3>1 DEF StreamInv, NoResidue
      <3> QED
        BY <1>0, <1>1, <2>1, <3>1, <3>2, TextEmpty
    <2>2. CASE d # c
      <3>1. pc'[d] = pc[d] /\ d \notin Failing(f) /\ ~disturbed[d]
        BY <1>0, <1>3, <2>2
      <3>2. fn[d] # f /\ fn[d] \in Indices
        BY <1>3, <3>1 DEF Failing
      <3>3. printed'[d] = printed[d] /\ owed'[d] = owed[d]
        BY <1>0, <2>2
      <3> QED
        BY <1>0, <1>1, <1>3, <3>1, <3>2, <3>3 DEF StreamInv
    <2> QED
      BY <2>1, <2>2
  <1>4. reply'[c].kind # "runtime"
    BY <1>0 DEF StreamInv
  <1>5. \A d \in Callers : pc'[d] \notin {"idle", "clear", "release"} =>
           reply'[d].kind # "runtime"
    BY <1>0, <1>4 DEF StreamInv
  <1>6. UndisturbedMessage'
    BY <1>0, <1>4 DEF StreamInv, UndisturbedMessage
  <1> QED
    BY <1>0, <1>2, <1>3, <1>5, <1>6 DEF StreamInv

\* An insertion into the stream (CodeManager.cpp:132): undisturbed, it extends
\* the thread's own text by one.
LEMMA PrintStep ==
  ASSUME TypeInv, StreamInv, NEW c \in Callers, PrintDivZeroError(c)
  PROVE  StreamInv'
  <1> DEFINE f == fn[c]
  <1> USE DEF TypeInv, TypeOK
  <1>0. /\ f \in Indices /\ pc[c] = "print"
        /\ printed' = [printed EXCEPT ![c] = @ + 1]
        /\ pc' = [pc EXCEPT ![c] =
                    IF printed[c] + 1 = owed[c] THEN "read" ELSE "print"]
        /\ UNCHANGED <<owed, disturbed, fn, reply>>
    BY DEF PrintDivZeroError, Goto, callVars
  <1>1. PICK s \in Racing(c, runtimeError[f], Append(runtimeError[f], c)) :
           runtimeError' = [runtimeError EXCEPT ![f] = s]
    BY DEF PrintDivZeroError
  <1>2. \A g \in Indices : Failing(g)' = Failing(g)
    BY <1>0, SameFailing
  <1>3. NoResidue'
    BY <1>0, <1>1, <1>2 DEF StreamInv, NoResidue, Failing
  <1>4. ASSUME NEW d \in Callers, pc'[d] \in {"print", "read", "clear"},
               ~disturbed'[d]
        PROVE  /\ Failing(fn[d])' = {d}
               /\ pc'[d] = "print" => runtimeError'[fn[d]] = Text(d, printed'[d])
               /\ pc'[d] = "read" => runtimeError'[fn[d]] = Text(d, owed'[d])
    <2>0. /\ pc[d] \in {"print", "read", "clear"} /\ ~disturbed[d]
          /\ fn[d] \in Indices /\ Failing(fn[d]) = {d}
      BY <1>0, <1>4 DEF StreamInv
    <2>1. CASE d = c
      <3>1. s = Append(runtimeError[f], c)
        BY <2>0, <2>1 DEF Racing
      <3>2. runtimeError[f] = Text(c, printed[c])
        BY <1>0, <2>0, <2>1 DEF StreamInv
      <3>3. runtimeError'[f] = Text(c, printed'[c])
        BY <1>0, <1>1, <3>1, <3>2, TextAppend
      <3> QED
        BY <1>0, <1>2, <2>0, <2>1, <3>3
    <2>2. CASE d # c
      <3>1. fn[d] # f
        BY <1>0, <2>0, <2>2 DEF Failing
      <3> QED
        BY <1>0, <1>1, <1>2, <2>0, <2>2, <3>1 DEF StreamInv
    <2> QED
      BY <2>1, <2>2
  <1>5. \A d \in Callers : pc'[d] \notin {"idle", "clear", "release"} =>
           reply'[d].kind # "runtime"
    BY <1>0 DEF StreamInv
  <1>6. UndisturbedMessage'
    BY <1>0 DEF StreamInv, UndisturbedMessage
  <1> QED
    BY <1>0, <1>3, <1>4, <1>5, <1>6 DEF StreamInv

\* runtimeErrorMessage copies the stream: an undisturbed thread gets its text.
LEMMA ReadStep ==
  ASSUME TypeInv, StreamInv, NEW c \in Callers, ReadMessage(c)
  PROVE  StreamInv'
  <1> DEFINE f == fn[c]
  <1> USE DEF TypeInv, TypeOK
  <1>0. /\ f \in Indices /\ pc[c] = "read"
        /\ reply' = [reply EXCEPT ![c] = [kind |-> "runtime", function |-> f,
                                         message |-> runtimeError[f]]]
        /\ pc' = [pc EXCEPT ![c] = "clear"]
        /\ UNCHANGED <<owed, disturbed, printed, runtimeError, fn>>
    BY DEF ReadMessage, Goto, evalVars
  <1>1. \A g \in Indices : Failing(g)' = Failing(g)
    BY <1>0, SameFailing
  <1>2. NoResidue'
    BY <1>0, <1>1 DEF StreamInv, NoResidue
  <1>3. UndisturbedMessage'
    BY <1>0 DEF StreamInv, UndisturbedMessage
  <1>4. \A d \in Callers : pc'[d] \notin {"idle", "clear", "release"} =>
           reply'[d].kind # "runtime"
    BY <1>0 DEF StreamInv
  <1>5. \A d \in Callers :
           pc'[d] \in {"print", "read", "clear"} /\ ~disturbed'[d] =>
              Failing(fn[d])' = {d}
    BY <1>0, <1>1 DEF StreamInv
  <1> QED
    BY <1>0, <1>2, <1>3, <1>4, <1>5 DEF StreamInv

\* runtimeErrorMessage clears the stream and the thread stops failing.
LEMMA ClearStep ==
  ASSUME TypeInv, StreamInv, NEW c \in Callers, ClearStream(c)
  PROVE  StreamInv'
  <1> DEFINE f == fn[c]
  <1> USE DEF TypeInv, TypeOK
  <1>0. /\ f \in Indices /\ pc[c] = "clear"
        /\ pc' = [pc EXCEPT ![c] = "release"]
        /\ UNCHANGED <<owed, disturbed, printed, reply, fn>>
    BY DEF ClearStream, Goto, callVars
  <1>1. PICK s \in Racing(c, runtimeError[f], <<>>) :
           runtimeError' = [runtimeError EXCEPT ![f] = s]
    BY DEF ClearStream
  <1>2. /\ Failing(f)' = Failing(f) \ {c}
        /\ \A g \in Indices \ {f} : Failing(g)' = Failing(g)
    BY <1>0 DEF Failing
  <1>3. NoResidue'
    <2>1. runtimeError'[f] # <<>> => Failing(f) \ {c} # {}
      BY <1>0, <1>1 DEF Racing
    <2> QED
      BY <1>0, <1>1, <1>2, <2>1 DEF StreamInv, NoResidue
  <1>4. ASSUME NEW d \in Callers, pc'[d] \in {"print", "read", "clear"},
               ~disturbed'[d]
        PROVE  /\ Failing(fn[d])' = {d}
               /\ runtimeError'[fn[d]] = runtimeError[fn[d]]
               /\ pc'[d] = pc[d] /\ pc[d] # "clear" => fn[d] \in Indices
    <2>1. d # c /\ pc'[d] = pc[d] /\ fn[d] \in Indices /\ Failing(fn[d]) = {d}
      BY <1>0, <1>4 DEF StreamInv
    <2>2. fn[d] # f
      BY <1>0, <2>1 DEF Failing
    <2> QED
      BY <1>0, <1>1, <1>2, <2>1, <2>2
  <1>5. \A d \in Callers : pc'[d] \notin {"idle", "clear", "release"} =>
           reply'[d].kind # "runtime"
    BY <1>0 DEF StreamInv
  <1>6. UndisturbedMessage'
    BY <1>0 DEF StreamInv, UndisturbedMessage
  <1>7. \A d \in Callers : pc'[d] \in {"print", "read"} => pc[d] = pc'[d]
    BY <1>0
  <1> QED
    <2>1. ASSUME NEW d \in Callers, pc'[d] \in {"print", "read"}, ~disturbed'[d]
          PROVE  /\ pc'[d] = "print" =>
                       runtimeError'[fn'[d]] = Text(d, printed'[d])
                 /\ pc'[d] = "read" =>
                       runtimeError'[fn'[d]] = Text(d, owed'[d])
      <3>1. pc[d] = pc'[d] /\ fn'[d] = fn[d] /\ ~disturbed[d]
        BY <1>0, <1>7, <2>1
      <3>2. runtimeError'[fn[d]] = runtimeError[fn[d]]
        BY <1>4, <2>1
      <3> QED
        BY <1>0, <2>1, <3>1, <3>2 DEF StreamInv
    <2>2. ASSUME NEW d \in Callers, pc'[d] \in {"print", "read", "clear"},
                 ~disturbed'[d]
          PROVE  Failing(fn[d])' = {d}
      BY <1>4, <2>2
    <2> QED
      BY <1>3, <1>5, <1>6, <2>1, <2>2 DEF StreamInv

\* Every step of every thread preserves the invariant of the streams.
LEMMA StreamStep == TypeInv /\ StreamInv /\ [Next]_vars => StreamInv'
  <1> SUFFICES ASSUME TypeInv, StreamInv, [Next]_vars PROVE StreamInv'
    OBVIOUS
  <1>1. CASE \/ UNCHANGED vars \/ \E kind \in Sources : Register(kind)
             \/ \E c \in Callers : Abort(c)
    <2>1. UNCHANGED <<evalVars, callVars, pc>>
      BY <1>1 DEF vars, Register, Abort
    <2>2. \A f \in Indices : Failing(f)' = Failing(f)
      BY <2>1 DEF callVars, Failing
    <2>3. \A c \in Callers : pc[c] # "idle" => fn[c] \in Indices
      BY DEF TypeInv, TypeOK
    <2>4. NoResidue' /\ UndisturbedMessage'
      BY <2>1, <2>2
      DEF evalVars, callVars, StreamInv, NoResidue, UndisturbedMessage
    <2> QED
      BY <2>1, <2>2, <2>3, <2>4 DEF evalVars, callVars, StreamInv
  <1>2. ASSUME NEW c \in Callers, Evaluate(c) PROVE StreamInv'
    BY <1>2, EnterStep, QuietStreamStep DEF Evaluate
  <1> QED
    BY <1>1, <1>2, QuietStreamStep, PrintStep, ReadStep, ClearStep
    DEF Next, Step, Move

-----------------------------------------------------------------------------
(* The results.                                                            *)

Inv == TypeInv /\ LockInv /\ CodeInv /\ StreamInv

\* The inductive invariant of the call path holds in every reachable state.
LEMMA Invariance == Spec => []Inv
  <1>1. Init => Inv
    BY TypeInit, LockInit, CodeInit, StreamInit DEF Inv
  <1>2. Inv /\ [Next]_vars => Inv'
    BY TypeStep, LockStep, CodeStep, StreamStep DEF Inv
  <1> QED
    BY <1>1, <1>2, PTL DEF Spec

\* Every reachable state has the declared types; in particular no thread
\* prints more than its evaluation owes.
THEOREM TypeCorrect == Spec => []TypeOK
  <1>1. Inv => TypeOK
    BY DEF Inv, TypeInv
  <1> QED
    BY <1>1, Invariance, PTL

\* However many threads make the first call of a function, its compiler is
\* started once, and if it is no longer running the verdict is there.
THEOREM CompiledOnce == Spec => []CompileOnce
  <1>1. Inv => CompileOnce
    BY DEF Inv, CodeInv
  <1> QED
    BY <1>1, Invariance, PTL

\* No thread evaluates a tree that is being built, rewritten or was refused.
THEOREM EvaluatesOptimized == Spec => []EvaluateOptimizedOnly
  <1>1. Inv => EvaluateOptimizedOnly
    <2> SUFFICES ASSUME Inv, NEW c \in Callers,
                        pc[c] \in {"evaluate", "print", "read", "clear"}
                 PROVE  /\ stage[fn[c]] = "optimized"
                        /\ compileError[fn[c]] = <<>>
                        /\ \A d \in Callers : fn[d] = fn[c] => pc[d] \notin Compiling
      BY DEF EvaluateOptimizedOnly
    <2>1. fn[c] \in Indices /\ compileTrigger[fn[c]] = "success"
      BY DEF Inv, TypeInv, TypeOK, CodeInv, CallerOK
    <2>2. stage[fn[c]] = "optimized" /\ compileError[fn[c]] = <<>>
      BY <2>1 DEF Inv, CodeInv, CodeOK
    <2>3. ASSUME NEW d \in Callers, fn[d] = fn[c], pc[d] \in Compiling PROVE FALSE
      <3>1. c # d
        BY <2>3 DEF Compiling
      <3>2. pc[c] \in Reading
        BY DEF Reading
      <3> QED
        BY <2>3, <3>1, <3>2, Exclusion DEF Inv
    <2> QED
      BY <2>2, <2>3
  <1> QED
    BY <1>1, Invariance, PTL

\* All replies of a function tell the same verdict, and all its rejections
\* carry the same error text, which is never empty.
THEOREM AllRepliesAgree == Spec => []RepliesAgree
  <1>1. Inv => RepliesAgree
    BY DEF Inv, CodeInv, CodeOK, ReplyOK, RepliesAgree
  <1> QED
    BY <1>1, Invariance, PTL

\* The error stream is empty whenever no evaluation of the function is
\* failing, even though threads write and clear it without exclusion.
THEOREM StreamDrains == Spec => []NoResidue
  <1>1. Inv => NoResidue
    BY DEF Inv, StreamInv
  <1> QED
    BY <1>1, Invariance, PTL

\* An evaluation that fails while no other one does returns its own text.
THEOREM UndisturbedIsExact == Spec => []UndisturbedMessage
  <1>1. Inv => UndisturbedMessage
    BY DEF Inv, StreamInv
  <1> QED
    BY <1>1, Invariance, PTL

\* The step that writes a verdict finds none and is taken under the
\* unique_lock; no other step touches a verdict or a printed error.
VerdictStep ==
    \A f \in Indices :
        /\ compileTrigger[f] # "unset" =>
              /\ compileTrigger'[f] = compileTrigger[f]
              /\ compileError'[f] = compileError[f]
        /\ compileTrigger'[f] # compileTrigger[f] =>
              exclusive[f] \in Callers /\ shared[f] = {}

\* Only a compiler pass, by the thread that holds the unique_lock, writes a
\* verdict, and only an unset one.
LEMMA WriterStep ==
  ASSUME Inv, NEW c \in Callers,
         Lex(c) \/ Parse(c) \/ Analyse(c) \/ Optimize(c)
  PROVE  VerdictStep
  <1>1. /\ fn[c] \in Indices
        /\ pc[c] \in {"lex", "parse", "analyse", "optimize"}
        /\ compileTrigger[fn[c]] = "unset"
    BY DEF Inv, TypeInv, TypeOK, CodeInv, CallerOK,
           Lex, Parse, ParseBroken, Analyse, Pass, Optimize
  <1>2. exclusive[fn[c]] = c /\ shared[fn[c]] = {}
    BY <1>1, CallersAssumption DEF Inv, LockInv, Compiling
  <1>3. \A f \in Indices \ {fn[c]} : /\ compileTrigger'[f] = compileTrigger[f]
                                    /\ compileError'[f] = compileError[f]
    <2>1. CASE Optimize(c)
      BY <1>1, <2>1 DEF Optimize, Inv, TypeInv, TypeOK
    <2>2. CASE Lex(c) \/ Parse(c) \/ Analyse(c)
      BY <1>1, <2>2
      DEF Lex, Parse, ParseBroken, Analyse, Pass, Inv, TypeInv, TypeOK
    <2> QED
      BY <2>1, <2>2
  <1> QED
    BY <1>1, <1>2, <1>3 DEF VerdictStep

\* All other steps leave verdicts and error texts alone.
LEMMA ReaderStep ==
  ASSUME \/ UNCHANGED vars
         \/ \E kind \in Sources : Register(kind)
         \/ \E c \in Callers, f \in Indices : Call(c, f)
         \/ \E c \in Callers :
               \/ LockExclusive(c) \/ CheckTrigger(c) \/ ReturnRejected(c)
               \/ UnlockExclusive(c) \/ LockShared(c) \/ Explain(c)
               \/ Evaluate(c) \/ PrintDivZeroError(c) \/ ReadMessage(c)
               \/ ClearStream(c) \/ Release(c) \/ Abort(c)
  PROVE  VerdictStep
  <1>1. UNCHANGED <<compileTrigger, compileError>>
    BY DEF vars, codeVars, Register, Call, LockExclusive, CheckTrigger,
           ReturnRejected, UnlockExclusive, LockShared, Explain, Evaluate,
           EvaluatesToValue, EvaluatesToError, PrintDivZeroError, ReadMessage,
           ClearStream, Release, Abort
  <1> QED
    BY <1>1 DEF VerdictStep

\* A verdict is written once, under the unique_lock, and so is its error text.
THEOREM VerdictsAreFinal == Spec => VerdictIsFinal
  <1>1. Inv /\ [Next]_vars => VerdictStep
    BY WriterStep, ReaderStep DEF Next, Step, Move
  <1>2. Inv /\ [Next]_vars => [(\A f \in Indices :
          /\ compileTrigger[f] # "unset" =>
                /\ compileTrigger'[f] = compileTrigger[f]
                /\ compileError'[f] = compileError[f]
          /\ compileTrigger'[f] # compileTrigger[f] =>
                exclusive[f] \in Callers /\ shared[f] = {})]_vars
    BY <1>1 DEF VerdictStep
  <1> QED
    BY <1>2, Invariance, PTL DEF Spec, VerdictIsFinal

-----------------------------------------------------------------------------
(* Refinement of JitService.                                               *)

\* From the moment its reply is composed, a call only returns.
AnswerInv ==
    \A c \in Callers : pc[c] \in {"clear", "release"} =>
        reply[c].kind # "none" /\ reply[c].function = fn[c]

\* Once composed, a reply stays that of the function called.
LEMMA AnswerStep == TypeInv /\ AnswerInv /\ [Next]_vars => AnswerInv'
  <1> SUFFICES ASSUME TypeInv, AnswerInv, [Next]_vars PROVE AnswerInv'
    OBVIOUS
  <1> USE DEF Goto, callVars, AnswerInv, TypeInv, TypeOK
  <1>1. CASE \/ UNCHANGED vars \/ \E kind \in Sources : Register(kind)
             \/ \E c \in Callers : Abort(c)
    BY <1>1 DEF vars, Register, Abort
  <1>2. ASSUME NEW c \in Callers, NEW f \in Indices, Call(c, f) PROVE AnswerInv'
    BY <1>2 DEF Call
  <1>3. ASSUME NEW c \in Callers, Evaluate(c) PROVE AnswerInv'
    <2>1. CASE EvaluatesToValue(c)
      BY <2>1 DEF EvaluatesToValue
    <2>2. ASSUME NEW n \in 1 .. MaxErrors, EvaluatesToError(c, n) PROVE AnswerInv'
      BY <2>2 DEF EvaluatesToError
    <2> QED
      BY <1>3, <2>1, <2>2 DEF Evaluate
  <1>4. ASSUME NEW c \in Callers, LockExclusive(c) PROVE AnswerInv'
    BY <1>4 DEF LockExclusive
  <1>5. ASSUME NEW c \in Callers, CheckTrigger(c) PROVE AnswerInv'
    BY <1>5 DEF CheckTrigger
  <1>6. ASSUME NEW c \in Callers, Lex(c) PROVE AnswerInv'
    BY <1>6 DEF Lex, Pass
  <1>7. ASSUME NEW c \in Callers, Parse(c) PROVE AnswerInv'
    BY <1>7 DEF Parse, Pass, ParseBroken
  <1>8. ASSUME NEW c \in Callers, Analyse(c) PROVE AnswerInv'
    BY <1>8 DEF Analyse, Pass
  <1>9. ASSUME NEW c \in Callers, Optimize(c) PROVE AnswerInv'
    BY <1>9 DEF Optimize
  <1>10. ASSUME NEW c \in Callers, ReturnRejected(c) PROVE AnswerInv'
    BY <1>10 DEF ReturnRejected
  <1>11. ASSUME NEW c \in Callers, UnlockExclusive(c) PROVE AnswerInv'
    BY <1>11 DEF UnlockExclusive
  <1>12. ASSUME NEW c \in Callers, LockShared(c) PROVE AnswerInv'
    BY <1>12 DEF LockShared
  <1>13. ASSUME NEW c \in Callers, Explain(c) PROVE AnswerInv'
    BY <1>13 DEF Explain
  <1>14. ASSUME NEW c \in Callers, PrintDivZeroError(c) PROVE AnswerInv'
    BY <1>14 DEF PrintDivZeroError
  <1>15. ASSUME NEW c \in Callers, ReadMessage(c) PROVE AnswerInv'
    BY <1>15 DEF ReadMessage
  <1>16. ASSUME NEW c \in Callers, ClearStream(c) PROVE AnswerInv'
    BY <1>16 DEF ClearStream
  <1>17. ASSUME NEW c \in Callers, Release(c) PROVE AnswerInv'
    BY <1>17 DEF Release
  <1> QED
    BY <1>1, <1>2, <1>3, <1>4, <1>5, <1>6, <1>7, <1>8, <1>9, <1>10, <1>11, <1>12,
       <1>13, <1>14, <1>15, <1>16, <1>17 DEF Next, Step, Move

\* Init maps to the initial state of the service.
LEMMA ServiceInit == Init => Service!Init
  BY DEF Init, Service!Init, NoReply

\* A step inside a call is invisible, writes a verdict or answers.
LEMMA ServiceStep == Inv /\ AnswerInv /\ [Next]_vars => [Service!Next]_Service!vars
  <1> SUFFICES ASSUME Inv, AnswerInv, [Next]_vars PROVE [Service!Next]_Service!vars
    OBVIOUS
  <1> USE DEF Goto, callVars, codeVars, functionVars, Inv, TypeInv, TypeOK
  <1>1. CASE UNCHANGED vars
    BY <1>1 DEF vars, Service!vars
  <1>2. ASSUME NEW kind \in Sources, Register(kind) PROVE Service!Register
    BY <1>2, BoundsAssumption DEF Register, Service!Register, Indices
  <1>3. ASSUME NEW c \in Callers, NEW f \in Indices, Call(c, f)
        PROVE  Service!Ask(c, f)
    BY <1>3 DEF Call, Service!Ask, NoReply
  <1>4. ASSUME NEW c \in Callers, Release(c) PROVE Service!Answer(c)
    <2>1. /\ pc[c] = "release" /\ pc' = [pc EXCEPT ![c] = "idle"]
          /\ UNCHANGED <<fn, reply, capacity, compileTrigger>>
      BY <1>4 DEF Release
    <2>2. reply[c].kind \in Service!Answers(fn[c])
      <3>1. reply[c].kind # "none" /\ reply[c].function = fn[c] /\ fn[c] \in Indices
        BY <2>1 DEF AnswerInv
      <3>2. reply[c].kind \in {"value", "runtime", "rejected"}
        BY <3>1
      <3>3. reply[c].kind = "rejected" => compileTrigger[fn[c]] = "failure"
        BY <3>1 DEF CodeInv, ReplyOK
      <3>4. reply[c].kind \in {"value", "runtime"} => compileTrigger[fn[c]] = "success"
        BY <3>1 DEF CodeInv, ReplyOK
      <3> QED
        BY <3>2, <3>3, <3>4 DEF Service!Answers
    <2> QED
      BY <2>1, <2>2 DEF Service!Answer
  <1>5. ASSUME NEW c \in Callers, ReturnRejected(c) PROVE Service!Answer(c)
    BY <1>5 DEF ReturnRejected, Service!Answer, Service!Answers, CodeInv, CallerOK
  <1>6. ASSUME NEW c \in Callers, Lex(c) \/ Parse(c) \/ Analyse(c) \/ Optimize(c)
        PROVE  [Service!Next]_Service!vars
    <2>1. /\ fn[c] \in Indices /\ pc[c] # "idle" /\ pc'[c] # "idle"
          /\ compileTrigger[fn[c]] = "unset"
          /\ \A d \in Callers \ {c} : pc'[d] = pc[d]
          /\ UNCHANGED <<fn, reply, capacity>>
      BY <1>6, SMTT(30)
      DEF Lex, Parse, ParseBroken, Analyse, Optimize, Pass, CodeInv, CallerOK
    <2>2. \/ UNCHANGED compileTrigger
          \/ \E v \in {"success", "failure"} :
                compileTrigger' = [compileTrigger EXCEPT ![fn[c]] = v]
      BY <1>6 DEF Lex, Parse, ParseBroken, Analyse, Optimize, Pass
    <2>3. \A d \in Callers : pc'[d] = "idle" <=> pc[d] = "idle"
      BY <2>1
    <2>4. /\ [d \in Callers |-> IF pc[d] = "idle" THEN {} ELSE {fn[d]}]'
              = [d \in Callers |-> IF pc[d] = "idle" THEN {} ELSE {fn[d]}]
          /\ [d \in Callers |-> IF pc[d] = "idle" THEN reply[d].kind ELSE "none"]'
              = [d \in Callers |-> IF pc[d] = "idle" THEN reply[d].kind ELSE "none"]
      BY <2>1, <2>3
    <2>5. CASE UNCHANGED compileTrigger
      BY <2>1, <2>4, <2>5 DEF Service!vars
    <2>6. ASSUME NEW v \in {"success", "failure"},
                 compileTrigger' = [compileTrigger EXCEPT ![fn[c]] = v]
          PROVE  Service!Settle(fn[c], v)
      BY <2>1, <2>4, <2>6 DEF Service!Settle
    <2> QED
      BY <2>1, <2>2, <2>5, <2>6 DEF Service!Next
  <1>7. ASSUME NEW c \in Callers,
               \/ LockExclusive(c) \/ CheckTrigger(c) \/ UnlockExclusive(c)
               \/ LockShared(c) \/ Explain(c) \/ Evaluate(c)
               \/ PrintDivZeroError(c) \/ ReadMessage(c) \/ ClearStream(c)
        PROVE  UNCHANGED Service!vars
    <2>1. /\ pc[c] # "idle" /\ pc'[c] # "idle"
          /\ \A d \in Callers \ {c} : pc'[d] = pc[d] /\ reply'[d] = reply[d]
          /\ UNCHANGED <<fn, capacity, compileTrigger>>
      BY <1>7, SMTT(30) DEF LockExclusive, CheckTrigger, UnlockExclusive, LockShared, Explain,
         Evaluate, EvaluatesToValue, EvaluatesToError, PrintDivZeroError,
         ReadMessage, ClearStream
    <2> QED
      BY <2>1 DEF Service!vars
  <1>8. ASSUME NEW c \in Callers, Abort(c) PROVE UNCHANGED Service!vars
    BY <1>8 DEF Abort, Service!vars
  <1> QED
    BY <1>1, <1>2, <1>3, <1>4, <1>5, <1>6, <1>7, <1>8
    DEF Next, Step, Move, Service!Next

\* Whatever the threads do, clients see lazy, single and final verdicts and
\* answers that follow them.
THEOREM RefinesService == Spec => ImplementsService
  <1>1. Init => AnswerInv
    BY DEF Init, AnswerInv
  <1>2. Spec => []AnswerInv
    <2>1. Inv /\ AnswerInv /\ [Next]_vars => AnswerInv'
      BY AnswerStep DEF Inv
    <2> QED
      BY <1>1, <2>1, Invariance, PTL DEF Spec
  <1> QED
    BY <1>2, Invariance, ServiceInit, ServiceStep, PTL
    DEF Spec, ImplementsService, Service!Spec

-----------------------------------------------------------------------------
(* The numbers of the nodes.                                               *)

\* Thread c has read the counter of pass p and not yet written it.
Pending(c, p) == increment[c].reading /\ pc[c] = p

\* Two functions in one pass know of each other.
OverlapInv ==
    \A c, d \in Callers :
        pc[c] \in Builders /\ pc[d] = pc[c] /\ fn[c] # fn[d] =>
            overlapped[pc[c]][fn[c]]

\* The counter is beyond the numbers of a tree made alone, up to the node that
\* is being made, and no pending write will take it back to one of them.
Beyond(p, f) ==
    \A i \in DOMAIN numbers[p][f] :
        /\ \/ numbers[p][f][i] < node_index_incrementer[p]
           \/ \E c \in Callers : Pending(c, p) /\ fn[c] = f
        /\ \A d \in Callers :
              Pending(d, p) => numbers[p][f][i] <= increment[d].value

BeyondInv ==
    \A p \in Builders, f \in Indices : ~overlapped[p][f] => Beyond(p, f)

NodesInv ==
    /\ CountersTypeOK
    /\ OverlapInv
    /\ BeyondInv
    /\ NumbersAreUniqueInTree
    /\ NumbersAreUniqueBetweenTrees

\* Beside the numbers the calls are those of Pljit.
LEMMA NodesRefine == NodesSpec => Spec
  <1>1. NodesInit => Init
    BY DEF NodesInit
  <1>2. [NodesNext]_allVars => [Next]_vars
    BY DEF NodesNext, RegisterRoots, Beside, Handle, ReadCounter, WriteCounter,
           Next, allVars
  <1> QED
    BY <1>1, <1>2, PTL DEF NodesSpec, Spec

\* At first there is no node.
LEMMA NodesStart == NodesInit => NodesInv
  BY NodesAssumption
  DEF NodesInit, Init, NodesInv, CountersTypeOK, OverlapInv, BeyondInv, Beyond,
      NumbersAreUniqueInTree, NumbersAreUniqueBetweenTrees, None

\* A thread that is making nodes owns the mutex of its function, so no other
\* one makes nodes for the same function.
LEMMA OneBuilder ==
  ASSUME TypeInv, LockInv, NEW c \in Callers, NEW d \in Callers,
         pc[c] \in Builders, pc[d] = pc[c], fn[d] = fn[c]
  PROVE  c = d
  BY Exclusion, NodesAssumption DEF Compiling

\* The handle that a thread calls does not change inside the call.
LEMMA HandleKept ==
  ASSUME TypeInv, Next, NEW d \in Callers, pc[d] # "idle"
  PROVE  fn'[d] = fn[d]
  <1> USE DEF callVars
  <1>1. ASSUME NEW kind \in Sources, Register(kind) PROVE fn'[d] = fn[d]
    BY <1>1 DEF Register
  <1>2. ASSUME NEW c \in Callers, NEW f \in Indices, Call(c, f)
        PROVE  fn'[d] = fn[d]
    BY <1>2 DEF Call, TypeInv, TypeOK
  <1>3. ASSUME NEW c \in Callers, Step(c) PROVE UNCHANGED fn
    <2>1. ASSUME LockExclusive(c) \/ ReturnRejected(c) \/ UnlockExclusive(c)
                 \/ LockShared(c) \/ Release(c)
          PROVE  UNCHANGED fn
      BY <2>1 DEF LockExclusive, ReturnRejected, UnlockExclusive, LockShared,
                  Release
    <2> QED
      BY <1>3, <2>1, ScopeOfStep DEF Step, Move
  <1> QED
    BY <1>1, <1>2, <1>3 DEF Next

\* A step of a call that comes between two nodes.
LEMMA BesideStep ==
  ASSUME TypeInv, LockInv, TypeInv', LockInv', NodesInv,
         NEW b \in Callers, Beside(Handle(b))
  PROVE  NodesInv'
  <1>0. Next
    BY DEF Beside, Handle, Next
  <1>1. /\ UNCHANGED <<node_index_incrementer, increment, numbers>>
        /\ \A c \in Callers : pc'[c] # pc[c] => BetweenNodes(c)
        /\ overlapped' =
              [p \in Builders |-> [f \in Indices |->
                  \/ overlapped[p][f]
                  \/ \E c, d \in Callers : /\ pc'[c] = p /\ pc'[d] = p
                                           /\ fn'[c] = f /\ fn'[d] # f]]
    BY DEF Beside, nodeVars
  <1>2. \A c \in Callers : increment[c].reading =>
            pc'[c] = pc[c] /\ fn'[c] = fn[c] /\ pc[c] \in Builders
    <2> SUFFICES ASSUME NEW c \in Callers, increment[c].reading
                 PROVE  pc'[c] = pc[c] /\ fn'[c] = fn[c] /\ pc[c] \in Builders
      OBVIOUS
    <2>1. pc[c] \in Builders /\ pc[c] # "idle"
      BY NodesAssumption DEF NodesInv, CountersTypeOK
    <2>2. pc'[c] = pc[c]
      BY <1>1, <2>1 DEF BetweenNodes, None
    <2> QED
      BY <1>0, <2>1, <2>2, HandleKept
  <1>3. \A p \in Builders, f \in Indices : ~overlapped'[p][f] => ~overlapped[p][f]
    BY <1>1
  <1>4. CountersTypeOK'
    BY <1>1, <1>2 DEF NodesInv, CountersTypeOK
  <1>5. OverlapInv'
    <2> SUFFICES ASSUME NEW c \in Callers, NEW d \in Callers,
                        pc'[c] \in Builders, pc'[d] = pc'[c], fn'[c] # fn'[d]
                 PROVE  overlapped'[pc'[c]][fn'[c]]
      BY DEF OverlapInv
    <2>1. fn'[c] \in Indices
      BY NodesAssumption DEF TypeInv, TypeOK
    <2> QED
      BY <1>1, <2>1
  <1>6. BeyondInv'
    <2> SUFFICES ASSUME NEW p \in Builders, NEW f \in Indices, ~overlapped'[p][f]
                 PROVE  Beyond(p, f)'
      BY DEF BeyondInv
    <2>1. Beyond(p, f)
      BY <1>3 DEF NodesInv, BeyondInv
    <2>2. \A c \in Callers : Pending(c, p)' <=> Pending(c, p)
      BY <1>1, <1>2 DEF Pending
    <2> QED
      BY <1>1, <1>2, <2>1, <2>2 DEF Beyond, Pending
  <1>7. NumbersAreUniqueInTree' /\ NumbersAreUniqueBetweenTrees'
    BY <1>1, <1>3 DEF NodesInv, NumbersAreUniqueInTree,
                      NumbersAreUniqueBetweenTrees
  <1> QED
    BY <1>4, <1>5, <1>6, <1>7 DEF NodesInv

\* A function is registered: no thread is making nodes, so the roots get
\* numbers that are beyond those of every tree made alone.
LEMMA RegisterStep ==
  ASSUME TypeInv, NodesInv, NEW kind \in Sources, RegisterRoots(kind)
  PROVE  NodesInv'
  <1> DEFINE k == node_index_incrementer
  <1>1. /\ capacity \in Indices
        /\ UNCHANGED <<pc, fn, increment, overlapped>>
        /\ \A c \in Callers : pc[c] = "idle"
    BY BoundsAssumption
    DEF RegisterRoots, Register, TypeInv, TypeOK, Indices, callVars
  <1>2. /\ numbers' = [p \in Builders |-> [numbers[p] EXCEPT ![capacity] = <<k[p]>>]]
        /\ k' = [p \in Builders |-> k[p] + 1]
        /\ numbers \in [Builders -> [Indices -> Seq(Nat)]]
        /\ k \in [Builders -> Nat]
    BY DEF RegisterRoots, NodesInv, CountersTypeOK
  <1> HIDE DEF k
  <1>3. \A p \in Builders : k[p] \in Nat /\ k'[p] = k[p] + 1
    BY <1>2
  <1>4. \A p \in Builders, f \in Indices :
            f # capacity => numbers'[p][f] = numbers[p][f]
    BY <1>2
  <1>5. \A p \in Builders :
            DOMAIN numbers'[p][capacity] = {1} /\ numbers'[p][capacity][1] = k[p]
    <2> SUFFICES ASSUME NEW p \in Builders
                 PROVE  numbers'[p][capacity] = <<k[p]>>
      OBVIOUS
    <2> QED
      BY <1>1, <1>2
  <1>6. \A c \in Callers, p \in Builders : ~Pending(c, p)
    BY <1>1, NodesAssumption DEF Pending
  <1>7. \A p \in Builders, f \in Indices : ~overlapped[p][f] =>
            \A i \in DOMAIN numbers[p][f] :
                numbers[p][f][i] < k[p] /\ numbers[p][f][i] \in Nat
    BY <1>2, <1>6 DEF NodesInv, BeyondInv, Beyond, k
  <1>8. CountersTypeOK'
    <2>1. numbers' \in [Builders -> [Indices -> Seq(Nat)]]
      BY <1>1, <1>2, <1>3
    <2>2. k' \in [Builders -> Nat]
      BY <1>2
    <2> QED
      BY <1>1, <2>1, <2>2 DEF NodesInv, CountersTypeOK, k
  <1>9. OverlapInv'
    BY <1>1 DEF NodesInv, OverlapInv
  <1>10. BeyondInv'
    <2> SUFFICES ASSUME NEW p \in Builders, NEW f \in Indices,
                        ~overlapped[p][f], NEW i \in DOMAIN numbers'[p][f]
                 PROVE  numbers'[p][f][i] < k'[p]
      BY <1>1, <1>6 DEF BeyondInv, Beyond, Pending, k
    <2>1. CASE f = capacity
      BY <1>3, <1>5, <2>1
    <2>2. CASE f # capacity
      BY <1>3, <1>4, <1>7, <2>2
    <2> QED
      BY <2>1, <2>2
  <1>11. NumbersAreUniqueInTree'
    <2> SUFFICES ASSUME NEW p \in Builders, NEW f \in Indices,
                        ~overlapped[p][f], NEW i \in DOMAIN numbers'[p][f],
                        NEW j \in DOMAIN numbers'[p][f], i < j
                 PROVE  numbers'[p][f][i] < numbers'[p][f][j]
      BY <1>1 DEF NumbersAreUniqueInTree
    <2>1. f # capacity
      BY <1>5
    <2> QED
      BY <1>4, <2>1 DEF NodesInv, NumbersAreUniqueInTree
  <1>12. NumbersAreUniqueBetweenTrees'
    <2>1. ASSUME NEW p \in Builders, NEW f \in Indices, NEW g \in Indices,
                 f # g, ~overlapped[p][f], ~overlapped[p][g],
                 NEW i \in DOMAIN numbers'[p][f],
                 NEW j \in DOMAIN numbers'[p][g]
          PROVE  numbers'[p][f][i] # numbers'[p][g][j]
      <3>1. CASE f = capacity
        BY <1>3, <1>4, <1>5, <1>7, <2>1, <3>1
      <3>2. CASE g = capacity
        BY <1>3, <1>4, <1>5, <1>7, <2>1, <3>2
      <3>3. CASE f # capacity /\ g # capacity
        BY <1>4, <2>1, <3>3 DEF NodesInv, NumbersAreUniqueBetweenTrees
      <3> QED
        BY <3>1, <3>2, <3>3
    <2> QED
      BY <1>1, <2>1 DEF NumbersAreUniqueBetweenTrees
  <1> QED
    BY <1>8, <1>9, <1>10, <1>11, <1>12 DEF NodesInv

\* A node takes the value of the counter as its number.
LEMMA NumberStep ==
  ASSUME TypeInv, LockInv, NodesInv, NEW d \in Callers, ReadCounter(d)
  PROVE  NodesInv'
  <1> DEFINE p == pc[d]
             g == fn[d]
             k == node_index_incrementer[p]
  <1>1. /\ p \in Builders /\ g \in Indices /\ k \in Nat
        /\ ~increment[d].reading
        /\ UNCHANGED <<pc, fn, node_index_incrementer, overlapped>>
        /\ increment' = [increment EXCEPT ![d] = [reading |-> TRUE, value |-> k]]
        /\ numbers' = [numbers EXCEPT ![p][g] = Append(@, k)]
    <2>1. p \in Builders /\ increment[d] = None
      BY DEF ReadCounter
    <2>2. g \in Indices
      BY <2>1, NodesAssumption DEF TypeInv, TypeOK
    <2> QED
      BY <2>1, <2>2
      DEF ReadCounter, NodesInv, CountersTypeOK, None, vars, callVars
  <1> HIDE DEF p, g, k
  <1> DEFINE old == numbers[p][g]
  <1>2. /\ old \in Seq(Nat)
        /\ numbers'[p][g] = Append(old, k)
        /\ \A q \in Builders, f \in Indices :
              <<q, f>> # <<p, g>> => numbers'[q][f] = numbers[q][f]
    BY <1>1 DEF NodesInv, CountersTypeOK
  <1>3. /\ Len(old) \in Nat
        /\ DOMAIN numbers'[p][g] = 1 .. Len(old) + 1
        /\ \A i \in DOMAIN old : numbers'[p][g][i] = old[i] /\ old[i] \in Nat
        /\ numbers'[p][g][Len(old) + 1] = k
        /\ DOMAIN old = 1 .. Len(old)
    BY <1>1, <1>2
  <1> HIDE DEF old
  <1>4. /\ increment'[d] = [reading |-> TRUE, value |-> k]
        /\ \A c \in Callers \ {d} : increment'[c] = increment[c]
    BY <1>1 DEF NodesInv, CountersTypeOK
  \* Whoever else is pending here has overlapped with both functions.
  <1>5. \A c \in Callers : Pending(c, p) =>
            c # d /\ overlapped[p][fn[c]] /\ overlapped[p][g]
    <2> SUFFICES ASSUME NEW c \in Callers, Pending(c, p)
                 PROVE  c # d /\ overlapped[p][fn[c]] /\ overlapped[p][g]
      OBVIOUS
    <2>1. c # d /\ pc[c] = p /\ pc[d] = p /\ p \in Builders
      BY <1>1 DEF Pending, p
    <2>2. fn[c] # g
      BY <2>1, OneBuilder DEF g
    <2> QED
      BY <2>1, <2>2 DEF NodesInv, OverlapInv, g
  <1>6. \A f \in Indices : ~overlapped[p][f] =>
            \A i \in DOMAIN numbers[p][f] : numbers[p][f][i] < k
    <2> SUFFICES ASSUME NEW f \in Indices, ~overlapped[p][f],
                        NEW i \in DOMAIN numbers[p][f]
                 PROVE  numbers[p][f][i] < k
      OBVIOUS
    <2>1. \A c \in Callers : ~(Pending(c, p) /\ fn[c] = f)
      BY <1>5
    <2> QED
      BY <1>1, <2>1 DEF NodesInv, BeyondInv, Beyond, k
  <1>7. CountersTypeOK'
    <2>1. numbers' \in [Builders -> [Indices -> Seq(Nat)]]
      BY <1>1 DEF NodesInv, CountersTypeOK
    <2>2. increment' \in [Callers -> [reading : BOOLEAN, value : Nat]]
      BY <1>1 DEF NodesInv, CountersTypeOK
    <2>3. \A c \in Callers : increment'[c].reading => pc'[c] \in Builders
      BY <1>1, <1>4 DEF NodesInv, CountersTypeOK, p
    <2> QED
      BY <1>1, <2>1, <2>2, <2>3 DEF NodesInv, CountersTypeOK
  <1>8. OverlapInv'
    BY <1>1 DEF NodesInv, OverlapInv
  <1>9. BeyondInv'
    <2> SUFFICES ASSUME NEW q \in Builders, NEW f \in Indices, ~overlapped[q][f]
                 PROVE  Beyond(q, f)'
      BY <1>1 DEF BeyondInv
    <2>1. Beyond(q, f)
      BY DEF NodesInv, BeyondInv
    <2>2. CASE q # p
      <3>1. numbers'[q][f] = numbers[q][f]
        BY <1>2, <2>2
      <3>2. \A c \in Callers : /\ Pending(c, q)' <=> Pending(c, q)
                               /\ Pending(c, q) => increment'[c] = increment[c]
        BY <1>1, <1>4, <2>2 DEF Pending, p
      <3> QED
        BY <1>1, <2>1, <3>1, <3>2 DEF Beyond
    <2>3. CASE q = p /\ f # g
      <3>1. numbers'[q][f] = numbers[q][f]
        BY <1>2, <2>3
      <3>2. \A i \in DOMAIN numbers[q][f] : numbers[q][f][i] < k
        BY <1>6, <2>3
      <3>3. \A c \in Callers : Pending(c, q)' => c = d \/ Pending(c, q)
        BY <1>1, <1>4 DEF Pending
      <3>4. numbers[q][f] \in Seq(Nat)
        BY DEF NodesInv, CountersTypeOK
      <3>5. \A i \in DOMAIN numbers[q][f], c \in Callers :
                Pending(c, q)' => numbers[q][f][i] <= increment'[c].value
        BY <1>1, <1>4, <2>1, <3>2, <3>3, <3>4 DEF Beyond
      <3> QED
        BY <1>1, <2>3, <3>1, <3>2, <3>5 DEF Beyond, k
    <2>4. CASE q = p /\ f = g
      <3>1. Pending(d, q)' /\ fn'[d] = f
        BY <1>1, <1>4, <2>4 DEF Pending, p, g
      <3>2. \A c \in Callers : Pending(c, q)' => c = d
        BY <1>1, <1>4, <1>5, <2>4 DEF Pending
      <3>3. \A i \in DOMAIN old : old[i] < k
        BY <1>1, <1>6, <2>4 DEF old
      <3>4. \A i \in DOMAIN numbers'[q][f] : numbers'[q][f][i] <= k
        BY <1>1, <1>3, <2>4, <3>3
      <3> QED
        BY <1>4, <3>1, <3>2, <3>4 DEF Beyond
    <2> QED
      BY <2>2, <2>3, <2>4
  <1>10. NumbersAreUniqueInTree'
    <2> SUFFICES ASSUME NEW q \in Builders, NEW f \in Indices, ~overlapped[q][f],
                        NEW i \in DOMAIN numbers'[q][f],
                        NEW j \in DOMAIN numbers'[q][f], i < j
                 PROVE  numbers'[q][f][i] < numbers'[q][f][j]
      BY <1>1 DEF NumbersAreUniqueInTree
    <2>1. CASE <<q, f>> # <<p, g>>
      <3>1. numbers'[q][f] = numbers[q][f]
        BY <1>2, <2>1
      <3> QED
        BY <3>1 DEF NodesInv, NumbersAreUniqueInTree
    <2>2. CASE q = p /\ f = g
      <3>1. i \in DOMAIN old /\ old[i] < k
        BY <1>1, <1>3, <1>6, <2>2 DEF old
      <3>2. CASE j \in DOMAIN old
        BY <1>3, <2>2, <3>1, <3>2 DEF NodesInv, NumbersAreUniqueInTree, old
      <3>3. CASE j \notin DOMAIN old
        BY <1>3, <2>2, <3>1, <3>3
      <3> QED
        BY <3>2, <3>3
    <2> QED
      BY <2>1, <2>2
  <1>11. NumbersAreUniqueBetweenTrees'
    <2> SUFFICES ASSUME NEW q \in Builders, NEW f \in Indices, NEW h \in Indices,
                        f # h, ~overlapped[q][f], ~overlapped[q][h],
                        NEW i \in DOMAIN numbers'[q][f],
                        NEW j \in DOMAIN numbers'[q][h]
                 PROVE  numbers'[q][f][i] # numbers'[q][h][j]
      BY <1>1 DEF NumbersAreUniqueBetweenTrees
    <2>0. \A e \in Indices :
              e # g \/ q # p => numbers'[q][e] = numbers[q][e]
      BY <1>2
    <2>1. CASE q # p \/ (f # g /\ h # g)
      BY <2>0, <2>1 DEF NodesInv, NumbersAreUniqueBetweenTrees
    <2>2. CASE q = p /\ f = g
      <3>1. j \in DOMAIN numbers[p][h] /\ numbers'[q][h][j] = numbers[p][h][j]
        BY <2>0, <2>2
      <3>2. numbers[p][h][j] < k
        BY <1>6, <2>2, <3>1
      <3>3. CASE i \in DOMAIN old
        BY <1>3, <2>2, <3>1, <3>3
        DEF NodesInv, NumbersAreUniqueBetweenTrees, old
      <3>4. CASE i \notin DOMAIN old
        BY <1>1, <1>3, <2>2, <3>1, <3>2, <3>4
      <3> QED
        BY <3>3, <3>4
    <2>3. CASE q = p /\ h = g
      <3>1. i \in DOMAIN numbers[p][f] /\ numbers'[q][f][i] = numbers[p][f][i]
        BY <2>0, <2>3
      <3>2. numbers[p][f][i] < k
        BY <1>6, <2>3, <3>1
      <3>3. CASE j \in DOMAIN old
        BY <1>3, <2>3, <3>1, <3>3
        DEF NodesInv, NumbersAreUniqueBetweenTrees, old
      <3>4. CASE j \notin DOMAIN old
        BY <1>1, <1>3, <2>3, <3>1, <3>2, <3>4
      <3> QED
        BY <3>3, <3>4
    <2> QED
      BY <2>1, <2>2, <2>3
  <1> QED
    BY <1>7, <1>8, <1>9, <1>10, <1>11 DEF NodesInv

\* The counter is set, possibly back to a value it had before.
LEMMA WriteStep ==
  ASSUME TypeInv, LockInv, NodesInv, NEW d \in Callers, WriteCounter(d)
  PROVE  NodesInv'
  <1> DEFINE p == pc[d]
             v == increment[d].value
  <1>1. /\ increment[d].reading /\ p \in Builders /\ v \in Nat
        /\ UNCHANGED <<pc, fn, numbers, overlapped>>
        /\ increment' = [increment EXCEPT ![d] = None]
        /\ node_index_incrementer' = [node_index_incrementer EXCEPT ![p] = v + 1]
    BY DEF WriteCounter, NodesInv, CountersTypeOK, vars, callVars
  <1>2. /\ ~increment'[d].reading
        /\ \A c \in Callers \ {d} : increment'[c] = increment[c]
        /\ node_index_incrementer'[p] = v + 1
        /\ \A q \in Builders \ {p} :
              node_index_incrementer'[q] = node_index_incrementer[q]
    BY <1>1 DEF NodesInv, CountersTypeOK, None
  <1>3. CountersTypeOK'
    <2>1. increment' \in [Callers -> [reading : BOOLEAN, value : Nat]]
      BY <1>1 DEF NodesInv, CountersTypeOK, None
    <2>2. node_index_incrementer' \in [Builders -> Nat]
      BY <1>1 DEF NodesInv, CountersTypeOK
    <2> QED
      BY <1>1, <1>2, <2>1, <2>2 DEF NodesInv, CountersTypeOK
  <1>4. BeyondInv'
    <2> SUFFICES ASSUME NEW q \in Builders, NEW f \in Indices, ~overlapped[q][f],
                        NEW i \in DOMAIN numbers[q][f]
                 PROVE  /\ \/ numbers[q][f][i] < node_index_incrementer'[q]
                           \/ \E c \in Callers : Pending(c, q)' /\ fn[c] = f
                        /\ \A c \in Callers : Pending(c, q)' =>
                              numbers[q][f][i] <= increment'[c].value
      BY <1>1 DEF BeyondInv, Beyond
    <2>1. /\ \/ numbers[q][f][i] < node_index_incrementer[q]
             \/ \E c \in Callers : Pending(c, q) /\ fn[c] = f
          /\ \A c \in Callers : Pending(c, q) =>
                numbers[q][f][i] <= increment[c].value
      BY DEF NodesInv, BeyondInv, Beyond
    <2>2. \A c \in Callers : /\ Pending(c, q)' => Pending(c, q) /\ c # d
                             /\ Pending(c, q) /\ c # d => Pending(c, q)'
      BY <1>1, <1>2 DEF Pending
    <2>3. numbers[q][f][i] \in Nat
      BY DEF NodesInv, CountersTypeOK
    <2>4. CASE q = p
      <3>1. Pending(d, q)
        BY <1>1, <2>4 DEF Pending
      <3>2. numbers[q][f][i] < node_index_incrementer'[q]
        BY <1>1, <1>2, <2>1, <2>3, <2>4, <3>1
      <3> QED
        BY <1>2, <2>1, <2>2, <3>2
    <2>5. CASE q # p
      <3>1. ~Pending(d, q)
        BY <2>5 DEF Pending
      <3> QED
        BY <1>2, <2>1, <2>2, <2>5, <3>1
    <2> QED
      BY <2>4, <2>5
  <1> QED
    BY <1>1, <1>3, <1>4
    DEF NodesInv, OverlapInv, NumbersAreUniqueInTree, NumbersAreUniqueBetweenTrees

\* The inductive invariant of the counters holds in every reachable state.
LEMMA NodesInvariance == NodesSpec => []NodesInv
  <1>1. Inv => TypeInv /\ LockInv
    BY DEF Inv
  <1>2. ASSUME Inv, Inv', NodesInv, [NodesNext]_allVars PROVE NodesInv'
    <2>1. CASE \E kind \in Sources : RegisterRoots(kind)
      BY <1>1, <1>2, <2>1, RegisterStep
    <2>2. CASE \E c \in Callers :
                  Beside(Handle(c)) \/ ReadCounter(c) \/ WriteCounter(c)
      BY <1>1, <1>2, <2>2, BesideStep, NumberStep, WriteStep DEF Inv
    <2>3. CASE UNCHANGED allVars
      BY <1>2, <2>3
      DEF NodesInv, CountersTypeOK, OverlapInv, BeyondInv, Beyond, Pending,
          NumbersAreUniqueInTree, NumbersAreUniqueBetweenTrees,
          allVars, nodeVars, vars, callVars
    <2> QED
      BY <1>2, <2>1, <2>2, <2>3 DEF NodesNext
  <1>3. NodesSpec => []Inv
    BY NodesRefine, Invariance, PTL
  <1> QED
    BY NodesStart, <1>2, <1>3, PTL DEF NodesSpec

\* Calls, counters, pending increments and numbers keep their types; a thread
\* that has read a counter is still in its pass when it writes it.
THEOREM NodesTypeCorrect == NodesSpec => []NodesTypeOK
  <1>1. NodesInv /\ TypeOK => NodesTypeOK
    BY DEF NodesInv, NodesTypeOK
  <1>2. NodesSpec => []TypeOK
    BY NodesRefine, TypeCorrect, PTL
  <1> QED
    BY <1>1, <1>2, NodesInvariance, PTL

\* In a tree made while no other function was in the same pass, numbers are
\* unique, although any number of threads may wait for that function; and no
\* number of one such tree is a number of another one, whatever values racing
\* passes have left in the counter between them.
THEOREM UniqueNumbers == NodesSpec => []NumbersAreUnique
  <1>1. NodesInv => NumbersAreUnique
    BY DEF NodesInv, NumbersAreUnique
  <1> QED
    BY <1>1, NodesInvariance, PTL
=============================================================================
