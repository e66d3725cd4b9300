--------------------------- MODULE SemanticProofs ---------------------------
(***************************************************************************)
(* Theorems about module Semantic, for texts of every length over any set  *)
(* of identifiers.                                                         *)
(***************************************************************************)
EXTENDS Semantic, FiniteSetTheorems, SequenceTheorems, TLAPS

-----------------------------------------------------------------------------
(* The inductive invariant.                                                *)

\* The symbol table says what the declarations say, until one is refused.
TableInv ==
    /\ isCompiled <=> ~DeclaredTwice
    /\ ~isCompiled => stage \in Kinds \cup {"rejected"}
    /\ isCompiled => \A kind \in Kinds : table[kind] = DeclaredAs(kind)
    /\ Disjoint
    /\ \A x \in table["parameter"] : index[x] < Cardinality(table["parameter"])
    /\ isCompiled /\ stage = "parameter" =>
          /\ \A i \in DOMAIN declared : declared[i].kind = "parameter"
          /\ Cardinality(table["parameter"]) = Len(declared)
    /\ ArgumentsInOrder

\* The statement waits in the outermost activation, and only there.
FramesShape ==
    /\ frames # <<>> =>
          frames[1].caller = IF statement.target = NoName THEN "return" ELSE "assignment"
    /\ \A i \in 2 .. Len(frames) : frames[i].caller \in Levels

FramesInv ==
    /\ stage \in Levels => frames # <<>>
    /\ stage \notin Levels \cup Results => frames = <<>>
    /\ FramesShape

\* The target that is noted although its statement is not yet in the body.
Noted == IF stage = "node" /\ frames = <<>>
         THEN {statement.target} \cap table["variable"] ELSE {}

BodyIsValid == \A k \in DOMAIN body : StatementIsValid(body[k], k)

\* The analysis knows of the statements what their text says; what the
\* activations return is the verdict on the statement.
BodyInv ==
    /\ stage \in Kinds => body = <<>> /\ seen = "declaration"
    /\ ~isCompiled => seen = "declaration"
    /\ stage \notin Levels \cup Results \cup {"rejected"} => statement = NoStatement
    /\ initialized = AssignedBefore(Len(body) + 1) \cup Noted
    /\ BodyIsValid
    /\ returns = Returns
    /\ stage \in Levels \cup {"node"} =>
          seen = "statement" /\ StatementIsValid(statement, Len(body) + 1)
    /\ stage = "nullptr" =>
          seen = "statement" /\ ~StatementIsValid(statement, Len(body) + 1)
    /\ messages = IF ~isCompiled \/ stage \in {"nullptr", "rejected"} THEN 1 ELSE 0
    /\ AnalysisIsExact

\* The context knows of the statements evaluated what the analysis knew.
CallInv ==
    /\ outcome # "none" => stage = "accepted"
    /\ outcome = "none" => at = 1 /\ failures = 0
    /\ outcome = "running" =>
          /\ valued = DeclaredAs("parameter") \cup DeclaredAs("constant")
                         \cup AssignedBefore(at)
          /\ \A k \in 1 .. at - 1 : body[k].target # NoName
    /\ NulloptIsReported
    /\ AssertionsHold

-----------------------------------------------------------------------------
(* Types.                                                                  *)

Typed == TypeOK /\ IsFiniteSet(table["parameter"])

\* The initial state has its type.
LEMMA TypeInit == Init => Typed
  <1>1. Init => IsFiniteSet(table["parameter"])
    BY FS_EmptySet DEF Init, Kinds
  <1>2. Init => TypeOK
    <2> SUFFICES ASSUME Init PROVE TypeOK
      OBVIOUS
    <2>1. declared \in Seq([kind : Kinds, name : Names]) /\ body \in Seq(Statements)
      BY DEF Init
    <2>2. at \in 1 .. Len(body) + 1
      BY DEF Init
    <2>3. initialized \in SUBSET table["variable"] /\ statement \in Statements
      BY DEF Init, Kinds, NoStatement, Statements
    <2>4. table \in [Kinds -> SUBSET Names] /\ index \in [Names -> Nat]
      BY DEF Init
    <2>5. frames \in Seq(Frames)
      BY DEF Init
    <2>6. /\ stage = "parameter" /\ stage \in Kinds /\ isCompiled \in BOOLEAN
          /\ seen = "declaration" /\ returns \in BOOLEAN /\ outcome = "none"
          /\ valued \in SUBSET Names
      BY DEF Init, Kinds
    <2>7. messages \in Nat /\ given \in Nat /\ failures \in Nat
      BY DEF Init
    <2> QED
      BY <2>1, <2>2, <2>3, <2>4, <2>5, <2>6, <2>7 DEF TypeOK
  <1> QED
    BY <1>1, <1>2 DEF Typed

\* Pushing, replacing and popping an activation keep the type.
LEMMA FramesType ==
  ASSUME frames \in Seq(Frames), NEW caller \in {"additive", "multiplicative", "unary"},
         NEW child \in {"left", "right", "only"},
         \/ frames' = Append(frames, Frame(caller, child))
         \/ frames' = <<Frame("assignment", "only")>>
         \/ frames' = <<Frame("return", "only")>>
         \/ frames # <<>> /\ frames' = [frames EXCEPT ![Len(frames)] = Frame(caller, child)]
         \/ frames # <<>> /\ Pop
         \/ UNCHANGED frames
  PROVE  frames' \in Seq(Frames)
  <1>1. /\ Frame(caller, child) \in Frames /\ Frame("assignment", "only") \in Frames
        /\ Frame("return", "only") \in Frames
    BY DEF Frame, Frames, Levels
  <1>2. ASSUME frames # <<>>, Pop PROVE frames' \in Seq(Frames)
    <2>1. Len(frames) \in Nat /\ \A i \in 1 .. Len(frames) - 1 : frames[i] \in Frames
      BY ONLY frames \in Seq(Frames)
    <2> QED
      BY <1>2, <2>1, SubSeqProperties DEF Pop
  <1>3. ASSUME NEW f \in Frames, frames' = Append(frames, f) PROVE frames' \in Seq(Frames)
    BY <1>3
  <1>4. ASSUME NEW f \in Frames, frames # <<>>, frames' = [frames EXCEPT ![Len(frames)] = f]
        PROVE  frames' \in Seq(Frames)
    BY <1>4
  <1>5. ASSUME NEW f \in Frames, frames' = <<f>> PROVE frames' \in Seq(Frames)
    BY <1>5
  <1> QED
    BY <1>1, <1>2, <1>3, <1>4, <1>5

\* Every step keeps the types.
LEMMA TypeStep == Typed /\ [Next]_vars => Typed'
  <1> SUFFICES ASSUME Typed, [Next]_vars PROVE Typed'
    OBVIOUS
  <1> USE DEF TypeOK
  <1>0. NoStatement \in Statements /\ TypeOK /\ IsFiniteSet(table["parameter"])
    BY DEF NoStatement, Statements, Typed
  <1>1. ASSUME NEW kind \in Kinds, NEW x \in Names, Declare(kind, x) PROVE Typed'
    <2>1. declared' \in Seq([kind : Kinds, name : Names])
      BY <1>0, <1>1 DEF Declare
    <2>2. /\ table' \in [Kinds -> SUBSET Names] /\ initialized' \in SUBSET table'["variable"]
      <3>1. /\ table' = table \/ table' = [table EXCEPT ![kind] = table[kind] \cup {x}]
            /\ initialized' = initialized
        BY <1>1 DEF Declare, Insert
      <3> QED
        BY <1>0, <3>1 DEF Kinds
    <2>6. messages' \in Nat /\ stage' \in Kinds
      <3>1. messages' = messages \/ messages' = messages + 1
        BY <1>1 DEF Declare, PrintError
      <3> QED
        BY <1>0, <1>1, <3>1 DEF Declare
    <2>7. isCompiled' \in BOOLEAN
      BY <1>0, <1>1 DEF Declare
    <2>3. index' \in [Names -> Nat]
      <3>1. index' = index \/ index' = [index EXCEPT ![x] = Cardinality(table["parameter"])]
        BY <1>1 DEF Declare, Insert, Number
      <3>2. Cardinality(table["parameter"]) \in Nat
        BY <1>0, FS_CardinalityType
      <3> QED
        BY <1>0, <3>1, <3>2
    <2>4. IsFiniteSet(table'["parameter"])
      <3>1. table'["parameter"] \in {table["parameter"], table["parameter"] \cup {x}}
        BY <1>0, <1>1 DEF Declare, Insert, Kinds
      <3>2. IsFiniteSet(table["parameter"] \cup {x})
        BY <1>0, FS_AddElement
      <3> QED
        BY <1>0, <3>1, <3>2
    <2>5. seen' = "declaration" /\ UNCHANGED <<compiled, frames, statement, evaluation>>
      BY <1>1 DEF Declare
    <2> QED
      BY <1>0, <2>1, <2>2, <2>3, <2>4, <2>5, <2>6, <2>7 DEF evaluation, compiled, Typed
  <1>2. CASE EndDeclarations
    BY <1>0, <1>2 DEF EndDeclarations, symbols, compiled, evaluation, Typed
  <1>3. ASSUME NEW x \in Names, BeginAssignment(x) PROVE Typed'
    <2>1. statement' \in Statements
      BY <1>3 DEF BeginAssignment, Statements
    <2>2. frames' \in Seq(Frames)
      BY <1>0, <1>3, FramesType DEF BeginAssignment
    <2> QED
      BY <1>0, <1>3, <2>1, <2>2
      DEF BeginAssignment, PrintError, symbols, compiled, evaluation, Levels, Results, Typed
  <1>4. CASE BeginReturn
    <2>1. frames' \in Seq(Frames)
      BY <1>0, <1>4, FramesType DEF BeginReturn
    <2> QED
      BY <1>0, <1>4, <2>1
      DEF BeginReturn, symbols, compiled, evaluation, Levels, Typed
  <1>5. ASSUME AdditiveExpression \/ MultiplicativeExpression \/ UnaryExpression
        PROVE  Typed'
    <2>1. frames' \in Seq(Frames)
      BY <1>0, <1>5, FramesType
      DEF AdditiveExpression, MultiplicativeExpression, UnaryExpression, Binary, Push
    <2>2. stage' \in Levels /\ UNCHANGED <<statement, messages, OutsideExpression>>
      BY <1>5 DEF AdditiveExpression, MultiplicativeExpression, UnaryExpression, Binary,
                  Levels
    <2> QED
      BY <1>0, <2>1, <2>2 DEF OutsideExpression, symbols, compiled, evaluation, Typed
  <1>6. ASSUME NEW x \in Names, ReadIdentifier(x) PROVE Typed'
    <2>1. statement' \in Statements
      BY <1>0, <1>6 DEF ReadIdentifier, Statements
    <2> QED
      BY <1>0, <1>6, <2>1 DEF ReadIdentifier, PrintError, OutsideExpression, symbols,
                              compiled, evaluation, Results, Typed
  <1>7. CASE ReadLiteralOrParenthesis
    BY <1>0, <1>7 DEF ReadLiteralOrParenthesis, OutsideExpression, symbols, compiled,
                      evaluation, Results, Levels, Typed
  <1>8. ASSUME NEW level \in {"additive", "multiplicative"}, ReturnToLeft(level)
        PROVE  Typed'
    <2>1. frames' \in Seq(Frames)
      BY <1>0, <1>8, FramesType DEF ReturnToLeft, Waits
    <2> QED
      BY <1>0, <1>8, <2>1 DEF ReturnToLeft, OutsideExpression, symbols, compiled,
                              evaluation, Levels, Typed
  <1>9. CASE ReturnThrough
    <2>1. frames' \in Seq(Frames)
      BY <1>0, <1>9, FramesType DEF ReturnThrough, Waits
    <2> QED
      BY <1>0, <1>9, <2>1 DEF ReturnThrough, OutsideExpression, symbols, compiled,
                              evaluation, Typed
  <1>10. CASE ReturnToAssignment
    <2>1. frames' \in Seq(Frames)
      BY <1>0, <1>10, FramesType DEF ReturnToAssignment, Waits
    <2> QED
      BY <1>0, <1>10, <2>1 DEF ReturnToAssignment, symbols, compiled, evaluation, Typed
  <1>11. CASE EndStatement
    <2>1. CASE stage = "nullptr"
      BY <1>0, <1>11, <2>1 DEF EndStatement, symbols, compiled, evaluation, Typed
    <2>2. CASE stage = "node"
      <3>0. body' = Append(body, statement)
        BY <1>11, <2>2 DEF EndStatement
      <3>1. body' \in Seq(Statements) /\ Len(body') = Len(body) + 1
        BY <1>0, <3>0
      <3>2. at \in 1 .. Len(body') + 1
        BY <1>0, <3>1
      <3>3. /\ stage' = "body" /\ statement' = NoStatement
            /\ returns' = (returns \/ statement.target = NoName)
            /\ UNCHANGED <<symbols, frames, initialized, messages, seen, evaluation>>
        BY <1>11, <2>2 DEF EndStatement
      <3>4. returns' \in BOOLEAN
        BY <1>0, <3>3
      <3> QED
        BY <1>0, <3>1, <3>2, <3>3, <3>4 DEF symbols, evaluation, Typed
    <2> QED
      BY <1>11, <2>1, <2>2 DEF EndStatement
  <1>12. CASE EndBody
    BY <1>0, <1>12 DEF EndBody, PrintError, symbols, compiled, evaluation, Typed
  <1>13. CASE NewContext
    BY <1>0, <1>13, BoundsAssumption
    DEF NewContext, analysis, symbols, compiled, Typed, Kinds
  <1>14. CASE EvaluateAssignment
    <2>1. at' \in 1 .. Len(body) + 1 /\ failures' \in Nat
      BY <1>0, <1>14 DEF EvaluateAssignment
    <2>2. valued' \in SUBSET Names
      <3>1. body[at].target \in Names
        <4>1. body[at] \in Statements /\ body[at].target # NoName
          BY <1>0, <1>14 DEF EvaluateAssignment
        <4> QED
          BY <4>1 DEF Statements
      <3> QED
        BY <1>0, <1>14, <3>1 DEF EvaluateAssignment
    <2>3. outcome' \in {"running", "nullopt", "aborted"} /\ UNCHANGED <<given, analysis>>
      BY <1>14 DEF EvaluateAssignment
    <2> QED
      BY <1>0, <2>1, <2>2, <2>3 DEF analysis, symbols, compiled, Typed
  <1>15. CASE EvaluateReturn
    BY <1>0, <1>15 DEF EvaluateReturn, analysis, symbols, compiled, Typed
  <1>16. CASE UNCHANGED vars
    BY <1>0, <1>16 DEF vars, analysis, symbols, compiled, evaluation, Typed
  <1> QED
    BY <1>1, <1>2, <1>3, <1>4, <1>5, <1>6, <1>7, <1>8, <1>9, <1>10, <1>11,
       <1>12, <1>13, <1>14, <1>15, <1>16 DEF Next

-----------------------------------------------------------------------------
(* The symbol table.                                                       *)

\* A new declaration adds its identifier to those of its kind.
LEMMA DeclaredAppend ==
  ASSUME TypeOK, NEW kind \in Kinds, NEW x \in Names,
         declared' = Append(declared, [kind |-> kind, name |-> x])
  PROVE  /\ Len(declared') = Len(declared) + 1 /\ Len(declared) \in Nat
         /\ \A i \in DOMAIN declared : declared'[i] = declared[i]
         /\ declared'[Len(declared) + 1] = [kind |-> kind, name |-> x]
         /\ \A k \in Kinds : DeclaredAs(k)' =
               IF k = kind THEN DeclaredAs(k) \cup {x} ELSE DeclaredAs(k)
  <1> DEFINE n == Len(declared)
             d == [kind |-> kind, name |-> x]
  <1>1. /\ n \in Nat /\ Len(declared') = n + 1 /\ declared'[n + 1] = d
        /\ \A i \in 1 .. n : declared'[i] = declared[i]
        /\ DOMAIN declared = 1 .. n /\ DOMAIN declared' = 1 .. n + 1
    <2>1. declared \in Seq([kind : Kinds, name : Names]) /\ d \in [kind : Kinds, name : Names]
      BY DEF TypeOK
    <2> HIDE DEF d
    <2>2. declared' = Append(declared, d)
      BY DEF d
    <2> QED
      BY <2>1, <2>2
  <1>2. ASSUME NEW k \in Kinds
        PROVE  DeclaredAs(k)' = IF k = kind THEN DeclaredAs(k) \cup {x} ELSE DeclaredAs(k)
    <2>1. ASSUME NEW y
          PROVE  y \in DeclaredAs(k)' <=> y \in DeclaredAs(k) \/ (k = kind /\ y = x)
      <3>1. y \in DeclaredAs(k)' <=>
              \E i \in 1 .. n + 1 : declared'[i].kind = k /\ y = declared'[i].name
        BY <1>1 DEF DeclaredAs
      <3>2. y \in DeclaredAs(k) <=>
              \E i \in 1 .. n : declared[i].kind = k /\ y = declared[i].name
        BY <1>1 DEF DeclaredAs
      <3>3. \A i \in 1 .. n + 1 : i = n + 1 \/ i \in 1 .. n
        BY <1>1
      <3>4. n + 1 \in 1 .. n + 1 /\ \A i \in 1 .. n : i \in 1 .. n + 1
        BY <1>1
      <3>5. (\E i \in 1 .. n + 1 : declared'[i].kind = k /\ y = declared'[i].name) <=>
              \/ \E i \in 1 .. n : declared'[i].kind = k /\ y = declared'[i].name
              \/ declared'[n + 1].kind = k /\ y = declared'[n + 1].name
        BY <3>3, <3>4
      <3>6. declared'[n + 1].kind = kind /\ declared'[n + 1].name = x
        BY <1>1
      <3>7. (\E i \in 1 .. n : declared'[i].kind = k /\ y = declared'[i].name) <=>
              (\E i \in 1 .. n : declared[i].kind = k /\ y = declared[i].name)
        BY <1>1
      <3> QED
        BY <3>1, <3>2, <3>5, <3>6, <3>7
    <2> QED
      BY <2>1
  <1> QED
    BY <1>1, <1>2

\* A step within an expression, or back to its statement.
WithinStatement ==
    \/ AdditiveExpression \/ MultiplicativeExpression \/ UnaryExpression
    \/ \E x \in Names : ReadIdentifier(x)
    \/ ReadLiteralOrParenthesis
    \/ \E level \in {"additive", "multiplicative"} : ReturnToLeft(level)
    \/ ReturnThrough
    \/ ReturnToAssignment

\* Such a step leaves declarations, body and call alone.
LEMMA ExpressionStep ==
  ASSUME TypeOK, WithinStatement
  PROVE  /\ stage \in Levels \cup Results /\ stage' \in Levels \cup Results
         /\ UNCHANGED <<symbols, compiled, seen, evaluation>>
         /\ statement'.target = statement.target
  <1>1. ASSUME AdditiveExpression \/ MultiplicativeExpression \/ UnaryExpression
        PROVE  /\ stage \in Levels /\ stage' \in Levels
               /\ UNCHANGED <<OutsideExpression, statement>>
    BY <1>1 DEF AdditiveExpression, MultiplicativeExpression, UnaryExpression, Binary,
                Levels
  <1>2. ASSUME NEW x \in Names, ReadIdentifier(x)
        PROVE  /\ stage \in Levels /\ stage' \in Results
               /\ UNCHANGED OutsideExpression /\ statement'.target = statement.target
    BY <1>2 DEF ReadIdentifier, Levels, Results, TypeOK, Statements
  <1>3. CASE ReadLiteralOrParenthesis
    BY <1>3 DEF ReadLiteralOrParenthesis, OutsideExpression, Levels, Results
  <1>4. ASSUME NEW level \in {"additive", "multiplicative"}, ReturnToLeft(level)
        PROVE  /\ stage \in Results /\ stage' \in Levels \cup Results
               /\ UNCHANGED <<OutsideExpression, statement>>
    BY <1>4 DEF ReturnToLeft, Waits, Levels, Results
  <1>5. CASE ReturnThrough
    BY <1>5 DEF ReturnThrough, Waits, OutsideExpression
  <1>6. CASE ReturnToAssignment
    BY <1>6 DEF ReturnToAssignment, Waits
  <1> QED
    BY <1>1, <1>2, <1>3, <1>4, <1>5, <1>6 DEF WithinStatement, OutsideExpression

\* A step that declares nothing leaves the table in order.
LEMMA TableKept ==
  ASSUME TableInv, UNCHANGED symbols,
         ~isCompiled => stage' \in Kinds \cup {"rejected"},
         stage' = "parameter" => stage = "parameter"
  PROVE  TableInv'
  BY DEF TableInv, symbols, DeclaredAs, DeclaredTwice, Disjoint, ArgumentsInOrder

\* The table is empty at first.
LEMMA TableInit == Init => TableInv
  <1> SUFFICES ASSUME Init PROVE TableInv
    OBVIOUS
  <1>1. /\ declared = <<>> /\ DOMAIN declared = {} /\ Len(declared) = 0
        /\ \A kind \in Kinds : table[kind] = {}
        /\ Cardinality({}) = 0 /\ "parameter" \in Kinds /\ isCompiled
    BY FS_EmptySet DEF Init, Kinds
  <1> QED
    BY <1>1 DEF TableInv, DeclaredAs, DeclaredTwice, Disjoint, ArgumentsInOrder

\* Every step keeps the table in order.
LEMMA TableStep == Typed /\ TableInv /\ [Next]_vars => TableInv'
  <1> SUFFICES ASSUME Typed, TableInv, [Next]_vars PROVE TableInv'
    OBVIOUS
  <1>0. TypeOK /\ IsFiniteSet(table["parameter"])
    BY DEF Typed
  <1>1. ASSUME NEW kind \in Kinds, NEW x \in Names, Declare(kind, x) PROVE TableInv'
    <2> DEFINE n == Len(declared)
               params == table["parameter"]
    <2>1. isCompiled /\ stage \in Before(kind) /\ stage' = kind
      BY <1>1 DEF Declare
    <2>2. /\ n \in Nat /\ Len(declared') = n + 1
          /\ \A i \in 1 .. n : declared'[i] = declared[i]
          /\ declared'[n + 1] = [kind |-> kind, name |-> x]
          /\ DOMAIN declared = 1 .. n /\ DOMAIN declared' = 1 .. n + 1
          /\ \A k \in Kinds : DeclaredAs(k)' =
                IF k = kind THEN DeclaredAs(k) \cup {x} ELSE DeclaredAs(k)
      <3>1. declared' = Append(declared, [kind |-> kind, name |-> x])
        BY <1>1 DEF Declare
      <3>2. declared' \in Seq([kind : Kinds, name : Names])
        BY <1>0, <3>1 DEF TypeOK
      <3> QED
        BY <1>0, <3>1, <3>2, DeclaredAppend DEF TypeOK
    <2>3. /\ \A k \in Kinds : table[k] = DeclaredAs(k)
          /\ ~DeclaredTwice /\ Disjoint
          /\ \A y \in params : index[y] < Cardinality(params)
          /\ stage = "parameter" =>
                /\ \A i \in 1 .. n : declared[i].kind = "parameter"
                /\ Cardinality(params) = n
          /\ \A i \in 1 .. n : declared[i].kind = "parameter" =>
                index[declared[i].name] = i - 1
      BY <2>1, <2>2 DEF TableInv, ArgumentsInOrder
    <2>6. \A i \in 1 .. n : declared[i].kind \in Kinds /\ declared[i].name \in Names
      <3>1. \A i \in 1 .. n : declared[i] \in [kind : Kinds, name : Names]
        <4> DEFINE D == [kind : Kinds, name : Names]
        <4>1. declared \in Seq(D)
          BY <1>0 DEF TypeOK
        <4> HIDE DEF D
        <4>2. \A i \in 1 .. n : declared[i] \in D
          BY <4>1
        <4> QED
          BY <4>2 DEF D
      <3> QED
        BY <3>1
    <2>4. CASE IsDeclared(x)
      <3>1. isCompiled' = FALSE /\ table' = table /\ index' = index
        BY <1>1, <2>4 DEF Declare
      <3>2. DeclaredTwice'
        <4>1. PICK k \in Kinds : x \in DeclaredAs(k)
          BY <2>3, <2>4 DEF IsDeclared
        <4>2. PICK i \in 1 .. n : declared[i].name = x
          BY <2>2, <4>1 DEF DeclaredAs
        <4>3. /\ i \in 1 .. n + 1 /\ n + 1 \in 1 .. n + 1 /\ i # n + 1
              /\ declared'[i].name = declared'[n + 1].name
          BY <2>2, <4>2
        <4> QED
          BY <2>2, <4>3 DEF DeclaredTwice
      <3> QED
        BY <2>1, <2>3, <3>1, <3>2 DEF TableInv, Disjoint, ArgumentsInOrder
    <2>5. CASE ~IsDeclared(x)
      <3>1. isCompiled' = isCompiled /\ table' = [table EXCEPT ![kind] = table[kind] \cup {x}]
        BY <1>1, <2>5 DEF Declare, Insert
      <3>2. \A k \in Kinds : /\ x \notin table[k]
                             /\ table'[k] = IF k = kind THEN table[k] \cup {x} ELSE table[k]
        BY <1>0, <2>5, <3>1 DEF IsDeclared, TypeOK
      <3>3. \A k \in Kinds : table'[k] = DeclaredAs(k)'
        BY <2>2, <2>3, <3>2
      <3>4. Disjoint'
        BY <2>3, <3>2 DEF Disjoint
      <3>5. \A i \in 1 .. n : declared[i].kind \in Kinds /\ declared[i].name # x
        <4> SUFFICES ASSUME NEW i \in 1 .. n
                     PROVE  declared[i].kind \in Kinds /\ declared[i].name # x
          OBVIOUS
        <4>1. declared[i].kind \in Kinds
          BY <2>2, <2>6
        <4>2. declared[i].name \in DeclaredAs(declared[i].kind)
          BY <2>2 DEF DeclaredAs
        <4> QED
          BY <2>3, <3>2, <4>1, <4>2
      <3>6. (~DeclaredTwice)'
        <4> SUFFICES ASSUME NEW i \in 1 .. n + 1, NEW j \in 1 .. n + 1, i # j,
                            declared'[i].name = declared'[j].name
                     PROVE  FALSE
          BY <2>2 DEF DeclaredTwice
        <4>1. CASE i \in 1 .. n /\ j \in 1 .. n
          BY <2>2, <2>3, <4>1 DEF DeclaredTwice
        <4>2. CASE i = n + 1 \/ j = n + 1
          <5>1. declared'[n + 1].name = x
            BY <2>2
          <5>2. \A k \in 1 .. n : declared'[k].name # x
            BY <2>2, <3>5
          <5>3. \A k \in 1 .. n + 1 : k = n + 1 \/ k \in 1 .. n
            BY <2>2
          <5> QED
            BY <4>2, <5>1, <5>2, <5>3
        <4>3. \A k \in 1 .. n + 1 : k = n + 1 \/ k \in 1 .. n
          BY <2>2
        <4> QED
          BY <4>1, <4>2, <4>3
      <3>7. CASE kind = "parameter"
        <4>1. stage = "parameter" /\ stage' = "parameter"
          BY <2>1, <3>7 DEF Before
        <4>2. index' = [index EXCEPT ![x] = Cardinality(params)]
          BY <1>1, <2>5, <3>7 DEF Declare, Insert, Number
        <4>3. index'[x] = n /\ \A y \in Names \ {x} : index'[y] = index[y]
          BY <1>0, <2>3, <4>1, <4>2 DEF TypeOK
        <4>4. table'["parameter"] = params \cup {x} /\ x \notin params
          BY <3>2, <3>7 DEF Kinds
        <4>5. Cardinality(params \cup {x}) = n + 1
          BY <1>0, <2>3, <4>1, <4>4, FS_AddElement
        <4>6. \A y \in table'["parameter"] : index'[y] < Cardinality(table'["parameter"])
          <5> SUFFICES ASSUME NEW y \in params \cup {x} PROVE index'[y] < n + 1
            BY <4>4, <4>5
          <5>1. CASE y = x
            BY <2>2, <4>3, <5>1
          <5>2. CASE y # x
            <6>1. y \in params /\ y \in Names
              BY <1>0, <5>2 DEF TypeOK, Kinds
            <6>2. index[y] < n /\ index[y] \in Nat
              BY <1>0, <2>3, <4>1, <6>1 DEF TypeOK
            <6> QED
              BY <2>2, <4>3, <5>2, <6>1, <6>2
          <5> QED
            BY <5>1, <5>2
        <4>7. \A i \in 1 .. n + 1 : declared'[i].kind = "parameter"
          <5>1. \A i \in 1 .. n + 1 : i = n + 1 \/ i \in 1 .. n
            BY <2>2
          <5>2. declared'[n + 1].kind = "parameter"
            BY <2>2, <3>7
          <5>3. \A i \in 1 .. n : declared'[i].kind = "parameter"
            BY <2>2, <2>3, <4>1
          <5> QED
            BY <5>1, <5>2, <5>3
        <4>8. \A i \in 1 .. n + 1 : index'[declared'[i].name] = i - 1
          <5> SUFFICES ASSUME NEW i \in 1 .. n + 1 PROVE index'[declared'[i].name] = i - 1
            OBVIOUS
          <5>1. CASE i = n + 1
            BY <2>2, <4>3, <5>1
          <5>2. CASE i \in 1 .. n
            <6>1. declared'[i].name = declared[i].name /\ declared[i].name \in Names \ {x}
              BY <2>2, <2>6, <3>5, <5>2
            <6>2. index[declared[i].name] = i - 1
              BY <2>3, <4>1, <5>2
            <6> QED
              BY <4>3, <6>1, <6>2
          <5>3. i = n + 1 \/ i \in 1 .. n
            BY <2>2
          <5> QED
            BY <5>1, <5>2, <5>3
        <4>9. Cardinality(table'["parameter"]) = Len(declared')
          BY <2>2, <4>4, <4>5
        <4> QED
          BY <2>1, <2>2, <3>1, <3>3, <3>4, <3>6, <4>6, <4>7, <4>8, <4>9
          DEF TableInv, ArgumentsInOrder
      <3>8. CASE kind # "parameter"
        <4>1. stage' # "parameter" /\ index' = index
          BY <1>1, <2>1, <2>5, <3>8 DEF Declare, Insert
        <4>2. table'["parameter"] = params
          BY <3>2, <3>8 DEF Kinds
        <4>3. \A i \in 1 .. n + 1 : declared'[i].kind = "parameter" =>
                 index'[declared'[i].name] = i - 1
          <5>1. \A i \in 1 .. n + 1 : i = n + 1 \/ i \in 1 .. n
            BY <2>2
          <5>2. declared'[n + 1].kind # "parameter"
            BY <2>2, <3>8
          <5>3. \A i \in 1 .. n : declared'[i].kind = "parameter" =>
                   index'[declared'[i].name] = i - 1
            BY <2>2, <2>3, <4>1
          <5> QED
            BY <5>1, <5>2, <5>3
        <4> QED
          BY <2>1, <2>2, <2>3, <3>1, <3>3, <3>4, <3>6, <4>1, <4>2, <4>3
          DEF TableInv, ArgumentsInOrder
      <3> QED
        BY <3>7, <3>8
    <2> QED
      BY <2>4, <2>5
  <1>2. CASE EndDeclarations
    BY <1>2, TableKept DEF EndDeclarations
  <1>3. ASSUME NEW x \in Names, BeginAssignment(x) PROVE TableInv'
    BY <1>3, TableKept DEF BeginAssignment, TableInv, Kinds
  <1>4. CASE BeginReturn
    BY <1>4, TableKept DEF BeginReturn, TableInv, Kinds
  <1>5. CASE WithinStatement
    <2>1. /\ UNCHANGED symbols /\ stage \in Levels \cup Results
          /\ stage' \in Levels \cup Results
      BY <1>0, <1>5, ExpressionStep
    <2>2. isCompiled /\ stage' # "parameter"
      BY <2>1 DEF TableInv, Levels, Results, Kinds
    <2>3. ~isCompiled => stage' \in Kinds \cup {"rejected"}
      BY <2>2
    <2>4. stage' = "parameter" => stage = "parameter"
      BY <2>2
    <2>5. UNCHANGED symbols
      BY <2>1
    <2> QED
      BY <2>3, <2>4, <2>5, TableKept
  <1>6. CASE EndStatement
    <2>1. UNCHANGED symbols /\ stage \in Results /\ stage' \in {"body", "rejected"}
      BY <1>6 DEF EndStatement
    <2>2. isCompiled
      BY <2>1 DEF TableInv, Results, Kinds
    <2> QED
      BY <2>1, <2>2, TableKept
  <1>7. CASE EndBody
    BY <1>7, TableKept DEF EndBody, TableInv, Kinds
  <1>8. CASE NewContext
    BY <1>8, TableKept DEF NewContext, TableInv, analysis
  <1>9. CASE EvaluateAssignment
    BY <1>9, TableKept DEF EvaluateAssignment, TableInv, analysis
  <1>10. CASE EvaluateReturn
    BY <1>10, TableKept DEF EvaluateReturn, TableInv, analysis
  <1>11. CASE UNCHANGED vars
    BY <1>11, TableKept DEF vars, TableInv, analysis
  <1> QED
    BY <1>1, <1>2, <1>3, <1>4, <1>5, <1>6, <1>7, <1>8, <1>9, <1>10, <1>11
    DEF Next, WithinStatement

-----------------------------------------------------------------------------
(* The activations.                                                        *)

\* No activation waits at first.
LEMMA FramesInit == Init => FramesInv
  BY DEF Init, FramesInv, FramesShape, Levels, Results

\* What waits on top of a statement's activation is a level of its expression.
LEMMA FramesTop ==
  ASSUME TypeOK, FramesShape, NEW caller, NEW child, Waits(caller, child)
  PROVE  /\ Len(frames) \in Nat \ {0}
         /\ caller \in Levels => Len(frames) > 1
         /\ caller = "return" => Len(frames) = 1 /\ statement.target = NoName
         /\ caller = "assignment" => Len(frames) = 1
  <1> DEFINE n == Len(frames)
  <1>1. n \in Nat \ {0} /\ frames[n].caller = caller
    <2>1. n \in Nat \ {0}
      BY DEF TypeOK, Waits
    <2> QED
      BY <2>1 DEF Waits, Frame
  <1> HIDE DEF n
  <1>2. n = 1 \/ n \in 2 .. n
    BY <1>1
  <1>3. n = 1 => caller = IF statement.target = NoName THEN "return" ELSE "assignment"
    BY <1>1 DEF FramesShape, Waits
  <1>4. n # 1 => caller \in Levels
    BY <1>1, <1>2 DEF FramesShape, n
  <1>5. "return" \notin Levels /\ "assignment" \notin Levels
    BY DEF Levels
  <1>6. (caller \in Levels => n > 1) /\ (caller \notin Levels => n = 1)
    BY <1>1, <1>3, <1>4, <1>5
  <1> QED
    BY <1>1, <1>3, <1>5, <1>6 DEF n

\* An activation of an expression is pushed on the statement's.
LEMMA FramesPush ==
  ASSUME TypeOK, FramesShape, frames # <<>>, statement'.target = statement.target,
         NEW caller \in Levels, NEW child, Push(caller, child) \/ UNCHANGED frames
  PROVE  FramesShape' /\ frames' # <<>>
  <1>1. CASE UNCHANGED frames
    BY <1>1 DEF FramesShape
  <1>2. CASE Push(caller, child)
    <2> DEFINE n == Len(frames)
               f == Frame(caller, child)
    <2>1. n \in Nat \ {0} /\ frames \in Seq(Frames)
      BY DEF TypeOK
    <2>2. frames' = Append(frames, f) /\ f.caller \in Levels
      BY <1>2 DEF Push, Frame
    <2> HIDE DEF f
    <2>3. /\ Len(frames') = n + 1 /\ frames'[n + 1] = f
          /\ \A i \in 1 .. n : frames'[i] = frames[i]
      BY <2>1, <2>2
    <2>4. frames'[1].caller = frames[1].caller /\ frames' # <<>>
      BY <2>1, <2>3
    <2>5. \A i \in 2 .. n + 1 : frames'[i].caller \in Levels
      <3> SUFFICES ASSUME NEW i \in 2 .. n + 1 PROVE frames'[i].caller \in Levels
        OBVIOUS
      <3>1. CASE i = n + 1
        BY <2>2, <2>3, <3>1
      <3>2. CASE i \in 2 .. n
        BY <2>1, <2>3, <3>2 DEF FramesShape
      <3> QED
        BY <2>1, <3>1, <3>2
    <2> QED
      BY <2>3, <2>4, <2>5 DEF FramesShape
  <1> QED
    BY <1>1, <1>2

\* The activation on top is left, or waits for its other child.
LEMMA FramesPop ==
  ASSUME TypeOK, FramesShape, frames # <<>>, UNCHANGED statement,
         \/ Pop
         \/ /\ Len(frames) > 1
            /\ \E level \in Levels :
                  frames' = [frames EXCEPT ![Len(frames)] = Frame(level, "right")]
  PROVE  FramesShape' /\ (Len(frames) > 1 => frames' # <<>>)
                      /\ (Len(frames) = 1 => frames' = <<>>)
  <1> DEFINE n == Len(frames)
  <1>1. n \in Nat \ {0} /\ frames \in Seq(Frames)
    BY DEF TypeOK
  <1>2. CASE Pop
    <2>1. \A i \in 1 .. n - 1 : frames[i] \in Frames
      BY <1>1
    <2>2. /\ frames' \in Seq(Frames) /\ Len(frames') = n - 1
          /\ \A i \in 1 .. n - 1 : frames'[i] = frames[i]
      <3> DEFINE front == SubSeq(frames, 1, n - 1)
      <3> HIDE DEF n
      <3>1. /\ front \in Seq(Frames) /\ Len(front) = IF 1 <= n - 1 THEN n - 1 - 1 + 1 ELSE 0
            /\ \A i \in 1 .. n - 1 - 1 + 1 : front[i] = frames[1 + i - 1]
        BY ONLY <1>1, <2>1, SubSeqProperties
      <3>2. frames' = front
        BY <1>2 DEF Pop, n
      <3> HIDE DEF front
      <3>3. \A i \in 1 .. n - 1 : 1 + i - 1 = i /\ i \in 1 .. n - 1 - 1 + 1
        BY <1>1
      <3> QED
        BY <1>1, <3>1, <3>2, <3>3
    <2>3. (n > 1 => frames' # <<>>) /\ (n = 1 => frames' = <<>>)
      BY <1>1, <2>2
    <2>4. frames' # <<>> => frames'[1] = frames[1]
      BY <1>1, <2>2, <2>3
    <2>5. \A i \in 2 .. n - 1 : frames'[i].caller \in Levels
      BY <1>1, <2>2 DEF FramesShape
    <2> QED
      BY <2>2, <2>3, <2>4, <2>5 DEF FramesShape
  <1>3. ASSUME n > 1, NEW level \in Levels,
               frames' = [frames EXCEPT ![n] = Frame(level, "right")]
        PROVE  FramesShape' /\ frames' # <<>>
    <2>1. /\ Len(frames') = n /\ frames'[n].caller = level
          /\ \A i \in 1 .. n - 1 : frames'[i] = frames[i]
      BY <1>1, <1>3 DEF Frame
    <2>2. \A i \in 2 .. n : frames'[i].caller \in Levels
      <3> SUFFICES ASSUME NEW i \in 2 .. n PROVE frames'[i].caller \in Levels
        OBVIOUS
      <3>1. CASE i = n
        BY <1>3, <2>1, <3>1
      <3>2. CASE i \in 1 .. n - 1
        <4>1. frames[i].caller \in Levels
          BY DEF FramesShape
        <4> QED
          BY <2>1, <3>2, <4>1
      <3> QED
        BY <1>1, <3>1, <3>2
    <2>3. frames'[1] = frames[1]
      <3>1. 1 \in 1 .. n - 1
        BY <1>1, <1>3
      <3> QED
        BY <2>1, <3>1
    <2>4. frames' # <<>>
      BY <1>1, <2>1
    <2> QED
      BY <2>1, <2>2, <2>3, <2>4 DEF FramesShape
  <1> QED
    BY <1>1, <1>2, <1>3

\* A step that begins and ends outside the statements.
LEMMA FramesKept ==
  ASSUME FramesInv, UNCHANGED <<frames, statement>>,
         stage \notin Levels \cup Results,
         stage' \notin Levels
  PROVE  FramesInv'
  BY DEF FramesInv, FramesShape

\* Every step keeps the activations in order.
LEMMA FramesStep == TypeOK /\ FramesInv /\ [Next]_vars => FramesInv'
  <1> SUFFICES ASSUME TypeOK, FramesInv, [Next]_vars PROVE FramesInv'
    OBVIOUS
  <1>0. Levels \cap Results = {} /\ Kinds \cap (Levels \cup Results) = {}
        /\ {"body", "accepted", "rejected"} \cap (Levels \cup Results) = {}
        /\ {"additive", "multiplicative", "unary", "primary"} = Levels
        /\ {"node", "nullptr"} = Results
    BY DEF Levels, Results, Kinds
  <1>1. ASSUME NEW kind \in Kinds, NEW x \in Names, Declare(kind, x) PROVE FramesInv'
    <2>1. stage \in Kinds /\ stage' \in Kinds /\ UNCHANGED <<frames, statement>>
      BY <1>1 DEF Declare, Before, Kinds
    <2> QED
      BY <1>0, <2>1, FramesKept
  <1>2. CASE EndDeclarations
    <2>1. stage \in Kinds /\ stage' \in {"body", "rejected"} /\ UNCHANGED <<frames, statement>>
      BY <1>2 DEF EndDeclarations
    <2> QED
      BY <1>0, <2>1, FramesKept
  <1>3. ASSUME NEW x \in Names, BeginAssignment(x) PROVE FramesInv'
    <2>1. statement'.target = x /\ x # NoName /\ frames = <<>>
      BY <1>0, <1>3, NamesAssumption DEF BeginAssignment, FramesInv
    <2>2. \/ stage' = "additive" /\ frames' = <<Frame("assignment", "only")>>
          \/ stage' = "nullptr" /\ frames' = <<>>
      BY <1>3, <2>1 DEF BeginAssignment
    <2> QED
      BY <1>0, <2>1, <2>2 DEF FramesInv, FramesShape, Frame
  <1>4. CASE BeginReturn
    <2>1. /\ statement'.target = NoName /\ stage' = "additive"
          /\ frames' = <<Frame("return", "only")>>
      BY <1>4 DEF BeginReturn, NoStatement
    <2> QED
      BY <1>0, <2>1 DEF FramesInv, FramesShape, Frame
  <1>5. ASSUME AdditiveExpression \/ MultiplicativeExpression \/ UnaryExpression
        PROVE  FramesInv'
    <2>1. PICK caller \in Levels, child \in {"left", "only"} :
             /\ stage \in Levels /\ stage' \in Levels
             /\ Push(caller, child) \/ UNCHANGED frames
             /\ UNCHANGED statement
      BY <1>5 DEF AdditiveExpression, MultiplicativeExpression, UnaryExpression, Binary,
                  Levels
    <2>2. FramesShape' /\ frames' # <<>>
      BY <2>1, FramesPush DEF FramesInv
    <2> QED
      BY <1>0, <2>1, <2>2 DEF FramesInv
  <1>6. ASSUME UNCHANGED frames, statement'.target = statement.target,
               stage = "primary", stage' \in Levels \cup Results
        PROVE  FramesInv'
    BY <1>0, <1>6 DEF FramesInv, FramesShape
  <1>7. ASSUME NEW level \in {"additive", "multiplicative"}, ReturnToLeft(level)
        PROVE  FramesInv'
    <2>1. /\ stage \in Results /\ stage' \in Levels \cup Results /\ level \in Levels
          /\ frames # <<>> /\ Waits(level, "left") /\ UNCHANGED statement
          /\ \/ Pop /\ stage' \in Results
             \/ frames' = [frames EXCEPT ![Len(frames)] = Frame(level, "right")]
      BY <1>0, <1>7 DEF ReturnToLeft, Waits
    <2>2. Len(frames) > 1
      BY <2>1, FramesTop DEF FramesInv
    <2>3. FramesShape' /\ frames' # <<>>
      BY <2>1, <2>2, FramesPop DEF FramesInv
    <2> QED
      BY <1>0, <2>1, <2>3 DEF FramesInv
  <1>8. CASE ReturnThrough \/ ReturnToAssignment
    <2>1. /\ stage' \in Results /\ frames # <<>> /\ Pop /\ UNCHANGED statement
      BY <1>8 DEF ReturnThrough, ReturnToAssignment, Waits
    <2>2. FramesShape'
      BY <2>1, FramesPop DEF FramesInv
    <2> QED
      BY <1>0, <2>1, <2>2 DEF FramesInv
  <1>9. CASE EndStatement
    <2>1. frames' = <<>> /\ stage' \in {"body", "rejected"}
      BY <1>9 DEF EndStatement
    <2> QED
      BY <1>0, <2>1 DEF FramesInv, FramesShape
  <1>10. CASE EndBody
    BY <1>0, <1>10, FramesKept DEF EndBody
  <1>11. CASE UNCHANGED analysis
    BY <1>11 DEF analysis, FramesInv, FramesShape
  <1>12. NewContext \/ EvaluateAssignment \/ EvaluateReturn \/ UNCHANGED vars
            => UNCHANGED analysis
    BY DEF NewContext, EvaluateAssignment, EvaluateReturn, vars
  <1>13. ASSUME NEW x \in Names, ReadIdentifier(x) PROVE FramesInv'
    <2>1. statement'.target = statement.target
      BY <1>13 DEF ReadIdentifier, TypeOK, Statements
    <2> QED
      BY <1>0, <1>6, <1>13, <2>1 DEF ReadIdentifier
  <1>14. CASE ReadLiteralOrParenthesis
    BY <1>0, <1>6, <1>14 DEF ReadLiteralOrParenthesis
  <1> QED
    BY <1>1, <1>2, <1>3, <1>4, <1>5, <1>7, <1>8, <1>9, <1>10, <1>11,
       <1>12, <1>13, <1>14 DEF Next

-----------------------------------------------------------------------------
(* The statements.                                                         *)

\* A new statement adds its target to the assigned variables.
LEMMA BodyAppend ==
  ASSUME TypeOK, NEW s \in Statements, body' = Append(body, s), declared' = declared
  PROVE  /\ Len(body) \in Nat /\ Len(body') = Len(body) + 1
         /\ DOMAIN body = 1 .. Len(body) /\ DOMAIN body' = 1 .. Len(body) + 1
         /\ body'[Len(body) + 1] = s
         /\ \A k \in 1 .. Len(body) : body'[k] = body[k]
         /\ \A k \in 1 .. Len(body) + 1 : AssignedBefore(k)' = AssignedBefore(k)
         /\ AssignedBefore(Len(body) + 1)' =
               AssignedBefore(Len(body) + 1) \cup ({s.target} \cap DeclaredAs("variable"))
         /\ Returns' = (Returns \/ s.target = NoName)
  <1> DEFINE n == Len(body)
             V == DeclaredAs("variable")
  <1>1. /\ n \in Nat /\ Len(body') = n + 1 /\ DOMAIN body = 1 .. n
        /\ DOMAIN body' = 1 .. n + 1 /\ body'[n + 1] = s
        /\ \A k \in 1 .. n : body'[k] = body[k]
    <2>1. body \in Seq(Statements)
      BY DEF TypeOK
    <2> QED
      BY <2>1
  <1>2. V' = V
    BY DEF DeclaredAs
  <1>3. \A k \in 1 .. n + 2 : AssignedBefore(k)' =
           {body'[j].target : j \in {i \in 1 .. n + 1 : i < k}} \cap V
    BY <1>1, <1>2 DEF AssignedBefore
  <1>4. \A k \in 1 .. n + 1 : AssignedBefore(k) =
           {body[j].target : j \in {i \in 1 .. n : i < k}} \cap V
    BY <1>1 DEF AssignedBefore
  <1> HIDE DEF n, V
  <1>5. \A k \in 1 .. n + 1 : AssignedBefore(k)' = AssignedBefore(k)
    <2> SUFFICES ASSUME NEW k \in 1 .. n + 1
                 PROVE  {body'[j].target : j \in {i \in 1 .. n + 1 : i < k}} =
                        {body[j].target : j \in {i \in 1 .. n : i < k}}
      <3>1. \A k \in 1 .. n + 1 : k \in 1 .. n + 2
        BY <1>1
      <3> QED
        BY <1>3, <1>4, <3>1
    <2>1. {i \in 1 .. n + 1 : i < k} = {i \in 1 .. n : i < k}
      BY <1>1
    <2> QED
      BY <1>1, <2>1
  <1>6. AssignedBefore(Len(body) + 1)' = AssignedBefore(n + 1) \cup ({s.target} \cap V)
    <2>1. AssignedBefore(Len(body) + 1)' = {body'[j].target : j \in 1 .. n + 1} \cap V
      <3>1. {i \in 1 .. n + 1 : i < n + 2} = 1 .. n + 1 /\ Len(body') + 1 = n + 2
        BY <1>1
      <3>2. AssignedBefore(Len(body) + 1)' =
               {body'[j].target : j \in {i \in DOMAIN body' : i < Len(body') + 1}} \cap V'
        BY DEF AssignedBefore, V
      <3>3. AssignedBefore(Len(body) + 1)' =
               {body'[j].target : j \in {i \in 1 .. n + 1 : i < n + 2}} \cap V
        BY <1>1, <1>2, <3>1, <3>2
      <3> QED
        BY <3>1, <3>3
    <2>2. AssignedBefore(n + 1) = {body[j].target : j \in 1 .. n} \cap V
      <3>1. {i \in 1 .. n : i < n + 1} = 1 .. n /\ n + 1 \in 1 .. n + 1
        BY <1>1
      <3> QED
        BY <1>4, <3>1
    <2>3. {body'[j].target : j \in 1 .. n + 1} =
             {body[j].target : j \in 1 .. n} \cup {s.target}
      <3>1. 1 .. n + 1 = 1 .. n \cup {n + 1}
        BY <1>1
      <3> QED
        BY <1>1, <3>1
    <2> QED
      BY <2>1, <2>2, <2>3
  <1>7. Returns' = (Returns \/ s.target = NoName)
    <2>1. Returns' <=> \E k \in 1 .. n + 1 : body'[k].target = NoName
      BY <1>1 DEF Returns
    <2>2. Returns <=> \E k \in 1 .. n : body[k].target = NoName
      BY <1>1 DEF Returns
    <2>3. 1 .. n + 1 = 1 .. n \cup {n + 1}
      BY <1>1
    <2>4. (\E k \in 1 .. n + 1 : body'[k].target = NoName) <=>
             \/ \E k \in 1 .. n : body'[k].target = NoName
             \/ body'[n + 1].target = NoName
      BY <2>3
    <2>5. (\E k \in 1 .. n : body'[k].target = NoName) <=>
             \E k \in 1 .. n : body[k].target = NoName
      BY <1>1
    <2>6. body'[n + 1].target = s.target
      BY <1>1
    <2>7. Returns' \in BOOLEAN /\ Returns \in BOOLEAN
      BY DEF Returns
    <2> QED
      BY <2>1, <2>2, <2>4, <2>5, <2>6, <2>7
  <1> QED
    BY <1>1, <1>5, <1>6, <1>7 DEF n, V

\* No statement has been analysed at first.
LEMMA BodyInit == Init => BodyInv
  <1> SUFFICES ASSUME Init PROVE BodyInv
    OBVIOUS
  <1>1. body = <<>> /\ DOMAIN body = {} /\ Len(body) = 0
    BY DEF Init
  <1>2. /\ stage = "parameter" /\ statement = NoStatement /\ initialized = {}
        /\ returns = FALSE /\ messages = 0 /\ isCompiled = TRUE /\ seen = "declaration"
    BY DEF Init
  <1>3. AssignedBefore(Len(body) + 1) = {} /\ Noted = {} /\ BodyIsValid
    BY <1>1, <1>2 DEF AssignedBefore, Noted, BodyIsValid
  <1>4. ~Returns /\ Returns \in BOOLEAN
    BY <1>1 DEF Returns
  <1>5. AnalysisIsExact
    BY <1>2 DEF AnalysisIsExact
  <1>6. stage \notin Levels \cup Results \cup {"rejected"} /\ stage \in Kinds
    BY <1>2 DEF Levels, Results, Kinds
  <1>7. stage \notin {"node", "nullptr", "rejected"}
    BY <1>2
  <1>8. stage \notin Levels \cup {"node"} /\ initialized = AssignedBefore(Len(body) + 1) \cup Noted
    BY <1>2, <1>3, <1>6
  <1>9. /\ messages = IF ~isCompiled \/ stage \in {"nullptr", "rejected"} THEN 1 ELSE 0
        /\ ~isCompiled => seen = "declaration"
    BY <1>2, <1>7
  <1>10. returns = Returns
    BY <1>2, <1>4
  <1> QED
    BY <1>1, <1>2, <1>3, <1>5, <1>7, <1>8, <1>9, <1>10 DEF BodyInv

\* What is said of the body depends on the body and the declarations.
LEMMA SameBody ==
  ASSUME UNCHANGED <<symbols, body>>
  PROVE  /\ Returns' = Returns /\ DeclaredTwice' = DeclaredTwice
         /\ BodyIsValid' = BodyIsValid
         /\ AssignedBefore(Len(body) + 1)' = AssignedBefore(Len(body) + 1)
         /\ \A k \in Kinds : DeclaredAs(k)' = DeclaredAs(k)
         /\ UNCHANGED statement =>
               StatementIsValid(statement, Len(body) + 1)'
                  = StatementIsValid(statement, Len(body) + 1)
  <1>1. \A k \in Kinds : DeclaredAs(k)' = DeclaredAs(k)
    BY DEF symbols, DeclaredAs
  <1>2. Returns' = Returns /\ DeclaredTwice' = DeclaredTwice
    BY DEF symbols, Returns, DeclaredTwice
  <1>3. AssignedBefore(Len(body) + 1)' = AssignedBefore(Len(body) + 1)
    BY DEF symbols, AssignedBefore, DeclaredAs
  <1>4. BodyIsValid' = BodyIsValid
    BY DEF symbols, AssignedBefore, DeclaredAs, StatementIsValid, BodyIsValid
  <1>5. UNCHANGED statement =>
           StatementIsValid(statement, Len(body) + 1)'
              = StatementIsValid(statement, Len(body) + 1)
    BY DEF symbols, AssignedBefore, DeclaredAs, StatementIsValid
  <1> QED
    BY <1>1, <1>2, <1>3, <1>4, <1>5

\* A call leaves the analysis as it is.
LEMMA BodyKept ==
  ASSUME BodyInv, UNCHANGED analysis
  PROVE  BodyInv'
  <1>1. UNCHANGED <<symbols, compiled, stage, frames, initialized, statement, messages, seen>>
    BY DEF analysis
  <1>2. UNCHANGED <<isCompiled, table, body, returns>>
    BY <1>1 DEF symbols, compiled
  <1>3. /\ Returns' = Returns /\ BodyIsValid' = BodyIsValid
        /\ AssignedBefore(Len(body) + 1)' = AssignedBefore(Len(body) + 1)
        /\ StatementIsValid(statement, Len(body) + 1)'
              = StatementIsValid(statement, Len(body) + 1)
        /\ DeclaredTwice' = DeclaredTwice
    BY <1>1, <1>2, SameBody
  <1>4. Noted' = Noted
    BY <1>1, <1>2 DEF Noted
  <1>5. AnalysisIsExact' = AnalysisIsExact
    BY <1>1, <1>2, <1>3 DEF AnalysisIsExact, BodyIsValid
  <1> QED
    BY <1>1, <1>2, <1>3, <1>4, <1>5 DEF BodyInv

\* A step within a statement that brings no new verdict on it.
LEMMA BodyMoves ==
  ASSUME BodyInv, UNCHANGED <<symbols, compiled, seen, statement, messages>>,
         \/ stage \in Levels \cup {"node"} /\ stage' \in Levels \cup {"node"}
         \/ stage = "nullptr" /\ stage' = "nullptr",
         initialized' = AssignedBefore(Len(body) + 1) \cup Noted'
  PROVE  BodyInv'
  <1>1. UNCHANGED body
    BY DEF compiled
  <1>2. /\ Returns' = Returns /\ BodyIsValid' = BodyIsValid
        /\ AssignedBefore(Len(body) + 1)' = AssignedBefore(Len(body) + 1)
        /\ StatementIsValid(statement, Len(body) + 1)'
              = StatementIsValid(statement, Len(body) + 1)
    BY <1>1, SameBody
  <1>3. stage' \in Levels \cup Results /\ stage' \notin Kinds \cup {"accepted", "rejected"}
    BY DEF Levels, Results, Kinds
  <1>4. AnalysisIsExact'
    BY <1>3 DEF AnalysisIsExact
  <1>5. /\ isCompiled' = isCompiled /\ seen' = seen /\ returns' = returns
        /\ messages' = messages
    BY DEF symbols, compiled
  <1>6. "nullptr" \notin Levels \cup {"node"} /\ "rejected" \notin Levels \cup {"node"}
    BY DEF Levels
  <1> QED
    BY <1>1, <1>2, <1>3, <1>4, <1>5, <1>6 DEF BodyInv

\* Every step keeps the analysis in order.
LEMMA BodyStep ==
  Typed /\ TableInv /\ FramesInv /\ BodyInv /\ [Next]_vars => BodyInv'
  <1> SUFFICES ASSUME Typed, TableInv, FramesInv, BodyInv, [Next]_vars PROVE BodyInv'
    OBVIOUS
  <1>0. TypeOK /\ TableInv' /\ FramesInv'
    BY TableStep, FramesStep DEF Typed
  <1>a. /\ "nullptr" \notin Levels \cup Kinds /\ "node" \notin Levels \cup Kinds
        /\ "rejected" \notin Levels \cup Kinds \cup Results
        /\ "accepted" \notin Levels \cup Kinds \cup Results
        /\ "body" \notin Levels \cup Kinds \cup Results
        /\ Levels \cap Kinds = {} /\ Levels \cap Results = {}
        /\ Results = {"node", "nullptr"} /\ "additive" \in Levels
    BY DEF Levels, Kinds, Results
  <1>1. ASSUME NEW kind \in Kinds, NEW x \in Names, Declare(kind, x) PROVE BodyInv'
    <2>1. stage \in Kinds /\ isCompiled /\ stage' \in Kinds
      BY <1>1 DEF Declare, Before, Kinds
    <2>2. /\ body = <<>> /\ statement = NoStatement /\ returns = Returns /\ ~Returns
          /\ AssignedBefore(Len(body) + 1) = {} /\ Noted = {} /\ initialized = {}
          /\ messages = 0
      BY <1>a, <2>1 DEF BodyInv, Returns, AssignedBefore, Noted
    <2>3. /\ body' = <<>> /\ statement' = statement /\ returns' = returns
          /\ initialized' = initialized /\ seen' = "declaration"
          /\ messages' = IF isCompiled' THEN 0 ELSE 1
      <3>1. /\ UNCHANGED <<compiled, statement, initialized>> /\ seen' = "declaration"
            /\ \/ isCompiled' = isCompiled /\ messages' = messages
               \/ isCompiled' = FALSE /\ messages' = messages + 1
        BY <1>1 DEF Declare, PrintError
      <3>2. messages + 1 = 1
        BY <2>2
      <3>3. messages' = IF isCompiled' THEN 0 ELSE 1
        <4>1. CASE isCompiled' = isCompiled /\ messages' = messages
          <5>1. isCompiled' /\ messages' = 0
            BY <2>1, <2>2, <4>1, Zenon
          <5> QED
            BY <5>1
        <4>2. CASE isCompiled' = FALSE /\ messages' = messages + 1
          BY <3>2, <4>2
        <4> QED
          BY <3>1, <4>1, <4>2
      <3> QED
        BY <2>2, <3>1, <3>3 DEF compiled
    <2>4. /\ Returns' = Returns /\ AssignedBefore(Len(body) + 1)' = {} /\ Noted' = {}
          /\ BodyIsValid' /\ AnalysisIsExact'
      BY <1>a, <2>1, <2>3, <2>2
      DEF Returns, AssignedBefore, Noted, BodyIsValid, AnalysisIsExact
    <2> QED
      BY <1>a, <2>1, <2>2, <2>3, <2>4 DEF BodyInv
  <1>2. CASE EndDeclarations
    <2>1. /\ stage \in Kinds /\ stage' = IF isCompiled THEN "body" ELSE "rejected"
          /\ UNCHANGED <<symbols, compiled, frames, initialized, statement, messages, seen>>
      BY <1>2 DEF EndDeclarations
    <2>2. /\ Returns' = Returns /\ BodyIsValid' = BodyIsValid
          /\ AssignedBefore(Len(body) + 1)' = AssignedBefore(Len(body) + 1)
          /\ DeclaredTwice' = DeclaredTwice
          /\ isCompiled' = isCompiled /\ body' = body /\ returns' = returns
      BY <2>1, SameBody DEF compiled, symbols
    <2>3. Noted = {} /\ Noted' = {}
      BY <1>a, <2>1 DEF Noted
    <2>4. AnalysisIsExact'
      <3>1. stage' = "rejected" => DeclaredTwice /\ seen = "declaration"
        BY <2>1 DEF TableInv, BodyInv
      <3> QED
        BY <2>1, <2>2, <3>1 DEF AnalysisIsExact, BodyIsValid, BodyInv
    <2> QED
      BY <1>a, <2>1, <2>2, <2>3, <2>4 DEF BodyInv
  <1>3. ASSUME NEW x \in Names, BeginAssignment(x) PROVE BodyInv'
    <2>1. /\ stage = "body" /\ statement'.target = x /\ statement'.reads = {}
          /\ seen' = "statement" /\ UNCHANGED <<symbols, compiled, initialized>>
          /\ x # NoName
      BY <1>3, NamesAssumption DEF BeginAssignment
    <2>2. isCompiled /\ messages = 0 /\ Noted = {}
      BY <1>a, <2>1 DEF TableInv, BodyInv, Noted
    <2>3. /\ Returns' = Returns /\ BodyIsValid' = BodyIsValid
          /\ AssignedBefore(Len(body) + 1)' = AssignedBefore(Len(body) + 1)
          /\ \A k \in Kinds : DeclaredAs(k)' = DeclaredAs(k) /\ DeclaredAs(k) = table[k]
          /\ isCompiled' = isCompiled /\ body' = body /\ returns' = returns
      BY <2>1, <2>2, SameBody DEF compiled, symbols, TableInv
    <2>4. "parameter" \in Kinds /\ "variable" \in Kinds /\ "constant" \in Kinds
      BY DEF Kinds
    <2>5. CASE /\ stage' = "additive" /\ messages' = messages
               /\ IsDeclared(x) /\ x \notin table["constant"]
      <3>1. x \in DeclaredAs("parameter") \cup DeclaredAs("variable")
        BY <2>3, <2>5 DEF IsDeclared, Kinds
      <3>2. StatementIsValid(statement, Len(body) + 1)'
        BY <2>1, <2>3, <2>4, <3>1 DEF StatementIsValid
      <3>3. Noted' = {} /\ AnalysisIsExact'
        BY <2>5 DEF Noted, AnalysisIsExact
      <3> QED
        BY <1>a, <2>1, <2>2, <2>3, <2>5, <3>2, <3>3 DEF BodyInv
    <2>6. CASE /\ stage' = "nullptr" /\ messages' = messages + 1
               /\ ~IsDeclared(x) \/ x \in table["constant"]
      <3>1. x \notin DeclaredAs("parameter") \cup DeclaredAs("variable")
        BY <2>3, <2>4, <2>6 DEF IsDeclared, TableInv, Disjoint
      <3>2. ~StatementIsValid(statement, Len(body) + 1)'
        BY <2>1, <2>3, <2>4, <3>1 DEF StatementIsValid
      <3>3. Noted' = {} /\ AnalysisIsExact'
        BY <2>6 DEF Noted, AnalysisIsExact
      <3> QED
        BY <1>a, <2>1, <2>2, <2>3, <2>6, <3>2, <3>3 DEF BodyInv
    <2> QED
      BY <1>3, <2>5, <2>6 DEF BeginAssignment, PrintError
  <1>4. CASE BeginReturn
    <2>1. /\ stage = "body" /\ statement' = NoStatement /\ stage' = "additive"
          /\ seen' = "statement" /\ UNCHANGED <<symbols, compiled, initialized, messages>>
      BY <1>4 DEF BeginReturn
    <2>2. isCompiled /\ messages = 0 /\ Noted = {} /\ Noted' = {} /\ AnalysisIsExact'
      BY <1>a, <2>1 DEF TableInv, BodyInv, Noted, AnalysisIsExact
    <2>3. /\ Returns' = Returns /\ BodyIsValid' = BodyIsValid
          /\ AssignedBefore(Len(body) + 1)' = AssignedBefore(Len(body) + 1)
          /\ isCompiled' = isCompiled /\ body' = body /\ returns' = returns
      BY <2>1, SameBody DEF compiled, symbols
    <2>4. StatementIsValid(statement, Len(body) + 1)'
      BY <2>1 DEF StatementIsValid, NoStatement
    <2> QED
      BY <1>a, <2>1, <2>2, <2>3, <2>4 DEF BodyInv
  <1>5. ASSUME AdditiveExpression \/ MultiplicativeExpression \/ UnaryExpression
        PROVE  BodyInv'
    <2>1. /\ stage \in Levels /\ stage' \in Levels
          /\ UNCHANGED <<statement, messages, OutsideExpression>>
      BY <1>5 DEF AdditiveExpression, MultiplicativeExpression, UnaryExpression, Binary,
                  Levels
    <2>2. Noted = {} /\ Noted' = {}
      BY <1>a, <2>1 DEF Noted
    <2>3. UNCHANGED <<symbols, compiled, seen, statement, messages, initialized>>
      BY <2>1 DEF OutsideExpression
    <2>4. initialized' = AssignedBefore(Len(body) + 1) \cup Noted'
      BY <2>2, <2>3 DEF BodyInv
    <2> QED
      BY <2>1, <2>3, <2>4, BodyMoves
  <1>6. ASSUME NEW x \in Names, ReadIdentifier(x) PROVE BodyInv'
    <2>1. /\ stage = "primary" /\ UNCHANGED <<frames, symbols, compiled, initialized, seen>>
          /\ statement' = [statement EXCEPT !.reads = statement.reads \cup {x}]
      BY <1>6 DEF ReadIdentifier, OutsideExpression
    <2>0. stage \in Levels
      BY <2>1 DEF Levels
    <2>2. /\ statement'.target = statement.target
          /\ statement'.reads = statement.reads \cup {x}
      BY <1>0, <2>1 DEF TypeOK, Statements
    <2>3. /\ isCompiled /\ messages = 0 /\ seen = "statement"
          /\ StatementIsValid(statement, Len(body) + 1)
          /\ Noted = {} /\ frames # <<>> /\ Noted' = {}
          /\ initialized = AssignedBefore(Len(body) + 1)
      BY <1>a, <2>0, <2>1 DEF TableInv, BodyInv, FramesInv, Noted
    <2>4. /\ Returns' = Returns /\ BodyIsValid' = BodyIsValid
          /\ AssignedBefore(Len(body) + 1)' = AssignedBefore(Len(body) + 1)
          /\ \A k \in Kinds : DeclaredAs(k)' = DeclaredAs(k) /\ DeclaredAs(k) = table[k]
          /\ isCompiled' = isCompiled /\ body' = body /\ returns' = returns
      BY <2>1, <2>3, SameBody DEF compiled, symbols, TableInv
    <2>5. "parameter" \in Kinds /\ "variable" \in Kinds /\ "constant" \in Kinds
      BY DEF Kinds
    <2>6. CASE /\ stage' = "node" /\ messages' = messages /\ IsDeclared(x)
               /\ x \in table["variable"] => x \in initialized
      <3>1. x \in DeclaredAs("parameter") \cup DeclaredAs("constant")
                     \cup AssignedBefore(Len(body) + 1)
        BY <2>3, <2>4, <2>6 DEF IsDeclared, Kinds
      <3>2. StatementIsValid(statement, Len(body) + 1)'
        BY <2>2, <2>3, <2>4, <2>5, <3>1 DEF StatementIsValid
      <3>3. AnalysisIsExact'
        BY <2>6 DEF AnalysisIsExact
      <3> QED
        BY <1>a, <2>1, <2>3, <2>4, <2>6, <3>2, <3>3 DEF BodyInv
    <2>7. CASE /\ stage' = "nullptr" /\ messages' = messages + 1
               /\ ~(IsDeclared(x) /\ (x \in table["variable"] => x \in initialized))
      <3>1. initialized \subseteq table["variable"]
        BY <1>0 DEF TypeOK
      <3>2. x \notin DeclaredAs("parameter") \cup DeclaredAs("constant")
                        \cup AssignedBefore(Len(body) + 1)
        BY <2>3, <2>4, <2>5, <2>7, <3>1 DEF IsDeclared, TableInv, Disjoint
      <3>3. ~StatementIsValid(statement, Len(body) + 1)'
        BY <2>2, <2>3, <2>4, <2>5, <3>2 DEF StatementIsValid
      <3>4. AnalysisIsExact'
        BY <2>7 DEF AnalysisIsExact
      <3> QED
        BY <1>a, <2>1, <2>3, <2>4, <2>7, <3>3, <3>4 DEF BodyInv
    <2> QED
      BY <1>6, <2>6, <2>7 DEF ReadIdentifier, PrintError
  <1>7. CASE ReadLiteralOrParenthesis
    <2>1. /\ stage \in Levels /\ stage' \in Levels \cup {"node"}
          /\ UNCHANGED <<frames, statement, messages, OutsideExpression>>
      BY <1>7 DEF ReadLiteralOrParenthesis, Levels
    <2>2. Noted = {} /\ Noted' = {}
      BY <1>a, <2>1 DEF Noted, FramesInv
    <2>3. UNCHANGED <<symbols, compiled, seen, statement, messages, initialized>>
      BY <2>1 DEF OutsideExpression
    <2>4. initialized' = AssignedBefore(Len(body) + 1) \cup Noted'
      BY <2>2, <2>3 DEF BodyInv
    <2> QED
      BY <2>1, <2>3, <2>4, BodyMoves
  <1>8. ASSUME NEW level \in {"additive", "multiplicative"}, ReturnToLeft(level)
        PROVE  BodyInv'
    <2>1. /\ \/ stage = "nullptr" /\ stage' = "nullptr"
             \/ stage = "node" /\ stage' \in Levels
          /\ frames # <<>> /\ UNCHANGED <<statement, messages, OutsideExpression>>
      BY <1>8 DEF ReturnToLeft, Waits, Levels
    <2>2. Noted = {} /\ Noted' = {}
      BY <1>a, <2>1 DEF Noted
    <2>3. UNCHANGED <<symbols, compiled, seen, statement, messages, initialized>>
      BY <2>1 DEF OutsideExpression
    <2>4. initialized' = AssignedBefore(Len(body) + 1) \cup Noted'
      BY <2>2, <2>3 DEF BodyInv
    <2> QED
      BY <2>1, <2>3, <2>4, BodyMoves
  <1>9. CASE ReturnThrough
    <2>1. /\ stage \in {"node", "nullptr"} /\ stage' = stage /\ frames # <<>> /\ Pop
          /\ UNCHANGED <<statement, messages, OutsideExpression>>
      BY <1>9 DEF ReturnThrough, Waits, Results
    <2>2. Noted = {}
      BY <2>1 DEF Noted
    <2>3. Noted' = {}
      <3>1. CASE Waits("additive", "right") \/ Waits("multiplicative", "right")
                    \/ Waits("unary", "only")
        <4>1. Len(frames) > 1
          BY <1>0, <3>1, FramesTop DEF FramesInv, Levels
        <4>2. frames' # <<>>
          BY <1>0, <2>1, <4>1, FramesPop DEF FramesInv
        <4> QED
          BY <4>2 DEF Noted
      <3>2. CASE Waits("return", "only")
        <4>1. statement'.target = NoName
          BY <1>0, <2>1, <3>2, FramesTop DEF FramesInv
        <4>2. table'["variable"] \subseteq Names
          BY <1>0, <2>1 DEF TypeOK, OutsideExpression, symbols, Kinds
        <4> QED
          BY <4>1, <4>2, NamesAssumption DEF Noted
      <3> QED
        BY <1>9, <3>1, <3>2 DEF ReturnThrough
    <2>4. UNCHANGED <<symbols, compiled, seen, statement, messages, initialized>>
      BY <2>1 DEF OutsideExpression
    <2>5. initialized' = AssignedBefore(Len(body) + 1) \cup Noted'
      BY <2>2, <2>3, <2>4 DEF BodyInv
    <2> QED
      BY <2>1, <2>4, <2>5, BodyMoves
  <1>10. CASE ReturnToAssignment
    <2>1. /\ stage \in {"node", "nullptr"} /\ stage' = stage /\ frames # <<>> /\ Pop
          /\ Waits("assignment", "only")
          /\ UNCHANGED <<symbols, compiled, seen, statement, messages>>
          /\ initialized' = initialized \cup
                IF stage = "node" THEN {statement.target} \cap table["variable"] ELSE {}
      BY <1>10 DEF ReturnToAssignment, Waits, Results
    <2>2. Noted = {}
      BY <2>1 DEF Noted
    <2>3. frames' = <<>>
      BY <1>0, <2>1, FramesTop, FramesPop DEF FramesInv
    <2>4. Noted' = IF stage = "node" THEN {statement.target} \cap table["variable"] ELSE {}
      BY <2>1, <2>3 DEF Noted, symbols
    <2>5. initialized' = AssignedBefore(Len(body) + 1) \cup Noted'
      BY <2>1, <2>2, <2>4 DEF BodyInv
    <2> QED
      BY <2>1, <2>5, BodyMoves
  <1>11. CASE EndStatement
    <2>0. /\ stage \in Results /\ frames = <<>>
          /\ UNCHANGED <<symbols, frames, initialized, messages, seen>>
      BY <1>11 DEF EndStatement
    <2>1. CASE stage = "nullptr"
      <3>1. /\ stage' = "rejected" /\ UNCHANGED <<symbols, compiled, statement>>
            /\ Noted = {} /\ Noted' = {}
        BY <1>11, <2>1 DEF EndStatement, Noted
      <3>2. /\ Returns' = Returns /\ BodyIsValid' = BodyIsValid
            /\ AssignedBefore(Len(body) + 1)' = AssignedBefore(Len(body) + 1)
            /\ StatementIsValid(statement, Len(body) + 1)'
                  = StatementIsValid(statement, Len(body) + 1)
            /\ DeclaredTwice' = DeclaredTwice
            /\ isCompiled' = isCompiled /\ body' = body /\ returns' = returns
        BY <3>1, SameBody DEF compiled, symbols
      <3>3. isCompiled /\ ~DeclaredTwice /\ seen = "statement"
            /\ ~StatementIsValid(statement, Len(body) + 1) /\ BodyIsValid
        BY <1>a, <2>1 DEF TableInv, BodyInv
      <3>4. AnalysisIsExact'
        BY <2>0, <3>1, <3>2, <3>3 DEF AnalysisIsExact, BodyIsValid
      <3> QED
        BY <1>a, <2>0, <2>1, <3>1, <3>2, <3>3, <3>4 DEF BodyInv
    <2>2. CASE stage = "node"
      <3>1. /\ stage' = "body" /\ statement' = NoStatement
            /\ body' = Append(body, statement) /\ statement \in Statements
            /\ returns' = (returns \/ statement.target = NoName)
            /\ declared' = declared /\ isCompiled' = isCompiled
        BY <1>0, <1>11, <2>0, <2>2 DEF EndStatement, TypeOK, symbols
      <3>2. /\ isCompiled /\ messages = 0 /\ StatementIsValid(statement, Len(body) + 1)
            /\ initialized = AssignedBefore(Len(body) + 1)
                                \cup ({statement.target} \cap table["variable"])
            /\ returns = Returns /\ \A k \in DOMAIN body : StatementIsValid(body[k], k)
            /\ seen = "statement"
        BY <1>a, <2>0, <2>2 DEF BodyInv, BodyIsValid, Noted, TableInv
      <3>3. /\ Len(body) \in Nat /\ Len(body') = Len(body) + 1
            /\ DOMAIN body = 1 .. Len(body) /\ DOMAIN body' = 1 .. Len(body) + 1
            /\ body'[Len(body) + 1] = statement
            /\ \A k \in 1 .. Len(body) : body'[k] = body[k]
            /\ \A k \in 1 .. Len(body) + 1 : AssignedBefore(k)' = AssignedBefore(k)
            /\ AssignedBefore(Len(body) + 1)' =
                  AssignedBefore(Len(body) + 1)
                     \cup ({statement.target} \cap DeclaredAs("variable"))
            /\ Returns' = (Returns \/ statement.target = NoName)
        BY <1>0, <3>1, BodyAppend
      <3>4. \A kind \in Kinds : table[kind] = DeclaredAs(kind) /\ DeclaredAs(kind)' = DeclaredAs(kind)
        BY <3>1, <3>2 DEF TableInv, DeclaredAs
      <3>5. initialized' = AssignedBefore(Len(body) + 1)' /\ Noted' = {}
        BY <2>0, <3>1, <3>2, <3>3, <3>4 DEF Kinds, Noted
      <3>6. BodyIsValid'
        <4> SUFFICES ASSUME NEW k \in 1 .. Len(body) + 1 PROVE StatementIsValid(body[k], k)'
          BY <3>3 DEF BodyIsValid
        <4>1. StatementIsValid(body'[k], k)
          <5>1. CASE k = Len(body) + 1
            BY <3>2, <3>3, <5>1
          <5>2. CASE k \in 1 .. Len(body)
            BY <3>2, <3>3, <5>2
          <5>3. k = Len(body) + 1 \/ k \in 1 .. Len(body)
            BY <3>3
          <5> QED
            BY <5>1, <5>2, <5>3
        <4>2. AssignedBefore(k)' = AssignedBefore(k)
          BY <3>3
        <4> QED
          BY <3>4, <4>1, <4>2 DEF StatementIsValid, Kinds
      <3>7. AnalysisIsExact'
        BY <3>1 DEF AnalysisIsExact
      <3> QED
        BY <1>a, <2>0, <3>1, <3>2, <3>3, <3>5, <3>6, <3>7 DEF BodyInv
    <2> QED
      BY <1>a, <2>0, <2>1, <2>2
  <1>12. CASE EndBody
    <2>1. /\ stage = "body" /\ seen' = "end" /\ statement = NoStatement
          /\ UNCHANGED <<symbols, compiled, initialized, statement>>
          /\ \/ returns /\ stage' = "accepted" /\ messages' = messages
             \/ ~returns /\ stage' = "rejected" /\ messages' = messages + 1
      BY <1>a, <1>12 DEF EndBody, PrintError, BodyInv
    <2>2. /\ Returns' = Returns /\ BodyIsValid' = BodyIsValid
          /\ AssignedBefore(Len(body) + 1)' = AssignedBefore(Len(body) + 1)
          /\ DeclaredTwice' = DeclaredTwice
          /\ isCompiled' = isCompiled /\ body' = body /\ returns' = returns
      BY <2>1, SameBody DEF compiled, symbols
    <2>3. /\ isCompiled /\ messages = 0 /\ returns = Returns /\ ~DeclaredTwice
          /\ BodyIsValid /\ Noted = {} /\ Noted' = {}
      BY <1>a, <2>1 DEF BodyInv, TableInv, Noted
    <2>4. AnalysisIsExact'
      BY <2>1, <2>2, <2>3 DEF AnalysisIsExact, BodyIsValid
    <2> QED
      BY <1>a, <2>1, <2>2, <2>3, <2>4 DEF BodyInv
  <1>13. CASE UNCHANGED analysis
    BY <1>13, BodyKept
  <1>14. NewContext \/ EvaluateAssignment \/ EvaluateReturn \/ UNCHANGED vars
            => UNCHANGED analysis
    BY DEF NewContext, EvaluateAssignment, EvaluateReturn, vars
  <1> QED
    BY <1>1, <1>2, <1>3, <1>4, <1>5, <1>6, <1>7, <1>8, <1>9, <1>10, <1>11,
       <1>12, <1>13, <1>14 DEF Next

-----------------------------------------------------------------------------
(* The call.                                                               *)

\* Nothing is called at first.
LEMMA CallInit == Init => CallInv
  BY DEF Init, CallInv, NulloptIsReported, AssertionsHold

\* A step of the analysis happens before the call.
LEMMA CallWaits ==
  ASSUME CallInv, stage # "accepted", UNCHANGED evaluation
  PROVE  CallInv'
  BY DEF CallInv, evaluation, NulloptIsReported, AssertionsHold

\* A call that goes on has all its arguments.
LEMMA ArgumentsKept ==
  ASSUME CallInv, outcome = "running", UNCHANGED <<given, analysis>>
  PROVE  ~ArgumentsMissing'
  BY DEF CallInv, AssertionsHold, ArgumentsMissing, analysis, symbols, compiled

\* A call that has come to a statement of an accepted body has given a value
\* to all that the statement reads, and a RETURN is still to come.
LEMMA CallProceeds ==
  ASSUME Typed, TableInv, BodyInv, CallInv, outcome = "running"
  PROVE  /\ stage = "accepted" /\ failures = 0 /\ at \in 1 .. Len(body)
         /\ body[at] \in Statements /\ body[at].reads \subseteq valued
         /\ body[at].target # NoName =>
               body[at].target \in table["parameter"] \cup table["variable"]
  <1>1. /\ stage = "accepted" /\ (~(failures > 0)) /\ failures \in Nat
        /\ valued = DeclaredAs("parameter") \cup DeclaredAs("constant")
                       \cup AssignedBefore(at)
        /\ \A k \in 1 .. at - 1 : body[k].target # NoName
    BY DEF CallInv, NulloptIsReported, Typed, TypeOK
  <1>2. body \in Seq(Statements) /\ at \in 1 .. Len(body) + 1 /\ Len(body) \in Nat
        /\ DOMAIN body = 1 .. Len(body)
    BY DEF Typed, TypeOK
  <1>3. Returns /\ \A k \in 1 .. Len(body) : StatementIsValid(body[k], k)
    BY <1>1, <1>2 DEF BodyInv, AnalysisIsExact
  <1>4. PICK k \in 1 .. Len(body) : body[k].target = NoName
    BY <1>2, <1>3 DEF Returns
  <1>5. at \in 1 .. Len(body)
    BY <1>1, <1>2, <1>4
  <1>6. StatementIsValid(body[at], at) /\ body[at] \in Statements
    BY <1>2, <1>3, <1>5
  <1>7. \A kind \in Kinds : table[kind] = DeclaredAs(kind)
    BY <1>1 DEF TableInv, Kinds
  <1> QED
    BY <1>1, <1>5, <1>6, <1>7 DEF StatementIsValid, Kinds

\* Every step keeps the call in order.
LEMMA CallStep ==
  Typed /\ TableInv /\ BodyInv /\ CallInv /\ [Next]_vars => CallInv'
  <1> SUFFICES ASSUME Typed, TableInv, BodyInv, CallInv, [Next]_vars PROVE CallInv'
    OBVIOUS
  <1>1. ASSUME NEW kind \in Kinds, NEW x \in Names, Declare(kind, x) PROVE CallInv'
    BY <1>1, CallWaits DEF Declare, Before, Kinds
  <1>2. CASE EndDeclarations
    BY <1>2, CallWaits DEF EndDeclarations, Kinds
  <1>3. ASSUME NEW x \in Names, BeginAssignment(x) PROVE CallInv'
    BY <1>3, CallWaits DEF BeginAssignment
  <1>4. CASE BeginReturn
    BY <1>4, CallWaits DEF BeginReturn
  <1>5. CASE WithinStatement
    <2>1. stage # "accepted" /\ UNCHANGED evaluation
      BY <1>5, ExpressionStep DEF Typed, Levels, Results
    <2> QED
      BY <2>1, CallWaits
  <1>6. CASE EndStatement \/ EndBody
    BY <1>6, CallWaits DEF EndStatement, EndBody, Results
  <1>7. CASE NewContext
    <2>1. /\ stage = "accepted" /\ outcome = "none" /\ at = 1 /\ failures = 0
          /\ UNCHANGED <<at, failures, analysis>>
          /\ valued' = table["parameter"] \cup table["constant"]
          /\ given' \in Nat
      BY <1>7, BoundsAssumption DEF NewContext, CallInv
    <2>2. /\ outcome' \in {"running", "aborted"}
          /\ outcome' = "aborted" <=> ArgumentsMissing'
      <3>1. outcome' = IF \A x \in table["parameter"] : index[x] < given'
                       THEN "running" ELSE "aborted"
        BY <1>7 DEF NewContext, TableInv
      <3>2. /\ table["parameter"] = DeclaredAs("parameter")
            /\ \A i \in DOMAIN declared :
                  declared[i].kind = "parameter" => index[declared[i].name] = i - 1
        BY <2>1 DEF TableInv, ArgumentsInOrder, Kinds
      <3>3. DOMAIN declared \subseteq Nat /\ declared' = declared
        BY <2>1 DEF Typed, TypeOK, analysis, symbols, compiled
      <3>4. (\A x \in table["parameter"] : index[x] < given')
               <=> \A i \in DOMAIN declared :
                      declared[i].kind = "parameter" => i - 1 < given'
        BY <3>2 DEF DeclaredAs
      <3> QED
        BY <2>1, <3>1, <3>3, <3>4 DEF ArgumentsMissing
    <2>3. /\ DeclaredAs("parameter")' = table["parameter"]
          /\ DeclaredAs("constant")' = table["constant"]
      BY <2>1 DEF TableInv, DeclaredAs, analysis, symbols, compiled, Kinds
    <2>4. AssignedBefore(at)' = {}
      <3>1. {i \in DOMAIN body' : i < 1} = {}
        <4>1. DOMAIN body' = 1 .. Len(body)
          BY <2>1 DEF Typed, TypeOK, analysis, symbols, compiled
        <4> QED
          BY <4>1
      <3> QED
        BY <2>1, <3>1 DEF AssignedBefore
    <2>5. \A k \in 1 .. at' - 1 : FALSE
      BY <2>1
    <2> QED
      BY <2>1, <2>2, <2>3, <2>4, <2>5
      DEF CallInv, NulloptIsReported, AssertionsHold, analysis, symbols, compiled
  <1>8. CASE EvaluateAssignment
    <2> DEFINE target == body[at].target
    <2>1. outcome = "running" /\ target # NoName /\ UNCHANGED <<given, analysis>>
      BY <1>8 DEF EvaluateAssignment
    <2>0. ~ArgumentsMissing'
      BY <2>1, ArgumentsKept
    <2>2. /\ stage = "accepted" /\ failures = 0 /\ at \in 1 .. Len(body)
          /\ body[at].reads \subseteq valued
          /\ target \in table["parameter"] \cup table["variable"]
      BY <2>1, CallProceeds
    <2>3. target \notin table["constant"]
      BY <2>2 DEF TableInv, Disjoint, Kinds
    <2>4. MayBeUpdated(target)
      BY <2>2, <2>3 DEF MayBeUpdated
    <2>5. \/ failures' = 1 /\ outcome' = "nullopt"
          \/ /\ failures' = 0 /\ outcome' = "running" /\ at' = at + 1
             /\ valued' = valued \cup {target}
      BY <1>8, <2>2, <2>4 DEF EvaluateAssignment
    <2>6. stage' = "accepted"
      BY <2>1, <2>2 DEF analysis, symbols, compiled
    <2>7. CASE failures' = 1 /\ outcome' = "nullopt"
      BY <2>0, <2>6, <2>7 DEF CallInv, NulloptIsReported, AssertionsHold
    <2>8. CASE /\ failures' = 0 /\ outcome' = "running" /\ at' = at + 1
               /\ valued' = valued \cup {target}
      <3>1. /\ body' = body /\ declared' = declared
            /\ \A kind \in Kinds : DeclaredAs(kind)' = DeclaredAs(kind)
                                     /\ DeclaredAs(kind) = table[kind]
        <4>1. isCompiled
          BY <2>2 DEF TableInv, Kinds
        <4> QED
          BY <2>1, <4>1 DEF analysis, symbols, compiled, DeclaredAs, TableInv
      <3>2. /\ Len(body) \in Nat /\ DOMAIN body = 1 .. Len(body)
        BY DEF Typed, TypeOK
      <3>3. AssignedBefore(at)' =
               AssignedBefore(at) \cup ({target} \cap DeclaredAs("variable"))
        <4>1. AssignedBefore(at)' =
                 {body[j].target : j \in {i \in 1 .. Len(body) : i < at + 1}}
                    \cap DeclaredAs("variable")
          BY <2>8, <3>1, <3>2 DEF AssignedBefore, Kinds
        <4>2. AssignedBefore(at) =
                 {body[j].target : j \in {i \in 1 .. Len(body) : i < at}}
                    \cap DeclaredAs("variable")
          BY <3>2 DEF AssignedBefore
        <4>3. {i \in 1 .. Len(body) : i < at + 1} =
                 {i \in 1 .. Len(body) : i < at} \cup {at}
          BY <2>2, <3>2
        <4> QED
          BY <4>1, <4>2, <4>3
      <3>4. valued' = (DeclaredAs("parameter") \cup DeclaredAs("constant")
                         \cup AssignedBefore(at))'
        <4>1. valued = DeclaredAs("parameter") \cup DeclaredAs("constant")
                         \cup AssignedBefore(at)
          BY <2>1 DEF CallInv
        <4> QED
          BY <2>2, <2>8, <3>1, <3>3, <4>1 DEF Kinds
      <3>5. \A k \in 1 .. at' - 1 : body'[k].target # NoName
        <4> SUFFICES ASSUME NEW k \in 1 .. at PROVE body[k].target # NoName
          BY <2>2, <2>8, <3>1, <3>2
        <4>1. \A l \in 1 .. at - 1 : body[l].target # NoName
          BY <2>1 DEF CallInv
        <4>2. k = at \/ k \in 1 .. at - 1
          BY <2>2, <3>2
        <4> QED
          BY <2>1, <4>1, <4>2
      <3> QED
        BY <2>0, <2>6, <2>8, <3>4, <3>5 DEF CallInv, NulloptIsReported, AssertionsHold
    <2> QED
      BY <2>5, <2>7, <2>8
  <1>9. CASE EvaluateReturn
    <2>1. outcome = "running" /\ UNCHANGED <<given, analysis>>
      BY <1>9 DEF EvaluateReturn
    <2>0. ~ArgumentsMissing'
      BY <2>1, ArgumentsKept
    <2>2. /\ stage = "accepted" /\ failures = 0 /\ at \in 1 .. Len(body)
          /\ body[at].reads \subseteq valued
      BY <2>1, CallProceeds
    <2>3. \/ failures' = 1 /\ outcome' = "nullopt"
          \/ failures' = 0 /\ outcome' = "value"
      BY <1>9, <2>2 DEF EvaluateReturn
    <2>4. stage' = "accepted"
      BY <2>1, <2>2 DEF analysis, symbols, compiled
    <2> QED
      BY <2>0, <2>3, <2>4 DEF CallInv, NulloptIsReported, AssertionsHold
  <1>10. CASE UNCHANGED vars
    BY <1>10 DEF CallInv, vars, analysis, symbols, compiled, evaluation, DeclaredAs, AssignedBefore,
                 NulloptIsReported, AssertionsHold, ArgumentsMissing
  <1> QED
    BY <1>1, <1>2, <1>3, <1>4, <1>5, <1>6, <1>7, <1>8, <1>9, <1>10
    DEF Next, WithinStatement

-----------------------------------------------------------------------------
(* The theorems.                                                           *)

\* The parts of the invariant hold together.
LEMMA SemanticAlways == Spec => [](Typed /\ TableInv /\ FramesInv /\ BodyInv /\ CallInv)
  <1>1. Init => Typed /\ TableInv /\ FramesInv /\ BodyInv /\ CallInv
    BY TypeInit, TableInit, FramesInit, BodyInit, CallInit
  <1>2. Typed /\ TableInv /\ FramesInv /\ BodyInv /\ CallInv /\ [Next]_vars
           => (Typed /\ TableInv /\ FramesInv /\ BodyInv /\ CallInv)'
    BY TypeStep, TableStep, FramesStep, BodyStep, CallStep DEF Typed
  <1> QED
    BY <1>1, <1>2, PTL DEF Spec

\* For texts of every length, the state of analysis and call has its type.
THEOREM TypeCorrect == Spec => []TypeOK
  <1>1. Typed => TypeOK
    BY DEF Typed
  <1> QED
    BY <1>1, SemanticAlways, PTL

\* For texts of every length and expressions of every depth,
\* FunctionAST::compileCode accepts what breaks no rule, and what it looked at
\* last before it rejects a text breaks one: a declaration is refused only if
\* its identifier has been declared before, a statement only for an
\* identifier that it must not assign or read.
THEOREM ExactAnalysis == Spec => []AnalysisIsExact
  <1>1. BodyInv => AnalysisIsExact
    BY DEF BodyInv
  <1> QED
    BY <1>1, SemanticAlways, PTL

\* However deep the activations through which nullptr is returned, none of
\* them goes on or prints again: a rejected text has one message, an accepted
\* one has none.
THEOREM RejectionHasMessage == Spec => []OneMessagePerRejection
  <1>1. TableInv /\ BodyInv => OneMessagePerRejection
    BY DEF TableInv, BodyInv, OneMessagePerRejection, Kinds
  <1> QED
    BY <1>1, SemanticAlways, PTL

\* No call of an accepted function, however long its text, reads an
\* identifier that has no value.
THEOREM NoUnsetRead == Spec => []ReadsHaveValue
  <1>1. Typed /\ TableInv /\ FramesInv /\ BodyInv /\ CallInv => ReadsHaveValue
    BY CallProceeds DEF ReadsHaveValue
  <1> QED
    BY <1>1, SemanticAlways, PTL

\* The assertions of EvaluationContext fail in a call exactly if arguments are
\* missing, whatever the text declares and does.
THEOREM ContextIsUsedWell == Spec => []AssertionsHold
  <1>1. CallInv => AssertionsHold
    BY DEF CallInv
  <1> QED
    BY <1>1, SemanticAlways, PTL

\* A call returns nullopt exactly if it has printed an error.
THEOREM FailedCallsReport == Spec => []NulloptIsReported
  <1>1. CallInv => NulloptIsReported
    BY DEF CallInv
  <1> QED
    BY <1>1, SemanticAlways, PTL

\* Each argument reaches the parameter at its position, however many there are.
THEOREM OrderedArguments == Spec => []ArgumentsInOrder
  <1>1. TableInv => ArgumentsInOrder
    BY DEF TableInv
  <1> QED
    BY <1>1, SemanticAlways, PTL

=============================================================================
