-------------------------- MODULE OptimizerProofs --------------------------
(***************************************************************************)
(* Theorems about module Optimizer, for every set of identifiers, integer  *)
(* width, number of statements and size of expressions.                    *)
(***************************************************************************)
EXTENDS Optimizer, TLAPS

-----------------------------------------------------------------------------
(* Arithmetic stays inside the width.                                      *)

\* Wrap maps every integer into the range of int64_t.
LEMMA WrapType == \A n \in Int : Wrap(n) \in Values
  BY WidthAssumption DEF Wrap, Values

\* C++ division of integers is an integer.
LEMMA QuotientType ==
  ASSUME NEW a \in Int, NEW b \in Int, b # 0
  PROVE  Quotient(a, b) \in Int
  <1>1. Abs(a) \in Nat /\ Abs(b) \in Nat /\ Abs(b) > 0
    BY DEF Abs
  <1>2. Abs(a) \div Abs(b) \in Int
    BY <1>1
  <1> QED
    BY <1>2 DEF Quotient

\* A binary operation on two optionals gives an optional.
LEMMA ResultType ==
  ASSUME NEW op \in Operators, NEW a \in Optional, NEW b \in Optional
  PROVE  Result(op, a, b) \in Optional
  <1>1. CASE a = NullOpt \/ b = NullOpt \/ DividesByZero(op, a, b)
    BY <1>1 DEF Result, Optional
  <1>2. CASE ~(a = NullOpt \/ b = NullOpt \/ DividesByZero(op, a, b))
    <2>1. a \in Int /\ b \in Int /\ (op = "DIVIDE" => b # 0)
      BY <1>2, WidthAssumption DEF Optional, Values, DividesByZero
    <2>2. op = "DIVIDE" => Quotient(a, b) \in Int
      BY <2>1, QuotientType
    <2>3. a + b \in Int /\ a - b \in Int /\ a * b \in Int
      BY <2>1
    <2>4. Apply(op, a, b) \in Values
      BY <2>2, <2>3, WrapType DEF Apply, Operators
    <2> QED
      BY <1>2, <2>4 DEF Result, Optional
  <1> QED
    BY <1>1, <1>2

\* So does a unary minus.
LEMMA NegateType == \A a \in Optional : Negate(a) \in Optional
  BY WrapType, WidthAssumption DEF Negate, Optional, Values

\* A binary operation fails on a failed operand and on a zero divisor only.
LEMMA ResultNull ==
  ASSUME NEW op \in Operators, NEW a \in Optional, NEW b \in Optional
  PROVE  Result(op, a, b) = NullOpt <=>
            a = NullOpt \/ b = NullOpt \/ DividesByZero(op, a, b)
  <1>1. CASE a = NullOpt \/ b = NullOpt \/ DividesByZero(op, a, b)
    BY <1>1 DEF Result
  <1>2. CASE ~(a = NullOpt \/ b = NullOpt \/ DividesByZero(op, a, b))
    <2>1. a \in Int /\ b \in Int /\ (op = "DIVIDE" => b # 0)
      BY <1>2, WidthAssumption DEF Optional, Values, DividesByZero
    <2>2. op = "DIVIDE" => Quotient(a, b) \in Int
      BY <2>1, QuotientType
    <2>3. a + b \in Int /\ a - b \in Int /\ a * b \in Int
      BY <2>1
    <2>4. Apply(op, a, b) \in Values
      BY <2>2, <2>3, WrapType DEF Apply, Operators
    <2> QED
      BY <1>2, <2>4, WidthAssumption DEF Result, Values
  <1> QED
    BY <1>1, <1>2

\* The negation of an optional is nullopt exactly if the optional is.
LEMMA NegateNull == \A a \in Optional : Negate(a) = NullOpt <=> a = NullOpt
  BY WrapType, WidthAssumption DEF Negate, Optional, Values

-----------------------------------------------------------------------------
(* The stack of finished subtrees.                                         *)

\* The top of a stack is its last entry.
LEMMA LastIs ==
  ASSUME NEW S, NEW s \in Seq(S), Len(s) >= 1
  PROVE  Last(s) \in S /\ Last(s) = s[Len(s)]
  BY DEF Last

\* A finished expression is the only entry.
LEMMA OnlyEntry ==
  ASSUME NEW S, NEW s \in Seq(S), Len(s) = 1
  PROVE  s[1] \in S
  OBVIOUS

\* Dropping entries leaves the ones below.
LEMMA StackDrop ==
  ASSUME NEW S, NEW s \in Seq(S), NEW k \in 0 .. Len(s)
  PROVE  /\ Drop(s, k) \in Seq(S)
         /\ Len(Drop(s, k)) = Len(s) - k
         /\ \A i \in 1 .. Len(s) - k : Drop(s, k)[i] = s[i]
  BY DEF Drop

\* A node replaces its children's entries by its own.
LEMMA StackNode ==
  ASSUME NEW S, NEW s \in Seq(S), NEW k \in 0 .. Len(s), NEW e \in S
  PROVE  LET t == Append(Drop(s, k), e) IN
         /\ t \in Seq(S)
         /\ Len(t) = Len(s) - k + 1
         /\ t[Len(t)] = e
         /\ \A i \in 1 .. Len(s) - k : t[i] = s[i]
  BY DEF Drop

\* The two topmost entries.
LEMMA LastTwo ==
  ASSUME NEW S, NEW s \in Seq(S), Len(s) >= 2
  PROVE  /\ Last(s) \in S /\ Last(s) = s[Len(s)]
         /\ Last(Drop(s, 1)) \in S /\ Last(Drop(s, 1)) = s[Len(s) - 1]
  <1>1. /\ Drop(s, 1) \in Seq(S) /\ Len(Drop(s, 1)) = Len(s) - 1
        /\ \A i \in 1 .. Len(s) - 1 : Drop(s, 1)[i] = s[i]
    BY StackDrop
  <1> QED
    BY <1>1, LastIs

-----------------------------------------------------------------------------
(* Types.                                                                  *)

\* An operation, a stored value and a returned one keep a run a run.
LEMMA RunType ==
  ASSUME NEW run \in Runs, NEW v \in Optional, NEW x \in Identifiers,
         NEW op, NEW a, NEW b
  PROVE  /\ Perform(run, op, a, b) \in Runs
         /\ Store(run, x, v) \in Runs
         /\ Finish(run, v) \in Runs
         /\ NewRun(run.env) \in Runs
  <1>1. /\ run.env \in [Identifiers -> Optional] /\ run.errors \in Nat
        /\ run.status \in {"running", "failed", "trapped", "returned"}
        /\ run.result \in Optional
    BY DEF Runs
  <1>2. Perform(run, op, a, b) \in Runs
    BY <1>1 DEF Runs, Perform
  <1>3. [run.env EXCEPT ![x] = v] \in [Identifiers -> Optional]
    BY <1>1
  <1>4. Store(run, x, v) \in Runs
    BY <1>1, <1>3 DEF Runs, Store
  <1>5. Finish(run, v) \in Runs
    BY <1>1 DEF Runs, Finish
  <1>6. NewRun(run.env) \in Runs
    BY <1>1 DEF Runs, NewRun, Optional
  <1> QED
    BY <1>2, <1>4, <1>5, <1>6

\* A rewritten child still computes an optional.
LEMMA RewrittenType == \A e \in Entries : Rewritten(e) \in Optional
  BY DEF Entries, Rewritten

\* The contexts the three computations start with have their types.
LEMMA TypeInit == Init => TypeOK
  <1> SUFFICES ASSUME Init PROVE TypeOK
    OBVIOUS
  <1>1. PICK context \in [Identifiers -> Optional] :
           /\ known = InitialKnowledge(context)
           /\ original = NewRun(context)
           /\ optimized = NewRun(context)
    BY DEF Init
  <1>2. known \in [Identifiers -> Optional]
    BY <1>1 DEF InitialKnowledge, Optional
  <1>3. NewRun(context) \in Runs
    BY DEF NewRun, Runs, Optional
  <1> QED
    <2>1. original \in Runs /\ optimized \in Runs
      BY <1>1, <1>3
    <2>2. operands \in Seq(Entries)
      BY DEF Init
    <2>3. statements \in 0 .. MaxStatements /\ nodes \in 0 .. MaxNodes
      BY SizeAssumption DEF Init
    <2> QED
      BY <1>2, <2>1, <2>2, <2>3 DEF Init, TypeOK

\* A node keeps the types if its entry has the type of an entry.
LEMMA NodeType ==
  ASSUME TypeOK, NEW k \in 0 .. Len(operands), NEW e \in Entries, Node(k, e),
         original' \in Runs, optimized' \in Runs,
         misled' \in BOOLEAN, crashed' \in BOOLEAN, premature' \in BOOLEAN
  PROVE  TypeOK'
  <1>1. operands' \in Seq(Entries)
    BY StackNode DEF Node, TypeOK
  <1>2. nodes' \in 0 .. MaxNodes
    BY SizeAssumption DEF Node, TypeOK
  <1> QED
    BY <1>1, <1>2 DEF Node, TypeOK

\* Every node and every statement keeps the types.
LEMMA TypeStep == TypeOK /\ [Next]_vars => TypeOK'
  <1> SUFFICES ASSUME TypeOK, [Next]_vars PROVE TypeOK'
    OBVIOUS
  <1>0. /\ operands \in Seq(Entries) /\ Len(operands) \in Nat
        /\ original \in Runs /\ optimized \in Runs
        /\ original.env \in [Identifiers -> Optional]
        /\ optimized.env \in [Identifiers -> Optional]
        /\ known \in [Identifiers -> Optional]
        /\ misled \in BOOLEAN /\ crashed \in BOOLEAN /\ premature \in BOOLEAN
    BY DEF TypeOK, Runs
  <1>1. CASE UNCHANGED vars
    BY <1>1 DEF vars, TypeOK
  <1>2. ASSUME NEW v \in Values, Literal(v) PROVE TypeOK'
    <2>1. [folded |-> v, plain |-> v, reduced |-> v] \in Entries
      BY WidthAssumption DEF Entries, Optional, Values
    <2> QED
      BY <1>0, <1>2, <2>1, NodeType DEF Literal
  <1>3. ASSUME NEW x \in Identifiers, Identifier(x) PROVE TypeOK'
    <2>1. [folded |-> known[x], plain |-> original.env[x],
           reduced |-> optimized.env[x]] \in Entries
      BY <1>0 DEF Entries
    <2>2. misled' \in BOOLEAN
      BY <1>3 DEF Identifier
    <2> QED
      BY <1>0, <1>3, <2>1, <2>2, NodeType DEF Identifier
  <1>4. ASSUME NEW type \in {"PLUS", "MINUS"}, UnaryExpression(type) PROVE TypeOK'
    <2> DEFINE child == Last(operands)
               sign(a) == IF type = "MINUS" THEN Negate(a) ELSE a
    <2>1. child \in Entries /\ Len(operands) >= 1
      BY <1>0, <1>4, LastIs DEF UnaryExpression
    <2>2. /\ sign(child.folded) \in Optional /\ sign(child.plain) \in Optional
          /\ sign(Rewritten(child)) \in Optional
      BY <2>1, NegateType, RewrittenType DEF Entries
    <2>3. [folded |-> sign(child.folded), plain |-> sign(child.plain),
           reduced |-> sign(Rewritten(child))] \in Entries
      BY <2>2 DEF Entries
    <2> QED
      BY <1>0, <1>4, <2>1, <2>3, NodeType DEF UnaryExpression
  <1>5. ASSUME NEW op \in Operators, BinaryExpression(op) PROVE TypeOK'
    <2> DEFINE right == Last(operands)
               left == Last(Drop(operands, 1))
    <2>1. right \in Entries /\ left \in Entries /\ Len(operands) >= 2
      BY <1>0, <1>5, LastTwo DEF BinaryExpression
    <2>2. /\ Result(op, left.folded, right.folded) \in Optional
          /\ Result(op, left.plain, right.plain) \in Optional
          /\ Result(op, Rewritten(left), Rewritten(right)) \in Optional
      BY <2>1, ResultType, RewrittenType DEF Entries
    <2>3. [folded |-> Result(op, left.folded, right.folded),
           plain |-> Result(op, left.plain, right.plain),
           reduced |-> Result(op, Rewritten(left), Rewritten(right))] \in Entries
      BY <2>2 DEF Entries
    <2>4. original' \in Runs /\ optimized' \in Runs
      <3>1. [optimized EXCEPT !.status = "trapped"] \in Runs
        BY <1>0 DEF Runs
      <3>2. ASSUME NEW run \in Runs, NEW a, NEW b PROVE Perform(run, op, a, b) \in Runs
        BY DEF Perform, Runs
      <3> QED
        BY <1>0, <1>5, <3>1, <3>2 DEF BinaryExpression
    <2>5. crashed' \in BOOLEAN /\ premature' \in BOOLEAN
      BY <1>5 DEF BinaryExpression, Traps
    <2> QED
      BY <1>0, <1>5, <2>1, <2>3, <2>4, <2>5, NodeType DEF BinaryExpression
  <1>6. ASSUME NEW x \in Identifiers, AssignmentStatement(x) PROVE TypeOK'
    <2> DEFINE e == operands[1]
    <2>1. e \in Entries
      BY <1>0, <1>6, OnlyEntry DEF AssignmentStatement
    <2>2. e.plain \in Optional /\ e.folded \in Optional /\ Rewritten(e) \in Optional
      BY <2>1, RewrittenType DEF Entries
    <2>3. original' \in Runs /\ optimized' \in Runs
      BY <1>0, <1>6, <2>2, RunType DEF AssignmentStatement
    <2>4. known' \in [Identifiers -> Optional]
      BY <1>0, <1>6, <2>2 DEF AssignmentStatement
    <2>5. /\ outdated' \subseteq Parameters \cup Variables
          /\ assigned' \subseteq Variables
      BY <1>6 DEF AssignmentStatement, TypeOK
    <2>6. statements' \in 0 .. MaxStatements /\ nodes' \in 0 .. MaxNodes
      BY <1>6, SizeAssumption DEF AssignmentStatement, TypeOK
    <2>7. operands' \in Seq(Entries)
      BY <1>6 DEF AssignmentStatement
    <2> QED
      BY <1>6, <2>3, <2>4, <2>5, <2>6, <2>7 DEF AssignmentStatement, TypeOK
  <1>7. CASE ReturnStatement
    <2> DEFINE e == operands[1]
    <2>1. e \in Entries
      BY <1>0, <1>7, OnlyEntry DEF ReturnStatement
    <2>2. e.plain \in Optional /\ e.folded \in Optional /\ e.reduced \in Optional
      BY <2>1 DEF Entries
    <2>3. \A run \in Runs, v \in Optional :
             Finish(run, v) \in Runs /\ NewRun(run.env) \in Runs
      BY DEF Runs, Finish, NewRun, Optional
    <2>4. original' \in Runs /\ optimized' \in Runs /\ silenced' \in BOOLEAN
      BY <1>0, <1>7, <2>2, <2>3 DEF ReturnStatement, TypeOK
    <2> QED
      BY <1>7, <2>4 DEF ReturnStatement, TypeOK
  <1> QED
    BY <1>1, <1>2, <1>3, <1>4, <1>5, <1>6, <1>7 DEF Next

\* Whatever the body, every optional is nullopt or a number of the width.
THEOREM TypeCorrect == Spec => []TypeOK
  BY TypeInit, TypeStep, PTL DEF Spec

-----------------------------------------------------------------------------
(* What a node's entry says of its children's.                             *)

\* Rewriting a binary node is the operation on its rewritten operands.
LEMMA RewrittenBinary ==
  ASSUME NEW op \in Operators, NEW l \in Entries, NEW r \in Entries, NEW e,
         e = [folded |-> Result(op, l.folded, r.folded),
              plain |-> Result(op, l.plain, r.plain),
              reduced |-> Result(op, Rewritten(l), Rewritten(r))]
  PROVE  Rewritten(e) = Result(op, Rewritten(l), Rewritten(r))
  <1>1. CASE e.folded = NullOpt
    BY <1>1 DEF Rewritten
  <1>2. CASE e.folded # NullOpt
    <2>1. l.folded # NullOpt /\ r.folded # NullOpt
      BY <1>2 DEF Result
    <2> QED
      BY <1>2, <2>1 DEF Rewritten
  <1> QED
    BY <1>1, <1>2

\* The step of a node, entry by entry.
LEMMA NodeEntries ==
  ASSUME TypeOK, NEW k \in 0 .. Len(operands), NEW e \in Entries, Node(k, e)
  PROVE  /\ Len(operands) \in Nat /\ Len(operands') = Len(operands) - k + 1
         /\ DOMAIN operands = 1 .. Len(operands)
         /\ DOMAIN operands' = 1 .. Len(operands')
         /\ operands'[Len(operands')] = e
         /\ \A i \in 1 .. Len(operands) - k : operands'[i] = operands[i]
         /\ UNCHANGED <<known, assigned, statements, done, outdated, silenced>>
         /\ ~done /\ ~crashed
  <1>1. operands \in Seq(Entries)
    BY DEF TypeOK
  <1>2. operands' = Append(Drop(operands, k), e)
    BY DEF Node
  <1>3. /\ operands' \in Seq(Entries)
        /\ Len(operands') = Len(operands) - k + 1
        /\ operands'[Len(operands')] = e
        /\ \A i \in 1 .. Len(operands) - k : operands'[i] = operands[i]
    <2> DEFINE t == Append(Drop(operands, k), e)
    <2>1. /\ t \in Seq(Entries)
          /\ Len(t) = Len(operands) - k + 1
          /\ t[Len(t)] = e
          /\ \A i \in 1 .. Len(operands) - k : t[i] = operands[i]
      BY <1>1, StackNode
    <2> HIDE DEF t
    <2>2. operands' = t
      BY <1>2 DEF t
    <2> QED
      BY <2>1, <2>2
  <1> QED
    BY <1>1, <1>3 DEF Node, Running

-----------------------------------------------------------------------------
(* Errors and nullopt.                                                     *)

PlainNull == \E i \in DOMAIN operands : operands[i].plain = NullOpt
RewrittenNull == \E i \in DOMAIN operands : Rewritten(operands[i]) = NullOpt

\* A run that is still going has printed an error exactly if some finished
\* subtree failed, and everything an expression may read has a value.
Accounts(run, null) ==
    /\ run.status = "failed" => run.errors > 0
    /\ run.status = "returned" => run.errors = 0
    /\ run.status = "running" =>
          /\ run.errors > 0 <=> null
          /\ \A x \in assigned \cup Parameters \cup Constants :
                run.env[x] # NullOpt

ReportInv ==
    /\ Accounts(original, PlainNull)
    /\ Accounts(optimized, RewrittenNull)
    /\ done => original.status # "running" /\ optimized.status # "running"
    /\ ~done => original.status # "returned" /\ optimized.status # "returned"

\* At first nothing is evaluated, printed or returned.
LEMMA ReportInit == Init => ReportInv
  <1> SUFFICES ASSUME Init PROVE ReportInv
    OBVIOUS
  <1>1. PICK context \in [Identifiers -> Optional] :
           /\ \A x \in Identifiers : context[x] = NullOpt <=> x \in Variables
           /\ original = NewRun(context)
           /\ optimized = NewRun(context)
    BY DEF Init
  <1>2. \A x \in Parameters \cup Constants : context[x] # NullOpt
    BY <1>1, DeclarationAssumption DEF Identifiers
  <1>3. operands = <<>> /\ assigned = {} /\ ~done
    BY DEF Init
  <1>4. ~PlainNull /\ ~RewrittenNull
    BY <1>3 DEF PlainNull, RewrittenNull
  <1> QED
    BY <1>1, <1>2, <1>3, <1>4 DEF ReportInv, Accounts, NewRun

\* A node that prints no error and is nullopt only if a child is.
LEMMA SilentNode ==
  ASSUME TypeOK, ReportInv, NEW k \in 0 .. 1, k <= Len(operands),
         NEW e \in Entries, Node(k, e),
         UNCHANGED <<original, optimized>>,
         original.status = "running" =>
             (e.plain = NullOpt <=> k = 1 /\ Last(operands).plain = NullOpt),
         optimized.status = "running" =>
             (Rewritten(e) = NullOpt <=>
                k = 1 /\ Rewritten(Last(operands)) = NullOpt)
  PROVE  ReportInv'
  <1>1. k \in 0 .. Len(operands) /\ Len(operands) \in Nat
    BY DEF TypeOK
  <1>2. /\ Len(operands') = Len(operands) - k + 1
        /\ DOMAIN operands = 1 .. Len(operands)
        /\ DOMAIN operands' = 1 .. Len(operands')
        /\ operands'[Len(operands')] = e
        /\ \A i \in 1 .. Len(operands) - k : operands'[i] = operands[i]
        /\ UNCHANGED <<assigned, done>>
    BY <1>1, NodeEntries
  <1>3. k = 1 => Last(operands) = operands[Len(operands)]
    BY <1>1 DEF Last
  <1>4. original.status = "running" => (PlainNull' <=> PlainNull)
    BY <1>1, <1>2, <1>3 DEF PlainNull
  <1>5. optimized.status = "running" => (RewrittenNull' <=> RewrittenNull)
    BY <1>1, <1>2, <1>3 DEF RewrittenNull
  <1> QED
    BY <1>2, <1>4, <1>5 DEF ReportInv, Accounts

\* Every node and every statement keeps nullopt and the printed errors in
\* accordance.
LEMMA ReportStep == TypeOK /\ ReportInv /\ [Next]_vars => ReportInv'
  <1> SUFFICES ASSUME TypeOK, ReportInv, [Next]_vars PROVE ReportInv'
    OBVIOUS
  <1>0. /\ operands \in Seq(Entries) /\ Len(operands) \in Nat
        /\ DOMAIN operands = 1 .. Len(operands)
        /\ original \in Runs /\ optimized \in Runs
        /\ original.env \in [Identifiers -> Optional]
        /\ optimized.env \in [Identifiers -> Optional]
        /\ original.errors \in Nat /\ optimized.errors \in Nat
        /\ known \in [Identifiers -> Optional]
    BY DEF TypeOK, Runs
  <1>1. CASE UNCHANGED vars
    BY <1>1 DEF vars, ReportInv, Accounts, PlainNull, RewrittenNull
  <1>2. ASSUME NEW v \in Values, Literal(v) PROVE ReportInv'
    <2> DEFINE e == [folded |-> v, plain |-> v, reduced |-> v]
    <2>1. e \in Entries /\ e.plain # NullOpt /\ Rewritten(e) # NullOpt
      BY WidthAssumption DEF Entries, Optional, Values, Rewritten
    <2> HIDE DEF e
    <2>2. Node(0, e) /\ UNCHANGED <<original, optimized>>
      BY <1>2 DEF Literal, e
    <2> QED
      BY <1>0, <2>1, <2>2, SilentNode
  <1>3. ASSUME NEW x \in Identifiers, Identifier(x) PROVE ReportInv'
    <2> DEFINE e == [folded |-> known[x], plain |-> original.env[x],
                     reduced |-> optimized.env[x]]
    <2>1. e \in Entries
      BY <1>0 DEF Entries
    <2>2. /\ original.status = "running" => e.plain # NullOpt
          /\ optimized.status = "running" => Rewritten(e) # NullOpt
      BY <1>3 DEF Identifier, ReportInv, Accounts, Rewritten
    <2>3. Node(0, e) /\ UNCHANGED <<original, optimized>>
      BY <1>3 DEF Identifier
    <2> HIDE DEF e
    <2> QED
      BY <1>0, <2>1, <2>2, <2>3, SilentNode
  <1>4. ASSUME NEW type \in {"PLUS", "MINUS"}, UnaryExpression(type) PROVE ReportInv'
    <2> DEFINE child == Last(operands)
               sign(a) == IF type = "MINUS" THEN Negate(a) ELSE a
               e == [folded |-> sign(child.folded), plain |-> sign(child.plain),
                     reduced |-> sign(Rewritten(child))]
    <2>1. child \in Entries /\ Len(operands) >= 1
      BY <1>0, <1>4, LastIs DEF UnaryExpression
    <2>2. /\ child.folded \in Optional /\ child.plain \in Optional
          /\ Rewritten(child) \in Optional
      BY <2>1, RewrittenType DEF Entries
    <2>3. \A a \in Optional : sign(a) \in Optional /\ (sign(a) = NullOpt <=> a = NullOpt)
      BY NegateType, NegateNull
    <2>4. e \in Entries
      BY <2>2, <2>3 DEF Entries
    <2>5. e.plain = NullOpt <=> child.plain = NullOpt
      BY <2>2, <2>3
    <2>6. Rewritten(e) = NullOpt <=> Rewritten(child) = NullOpt
      BY <2>2, <2>3 DEF Rewritten
    <2>7. Node(1, e) /\ UNCHANGED <<original, optimized>>
      BY <1>4 DEF UnaryExpression
    <2> HIDE DEF e, child
    <2>8. e.plain = NullOpt <=> 1 = 1 /\ Last(operands).plain = NullOpt
      BY <2>5 DEF child
    <2>9. Rewritten(e) = NullOpt <=> 1 = 1 /\ Rewritten(Last(operands)) = NullOpt
      BY <2>6 DEF child
    <2> QED
      BY <1>0, <2>1, <2>4, <2>7, <2>8, <2>9, SilentNode
  <1>5. ASSUME NEW op \in Operators, BinaryExpression(op) PROVE ReportInv'
    <2> DEFINE r == Last(operands)
               l == Last(Drop(operands, 1))
               e == [folded |-> Result(op, l.folded, r.folded),
                     plain |-> Result(op, l.plain, r.plain),
                     reduced |-> Result(op, Rewritten(l), Rewritten(r))]
               n == Len(operands)
    <2>1. /\ n >= 2 /\ r \in Entries /\ l \in Entries
          /\ r = operands[n] /\ l = operands[n - 1]
      BY <1>0, <1>5, LastTwo DEF BinaryExpression
    <2>2. /\ Node(2, e)
          /\ original' = Perform(original, op, l.plain, r.plain)
          /\ \/ optimized' = [optimized EXCEPT !.status = "trapped"]
             \/ optimized' = Perform(optimized, op, Rewritten(l), Rewritten(r))
      BY <1>5 DEF BinaryExpression
    <2>3. /\ r.plain \in Optional /\ l.plain \in Optional
          /\ r.folded \in Optional /\ l.folded \in Optional
          /\ Rewritten(r) \in Optional /\ Rewritten(l) \in Optional
      BY <2>1, RewrittenType DEF Entries
    <2>4. e.plain = NullOpt <=> \/ l.plain = NullOpt \/ r.plain = NullOpt
                              \/ DividesByZero(op, l.plain, r.plain)
      BY <2>3, ResultNull
    <2>5. Rewritten(e) = NullOpt <=>
             \/ Rewritten(l) = NullOpt \/ Rewritten(r) = NullOpt
             \/ DividesByZero(op, Rewritten(l), Rewritten(r))
      BY <2>1, <2>3, RewrittenBinary, ResultNull
    <2>6. e \in Entries
      BY <2>3, ResultType DEF Entries
    <2> HIDE DEF e, r, l
    <2>7. /\ Len(operands') = n - 1
          /\ DOMAIN operands' = 1 .. n - 1
          /\ operands'[n - 1] = e
          /\ \A i \in 1 .. n - 2 : operands'[i] = operands[i]
          /\ UNCHANGED <<assigned, done>> /\ ~done
      <3>1. 2 \in 0 .. Len(operands)
        BY <1>0, <2>1
      <3> HIDE DEF n
      <3>2. /\ Len(operands') = Len(operands) - 2 + 1
            /\ DOMAIN operands' = 1 .. Len(operands')
            /\ operands'[Len(operands')] = e
            /\ \A i \in 1 .. Len(operands) - 2 : operands'[i] = operands[i]
            /\ UNCHANGED <<assigned, done>> /\ ~done
        BY <2>2, <2>6, <3>1, NodeEntries
      <3>3. n \in Nat /\ Len(operands) - 2 + 1 = n - 1
        BY <1>0 DEF n
      <3> QED
        BY <3>2, <3>3 DEF n
    <2>70. 1 .. n = (1 .. n - 2) \cup {n - 1, n} /\ 1 .. n - 1 = (1 .. n - 2) \cup {n - 1}
      BY <1>0, <2>1
    <2> HIDE DEF n
    <2>71. DOMAIN operands = 1 .. n
      BY <1>0 DEF n
    <2>8. PlainNull' <=> PlainNull \/ DividesByZero(op, l.plain, r.plain)
      <3>1. PlainNull <=> \/ \E i \in 1 .. n - 2 : operands[i].plain = NullOpt
                         \/ l.plain = NullOpt \/ r.plain = NullOpt
        BY <2>1, <2>70, <2>71 DEF PlainNull
      <3>2. PlainNull' <=> \/ \E i \in 1 .. n - 2 : operands[i].plain = NullOpt
                          \/ e.plain = NullOpt
        BY <2>7, <2>70 DEF PlainNull
      <3> QED
        BY <2>4, <3>1, <3>2
    <2>9. RewrittenNull' <=>
             RewrittenNull \/ DividesByZero(op, Rewritten(l), Rewritten(r))
      <3>1. RewrittenNull <=>
               \/ \E i \in 1 .. n - 2 : Rewritten(operands[i]) = NullOpt
               \/ Rewritten(l) = NullOpt \/ Rewritten(r) = NullOpt
        BY <2>1, <2>70, <2>71 DEF RewrittenNull
      <3>2. RewrittenNull' <=>
               \/ \E i \in 1 .. n - 2 : Rewritten(operands[i]) = NullOpt
               \/ Rewritten(e) = NullOpt
        BY <2>7, <2>70 DEF RewrittenNull
      <3> QED
        BY <2>5, <3>1, <3>2
    <2>10. Accounts(original, PlainNull)'
      BY <1>0, <2>2, <2>7, <2>8 DEF ReportInv, Accounts, Perform, Runs
    <2>11. Accounts(optimized, RewrittenNull)'
      BY <1>0, <2>2, <2>7, <2>9 DEF ReportInv, Accounts, Perform, Runs
    <2> QED
      BY <1>0, <2>2, <2>7, <2>10, <2>11 DEF ReportInv, Perform, Runs
  <1>6. ASSUME NEW x \in Identifiers, AssignmentStatement(x) PROVE ReportInv'
    <2> DEFINE e == operands[1]
    <2>1. /\ Len(operands) = 1 /\ ~done /\ done' = done
          /\ operands' = <<>> /\ assigned' \subseteq assigned \cup {x}
          /\ original' = Store(original, x, e.plain)
          /\ optimized' = Store(optimized, x, Rewritten(e))
      BY <1>6 DEF AssignmentStatement, Running
    <2>2. (PlainNull <=> e.plain = NullOpt) /\ ~PlainNull'
      BY <1>0, <2>1 DEF PlainNull
    <2>3. (RewrittenNull <=> Rewritten(e) = NullOpt) /\ ~RewrittenNull'
      BY <1>0, <2>1 DEF RewrittenNull
    <2> HIDE DEF e
    <2>4. Accounts(original, PlainNull)'
      BY <1>0, <2>1, <2>2 DEF ReportInv, Accounts, Store, Runs
    <2>5. Accounts(optimized, RewrittenNull)'
      BY <1>0, <2>1, <2>3 DEF ReportInv, Accounts, Store, Runs
    <2> QED
      BY <1>0, <2>1, <2>4, <2>5 DEF ReportInv, Store, Runs
  <1>7. CASE ReturnStatement
    <2> DEFINE e == operands[1]
    <2>1. /\ Len(operands) = 1 /\ ~done /\ done'
          /\ UNCHANGED <<operands, assigned>>
          /\ original' = Finish(original, e.plain)
          /\ optimized' = IF e.folded = NullOpt THEN Finish(optimized, e.reduced)
                          ELSE Finish(NewRun(optimized.env), e.folded)
      BY <1>7 DEF ReturnStatement, Running
    <2>2. PlainNull <=> e.plain = NullOpt
      BY <1>0, <2>1 DEF PlainNull
    <2>3. RewrittenNull <=> Rewritten(e) = NullOpt
      BY <1>0, <2>1 DEF RewrittenNull
    <2> HIDE DEF e
    <2>4. Accounts(original, PlainNull)' /\ original'.status # "running"
      BY <1>0, <2>1, <2>2 DEF ReportInv, Accounts, Finish, Runs
    <2>5. Accounts(optimized, RewrittenNull)' /\ optimized'.status # "running"
      <3>1. CASE e.folded = NullOpt
        BY <1>0, <2>1, <2>3, <3>1 DEF ReportInv, Accounts, Finish, Rewritten, Runs
      <3>2. CASE e.folded # NullOpt
        BY <1>0, <2>1, <3>2 DEF Accounts, Finish, NewRun, Runs
      <3> QED
        BY <3>1, <3>2
    <2> QED
      BY <2>1, <2>4, <2>5 DEF ReportInv
  <1> QED
    BY <1>1, <1>2, <1>3, <1>4, <1>5, <1>6, <1>7 DEF Next

\* A call whose evaluation gives nullopt has printed an error, and one that
\* gives a value has not, whether or not the function was optimized.
THEOREM FailuresAreReported == Spec => []NulloptIsReported
  <1>1. TypeOK /\ ReportInv => NulloptIsReported
    BY DEF ReportInv, Accounts, NulloptIsReported
  <1>2. Spec => []ReportInv
    BY ReportInit, ReportStep, TypeCorrect, PTL DEF Spec
  <1> QED
    BY <1>1, <1>2, TypeCorrect, PTL
-----------------------------------------------------------------------------
(* Soundness of constant propagation.                                      *)

\* As long as no outdated value was read and the visitor has not trapped, the
\* optimized body has done what the written one did, statement by statement.
Mirrors ==
    Running /\ ~misled =>
        /\ optimized.status = original.status
        /\ optimized.errors = original.errors
        /\ optimized.result = original.result
        /\ original.status = "running" => optimized.env = original.env

SoundInv ==
    /\ KnownIsCurrent
    /\ FoldsAreTrue
    /\ Mirrors
    /\ OptimizedAgrees
    /\ ~done => ~silenced

\* Initially only constants are known, and both runs have the same context.
LEMMA SoundInit == Init => SoundInv
  <1> SUFFICES ASSUME Init PROVE SoundInv
    OBVIOUS
  <1>1. PICK context \in [Identifiers -> Optional] :
           /\ known = InitialKnowledge(context)
           /\ original = NewRun(context)
           /\ optimized = NewRun(context)
    BY DEF Init
  <1>2. KnownIsCurrent
    BY <1>1 DEF KnownIsCurrent, InitialKnowledge, NewRun
  <1>3. operands = <<>> /\ ~done /\ ~crashed /\ ~silenced
    BY DEF Init
  <1>4. FoldsAreTrue
    BY <1>3 DEF FoldsAreTrue
  <1> QED
    BY <1>1, <1>2, <1>3, <1>4 DEF SoundInv, Mirrors, OptimizedAgrees

\* A node whose entry is true if its children's entries are keeps FoldsAreTrue.
LEMMA TrueNode ==
  ASSUME TypeOK, FoldsAreTrue, NEW k \in 0 .. Len(operands), NEW e \in Entries,
         Node(k, e),
         misled => misled', original'.status = "running" => original.status = "running",
         ~misled' /\ original.status = "running" =>
             /\ e.folded # NullOpt => e.folded = e.plain
             /\ Rewritten(e) = e.plain
  PROVE  FoldsAreTrue'
  <1> DEFINE n == Len(operands)
  <1>1. /\ n \in Nat /\ k \in 0 .. n
        /\ DOMAIN operands = 1 .. n /\ DOMAIN operands' = 1 .. n - k + 1
        /\ operands'[n - k + 1] = e
        /\ \A i \in 1 .. n - k : operands'[i] = operands[i]
    BY NodeEntries
  <1> HIDE DEF n
  <1> SUFFICES ASSUME ~misled', original.status = "running", ~misled,
                      NEW i \in 1 .. n - k + 1
               PROVE  /\ operands'[i].folded # NullOpt =>
                            operands'[i].folded = operands'[i].plain
                      /\ Rewritten(operands'[i]) = operands'[i].plain
    BY <1>1 DEF FoldsAreTrue, Rewritten
  <1>2. CASE i = n - k + 1
    BY <1>1, <1>2
  <1>3. CASE i # n - k + 1
    <2>1. i \in 1 .. n - k /\ i \in 1 .. n
      BY <1>1, <1>3
    <2> QED
      BY <1>1, <2>1 DEF FoldsAreTrue
  <1> QED
    BY <1>2, <1>3

\* A node that neither fails nor traps keeps the other conjuncts as well.
LEMMA SoundNode ==
  ASSUME TypeOK, SoundInv, NEW k \in 0 .. Len(operands), NEW e \in Entries,
         Node(k, e), misled => misled', UNCHANGED <<original, optimized, crashed>>,
         ~misled' /\ original.status = "running" =>
             /\ e.folded # NullOpt => e.folded = e.plain
             /\ Rewritten(e) = e.plain
  PROVE  SoundInv'
  <1>1. FoldsAreTrue'
    BY TrueNode DEF SoundInv
  <1>2. ~done /\ ~crashed /\ UNCHANGED <<known, outdated, done, silenced>>
    BY DEF Node, Running
  <1> QED
    BY <1>1, <1>2 DEF SoundInv, KnownIsCurrent, Mirrors, Running, OptimizedAgrees

\* Equal operands give equal results, and only known operands a known one.
LEMMA FoldedBinary ==
  ASSUME NEW op \in Operators, NEW l \in Entries, NEW r \in Entries,
         l.folded # NullOpt => l.folded = l.plain,
         r.folded # NullOpt => r.folded = r.plain,
         Result(op, l.folded, r.folded) # NullOpt
  PROVE  Result(op, l.folded, r.folded) = Result(op, l.plain, r.plain)
  <1>1. l.folded # NullOpt /\ r.folded # NullOpt
    BY DEF Result
  <1> QED
    BY <1>1

\* A right side becomes the value of its variable, in all three computations.
LEMMA SoundAssignment ==
  ASSUME TypeOK, SoundInv, NEW x \in Identifiers, AssignmentStatement(x)
  PROVE  SoundInv'
  <1> DEFINE e == operands[1]
  <1>1. /\ operands \in Seq(Entries) /\ Len(operands) = 1
        /\ original \in Runs /\ optimized \in Runs
        /\ original.env \in [Identifiers -> Optional]
        /\ known \in [Identifiers -> Optional]
    BY DEF TypeOK, Runs, AssignmentStatement
  <1>2. /\ ~done /\ ~crashed /\ UNCHANGED <<done, crashed, misled, silenced>>
        /\ operands' = <<>>
        /\ original' = Store(original, x, e.plain)
        /\ optimized' = Store(optimized, x, Rewritten(e))
        /\ known' = IF e.folded = NullOpt THEN known
                    ELSE [known EXCEPT ![x] = e.folded]
        /\ outdated' = IF e.folded # NullOpt THEN outdated \ {x}
                       ELSE IF known[x] # NullOpt THEN outdated \cup {x}
                       ELSE outdated
    BY DEF AssignmentStatement, Running
  <1>3. ~misled /\ original.status = "running" =>
           /\ e.folded # NullOpt => e.folded = e.plain
           /\ Rewritten(e) = e.plain
    BY <1>1 DEF SoundInv, FoldsAreTrue
  <1> HIDE DEF e
  <1>4. original'.status = "running" =>
           /\ original.status = "running"
           /\ original'.env = [original.env EXCEPT ![x] = e.plain]
    BY <1>1, <1>2 DEF Store, Runs
  <1>5. KnownIsCurrent'
    <2> SUFFICES ASSUME ~misled, original'.status = "running",
                        NEW y \in Identifiers \ outdated', known'[y] # NullOpt
                 PROVE  known'[y] = original'.env[y]
      BY <1>2 DEF KnownIsCurrent
    <2>1. CASE y = x
      <3>1. e.folded # NullOpt
        BY <1>2, <2>1
      <3> QED
        BY <1>1, <1>2, <1>3, <1>4, <2>1, <3>1
    <2>2. CASE y # x
      <3>1. y \notin outdated /\ known'[y] = known[y]
        BY <1>1, <1>2, <2>2
      <3> QED
        BY <1>1, <1>4, <2>2, <3>1 DEF SoundInv, KnownIsCurrent
    <2> QED
      BY <2>1, <2>2
  <1>6. FoldsAreTrue'
    BY <1>2 DEF FoldsAreTrue
  <1>7. Mirrors'
    <2>1. ASSUME ~misled
          PROVE  /\ optimized.status = original.status
                 /\ optimized.errors = original.errors
                 /\ optimized.result = original.result
                 /\ original.status = "running" =>
                       optimized.env = original.env /\ Rewritten(e) = e.plain
      BY <1>2, <1>3, <2>1 DEF SoundInv, Mirrors, Running
    <2> QED
      BY <1>1, <1>2, <2>1 DEF Mirrors, Store, Runs
  <1> QED
    BY <1>2, <1>5, <1>6, <1>7 DEF SoundInv, OptimizedAgrees

\* At the RETURN the two bodies have the same outcome.  A constant RETURN
\* prints nothing, and neither does the written body then: a printed error
\* would be in the value of the RETURN expression (ReportInv).
LEMMA SoundReturn ==
  ASSUME TypeOK, ReportInv, SoundInv, ReturnStatement
  PROVE  SoundInv'
  <1> DEFINE e == operands[1]
  <1>1. /\ operands \in Seq(Entries) /\ Len(operands) = 1
        /\ DOMAIN operands = {1}
        /\ original \in Runs /\ optimized \in Runs
    BY DEF TypeOK, ReturnStatement
  <1>2. /\ ~done /\ ~crashed /\ done' /\ UNCHANGED <<operands, known, outdated, misled>>
        /\ original' = Finish(original, e.plain)
        /\ optimized' = IF e.folded = NullOpt THEN Finish(optimized, e.reduced)
                        ELSE Finish(NewRun(optimized.env), e.folded)
        /\ silenced' = IF e.folded = NullOpt THEN silenced
                       ELSE original.status # "running"
    BY DEF ReturnStatement, Running
  <1>3. ~misled /\ original.status = "running" =>
           /\ e.folded # NullOpt => e.folded = e.plain
           /\ Rewritten(e) = e.plain
    BY <1>1 DEF SoundInv, FoldsAreTrue
  <1>4. PlainNull <=> e.plain = NullOpt
    BY <1>1 DEF PlainNull
  <1> HIDE DEF e
  <1>5. original'.status # "running"
    BY <1>1, <1>2 DEF Finish, Runs
  <1>6. KnownIsCurrent' /\ FoldsAreTrue' /\ Mirrors'
    BY <1>2, <1>5 DEF KnownIsCurrent, FoldsAreTrue, Mirrors, Running
  <1>7. OptimizedAgrees'
    <2> SUFFICES ASSUME ~misled, ~silenced'
                 PROVE  /\ optimized'.status = original'.status
                        /\ optimized'.result = original'.result
                        /\ optimized'.errors = original'.errors
      BY <1>2 DEF OptimizedAgrees
    <2>1. /\ optimized.status = original.status
          /\ optimized.errors = original.errors
          /\ optimized.result = original.result
      BY <1>2 DEF SoundInv, Mirrors, Running
    <2>2. CASE e.folded = NullOpt
      <3>1. original.status = "running" => e.reduced = e.plain
        BY <1>3, <2>2 DEF Rewritten
      <3> QED
        BY <1>1, <1>2, <2>1, <2>2, <3>1 DEF Finish, Runs
    <2>3. CASE e.folded # NullOpt
      <3>1. original.status = "running"
        BY <1>1, <1>2, <2>3 DEF ReportInv, Runs
      <3>2. e.plain = e.folded
        BY <1>3, <2>3, <3>1
      <3>3. original.errors = 0
        BY <1>1, <1>4, <2>3, <3>1, <3>2 DEF ReportInv, Accounts, Runs
      <3> QED
        BY <1>1, <1>2, <2>3, <3>1, <3>2, <3>3 DEF Finish, NewRun, Runs
    <2> QED
      BY <2>2, <2>3
  <1> QED
    BY <1>2, <1>6, <1>7 DEF SoundInv

\* Every action keeps the two bodies in agreement.
LEMMA SoundStep == TypeOK /\ ReportInv /\ SoundInv /\ [Next]_vars => SoundInv'
  <1> SUFFICES ASSUME TypeOK, ReportInv, SoundInv, [Next]_vars PROVE SoundInv'
    OBVIOUS
  <1>0. /\ operands \in Seq(Entries) /\ Len(operands) \in Nat
        /\ DOMAIN operands = 1 .. Len(operands)
        /\ original \in Runs /\ optimized \in Runs
        /\ original.env \in [Identifiers -> Optional]
        /\ optimized.env \in [Identifiers -> Optional]
        /\ known \in [Identifiers -> Optional]
    BY DEF TypeOK, Runs
  <1>1. CASE UNCHANGED vars
    BY <1>1 DEF vars, SoundInv, KnownIsCurrent, FoldsAreTrue, Rewritten,
                Mirrors, Running, OptimizedAgrees
  <1>2. ASSUME NEW v \in Values, Literal(v) PROVE SoundInv'
    <2> DEFINE e == [folded |-> v, plain |-> v, reduced |-> v]
    <2>1. e \in Entries /\ e.folded = e.plain /\ Rewritten(e) = e.plain
      BY WidthAssumption DEF Entries, Optional, Values, Rewritten
    <2> HIDE DEF e
    <2>2. Node(0, e) /\ UNCHANGED <<original, optimized, misled, crashed>>
      BY <1>2 DEF Literal, e
    <2> QED
      BY <1>0, <2>1, <2>2, SoundNode
  <1>3. ASSUME NEW x \in Identifiers, Identifier(x) PROVE SoundInv'
    <2> DEFINE e == [folded |-> known[x], plain |-> original.env[x],
                     reduced |-> optimized.env[x]]
    <2>1. e \in Entries
      BY <1>0 DEF Entries
    <2>2. /\ Node(0, e) /\ UNCHANGED <<original, optimized, crashed>>
          /\ misled' = (misled \/ x \in outdated)
      BY <1>3 DEF Identifier
    <2>3. Running
      BY <2>2 DEF Node
    <2>4. ASSUME ~misled', original.status = "running"
          PROVE  /\ e.folded # NullOpt => e.folded = e.plain
                 /\ Rewritten(e) = e.plain
      <3>1. ~misled /\ x \in Identifiers \ outdated
        BY <2>2, <2>4
      <3>2. e.folded # NullOpt => e.folded = e.plain
        BY <2>4, <3>1 DEF SoundInv, KnownIsCurrent
      <3>3. e.reduced = e.plain
        BY <2>3, <2>4, <3>1 DEF SoundInv, Mirrors
      <3> QED
        BY <3>2, <3>3 DEF Rewritten
    <2> HIDE DEF e
    <2>5. misled => misled'
      BY <2>2
    <2> QED
      BY <1>0, <2>1, <2>2, <2>4, <2>5, SoundNode
  <1>4. ASSUME NEW type \in {"PLUS", "MINUS"}, UnaryExpression(type)
        PROVE  SoundInv'
    <2> DEFINE child == Last(operands)
               sign(a) == IF type = "MINUS" THEN Negate(a) ELSE a
               e == [folded |-> sign(child.folded), plain |-> sign(child.plain),
                     reduced |-> sign(Rewritten(child))]
    <2>1. child \in Entries /\ Len(operands) >= 1 /\ child = operands[Len(operands)]
      BY <1>0, <1>4, LastIs DEF UnaryExpression
    <2>2. /\ child.folded \in Optional /\ child.plain \in Optional
          /\ Rewritten(child) \in Optional
      BY <2>1, RewrittenType DEF Entries
    <2>3. \A a \in Optional : sign(a) \in Optional /\ (sign(a) = NullOpt <=> a = NullOpt)
      BY NegateType, NegateNull
    <2>4. e \in Entries
      BY <2>2, <2>3 DEF Entries
    <2>5. Node(1, e) /\ UNCHANGED <<original, optimized, misled, crashed>>
      BY <1>4 DEF UnaryExpression
    <2>6. ASSUME ~misled', original.status = "running"
          PROVE  /\ child.folded # NullOpt => child.folded = child.plain
                 /\ Rewritten(child) = child.plain
      <3>1. Len(operands) \in DOMAIN operands /\ ~misled
        BY <1>0, <2>1, <2>5, <2>6
      <3> QED
        BY <2>1, <2>6, <3>1 DEF SoundInv, FoldsAreTrue
    <2>7. ASSUME ~misled', original.status = "running"
          PROVE  /\ e.folded # NullOpt => e.folded = e.plain
                 /\ Rewritten(e) = e.plain
      BY <2>2, <2>3, <2>6, <2>7 DEF Rewritten
    <2> HIDE DEF e
    <2> QED
      BY <1>0, <2>1, <2>4, <2>5, <2>7, SoundNode
  <1>5. ASSUME NEW op \in Operators, BinaryExpression(op) PROVE SoundInv'
    <2> DEFINE r == Last(operands)
               l == Last(Drop(operands, 1))
               e == [folded |-> Result(op, l.folded, r.folded),
                     plain |-> Result(op, l.plain, r.plain),
                     reduced |-> Result(op, Rewritten(l), Rewritten(r))]
    <2>1. /\ Len(operands) >= 2 /\ r \in Entries /\ l \in Entries
          /\ r = operands[Len(operands)] /\ l = operands[Len(operands) - 1]
      BY <1>0, <1>5, LastTwo DEF BinaryExpression
    <2>2. /\ Node(2, e) /\ misled' = misled
          /\ original' = Perform(original, op, l.plain, r.plain)
          /\ crashed' = Traps(op, l.folded, r.folded)
          /\ optimized' = IF crashed' THEN [optimized EXCEPT !.status = "trapped"]
                          ELSE Perform(optimized, op, Rewritten(l), Rewritten(r))
          /\ premature' = (crashed' /\ original.status # "running")
      BY <1>5 DEF BinaryExpression
    <2>3. e \in Entries
      BY <2>1, ResultType, RewrittenType DEF Entries
    <2>4. ~done /\ ~crashed /\ UNCHANGED <<known, outdated, done, silenced>>
      BY <2>2 DEF Node, Running
    <2>5. ASSUME ~misled, original.status = "running"
          PROVE  /\ l.folded # NullOpt => l.folded = l.plain
                 /\ r.folded # NullOpt => r.folded = r.plain
                 /\ Rewritten(l) = l.plain /\ Rewritten(r) = r.plain
      <3>1. Len(operands) \in DOMAIN operands /\ Len(operands) - 1 \in DOMAIN operands
        BY <1>0, <2>1
      <3> QED
        BY <2>1, <2>5, <3>1 DEF SoundInv, FoldsAreTrue
    <2>6. Rewritten(e) = Result(op, Rewritten(l), Rewritten(r))
      BY <2>1, RewrittenBinary
    <2>7. ASSUME ~misled', original.status = "running"
          PROVE  /\ e.folded # NullOpt => e.folded = e.plain
                 /\ Rewritten(e) = e.plain
      <3>1. e.folded # NullOpt => e.folded = e.plain
        <4> HIDE DEF l, r
        <4> QED
          BY <2>1, <2>2, <2>5, <2>7, FoldedBinary
      <3> QED
        BY <2>2, <2>5, <2>6, <2>7, <3>1
    <2> HIDE DEF e, l, r
    <2>8. /\ original'.status = "running" => original.status = "running"
          /\ original'.env = original.env /\ original'.result = original.result
      BY <1>0, <2>2 DEF Perform, Runs
    <2>9. FoldsAreTrue'
      <3>1. 2 \in 0 .. Len(operands)
        BY <1>0, <2>1
      <3> QED
        BY <2>2, <2>3, <2>7, <2>8, <3>1, TrueNode DEF SoundInv
    <2>10. KnownIsCurrent'
      BY <2>2, <2>4, <2>8 DEF SoundInv, KnownIsCurrent
    <2>11. ~misled => /\ optimized.status = original.status
                      /\ optimized.errors = original.errors
                      /\ optimized.result = original.result
                      /\ original.status = "running" => optimized.env = original.env
      BY <2>4 DEF SoundInv, Mirrors, Running
    <2>12. Mirrors'
      <3> SUFFICES ASSUME ~misled, ~crashed'
                   PROVE  /\ optimized'.status = original'.status
                          /\ optimized'.errors = original'.errors
                          /\ optimized'.result = original'.result
                          /\ original'.status = "running" =>
                                optimized'.env = original'.env
        BY <2>2 DEF Mirrors, Running
      <3>1. CASE original.status = "running"
        <4>1. optimized' = Perform(optimized, op, l.plain, r.plain)
          BY <2>2, <2>5, <3>1
        <4> QED
          BY <1>0, <2>2, <2>11, <3>1, <4>1 DEF Perform, Runs
      <3>2. CASE original.status # "running"
        BY <2>2, <2>11, <3>2 DEF Perform
      <3> QED
        BY <3>1, <3>2
    <2>13. OptimizedAgrees'
      <3> SUFFICES ASSUME crashed', ~misled, original.status = "running"
                   PROVE  optimized'.status = "trapped" /\ original'.status = "trapped"
        BY <2>2, <2>4 DEF OptimizedAgrees
      <3>1. Traps(op, l.plain, r.plain)
        <4>1. Traps(op, l.folded, r.folded)
          BY <2>2
        <4>2. -Half # NullOpt /\ -1 # NullOpt
          <5>1. -Half \in Int /\ -1 \in Int
            BY WidthAssumption
          <5> QED
            BY <5>1, WidthAssumption
        <4>3. l.folded = -Half /\ r.folded = -1
          BY <4>1 DEF Traps
        <4>4. l.folded # NullOpt /\ r.folded # NullOpt
          BY <4>2, <4>3
        <4> QED
          BY <2>5, <4>1, <4>4
      <3>2. ~DividesByZero(op, l.plain, r.plain)
        BY <3>1 DEF Traps, DividesByZero
      <3> QED
        BY <1>0, <2>2, <3>1, <3>2 DEF Perform, Runs
    <2> QED
      BY <2>4, <2>9, <2>10, <2>12, <2>13 DEF SoundInv
  <1>6. ASSUME NEW x \in Identifiers, AssignmentStatement(x) PROVE SoundInv'
    BY <1>6, SoundAssignment
  <1>7. CASE ReturnStatement
    BY <1>7, SoundReturn
  <1> QED
    BY <1>1, <1>2, <1>3, <1>4, <1>5, <1>6, <1>7 DEF Next

\* The three conjuncts hold together or not at all.
LEMMA SoundAlways == Spec => []SoundInv
  <1>1. Spec => [](TypeOK /\ ReportInv)
    <2>1. TypeOK /\ ReportInv /\ [Next]_vars => (TypeOK /\ ReportInv)'
      BY TypeStep, ReportStep
    <2> QED
      BY <2>1, TypeInit, ReportInit, PTL DEF Spec
  <1> QED
    BY <1>1, SoundInit, SoundStep, PTL DEF Spec

\* For every body and every argument list, what the visitor believes of an
\* identifier that it does not know to be overwritten is true at run time.
THEOREM KnowledgeIsCurrent == Spec => []KnownIsCurrent
  <1>1. SoundInv => KnownIsCurrent
    BY DEF SoundInv
  <1> QED
    BY <1>1, SoundAlways, PTL

\* A folded subtree computes what it computed before, at every width.
THEOREM FoldingIsTrue == Spec => []FoldsAreTrue
  <1>1. SoundInv => FoldsAreTrue
    BY DEF SoundInv
  <1> QED
    BY <1>1, SoundAlways, PTL

\* An optimized function behaves as the written one, traps included, unless
\* the visitor read an outdated constant, removed a statement that failed or
\* trapped, or trapped itself at a division that the written function does not
\* reach: it has no fourth way of changing what a function does.
THEOREM OptimizationIsSound == Spec => []OptimizedAgrees
  <1>1. SoundInv => OptimizedAgrees
    BY DEF SoundInv
  <1> QED
    BY <1>1, SoundAlways, PTL

=============================================================================
