------------------------- MODULE AbstractTreeProofs -------------------------
(***************************************************************************)
(* Theorems about module AbstractTree, for texts of every length: the AST  *)
(* made of the parse tree is the meaning of the text.  The invariant gives *)
(* every node the part of the text it stands for; the children of a node   *)
(* are those of one of the finished stages of its class; the value of an   *)
(* expression follows by induction on the length of its part, the one of   *)
(* the function by induction on its statements.                            *)
(***************************************************************************)
EXTENDS AbstractTree, ParseTreeProofs, FiniteSetTheorems

-----------------------------------------------------------------------------
(* Where the parentheses and operators of a part of the text are.          *)

\* How often t is the token at f .. i - 1.
Count(t, f, i) == Cardinality({j \in f .. i - 1 : text[j] = t})

\* What is counted up to i is counted up to g and from g on.
LEMMA CountIs ==
  ASSUME NEW t, NEW f \in Nat, NEW g \in Nat, NEW i \in Nat, f <= g, g <= i
  PROVE  /\ Count(t, f, i) \in Nat
         /\ Count(t, f, i) = Count(t, f, g) + Count(t, g, i)
  <1> DEFINE All(a, b) == {j \in a .. b - 1 : text[j] = t}
  <1>1. ASSUME NEW a \in Nat, NEW b \in Nat
        PROVE  IsFiniteSet(All(a, b)) /\ Cardinality(All(a, b)) \in Nat
    <2>1. IsFiniteSet(a .. b - 1)
      BY FS_Interval
    <2>2. All(a, b) \in SUBSET (a .. b - 1)
      OBVIOUS
    <2>3. IsFiniteSet(All(a, b))
      BY <2>1, <2>2, FS_Subset
    <2> QED
      BY <2>3, FS_CardinalityType
  <1>2. All(f, i) = All(f, g) \cup All(g, i) /\ All(f, g) \cap All(g, i) = {}
    <2>1. \A j : j \in f .. i - 1 <=> j \in f .. g - 1 \/ j \in g .. i - 1
      OBVIOUS
    <2>2. \A j : ~(j \in f .. g - 1 /\ j \in g .. i - 1)
      OBVIOUS
    <2> QED
      BY <2>1, <2>2
  <1> HIDE DEF All
  <1>3. Cardinality(All(f, g) \cup All(g, i)) =
           Cardinality(All(f, g)) + Cardinality(All(g, i)) - Cardinality(All(f, g) \cap All(g, i))
    BY <1>1, FS_Union
  <1>4. Cardinality(All(f, g) \cap All(g, i)) = 0
    BY <1>2, FS_EmptySet
  <1>5. Cardinality(All(f, i)) = Cardinality(All(f, g)) + Cardinality(All(g, i))
    BY <1>1, <1>2, <1>3, <1>4
  <1>6. \A a, b : Count(t, a, b) = Cardinality(All(a, b))
    BY DEF Count, All
  <1> QED
    BY <1>1, <1>5, <1>6

\* Nothing is at no place, and one place has t or has not.
LEMMA CountOne ==
  ASSUME NEW t, NEW i \in Nat
  PROVE  /\ Count(t, i, i) = 0
         /\ text[i] = t => Count(t, i, i + 1) = 1
         /\ text[i] # t => Count(t, i, i + 1) = 0
  <1>1. {j \in i .. i - 1 : text[j] = t} = {}
    OBVIOUS
  <1>2. text[i] = t => {j \in i .. (i + 1) - 1 : text[j] = t} = {i}
    <2>1. i .. (i + 1) - 1 = {i}
      OBVIOUS
    <2> QED
      BY <2>1
  <1>3. text[i] # t => {j \in i .. (i + 1) - 1 : text[j] = t} = {}
    <2>1. i .. (i + 1) - 1 = {i}
      OBVIOUS
    <2> QED
      BY <2>1
  <1> QED
    BY <1>1, <1>2, <1>3, FS_EmptySet, FS_Singleton DEF Count

\* Parentheses open up to i are those open up to g and those opened from there.
LEMMA DepthIs ==
  ASSUME NEW f \in Nat, NEW g \in Nat, NEW i \in Nat, f <= g, g <= i
  PROVE  Depth(f, i) \in Int /\ Depth(f, i) = Depth(f, g) + Depth(g, i)
  <1>1. \A a, b : Depth(a, b) = Count("(", a, b) - Count(")", a, b)
    BY DEF Depth, Count
  <1>2. /\ Count("(", f, i) \in Nat /\ Count(")", f, i) \in Nat
        /\ Count("(", f, i) = Count("(", f, g) + Count("(", g, i)
        /\ Count(")", f, i) = Count(")", f, g) + Count(")", g, i)
    BY CountIs
  <1>3. /\ Count("(", f, g) \in Nat /\ Count(")", f, g) \in Nat
        /\ Count("(", g, i) \in Nat /\ Count(")", g, i) \in Nat
    <2>1. f <= f /\ i <= i /\ g <= g
      OBVIOUS
    <2> QED
      BY <2>1, CountIs
  <1> QED
    BY <1>1, <1>2, <1>3

\* A parenthesis opens or closes one level, another token none.
LEMMA DepthOne ==
  ASSUME NEW i \in Nat
  PROVE  /\ Depth(i, i) = 0
         /\ text[i] = "(" => Depth(i, i + 1) = 1
         /\ text[i] = ")" => Depth(i, i + 1) = -1
         /\ text[i] \notin {"(", ")"} => Depth(i, i + 1) = 0
  <1>1. \A a, b : Depth(a, b) = Count("(", a, b) - Count(")", a, b)
    BY DEF Depth, Count
  <1>2. "(" # ")"
    OBVIOUS
  <1> QED
    BY <1>1, <1>2, CountOne

\* What an operator follows.
Operands == {"identifier", "literal", ")"}

\* The tokens after a up to b close what they open, and are followed by no
\* operand.
Whole(a, b) ==
    /\ a \in Nat /\ b \in Nat /\ a < b /\ b <= Len(text)
    /\ \A i \in a + 1 .. b + 1 : Depth(a + 1, i) >= 0
    /\ Depth(a + 1, b + 1) = 0
    /\ text[b] \in Operands

\* No operator of ops is outside the parentheses of the part of a and b.
Unsplit(a, b, ops) == Splits(a + 1, b, ops) = {}

\* The first operator of ops outside the parentheses of that part is at i.
SplitAt(a, b, ops, i) == Splits(a + 1, b, ops) # {} /\ Min(Splits(a + 1, b, ops)) = i

\* The operators of an AdditiveExpression.
Sums == {"+", "-"}
\* The operators of a MultiplicativeExpression.
Products == {"*", "/"}

\* A single token.
LEMMA LeafRead ==
  ASSUME NEW a \in Nat, a + 1 <= Len(text), text[a + 1] \in {"identifier", "literal"}, Len(text) \in Nat
  PROVE  Whole(a, a + 1) /\ \A ops : Unsplit(a, a + 1, ops)
  <1>1. Depth(a + 1, a + 1) = 0 /\ Depth(a + 1, (a + 1) + 1) = 0
    BY DepthOne
  <1>2. \A i \in a + 1 .. (a + 1) + 1 : i = a + 1 \/ i = (a + 1) + 1
    OBVIOUS
  <1>3. Whole(a, a + 1)
    BY <1>1, <1>2 DEF Whole, Operands
  <1>4. (a + 1) + 1 .. a + 1 = {}
    OBVIOUS
  <1> QED
    BY <1>3, <1>4 DEF Unsplit, Splits

\* A part in parentheses.
LEMMA ParenRead ==
  ASSUME NEW a \in Nat, NEW b \in Nat, NEW c, b = c + 1, Whole(a + 1, c),
         text[a + 1] = "(", text[b] = ")",
         b <= Len(text), Len(text) \in Nat
  PROVE  Whole(a, b) /\ \A ops : Unsplit(a, b, ops)
  <1>1. /\ c \in Nat /\ a + 1 < c
        /\ \A i \in (a + 1) + 1 .. b : Depth((a + 1) + 1, i) >= 0
        /\ Depth((a + 1) + 1, b) = 0
    BY DEF Whole
  <1>2. Depth(a + 1, (a + 1) + 1) = 1 /\ Depth(a + 1, a + 1) = 0
    BY DepthOne
  <1>3. ASSUME NEW i \in (a + 1) + 1 .. b
        PROVE  Depth(a + 1, i) >= 1 /\ Depth(a + 1, i) \in Int
               /\ Depth(a + 1, i) = 1 + Depth((a + 1) + 1, i)
    <2>1. i \in Nat /\ (a + 1) + 1 <= i /\ a + 1 <= (a + 1) + 1 /\ i <= i
      OBVIOUS
    <2>2. Depth((a + 1) + 1, i) \in Int
      BY <2>1, DepthIs
    <2> QED
      BY <1>1, <1>2, <2>1, <2>2, DepthIs
  <1>4. Depth(a + 1, b + 1) = 0
    <2>1. b \in (a + 1) + 1 .. b /\ a + 1 <= b /\ b <= b + 1
      BY <1>1
    <2>2. Depth(a + 1, b) = 1
      BY <1>1, <1>3, <2>1
    <2>3. Depth(b, b + 1) = -1
      BY DepthOne
    <2>4. Depth(a + 1, b + 1) = Depth(a + 1, b) + Depth(b, b + 1)
      BY <2>1, DepthIs
    <2> QED
      BY <2>2, <2>3, <2>4
  <1>5. Whole(a, b)
    <2>1. ASSUME NEW i \in a + 1 .. b + 1
          PROVE  Depth(a + 1, i) >= 0
      <3>1. i = a + 1 \/ i = b + 1 \/ i \in (a + 1) + 1 .. b
        OBVIOUS
      <3> QED
        BY <1>2, <1>3, <1>4, <3>1
    <2>2. a < b /\ text[b] \in Operands
      BY <1>1 DEF Operands
    <2> QED
      BY <1>4, <2>1, <2>2 DEF Whole
  <1>6. ASSUME NEW ops
        PROVE  Unsplit(a, b, ops)
    <2>1. \A i \in (a + 1) + 1 .. b : Depth(a + 1, i) # 0
      BY <1>3
    <2> QED
      BY <2>1 DEF Unsplit, Splits
  <1> QED
    BY <1>5, <1>6

\* A token that is no parenthesis before or between parts.
LEMMA SkipOne ==
  ASSUME NEW p \in Nat, text[p] \notin {"(", ")"}, NEW i \in Nat, p + 1 <= i
  PROVE  Depth(p, i) = Depth(p + 1, i) /\ Depth(p + 1, i) \in Int
  <1>1. Depth(p, p + 1) = 0 /\ p <= p + 1 /\ i <= i /\ p + 1 \in Nat
    BY DepthOne
  <1>2. Depth(p + 1, i) \in Int
    BY <1>1, DepthIs
  <1>3. Depth(p, i) = Depth(p, p + 1) + Depth(p + 1, i)
    BY <1>1, DepthIs
  <1> QED
    BY <1>1, <1>2, <1>3

\* A sign and a part.
LEMMA SignRead ==
  ASSUME NEW a \in Nat, NEW b, Whole(a + 1, b), text[a + 1] \in Sums
  PROVE  /\ Whole(a, b)
         /\ \A ops : Unsplit(a + 1, b, ops) => Unsplit(a, b, ops)
  <1>1. /\ b \in Nat /\ a + 1 < b /\ b <= Len(text)
        /\ \A i \in (a + 1) + 1 .. b + 1 : Depth((a + 1) + 1, i) >= 0
        /\ Depth((a + 1) + 1, b + 1) = 0
        /\ text[b] \in Operands
    BY DEF Whole
  <1>2. Depth(a + 1, a + 1) = 0
    BY DepthOne
  <1>3. ASSUME NEW i \in (a + 1) + 1 .. b + 1
        PROVE  Depth(a + 1, i) = Depth((a + 1) + 1, i)
    BY SkipOne DEF Sums
  <1>4. Whole(a, b)
    <2>1. ASSUME NEW i \in a + 1 .. b + 1
          PROVE  Depth(a + 1, i) >= 0
      <3>1. i = a + 1 \/ i \in (a + 1) + 1 .. b + 1
        OBVIOUS
      <3> QED
        BY <1>1, <1>2, <1>3, <3>1
    <2>2. b + 1 \in (a + 1) + 1 .. b + 1 /\ a < b
      BY <1>1
    <2> QED
      BY <1>1, <1>3, <2>1, <2>2 DEF Whole
  <1>5. ASSUME NEW ops, Unsplit(a + 1, b, ops)
        PROVE  Unsplit(a, b, ops)
    <2> SUFFICES ASSUME NEW i \in (a + 1) + 1 .. b, text[i] \in ops, Depth(a + 1, i) = 0,
                        text[i - 1] \in {"identifier", "literal", ")"}
                 PROVE  FALSE
      BY DEF Unsplit, Splits
    <2>1. i # (a + 1) + 1
      <3>1. i = (a + 1) + 1 => i - 1 = a + 1
        OBVIOUS
      <3> QED
        BY <3>1 DEF Sums
    <2>2. i \in ((a + 1) + 1) + 1 .. b /\ i \in (a + 1) + 1 .. b + 1
      BY <1>1, <2>1
    <2>3. Depth((a + 1) + 1, i) = 0
      BY <1>3, <2>2
    <2> QED
      BY <1>5, <2>2, <2>3 DEF Unsplit, Splits
  <1> QED
    BY <1>4, <1>5

\* Two parts and an operator at i between them.
LEMMA BinaryRead ==
  ASSUME NEW a, NEW i \in Nat, NEW h, i = h + 1, NEW b, Whole(a, h), Whole(i, b),
         text[i] \in Sums \cup Products
  PROVE  /\ Whole(a, b)
         /\ \A ops : /\ Unsplit(a, h, ops) /\ text[i] \in ops => SplitAt(a, b, ops, i)
                     /\ Unsplit(a, h, ops) /\ Unsplit(i, b, ops) /\ text[i] \notin ops =>
                           Unsplit(a, b, ops)
  <1>1. /\ a \in Nat /\ h \in Nat /\ a < h
        /\ \A j \in a + 1 .. i : Depth(a + 1, j) >= 0
        /\ Depth(a + 1, i) = 0 /\ text[h] \in Operands
    BY DEF Whole
  <1>2. /\ b \in Nat /\ i < b /\ b <= Len(text)
        /\ \A j \in i + 1 .. b + 1 : Depth(i + 1, j) >= 0
        /\ Depth(i + 1, b + 1) = 0 /\ text[b] \in Operands
    BY DEF Whole
  <1>3. text[i] \notin {"(", ")"} /\ text[i] \notin Operands
    BY DEF Sums, Products, Operands
  <1>4. ASSUME NEW j \in i + 1 .. b + 1
        PROVE  Depth(a + 1, j) = Depth(i + 1, j)
    <2>1. j \in Nat /\ i + 1 <= j /\ a + 1 <= i /\ i <= j /\ a + 1 \in Nat
      BY <1>1
    <2>2. Depth(a + 1, j) = Depth(a + 1, i) + Depth(i, j)
      BY <2>1, DepthIs
    <2>3. Depth(i, j) = Depth(i + 1, j) /\ Depth(i + 1, j) \in Int
      BY <1>3, <2>1, SkipOne
    <2> QED
      BY <1>1, <2>2, <2>3
  <1>5. Whole(a, b)
    <2>1. ASSUME NEW j \in a + 1 .. b + 1
          PROVE  Depth(a + 1, j) >= 0
      <3>1. j \in a + 1 .. i \/ j \in i + 1 .. b + 1
        BY <1>1, <1>2
      <3> QED
        BY <1>1, <1>2, <1>4, <3>1
    <2>2. b + 1 \in i + 1 .. b + 1 /\ a < b
      BY <1>1, <1>2
    <2> QED
      BY <1>1, <1>2, <1>4, <2>1, <2>2 DEF Whole
  \* A split of the whole is one of a part, or the operator.
  <1>6. ASSUME NEW ops, NEW j \in Splits(a + 1, b, ops), Unsplit(a, h, ops)
        PROVE  /\ j \in Nat /\ (j = i \/ j > i)
               /\ j # i => ~Unsplit(i, b, ops)
               /\ j = i => text[i] \in ops
    <2>1. /\ j \in (a + 1) + 1 .. b /\ text[j] \in ops /\ Depth(a + 1, j) = 0
          /\ text[j - 1] \in Operands
      BY DEF Splits, Operands
    <2>2. ~(j < i)
      <3> SUFFICES ASSUME j < i PROVE FALSE
        OBVIOUS
      <3>1. j \in (a + 1) + 1 .. h
        BY <1>1, <2>1
      <3> QED
        BY <1>6, <2>1, <3>1 DEF Unsplit, Splits, Operands
    <2>3. ASSUME j # i
          PROVE  ~Unsplit(i, b, ops)
      <3>1. j # i + 1
        <4>1. j = i + 1 => j - 1 = i
          OBVIOUS
        <4> QED
          BY <1>3, <2>1, <4>1
      <3>2. j \in (i + 1) + 1 .. b /\ j \in i + 1 .. b + 1
        BY <1>1, <1>2, <2>1, <2>2, <2>3, <3>1
      <3>3. Depth(i + 1, j) = 0
        BY <1>4, <2>1, <3>2
      <3> QED
        BY <2>1, <3>2, <3>3 DEF Unsplit, Splits, Operands
    <2> QED
      BY <1>1, <2>1, <2>2, <2>3
  <1>7. ASSUME NEW ops, Unsplit(a, h, ops), text[i] \in ops
        PROVE  SplitAt(a, b, ops, i)
    <2> DEFINE S == Splits(a + 1, b, ops)
    <2>1. i \in S
      <3>1. i \in (a + 1) + 1 .. b /\ i - 1 = h
        BY <1>1, <1>2
      <3> QED
        BY <1>1, <1>7, <3>1 DEF Splits, Operands
    <2>2. \A j \in S : j \in Nat /\ i <= j
      BY <1>6, <1>7
    <2> HIDE DEF S
    <2>3. \A x \in S : (\A y \in S : x <= y) => x = i
      BY <2>1, <2>2
    <2>4. Min(S) = i
      <3>1. Min(S) \in S /\ \A y \in S : Min(S) <= y
        BY <2>1, <2>2 DEF Min
      <3> QED
        BY <2>3, <3>1
    <2> QED
      BY <2>1, <2>4 DEF S, SplitAt
  <1>8. ASSUME NEW ops, Unsplit(a, h, ops), Unsplit(i, b, ops), text[i] \notin ops
        PROVE  Unsplit(a, b, ops)
    BY <1>6, <1>8 DEF Unsplit
  <1> QED
    BY <1>5, <1>7, <1>8

-----------------------------------------------------------------------------
(* What is made step by step.                                              *)

\* The next step of each recursion of AbstractTree; with is what stays.
Continuation(of, with, i, before) ==
    CASE of = "expressions" -> Analyzed(with, before)
      [] of = "meanings" -> Longer(before)
      [] of = "statements" -> AddStatement(before, with[1][i], with[2])
      [] of = "body" -> EndAt(before, with[1], i, with[2])

\* f is the function of the recursion up to n.
Levels(f, of, with, n) ==
    f = [i \in 0 .. n |-> IF i = 0 THEN <<>> ELSE Continuation(of, with, i, f[i - 1])]

\* Such a function exists: each one up to i has a longer one.
LEMMA LevelsExist ==
  ASSUME NEW of, NEW with, NEW n \in Nat
  PROVE  \E f : Levels(f, of, with, n)
  <1> DEFINE S == {m \in 0 .. n : \E f : Levels(f, of, with, m)}
  <1>1. 0 \in S
    <2> DEFINE z == [i \in 0 .. 0 |-> <<>>]
    <2>1. z = [i \in 0 .. 0 |-> IF i = 0 THEN <<>> ELSE Continuation(of, with, i, z[i - 1])]
      OBVIOUS
    <2> HIDE DEF z
    <2>2. Levels(z, of, with, 0) /\ 0 \in 0 .. n
      BY <2>1 DEF Levels
    <2> QED
      BY <2>2
  <1>2. ASSUME NEW m \in 0 .. n - 1, m \in S
        PROVE  m + 1 \in S
    <2>1. PICK f : Levels(f, of, with, m)
      BY <1>2
    <2> DEFINE v == Continuation(of, with, m + 1, f[m])
               g == [i \in 0 .. m + 1 |-> IF i = m + 1 THEN v ELSE f[i]]
               h == [i \in 0 .. m + 1 |->
                        IF i = 0 THEN <<>> ELSE Continuation(of, with, i, g[i - 1])]
    <2>2. /\ f[0] = <<>>
          /\ \A i \in 1 .. m : f[i] = Continuation(of, with, i, f[i - 1])
      <3>1. 0 \in 0 .. m /\ \A i \in 1 .. m : i \in 0 .. m /\ i # 0
        OBVIOUS
      <3> QED
        BY <2>1, <3>1 DEF Levels
    <2>3. /\ m \in Nat /\ m \in 0 .. m /\ m + 1 \in 0 .. m + 1 /\ (m + 1) - 1 = m
          /\ 0 \in 0 .. m /\ m + 1 \in 0 .. n
      OBVIOUS
    <2>4. /\ \A i \in 0 .. m : g[i] = f[i]
          /\ g[m + 1] = v
      <3> HIDE DEF v
      <3>1. \A i \in 0 .. m : i \in 0 .. m + 1 /\ i # m + 1
        BY <2>3
      <3> QED
        BY <2>3, <3>1
    <2>5. \A i \in 0 .. m + 1 : g[i] = h[i]
      <3> TAKE i \in 0 .. m + 1
      <3>1. i - 1 \in 0 .. m \/ i = 0
        BY <2>3
      <3>2. i = m + 1 \/ i = 0 \/ i \in 1 .. m
        BY <2>3
      <3>3. CASE i = 0
        <4>1. h[i] = <<>>
          BY <3>3
        <4> HIDE DEF g, h
        <4> QED
          BY <2>2, <2>3, <2>4, <3>3, <4>1
      <3>4. CASE i = m + 1
        <4>1. h[i] = Continuation(of, with, i, g[i - 1])
          BY <2>3, <3>4
        <4> HIDE DEF g, h
        <4>2. g[i - 1] = f[m]
          BY <2>3, <2>4, <3>4
        <4> QED
          BY <2>4, <3>4, <4>1, <4>2
      <3>5. CASE i \in 1 .. m
        <4>1. h[i] = Continuation(of, with, i, g[i - 1])
          BY <2>3, <3>5
        <4> HIDE DEF g, h
        <4>2. g[i - 1] = f[i - 1] /\ g[i] = f[i]
          BY <2>3, <2>4, <3>5
        <4> QED
          BY <2>2, <3>5, <4>1, <4>2
      <3> QED
        BY <3>2, <3>3, <3>4, <3>5
    <2>6. g = h
      BY <2>5
    <2>7. Levels(g, of, with, m + 1)
      BY <2>6 DEF Levels
    <2> QED
      BY <2>3, <2>7
  <1> HIDE DEF S
  <1>3. 0 .. n \subseteq S
    BY <1>1, <1>2, BoundedInduction
  <1> QED
    BY <1>3 DEF S

\* What the first step and each further one give.
Climbs(f, of, with, n) ==
    /\ f[0] = <<>>
    /\ \A i \in 1 .. n : f[i] = Continuation(of, with, i, f[i - 1])

\* Its values follow from each other.
LEMMA LevelsClimb ==
  ASSUME NEW f, NEW of, NEW with, NEW n \in Nat, Levels(f, of, with, n)
  PROVE  Climbs(f, of, with, n)
  <1>1. 0 \in 0 .. n /\ \A i \in 1 .. n : i \in 0 .. n /\ i # 0
    OBVIOUS
  <1>2. \A i \in 0 .. n : f[i] = IF i = 0 THEN <<>> ELSE Continuation(of, with, i, f[i - 1])
    BY DEF Levels
  <1> QED
    BY <1>1, <1>2 DEF Climbs

\* What an expression is made from.
LEMMA ExpressionsClimb ==
  ASSUME NEW nodes, Len(text) \in Nat
  PROVE  \E f : f[Len(text)] = AnalyzeExpression(nodes) /\ Climbs(f, "expressions", nodes, Len(text))
  <1> DEFINE Is(g) == g = [i \in 0 .. Len(text) |->
                             IF i = 0 THEN <<>> ELSE Analyzed(nodes, g[i - 1])]
             f == CHOOSE g : Is(g)
  <1>1. AnalyzeExpression(nodes) = f[Len(text)]
    BY Zenon DEF AnalyzeExpression
  <1>2. \A i, b : Continuation("expressions", nodes, i, b) = Analyzed(nodes, b)
    BY DEF Continuation
  <1>3. \A g : Levels(g, "expressions", nodes, Len(text)) <=> Is(g)
    <2> TAKE g
    <2>1. [i \in 0 .. Len(text) |->
              IF i = 0 THEN <<>> ELSE Continuation("expressions", nodes, i, g[i - 1])]
          = [i \in 0 .. Len(text) |-> IF i = 0 THEN <<>> ELSE Analyzed(nodes, g[i - 1])]
      BY <1>2
    <2> QED
      BY <2>1 DEF Levels
  <1> HIDE DEF Is
  <1>4. \E g : Is(g)
    BY <1>3, LevelsExist
  <1>5. Is(f)
    BY <1>4, Zenon
  <1> HIDE DEF f
  <1> QED
    BY <1>1, <1>3, <1>5, LevelsClimb

\* What the text means, by the length of its parts.
LEMMA MeaningsClimb ==
  ASSUME Len(text) \in Nat
  PROVE  \E f : f[Len(text)] = Meanings /\ Climbs(f, "meanings", <<>>, Len(text))
  <1> DEFINE Is(g) == g = [i \in 0 .. Len(text) |->
                             IF i = 0 THEN <<>> ELSE Longer(g[i - 1])]
             f == CHOOSE g : Is(g)
             w == <<>>
  <1>1. Meanings = f[Len(text)]
    BY Zenon DEF Meanings
  <1>2. \A i, b : Continuation("meanings", w, i, b) = Longer(b)
    BY DEF Continuation
  <1> HIDE DEF w
  <1>3. \A g : Levels(g, "meanings", w, Len(text)) <=> Is(g)
    <2> TAKE g
    <2>1. [i \in 0 .. Len(text) |->
              IF i = 0 THEN <<>> ELSE Continuation("meanings", w, i, g[i - 1])]
          = [i \in 0 .. Len(text) |-> IF i = 0 THEN <<>> ELSE Longer(g[i - 1])]
      BY <1>2
    <2> QED
      BY <2>1 DEF Levels
  <1> HIDE DEF Is
  <1>4. \E g : Is(g)
    BY <1>3, LevelsExist
  <1>5. Is(f)
    BY <1>4, Zenon
  <1> HIDE DEF f
  <1> QED
    BY <1>1, <1>3, <1>5, LevelsClimb DEF w

\* What the list of statements is made from.
LEMMA StatementsClimb ==
  ASSUME NEW list, NEW expressions, Len(list) \in Nat
  PROVE  \E f : /\ f[Len(list)] = Statements(list, expressions)
                /\ Climbs(f, "statements", <<list, expressions>>, Len(list))
  <1> DEFINE Is(g) == g = [i \in 0 .. Len(list) |->
                             IF i = 0 THEN <<>> ELSE AddStatement(g[i - 1], list[i], expressions)]
             f == CHOOSE g : Is(g)
             w == <<list, expressions>>
  <1>1. Statements(list, expressions) = f[Len(list)]
    BY Zenon DEF Statements
  <1>2. \A i, b : Continuation("statements", w, i, b) = AddStatement(b, list[i], expressions)
    BY DEF Continuation
  <1> HIDE DEF w
  <1>3. \A g : Levels(g, "statements", w, Len(list)) <=> Is(g)
    <2> TAKE g
    <2>1. [i \in 0 .. Len(list) |->
              IF i = 0 THEN <<>> ELSE Continuation("statements", w, i, g[i - 1])]
          = [i \in 0 .. Len(list) |->
              IF i = 0 THEN <<>> ELSE AddStatement(g[i - 1], list[i], expressions)]
      BY <1>2
    <2> QED
      BY <2>1 DEF Levels
  <1> HIDE DEF Is
  <1>4. \E g : Is(g)
    BY <1>3, LevelsExist
  <1>5. Is(f)
    BY <1>4, Zenon
  <1> HIDE DEF f
  <1> QED
    BY <1>1, <1>3, <1>5, LevelsClimb DEF w

\* What the text between BEGIN and END means.
LEMMA BodyClimbs ==
  ASSUME NEW begin, NEW meanings, Len(text) \in Nat
  PROVE  \E f : /\ f[Len(text)] = BodyMeaning(begin, meanings)
                /\ Climbs(f, "body", <<begin, meanings>>, Len(text))
  <1> DEFINE Is(g) == g = [i \in 0 .. Len(text) |->
                             IF i = 0 THEN <<>> ELSE EndAt(g[i - 1], begin, i, meanings)]
             f == CHOOSE g : Is(g)
             w == <<begin, meanings>>
  <1>1. BodyMeaning(begin, meanings) = f[Len(text)]
    BY Zenon DEF BodyMeaning
  <1>2. \A i, b : Continuation("body", w, i, b) = EndAt(b, begin, i, meanings)
    BY DEF Continuation
  <1> HIDE DEF w
  <1>3. \A g : Levels(g, "body", w, Len(text)) <=> Is(g)
    <2> TAKE g
    <2>1. [i \in 0 .. Len(text) |->
              IF i = 0 THEN <<>> ELSE Continuation("body", w, i, g[i - 1])]
          = [i \in 0 .. Len(text) |-> IF i = 0 THEN <<>> ELSE EndAt(g[i - 1], begin, i, meanings)]
      BY <1>2
    <2> QED
      BY <2>1 DEF Levels
  <1> HIDE DEF Is
  <1>4. \E g : Is(g)
    BY <1>3, LevelsExist
  <1>5. Is(f)
    BY <1>4, Zenon
  <1> HIDE DEF f
  <1> QED
    BY <1>1, <1>3, <1>5, LevelsClimb DEF w

-----------------------------------------------------------------------------
(* What kinds of children a node has, and which blocks are left.           *)

\* A node is known by its class, a token by itself.
Label(node) == IF node.class = "GenericToken" THEN node.token ELSE node.class
Pattern(nodes) == [i \in DOMAIN nodes |-> Label(nodes[i])]
Labels == Classes \cup Tokens \cup {NoToken}

\* A node of these classes holds a token.
Leafs == Terminals \cup {"GenericToken"}

\* Sums and products.
OperatorStage(left, ops, right, p, r) ==
    \/ p = <<>> /\ r = <<Need(left), Continue(ops, right)>>
    \/ p = <<left>> /\ r = <<Continue(ops, right)>>
    \/ p = <<left>> /\ r = <<>>
    \/ \E o \in ops : p = <<left, o>> /\ r = <<Need(right)>>
    \/ \E o \in ops : p = <<left, o, right>> /\ r = <<>>

\* What is there and what is to come of a UnaryExpression.
UnaryStage(p, r) ==
    \/ p = <<>> /\ r = UnaryExpression
    \/ p = <<>> /\ r = <<Need("PrimaryExpression")>>
    \/ p = <<"PrimaryExpression">> /\ r = <<>>
    \/ \E o \in {"+", "-"} : p = <<o>> /\ r = <<Need("PrimaryExpression")>>
    \/ \E o \in {"+", "-"} : p = <<o, "PrimaryExpression">> /\ r = <<>>

\* The same of a PrimaryExpression: a leaf, or a sum in parentheses.
PrimaryStage(p, r) ==
    \/ p = <<>> /\ r = PrimaryExpression
    \/ \E c \in Terminals : p = <<>> /\ r = <<Need(c)>>
    \/ \E c \in Terminals : p = <<c>> /\ r = <<>>
    \/ p = <<>> /\ r = <<Expect("("), Need("AdditiveExpression"), Expect(")")>>
    \/ p = <<"(">> /\ r = <<Need("AdditiveExpression"), Expect(")")>>
    \/ p = <<"(", "AdditiveExpression">> /\ r = <<Expect(")")>>
    \/ p = <<"(", "AdditiveExpression", ")">> /\ r = <<>>

\* The same of a Statement: an assignment, or RETURN and a sum.
StatementStage(p, r) ==
    \/ p = <<>> /\ r = Statement
    \/ p = <<>> /\ r = <<Need("AssignmentExpression")>>
    \/ p = <<"AssignmentExpression">> /\ r = <<>>
    \/ p = <<>> /\ r = <<Expect("RETURN"), Need("AdditiveExpression")>>
    \/ p = <<"RETURN">> /\ r = <<Need("AdditiveExpression")>>
    \/ p = <<"RETURN", "AdditiveExpression">> /\ r = <<>>

\* The same of an AssignmentExpression.
AssignmentStage(p, r) ==
    \/ p = <<>> /\ r = AssignmentExpression
    \/ p = <<"Identifier">> /\ r = <<Expect(":="), Need("AdditiveExpression")>>
    \/ p = <<"Identifier", ":=">> /\ r = <<Need("AdditiveExpression")>>
    \/ p = <<"Identifier", ":=", "AdditiveExpression">> /\ r = <<>>

\* The same of a CompoundStatement.
CompoundStage(p, r) ==
    \/ p = <<>> /\ r = CompoundStatement
    \/ p = <<"BEGIN">> /\ r = <<Need("StatementList"), Expect("END")>>
    \/ p = <<"BEGIN", "StatementList">> /\ r = <<Expect("END")>>
    \/ p = <<"BEGIN", "StatementList", "END">> /\ r = <<>>

\* Statements and semicolons take turns.
TakeTurns(p) ==
    /\ \A i \in 1 .. Len(p) : p[i] \in {"Statement", ";"}
    /\ Len(p) > 0 => p[1] = "Statement"
    /\ \A i \in 1 .. Len(p) - 1 : p[i] # p[i + 1]

\* The same of a StatementList, which repeats.
ListStage(p, r) ==
    /\ TakeTurns(p)
    /\ \/ p = <<>> /\ r = StatementList
       \/ Len(p) > 0 /\ p[Len(p)] = "Statement" /\ r = <<Repeat(";", "Statement")>>
       \/ Len(p) > 0 /\ p[Len(p)] = "Statement" /\ r = <<>>
       \/ /\ Len(p) > 0 /\ p[Len(p)] = ";"
          /\ r = <<Need("Statement"), Repeat(";", "Statement")>>

\* The first ones are declarations.
Declare(p, k) == k \in 0 .. Len(p) /\ \A i \in 1 .. k : p[i] \in Declarations

\* The same of the FunctionDeclaration, whose declarations are optional.
FunctionStage(p, r) ==
    \/ /\ Declare(p, Len(p))
       /\ \/ r = FunctionDeclaration
          \/ r = <<Optional("VariableDeclaration"), Optional("ConstantDeclaration"),
                   Need("CompoundStatement"), Expect(".")>>
          \/ r = <<Optional("ConstantDeclaration"), Need("CompoundStatement"), Expect(".")>>
          \/ r = <<Need("CompoundStatement"), Expect(".")>>
    \/ \E k \in Nat : /\ Len(p) = k + 1 /\ Declare(p, k) /\ p[k + 1] = "CompoundStatement"
                      /\ r = <<Expect(".")>>
    \/ \E k \in Nat : /\ Len(p) = k + 2 /\ Declare(p, k) /\ p[k + 1] = "CompoundStatement"
                      /\ p[k + 2] = "." /\ r = <<>>

\* A node of a class that has children of these labels so far, and the blocks
\* that are left; of a declaration only the tokens matter, see below.
Stage(c, p, r) ==
    /\ c = "AdditiveExpression" =>
          OperatorStage("MultiplicativeExpression", {"+", "-"}, "AdditiveExpression", p, r)
    /\ c = "MultiplicativeExpression" =>
          OperatorStage("UnaryExpression", {"*", "/"}, "MultiplicativeExpression", p, r)
    /\ c = "UnaryExpression" => UnaryStage(p, r)
    /\ c = "PrimaryExpression" => PrimaryStage(p, r)
    /\ c = "Statement" => StatementStage(p, r)
    /\ c = "AssignmentExpression" => AssignmentStage(p, r)
    /\ c = "CompoundStatement" => CompoundStage(p, r)
    /\ c = "StatementList" => ListStage(p, r)
    /\ c = "FunctionDeclaration" => FunctionStage(p, r)

\* What a block does before the others in tail, if the children are p so far
\* and r all the blocks: with a token, without one, with a child that has been
\* parsed.
MovesBlock(block, tail, p, r, q, s) ==
    \/ \E t \in block.tokens :
          /\ q = Append(p, t)
          /\ \/ block.kind \in {"expect", "start", "sign"} /\ s = tail
             \/ block.kind = "repeat" /\ s = <<Need(block.class)>> \o r
             \/ block.kind = "continue" /\ s = <<Need(block.class)>> \o tail
    \/ q = p /\ block.kind \in {"repeat", "continue", "sign", "optional"} /\ s = tail
    \/ /\ q = p /\ block.kind = "branch"
       /\ \E t \in block.tokens : s = Alternative(block.class, t) \o tail
    \/ q = Append(p, block.class) /\ block.kind \in {"need", "optional"} /\ s = tail
Moves(p, r, q, s) == MovesBlock(Head(r), Tail(r), p, r, q, s)

\* First element and rest of the short lists of blocks.
LEMMA ListsAre ==
  /\ \A a : Head(<<a>>) = a /\ Tail(<<a>>) = <<>> /\ <<a>> # <<>>
  /\ \A a, b : Head(<<a, b>>) = a /\ Tail(<<a, b>>) = <<b>> /\ <<a, b>> # <<>>
  /\ \A a, b, c : /\ Head(<<a, b, c>>) = a /\ Tail(<<a, b, c>>) = <<b, c>>
                  /\ <<a, b, c>> # <<>>
  /\ \A a, b, c, d : /\ Head(<<a, b, c, d>>) = a /\ Tail(<<a, b, c, d>>) = <<b, c, d>>
                     /\ <<a, b, c, d>> # <<>>
  /\ \A a, b, c, d, e : /\ Head(<<a, b, c, d, e>>) = a
                        /\ Tail(<<a, b, c, d, e>>) = <<b, c, d, e>>
                        /\ <<a, b, c, d, e>> # <<>>
  OBVIOUS

\* Short lists, one after the other.
LEMMA JoinsAre ==
  /\ \A a : <<a>> \o <<>> = <<a>>
  /\ \A a, b : <<a, b>> \o <<>> = <<a, b>>
  /\ \A a, b, c : <<a, b, c>> \o <<>> = <<a, b, c>>
  /\ \A a, b : <<a>> \o <<b>> = <<a, b>>
  <1>1. ASSUME NEW a, NEW b, NEW c
        PROVE  /\ <<a>> \o <<>> = <<a>>
               /\ <<a, b>> \o <<>> = <<a, b>>
               /\ <<a, b, c>> \o <<>> = <<a, b, c>>
               /\ <<a>> \o <<b>> = <<a, b>>
    <2> DEFINE S == {a, b, c}
    <2>1. <<a>> \in Seq(S) /\ <<a, b>> \in Seq(S) /\ <<a, b, c>> \in Seq(S) /\ <<b>> \in Seq(S)
          /\ b \in S
      OBVIOUS
    <2>2. \A s \in Seq(S) : s \o <<>> = s /\ \A x \in S : Append(s, x) = s \o <<x>>
      BY ConcatIs
    <2> HIDE DEF S
    <2>3. Append(<<a>>, b) = <<a, b>>
      <3> DEFINE u == Append(<<a>>, b)
                 v == <<a, b>>
      <3>1. u \in Seq(S) /\ v \in Seq(S) /\ Len(u) = 2 /\ Len(v) = 2
            /\ u[1] = a /\ u[2] = b /\ v[1] = a /\ v[2] = b
        BY <2>1
      <3> HIDE DEF u, v
      <3>2. u = v
        BY <3>1, SeqEqual
      <3> QED
        BY <3>2 DEF u, v
    <2> QED
      BY <2>1, <2>2, <2>3
  <1> QED
    BY <1>1

\* Short sequences with one more element.
LEMMA AppendsAre ==
  /\ \A a : Append(<<>>, a) = <<a>>
  /\ \A a, b : Append(<<a>>, b) = <<a, b>>
  /\ \A a, b, c : Append(<<a, b>>, c) = <<a, b, c>>
  <1>1. ASSUME NEW a, NEW b, NEW c
        PROVE  /\ Append(<<>>, a) = <<a>>
               /\ Append(<<a>>, b) = <<a, b>>
               /\ Append(<<a, b>>, c) = <<a, b, c>>
    <2> DEFINE S == {a, b, c}
               t == Append(<<>>, a)
               u == Append(<<a>>, b)
               v == Append(<<a, b>>, c)
               x == <<a>>
               y == <<a, b>>
               z == <<a, b, c>>
    <2>1. /\ t \in Seq(S) /\ x \in Seq(S) /\ Len(t) = 1 /\ Len(x) = 1 /\ t[1] = a /\ x[1] = a
          /\ u \in Seq(S) /\ y \in Seq(S) /\ Len(u) = 2 /\ Len(y) = 2
          /\ u[1] = a /\ u[2] = b /\ y[1] = a /\ y[2] = b
          /\ v \in Seq(S) /\ z \in Seq(S) /\ Len(v) = 3 /\ Len(z) = 3
          /\ v[1] = a /\ v[2] = b /\ v[3] = c /\ z[1] = a /\ z[2] = b /\ z[3] = c
      OBVIOUS
    <2> HIDE DEF t, u, v, x, y, z, S
    <2>2. t = x /\ u = y /\ v = z
      BY <2>1, SeqEqual
    <2> QED
      BY <2>2 DEF t, u, v, x, y, z
  <1> QED
    BY <1>1

\* What each constructor of blocks holds.
LEMMA BlocksAre ==
  /\ \A c : Need(c).kind = "need" /\ Need(c).tokens = {} /\ Need(c).class = c
  /\ \A c : Optional(c).kind = "optional" /\ Optional(c).tokens = {} /\ Optional(c).class = c
  /\ \A t : Expect(t).kind = "expect" /\ Expect(t).tokens = {t} /\ Expect(t).class = "GenericToken"
  /\ \A t : Start(t).kind = "start" /\ Start(t).tokens = {t} /\ Start(t).class = "GenericToken"
  /\ \A t, c : Repeat(t, c).kind = "repeat" /\ Repeat(t, c).tokens = {t} /\ Repeat(t, c).class = c
  /\ \A t, c : /\ Continue(t, c).kind = "continue" /\ Continue(t, c).tokens = t
               /\ Continue(t, c).class = c
  /\ Sign.kind = "sign" /\ Sign.tokens = {"+", "-"} /\ Sign.class = "GenericToken"
  /\ \A t, c : Branch(t, c).kind = "branch" /\ Branch(t, c).tokens = t /\ Branch(t, c).class = c
  BY DEF Need, Optional, Expect, Start, Repeat, Continue, Sign, Branch, Block

\* What is said of a list that is gone on with, an optional operator and an
\* alternative.
Repeated(p, r, q, s, t, c) ==
    (q = p /\ s = Tail(r)) \/ (q = Append(p, t) /\ s = <<Need(c)>> \o r)
Continued(p, r, q, s, ts, c) ==
    (q = p /\ s = Tail(r)) \/ \E o \in ts : q = Append(p, o) /\ s = <<Need(c)>> \o Tail(r)
Branched(p, r, q, s, ts, c) == q = p /\ \E o \in ts : s = Alternative(c, o) \o Tail(r)

\* What each kind of block does.
LEMMA NeedMoves ==
  ASSUME NEW p, NEW r, NEW q, NEW s, NEW c, Moves(p, r, q, s), Head(r) = Need(c)
  PROVE  q = Append(p, c) /\ s = Tail(r)
  <1> DEFINE b == Head(r)
             tail == Tail(r)
  <1>1. MovesBlock(b, tail, p, r, q, s)
    BY DEF Moves
  <1>2. b = Need(c)
    OBVIOUS
  <1> HIDE DEF b, tail
  <1>3. b.kind = "need" /\ b.tokens = {} /\ b.class = c
    BY ONLY <1>2 DEF Need, Block
  <1>4. q = Append(p, c) /\ s = tail
    BY ONLY <1>1, <1>3 DEF MovesBlock
  <1> QED
    BY <1>4 DEF tail

\* An optional child is added or left out.
LEMMA OptionalMoves ==
  ASSUME NEW p, NEW r, NEW q, NEW s, NEW c, Moves(p, r, q, s), Head(r) = Optional(c)
  PROVE  (q = p \/ q = Append(p, c)) /\ s = Tail(r)
  <1> DEFINE b == Head(r)
             tail == Tail(r)
  <1>1. MovesBlock(b, tail, p, r, q, s)
    BY DEF Moves
  <1>2. b = Optional(c)
    OBVIOUS
  <1> HIDE DEF b, tail
  <1>3. b.kind = "optional" /\ b.tokens = {} /\ b.class = c
    BY ONLY <1>2 DEF Optional, Block
  <1>4. (q = p \/ q = Append(p, c)) /\ s = tail
    BY ONLY <1>1, <1>3 DEF MovesBlock
  <1> QED
    BY <1>4 DEF tail

\* An expected token is added.
LEMMA ExpectMoves ==
  ASSUME NEW p, NEW r, NEW q, NEW s, NEW t, Moves(p, r, q, s), Head(r) = Expect(t)
  PROVE  q = Append(p, t) /\ s = Tail(r)
  <1> DEFINE b == Head(r)
             tail == Tail(r)
  <1>1. MovesBlock(b, tail, p, r, q, s)
    BY DEF Moves
  <1>2. b = Expect(t)
    OBVIOUS
  <1> HIDE DEF b, tail
  <1>3. b.kind = "expect" /\ b.tokens = {t} /\ b.class = "GenericToken"
    BY ONLY <1>2 DEF Expect, Block
  <1>4. q = Append(p, t) /\ s = tail
    BY ONLY <1>1, <1>3 DEF MovesBlock
  <1> QED
    BY <1>4 DEF tail

\* A sign is added or left out.
LEMMA SignMoves ==
  ASSUME NEW p, NEW r, NEW q, NEW s, Moves(p, r, q, s), Head(r) = Sign
  PROVE  s = Tail(r) /\ (q = p \/ \E o \in {"+", "-"} : q = Append(p, o))
  <1> DEFINE b == Head(r)
             tail == Tail(r)
  <1>1. MovesBlock(b, tail, p, r, q, s)
    BY DEF Moves
  <1>2. b = Sign
    OBVIOUS
  <1> HIDE DEF b, tail
  <1>3. b.kind = "sign" /\ b.tokens = {"+", "-"} /\ b.class = "GenericToken"
    BY ONLY <1>2 DEF Sign, Block
  <1>4. s = tail /\ (q = p \/ \E o \in {"+", "-"} : q = Append(p, o))
    BY ONLY <1>1, <1>3 DEF MovesBlock
  <1> QED
    BY <1>4 DEF tail

\* A repetition ends, or its token is added and it comes again.
LEMMA RepeatMoves ==
  ASSUME NEW p, NEW r, NEW q, NEW s, NEW t, NEW c, Moves(p, r, q, s), Head(r) = Repeat(t, c)
  PROVE  Repeated(p, r, q, s, t, c)
  <1> DEFINE b == Head(r)
             tail == Tail(r)
  <1>1. MovesBlock(b, tail, p, r, q, s)
    BY DEF Moves
  <1>2. b = Repeat(t, c)
    OBVIOUS
  <1> HIDE DEF b, tail
  <1>3. b.kind = "repeat" /\ b.tokens = {t} /\ b.class = c
    BY ONLY <1>2 DEF Repeat, Block
  <1>4. (q = p /\ s = tail) \/ (q = Append(p, t) /\ s = <<Need(c)>> \o r)
    BY ONLY <1>1, <1>3 DEF MovesBlock
  <1> QED
    BY <1>4 DEF Repeated, tail

\* An operator and its right side are added, or both left out.
LEMMA ContinueMoves ==
  ASSUME NEW p, NEW r, NEW q, NEW s, NEW ts, NEW c, Moves(p, r, q, s), Head(r) = Continue(ts, c)
  PROVE  Continued(p, r, q, s, ts, c)
  <1> DEFINE b == Head(r)
             tail == Tail(r)
  <1>1. MovesBlock(b, tail, p, r, q, s)
    BY DEF Moves
  <1>2. b = Continue(ts, c)
    OBVIOUS
  <1> HIDE DEF b, tail
  <1>3. b.kind = "continue" /\ b.tokens = ts /\ b.class = c
    BY ONLY <1>2 DEF Continue, Block
  <1>4. (q = p /\ s = tail) \/ \E o \in ts : q = Append(p, o) /\ s = <<Need(c)>> \o tail
    BY ONLY <1>1, <1>3 DEF MovesBlock
  <1> QED
    BY <1>4 DEF Continued, tail

\* One alternative is chosen.
LEMMA BranchMoves ==
  ASSUME NEW p, NEW r, NEW q, NEW s, NEW ts, NEW c, Moves(p, r, q, s), Head(r) = Branch(ts, c)
  PROVE  Branched(p, r, q, s, ts, c)
  <1> DEFINE b == Head(r)
             tail == Tail(r)
  <1>1. MovesBlock(b, tail, p, r, q, s)
    BY DEF Moves
  <1>2. b = Branch(ts, c)
    OBVIOUS
  <1> HIDE DEF b, tail
  <1>3. b.kind = "branch" /\ b.tokens = ts /\ b.class = c
    BY ONLY <1>2 DEF Branch, Block
  <1>4. q = p /\ \E o \in ts : s = Alternative(c, o) \o tail
    BY ONLY <1>1, <1>3 DEF MovesBlock
  <1> QED
    BY <1>4 DEF Branched, tail

\* Each step from a stage of a sum or a product leads to a stage of it.
LEMMA OperatorMoves ==
  ASSUME NEW left, NEW ops, NEW right, NEW p, NEW r, NEW q, NEW s,
         OperatorStage(left, ops, right, p, r), r # <<>>, Moves(p, r, q, s)
  PROVE  OperatorStage(left, ops, right, q, s)
  <1>1. CASE p = <<>> /\ r = <<Need(left), Continue(ops, right)>>
    <2>1. Head(r) = Need(left) /\ Tail(r) = <<Continue(ops, right)>>
      BY <1>1, ListsAre
    <2>2. q = Append(p, left) /\ s = Tail(r)
      BY <2>1, NeedMoves, Zenon
    <2>3. q = <<left>> /\ s = <<Continue(ops, right)>>
      BY <1>1, <2>1, <2>2, AppendsAre, Zenon
    <2> QED
      BY <2>3 DEF OperatorStage
  <1>2. CASE p = <<left>> /\ r = <<Continue(ops, right)>>
    <2>1. Head(r) = Continue(ops, right) /\ Tail(r) = <<>>
      BY <1>2, ListsAre
    <2>2. \/ q = p /\ s = Tail(r)
          \/ \E o \in ops : q = Append(p, o) /\ s = <<Need(right)>> \o Tail(r)
      <3>1. Continued(p, r, q, s, ops, right)
        BY <2>1, ContinueMoves, Zenon
      <3> QED
        BY <3>1, Zenon DEF Continued
    <2>3. <<Need(right)>> \o <<>> = <<Need(right)>>
      BY JoinsAre
    <2>4. \A o : Append(<<left>>, o) = <<left, o>>
      BY AppendsAre
    <2>5. \/ q = <<left>> /\ s = <<>>
          \/ \E o \in ops : q = <<left, o>> /\ s = <<Need(right)>>
      BY <1>2, <2>1, <2>2, <2>3, <2>4, Zenon
    <2> QED
      BY <2>5 DEF OperatorStage
  <1>3. ASSUME NEW o \in ops, p = <<left, o>>, r = <<Need(right)>>
        PROVE  OperatorStage(left, ops, right, q, s)
    <2>1. Head(r) = Need(right) /\ Tail(r) = <<>>
      BY <1>3, ListsAre
    <2>2. q = Append(p, right) /\ s = Tail(r)
      BY <2>1, NeedMoves, Zenon
    <2>3. q = <<left, o, right>> /\ s = <<>>
      BY <1>3, <2>1, <2>2, AppendsAre, Zenon
    <2> QED
      BY <2>3 DEF OperatorStage
  <1> QED
    BY <1>1, <1>2, <1>3 DEF OperatorStage

\* So does each step from a stage of a UnaryExpression,
LEMMA UnaryMoves ==
  ASSUME NEW p, NEW r, NEW q, NEW s, UnaryStage(p, r), r # <<>>, Moves(p, r, q, s)
  PROVE  UnaryStage(q, s)
  <1>1. CASE p = <<>> /\ r = UnaryExpression
    <2>1. Head(r) = Sign /\ Tail(r) = <<Need("PrimaryExpression")>>
      BY <1>1, ListsAre DEF UnaryExpression
    <2>2. /\ s = <<Need("PrimaryExpression")>>
          /\ q = <<>> \/ \E o \in {"+", "-"} : q = <<o>>
      <3>1. s = Tail(r) /\ (q = p \/ \E o \in {"+", "-"} : q = Append(p, o))
        BY <2>1, SignMoves, Zenon
      <3> QED
        BY <1>1, <2>1, <3>1, AppendsAre, Zenon
    <2> QED
      BY <2>2 DEF UnaryStage
  <1>2. CASE p = <<>> /\ r = <<Need("PrimaryExpression")>>
    <2>1. Head(r) = Need("PrimaryExpression") /\ Tail(r) = <<>>
      BY <1>2, ListsAre
    <2>2. q = Append(p, "PrimaryExpression") /\ s = Tail(r)
      BY <2>1, NeedMoves, Zenon
    <2>3. q = <<"PrimaryExpression">> /\ s = <<>>
      BY <1>2, <2>1, <2>2, AppendsAre, Zenon
    <2> QED
      BY <2>3 DEF UnaryStage
  <1>3. ASSUME NEW o \in {"+", "-"}, p = <<o>>, r = <<Need("PrimaryExpression")>>
        PROVE  UnaryStage(q, s)
    <2>1. Head(r) = Need("PrimaryExpression") /\ Tail(r) = <<>>
      BY <1>3, ListsAre
    <2>2. q = Append(p, "PrimaryExpression") /\ s = Tail(r)
      BY <2>1, NeedMoves, Zenon
    <2>3. q = <<o, "PrimaryExpression">> /\ s = <<>>
      BY <1>3, <2>1, <2>2, AppendsAre, Zenon
    <2> QED
      BY <2>3 DEF UnaryStage
  <1> QED
    BY <1>1, <1>2, <1>3 DEF UnaryStage

\* of a PrimaryExpression,
LEMMA PrimaryMoves ==
  ASSUME NEW p, NEW r, NEW q, NEW s, PrimaryStage(p, r), r # <<>>, Moves(p, r, q, s)
  PROVE  PrimaryStage(q, s)
  <1>1. CASE p = <<>> /\ r = PrimaryExpression
    <2> DEFINE T == {"identifier", "literal", "("}
    <2>1. Head(r) = Branch(T, "PrimaryExpression") /\ Tail(r) = <<>>
      BY <1>1, ListsAre DEF PrimaryExpression
    <2>2. PICK t \in T : s = Alternative("PrimaryExpression", t) \o <<>> /\ q = <<>>
      <3> HIDE DEF T
      <3>1. Branched(p, r, q, s, T, "PrimaryExpression")
        BY <2>1, BranchMoves, Zenon
      <3>2. q = p /\ \E t \in T : s = Alternative("PrimaryExpression", t) \o Tail(r)
        BY <3>1, Zenon DEF Branched
      <3> QED
        BY <1>1, <2>1, <3>2, Zenon
    <2>3. /\ Alternative("PrimaryExpression", "identifier") = <<Need("Identifier")>>
          /\ Alternative("PrimaryExpression", "literal") = <<Need("Literal")>>
          /\ Alternative("PrimaryExpression", "(") =
                <<Expect("("), Need("AdditiveExpression"), Expect(")")>>
      BY DEF Alternative
    <2>4. \/ s = <<Need("Identifier")>> \/ s = <<Need("Literal")>>
          \/ s = <<Expect("("), Need("AdditiveExpression"), Expect(")")>>
      <3>1. t = "identifier" \/ t = "literal" \/ t = "("
        OBVIOUS
      <3> QED
        BY <2>2, <2>3, <3>1, JoinsAre
    <2> QED
      BY <2>2, <2>4 DEF PrimaryStage, Terminals
  <1>2. ASSUME NEW c \in Terminals, p = <<>>, r = <<Need(c)>>
        PROVE  PrimaryStage(q, s)
    <2>1. Head(r) = Need(c) /\ Tail(r) = <<>>
      BY <1>2, ListsAre
    <2>2. q = Append(p, c) /\ s = Tail(r)
      BY <2>1, NeedMoves, Zenon
    <2>3. q = <<c>> /\ s = <<>>
      BY <1>2, <2>1, <2>2, AppendsAre, Zenon
    <2> QED
      BY <2>3 DEF PrimaryStage
  <1>3. CASE p = <<>> /\ r = <<Expect("("), Need("AdditiveExpression"), Expect(")")>>
    <2>1. Head(r) = Expect("(") /\ Tail(r) = <<Need("AdditiveExpression"), Expect(")")>>
      BY <1>3, ListsAre
    <2>2. q = Append(p, "(") /\ s = Tail(r)
      BY <2>1, ExpectMoves, Zenon
    <2>3. q = <<"(">> /\ s = <<Need("AdditiveExpression"), Expect(")")>>
      BY <1>3, <2>1, <2>2, AppendsAre, Zenon
    <2> QED
      BY <2>3 DEF PrimaryStage
  <1>4. CASE p = <<"(">> /\ r = <<Need("AdditiveExpression"), Expect(")")>>
    <2>1. Head(r) = Need("AdditiveExpression") /\ Tail(r) = <<Expect(")")>>
      BY <1>4, ListsAre
    <2>2. q = Append(p, "AdditiveExpression") /\ s = Tail(r)
      BY <2>1, NeedMoves, Zenon
    <2>3. q = <<"(", "AdditiveExpression">> /\ s = <<Expect(")")>>
      BY <1>4, <2>1, <2>2, AppendsAre, Zenon
    <2> QED
      BY <2>3 DEF PrimaryStage
  <1>5. CASE p = <<"(", "AdditiveExpression">> /\ r = <<Expect(")")>>
    <2>1. Head(r) = Expect(")") /\ Tail(r) = <<>>
      BY <1>5, ListsAre
    <2>2. q = Append(p, ")") /\ s = Tail(r)
      BY <2>1, ExpectMoves, Zenon
    <2>3. q = <<"(", "AdditiveExpression", ")">> /\ s = <<>>
      BY <1>5, <2>1, <2>2, AppendsAre, Zenon
    <2> QED
      BY <2>3 DEF PrimaryStage
  <1> QED
    BY <1>1, <1>2, <1>3, <1>4, <1>5 DEF PrimaryStage

\* of a Statement,
LEMMA StatementMoves ==
  ASSUME NEW p, NEW r, NEW q, NEW s, StatementStage(p, r), r # <<>>, Moves(p, r, q, s)
  PROVE  StatementStage(q, s)
  <1>1. CASE p = <<>> /\ r = Statement
    <2> DEFINE T == {"RETURN", "identifier"}
    <2>1. Head(r) = Branch(T, "Statement") /\ Tail(r) = <<>>
      BY <1>1, ListsAre DEF Statement
    <2>2. PICK t \in T : s = Alternative("Statement", t) \o <<>> /\ q = <<>>
      <3> HIDE DEF T
      <3>1. Branched(p, r, q, s, T, "Statement")
        BY <2>1, BranchMoves, Zenon
      <3>2. q = p /\ \E t \in T : s = Alternative("Statement", t) \o Tail(r)
        BY <3>1, Zenon DEF Branched
      <3> QED
        BY <1>1, <2>1, <3>2, Zenon
    <2>3. /\ Alternative("Statement", "identifier") = <<Need("AssignmentExpression")>>
          /\ Alternative("Statement", "RETURN") =
                <<Expect("RETURN"), Need("AdditiveExpression")>>
      BY DEF Alternative
    <2>4. \/ s = <<Need("AssignmentExpression")>>
          \/ s = <<Expect("RETURN"), Need("AdditiveExpression")>>
      <3>1. t = "identifier" \/ t = "RETURN"
        OBVIOUS
      <3> QED
        BY <2>2, <2>3, <3>1, JoinsAre
    <2> QED
      BY <2>2, <2>4 DEF StatementStage
  <1>2. CASE p = <<>> /\ r = <<Need("AssignmentExpression")>>
    <2>1. Head(r) = Need("AssignmentExpression") /\ Tail(r) = <<>>
      BY <1>2, ListsAre
    <2>2. q = Append(p, "AssignmentExpression") /\ s = Tail(r)
      BY <2>1, NeedMoves, Zenon
    <2>3. q = <<"AssignmentExpression">> /\ s = <<>>
      BY <1>2, <2>1, <2>2, AppendsAre, Zenon
    <2> QED
      BY <2>3 DEF StatementStage
  <1>3. CASE p = <<>> /\ r = <<Expect("RETURN"), Need("AdditiveExpression")>>
    <2>1. Head(r) = Expect("RETURN") /\ Tail(r) = <<Need("AdditiveExpression")>>
      BY <1>3, ListsAre
    <2>2. q = Append(p, "RETURN") /\ s = Tail(r)
      BY <2>1, ExpectMoves, Zenon
    <2>3. q = <<"RETURN">> /\ s = <<Need("AdditiveExpression")>>
      BY <1>3, <2>1, <2>2, AppendsAre, Zenon
    <2> QED
      BY <2>3 DEF StatementStage
  <1>4. CASE p = <<"RETURN">> /\ r = <<Need("AdditiveExpression")>>
    <2>1. Head(r) = Need("AdditiveExpression") /\ Tail(r) = <<>>
      BY <1>4, ListsAre
    <2>2. q = Append(p, "AdditiveExpression") /\ s = Tail(r)
      BY <2>1, NeedMoves, Zenon
    <2>3. q = <<"RETURN", "AdditiveExpression">> /\ s = <<>>
      BY <1>4, <2>1, <2>2, AppendsAre, Zenon
    <2> QED
      BY <2>3 DEF StatementStage
  <1> QED
    BY <1>1, <1>2, <1>3, <1>4 DEF StatementStage

\* of an AssignmentExpression,
LEMMA AssignmentMoves ==
  ASSUME NEW p, NEW r, NEW q, NEW s, AssignmentStage(p, r), r # <<>>, Moves(p, r, q, s)
  PROVE  AssignmentStage(q, s)
  <1>1. CASE p = <<>> /\ r = AssignmentExpression
    <2>1. /\ Head(r) = Need("Identifier")
          /\ Tail(r) = <<Expect(":="), Need("AdditiveExpression")>>
      BY <1>1, ListsAre DEF AssignmentExpression
    <2>2. q = Append(p, "Identifier") /\ s = Tail(r)
      BY <2>1, NeedMoves, Zenon
    <2>3. q = <<"Identifier">> /\ s = <<Expect(":="), Need("AdditiveExpression")>>
      BY <1>1, <2>1, <2>2, AppendsAre, Zenon
    <2> QED
      BY <2>3 DEF AssignmentStage
  <1>2. CASE p = <<"Identifier">> /\ r = <<Expect(":="), Need("AdditiveExpression")>>
    <2>1. Head(r) = Expect(":=") /\ Tail(r) = <<Need("AdditiveExpression")>>
      BY <1>2, ListsAre
    <2>2. q = Append(p, ":=") /\ s = Tail(r)
      BY <2>1, ExpectMoves, Zenon
    <2>3. q = <<"Identifier", ":=">> /\ s = <<Need("AdditiveExpression")>>
      BY <1>2, <2>1, <2>2, AppendsAre, Zenon
    <2> QED
      BY <2>3 DEF AssignmentStage
  <1>3. CASE p = <<"Identifier", ":=">> /\ r = <<Need("AdditiveExpression")>>
    <2>1. Head(r) = Need("AdditiveExpression") /\ Tail(r) = <<>>
      BY <1>3, ListsAre
    <2>2. q = Append(p, "AdditiveExpression") /\ s = Tail(r)
      BY <2>1, NeedMoves, Zenon
    <2>3. q = <<"Identifier", ":=", "AdditiveExpression">> /\ s = <<>>
      BY <1>3, <2>1, <2>2, AppendsAre, Zenon
    <2> QED
      BY <2>3 DEF AssignmentStage
  <1> QED
    BY <1>1, <1>2, <1>3 DEF AssignmentStage

\* of a CompoundStatement,
LEMMA CompoundMoves ==
  ASSUME NEW p, NEW r, NEW q, NEW s, CompoundStage(p, r), r # <<>>, Moves(p, r, q, s)
  PROVE  CompoundStage(q, s)
  <1>1. CASE p = <<>> /\ r = CompoundStatement
    <2>1. Head(r) = Expect("BEGIN") /\ Tail(r) = <<Need("StatementList"), Expect("END")>>
      BY <1>1, ListsAre DEF CompoundStatement
    <2>2. q = Append(p, "BEGIN") /\ s = Tail(r)
      BY <2>1, ExpectMoves, Zenon
    <2>3. q = <<"BEGIN">> /\ s = <<Need("StatementList"), Expect("END")>>
      BY <1>1, <2>1, <2>2, AppendsAre, Zenon
    <2> QED
      BY <2>3 DEF CompoundStage
  <1>2. CASE p = <<"BEGIN">> /\ r = <<Need("StatementList"), Expect("END")>>
    <2>1. Head(r) = Need("StatementList") /\ Tail(r) = <<Expect("END")>>
      BY <1>2, ListsAre
    <2>2. q = Append(p, "StatementList") /\ s = Tail(r)
      BY <2>1, NeedMoves, Zenon
    <2>3. q = <<"BEGIN", "StatementList">> /\ s = <<Expect("END")>>
      BY <1>2, <2>1, <2>2, AppendsAre, Zenon
    <2> QED
      BY <2>3 DEF CompoundStage
  <1>3. CASE p = <<"BEGIN", "StatementList">> /\ r = <<Expect("END")>>
    <2>1. Head(r) = Expect("END") /\ Tail(r) = <<>>
      BY <1>3, ListsAre
    <2>2. q = Append(p, "END") /\ s = Tail(r)
      BY <2>1, ExpectMoves, Zenon
    <2>3. q = <<"BEGIN", "StatementList", "END">> /\ s = <<>>
      BY <1>3, <2>1, <2>2, AppendsAre, Zenon
    <2> QED
      BY <2>3 DEF CompoundStage
  <1> QED
    BY <1>1, <1>2, <1>3 DEF CompoundStage

\* Whose turn it is after p.
Turn(p, x) ==
    /\ x \in {"Statement", ";"}
    /\ Len(p) = 0 => x = "Statement"
    /\ Len(p) # 0 => p[Len(p)] # x

\* One more in turn.
LEMMA TurnTaken ==
  ASSUME NEW p \in Seq(Labels), TakeTurns(p), NEW x, Turn(p, x)
  PROVE  /\ TakeTurns(Append(p, x)) /\ Len(Append(p, x)) > 0
         /\ Append(p, x)[Len(Append(p, x))] = x
  <1> DEFINE q == Append(p, x)
             n == Len(p)
  <1>1. x \in Labels
    BY DEF Labels, Classes, Tokens, Turn
  <1>2. n \in Nat /\ Len(q) = n + 1 /\ q[n + 1] = x /\ \A i \in 1 .. n : q[i] = p[i]
    BY <1>1, AppendIs
  <1>3. /\ \A i \in 1 .. n : p[i] \in {"Statement", ";"}
        /\ x \in {"Statement", ";"}
        /\ n > 0 => p[1] = "Statement"
        /\ \A i \in 1 .. n - 1 : p[i] # p[i + 1]
        /\ n = 0 => x = "Statement"
        /\ n # 0 => p[n] # x
    BY DEF TakeTurns, Turn
  <1> HIDE DEF q, n
  <1>4. \A i \in 1 .. n + 1 : q[i] \in {"Statement", ";"}
    <2> TAKE i \in 1 .. n + 1
    <2>1. i = n + 1 \/ i \in 1 .. n
      BY <1>2
    <2> QED
      BY <1>2, <1>3, <2>1
  <1>5. q[1] = "Statement"
    <2>1. CASE n = 0
      BY <1>2, <1>3, <2>1
    <2>2. CASE n # 0
      <3>1. 1 \in 1 .. n /\ n > 0
        BY <1>2, <2>2
      <3> QED
        BY <1>2, <1>3, <3>1
    <2> QED
      BY <2>1, <2>2
  <1>6. \A i \in 1 .. n : q[i] # q[i + 1]
    <2> TAKE i \in 1 .. n
    <2>1. CASE i = n
      <3>1. n # 0
        BY <1>2, <2>1
      <3> QED
        BY <1>2, <1>3, <2>1, <3>1
    <2>2. CASE i # n
      <3>1. i \in 1 .. n - 1 /\ i + 1 \in 1 .. n
        BY <1>2, <2>2
      <3> QED
        BY <1>2, <1>3, <3>1
    <2> QED
      BY <2>1, <2>2
  <1>7. Len(q) - 1 = n /\ Len(q) > 0
    BY <1>2
  <1>8. TakeTurns(q)
    BY <1>2, <1>4, <1>5, <1>6, <1>7 DEF TakeTurns
  <1> QED
    BY <1>2, <1>7, <1>8 DEF q

\* Each step from a stage of a StatementList leads to a stage of it.
LEMMA ListMoves ==
  ASSUME NEW p \in Seq(Labels), NEW r, NEW q, NEW s, ListStage(p, r), r # <<>>,
         Moves(p, r, q, s)
  PROVE  ListStage(q, s)
  <1> DEFINE again == Repeat(";", "Statement")
  <1>1. TakeTurns(p)
    BY DEF ListStage
  <1>2. CASE p = <<>> /\ r = StatementList
    <2>1. Head(r) = Need("Statement") /\ Tail(r) = <<again>>
      BY <1>2, ListsAre DEF StatementList
    <2>2. q = Append(p, "Statement") /\ s = <<again>>
      BY <2>1, NeedMoves, Zenon
    <2>3. Turn(p, "Statement")
      BY <1>2 DEF Turn
    <2>4. TakeTurns(q) /\ Len(q) > 0 /\ q[Len(q)] = "Statement"
      BY <1>1, <2>2, <2>3, TurnTaken
    <2> QED
      BY <2>2, <2>4 DEF ListStage
  <1>3. CASE Len(p) > 0 /\ p[Len(p)] = "Statement" /\ r = <<again>>
    <2>1. Head(r) = again /\ Tail(r) = <<>>
      BY <1>3, ListsAre
    <2>2. \/ q = p /\ s = <<>>
          \/ q = Append(p, ";") /\ s = <<Need("Statement")>> \o <<again>>
      <3>1. Repeated(p, r, q, s, ";", "Statement")
        BY <2>1, RepeatMoves, Zenon
      <3>2. \/ q = p /\ s = Tail(r)
            \/ q = Append(p, ";") /\ s = <<Need("Statement")>> \o r
        BY <3>1, Zenon DEF Repeated
      <3> QED
        BY <1>3, <2>1, <3>2, Zenon
    <2>3. Turn(p, ";")
      <3>1. Len(p) > 0 /\ p[Len(p)] = "Statement"
        BY <1>3, Zenon
      <3>2. Len(p) # 0
        BY <3>1
      <3> QED
        BY ONLY <3>1, <3>2 DEF Turn
    <2>4. q = Append(p, ";") => TakeTurns(q) /\ Len(q) > 0 /\ q[Len(q)] = ";"
      BY <1>1, <2>3, TurnTaken
    <2>5. <<Need("Statement")>> \o <<again>> = <<Need("Statement"), again>>
      BY JoinsAre
    <2> QED
      BY <1>1, <1>3, <2>2, <2>4, <2>5 DEF ListStage
  <1>4. CASE Len(p) > 0 /\ p[Len(p)] = ";" /\ r = <<Need("Statement"), again>>
    <2>1. Head(r) = Need("Statement") /\ Tail(r) = <<again>>
      BY <1>4, ListsAre
    <2>2. q = Append(p, "Statement") /\ s = <<again>>
      BY <2>1, NeedMoves, Zenon
    <2>3. Turn(p, "Statement")
      BY <1>4 DEF Turn
    <2>4. TakeTurns(q) /\ Len(q) > 0 /\ q[Len(q)] = "Statement"
      BY <1>1, <2>2, <2>3, TurnTaken
    <2> QED
      BY <2>2, <2>4 DEF ListStage
  <1> QED
    BY <1>2, <1>3, <1>4 DEF ListStage

\* One more declaration, or something after them.
LEMMA DeclarationAdded ==
  ASSUME NEW p \in Seq(Labels), NEW k, Declare(p, k), NEW x \in Labels
  PROVE  /\ Declare(Append(p, x), k)
         /\ k = Len(p) /\ x \in Declarations => Declare(Append(p, x), Len(Append(p, x)))
  <1> DEFINE q == Append(p, x)
             n == Len(p)
  <1>1. n \in Nat /\ Len(q) = n + 1 /\ q[n + 1] = x /\ \A i \in 1 .. n : q[i] = p[i]
    BY AppendIs
  <1>2. k \in 0 .. n /\ \A i \in 1 .. k : p[i] \in Declarations
    BY DEF Declare
  <1> HIDE DEF q, n
  <1>3. Declare(q, k)
    <2>1. k \in 0 .. Len(q) /\ \A i \in 1 .. k : i \in 1 .. n
      BY <1>1, <1>2
    <2> QED
      BY <1>1, <1>2, <2>1 DEF Declare
  <1>4. ASSUME k = n, x \in Declarations
        PROVE  Declare(q, Len(q))
    <2>1. \A i \in 1 .. n + 1 : i = n + 1 \/ i \in 1 .. n
      BY <1>1
    <2>2. \A i \in 1 .. n + 1 : q[i] \in Declarations
      BY <1>1, <1>2, <1>4, <2>1
    <2>3. Len(q) \in 0 .. Len(q)
      BY <1>1
    <2> QED
      BY <1>1, <2>2, <2>3 DEF Declare
  <1> QED
    BY <1>3, <1>4 DEF q, n

\* Each step from a stage of the FunctionDeclaration leads to a stage of it.
LEMMA FunctionMoves ==
  ASSUME NEW p \in Seq(Labels), NEW r, NEW q, NEW s, FunctionStage(p, r), r # <<>>,
         Moves(p, r, q, s)
  PROVE  FunctionStage(q, s)
  <1> DEFINE P == "ParameterDeclaration"
             V == "VariableDeclaration"
             C == "ConstantDeclaration"
             rest == <<Need("CompoundStatement"), Expect(".")>>
             restC == <<Optional(C), Need("CompoundStatement"), Expect(".")>>
             restV == <<Optional(V), Optional(C), Need("CompoundStatement"), Expect(".")>>
  <1>1. ASSUME NEW c \in Declarations, Declare(p, Len(p)), q = p \/ q = Append(p, c)
        PROVE  Declare(q, Len(q))
    <2>1. c \in Labels
      BY DEF Labels, Classes, Declarations
    <2> QED
      BY <1>1, <2>1, DeclarationAdded
  <1>2. P \in Declarations /\ V \in Declarations /\ C \in Declarations
    BY DEF Declarations
  <1>3. CASE Declare(p, Len(p)) /\ r = FunctionDeclaration
    <2>1. Head(r) = Optional(P) /\ Tail(r) = restV
      BY <1>3, ListsAre DEF FunctionDeclaration
    <2>2. (q = p \/ q = Append(p, P)) /\ s = restV
      <3> HIDE DEF restV
      <3> QED
        BY <2>1, OptionalMoves, Zenon
    <2> QED
      BY <1>1, <1>2, <1>3, <2>2 DEF FunctionStage
  <1>4. CASE Declare(p, Len(p)) /\ r = restV
    <2>1. Head(r) = Optional(V) /\ Tail(r) = restC
      BY <1>4, ListsAre
    <2>2. (q = p \/ q = Append(p, V)) /\ s = restC
      <3> HIDE DEF restC
      <3> QED
        BY <2>1, OptionalMoves, Zenon
    <2> QED
      BY <1>1, <1>2, <1>4, <2>2 DEF FunctionStage
  <1>5. CASE Declare(p, Len(p)) /\ r = restC
    <2>1. Head(r) = Optional(C) /\ Tail(r) = rest
      BY <1>5, ListsAre
    <2>2. (q = p \/ q = Append(p, C)) /\ s = rest
      <3> HIDE DEF rest
      <3> QED
        BY <2>1, OptionalMoves, Zenon
    <2> QED
      BY <1>1, <1>2, <1>5, <2>2 DEF FunctionStage
  <1>6. CASE Declare(p, Len(p)) /\ r = rest
    <2>1. Head(r) = Need("CompoundStatement") /\ Tail(r) = <<Expect(".")>>
      BY <1>6, ListsAre
    <2>2. q = Append(p, "CompoundStatement") /\ s = <<Expect(".")>>
      BY <2>1, NeedMoves, Zenon
    <2>3. "CompoundStatement" \in Labels /\ Len(p) \in Nat
      BY DEF Labels, Classes
    <2>4. Declare(q, Len(p))
      BY <1>6, <2>2, <2>3, DeclarationAdded
    <2>5. Len(q) = Len(p) + 1 /\ q[Len(p) + 1] = "CompoundStatement"
      BY <2>2, <2>3, AppendIs
    <2> QED
      BY <2>2, <2>3, <2>4, <2>5 DEF FunctionStage
  <1>7. ASSUME NEW k \in Nat, Len(p) = k + 1, Declare(p, k), p[k + 1] = "CompoundStatement",
               r = <<Expect(".")>>
        PROVE  FunctionStage(q, s)
    <2>1. Head(r) = Expect(".") /\ Tail(r) = <<>>
      BY <1>7, ListsAre
    <2>2. q = Append(p, ".") /\ s = <<>>
      BY <2>1, ExpectMoves, Zenon
    <2>3. "." \in Labels
      BY DEF Labels, Tokens
    <2>4. Declare(q, k)
      BY <1>7, <2>2, <2>3, DeclarationAdded
    <2>5. Len(q) = k + 2 /\ q[k + 2] = "." /\ q[k + 1] = "CompoundStatement"
      <3>1. Len(p) + 1 = k + 2 /\ k + 1 \in 1 .. Len(p)
        BY <1>7
      <3> QED
        BY <1>7, <2>2, <2>3, <3>1, AppendIs
    <2> QED
      BY <2>2, <2>4, <2>5 DEF FunctionStage
  <1> QED
    BY <1>3, <1>4, <1>5, <1>6, <1>7 DEF FunctionStage

\* Every step of an activation leads from one stage to another.
LEMMA StageMoves ==
  ASSUME NEW c, NEW p \in Seq(Labels), NEW r, NEW q, NEW s,
         Stage(c, p, r), r # <<>>, Moves(p, r, q, s)
  PROVE  Stage(c, q, s)
  BY OperatorMoves, UnaryMoves, PrimaryMoves, StatementMoves, AssignmentMoves,
     CompoundMoves, ListMoves, FunctionMoves, Zenon DEF Stage

\* An activation starts at a stage.
LEMMA StageStarts ==
  ASSUME NEW c
  PROVE  Stage(c, <<>>, Body(c))
  <1>1. /\ Body("AdditiveExpression") = AdditiveExpression
        /\ Body("MultiplicativeExpression") = MultiplicativeExpression
        /\ Body("UnaryExpression") = UnaryExpression
        /\ Body("PrimaryExpression") = PrimaryExpression
        /\ Body("Statement") = Statement
        /\ Body("AssignmentExpression") = AssignmentExpression
        /\ Body("CompoundStatement") = CompoundStatement
        /\ Body("StatementList") = StatementList
        /\ Body("FunctionDeclaration") = FunctionDeclaration
    BY DEF Body
  <1>2. TakeTurns(<<>>) /\ Declare(<<>>, Len(<<>>))
    BY DEF TakeTurns, Declare
  <1> QED
    BY <1>1, <1>2 DEF Stage, OperatorStage, UnaryStage, PrimaryStage, StatementStage,
       AssignmentStage, CompoundStage, ListStage, FunctionStage, AdditiveExpression,
       MultiplicativeExpression

-----------------------------------------------------------------------------
(* Which part of the text a node stands for.                               *)

\* The classes whose part may have separators but no BEGIN and no END.
Lists ==
    {"ParameterDeclaration", "VariableDeclaration", "ConstantDeclaration",
     "DeclaratorList", "InitDeclaratorList", "InitDeclarator", "StatementList"}

\* The tokens that the part of a node of this class does not have.
Forbidden(c) ==
    IF c \in {"FunctionDeclaration", "CompoundStatement", "GenericToken"} THEN {}
    ELSE IF c \in Lists THEN {"BEGIN", "END"}
    ELSE {"BEGIN", "END", ";"}

\* Blocks that add none of the tokens.
Avoiding(tokens) ==
    {b \in Blocks : /\ b.tokens \cap tokens = {}
                    /\ b.class \in Classes => tokens \subseteq Forbidden(b.class)}

\* The tokens forbidden for each class, by cases.
LEMMA ForbiddenIs ==
  /\ \A c : Forbidden(c) \subseteq {"BEGIN", "END", ";"}
  /\ \A c : Forbidden(c) \in {{}, {"BEGIN", "END"}, {"BEGIN", "END", ";"}}
  /\ \A c \in {"Statement", "AssignmentExpression", "AdditiveExpression",
               "MultiplicativeExpression", "UnaryExpression", "PrimaryExpression",
               "Identifier", "Literal"} : Forbidden(c) = {"BEGIN", "END", ";"}
  /\ \A c \in Lists : Forbidden(c) = {"BEGIN", "END"}
  BY DEF Forbidden, Lists

\* The blocks that add no token of F.
LEMMA AvoidingIs ==
  ASSUME NEW F, F \subseteq {"BEGIN", "END", ";"}
  PROVE  /\ \A c \in Classes \ Declarations : F \subseteq Forbidden(c) => Need(c) \in Avoiding(F)
         /\ \A t \in Tokens \ F : Expect(t) \in Avoiding(F) /\ Start(t) \in Avoiding(F)
         /\ \A t \in Tokens \ F, c \in Classes \ Declarations :
               F \subseteq Forbidden(c) => Repeat(t, c) \in Avoiding(F)
         /\ \A ts \in SUBSET Tokens, c \in Classes \ Declarations :
               F \subseteq Forbidden(c) /\ ts \cap F = {} => Continue(ts, c) \in Avoiding(F)
         /\ \A ts \in SUBSET {"RETURN", "identifier", "literal", "("},
               c \in {"Statement", "PrimaryExpression"} : Branch(ts, c) \in Avoiding(F)
         /\ Sign \in Avoiding(F)
         /\ Avoiding({}) = Blocks
  <1>1. "GenericToken" \notin Classes
    BY DEF Classes
  <1>2. \A c \in Classes \ Declarations : F \subseteq Forbidden(c) => Need(c) \in Avoiding(F)
    BY BlockType, BlocksAre DEF Avoiding
  <1> DEFINE In(b) == /\ b \in Blocks /\ b.tokens \cap F = {}
                      /\ b.class \in Classes => F \subseteq Forbidden(b.class)
  <1>9. \A b : In(b) => b \in Avoiding(F)
    BY DEF Avoiding
  <1>3. ASSUME NEW t \in Tokens \ F
        PROVE  Expect(t) \in Avoiding(F) /\ Start(t) \in Avoiding(F)
    <2>1. Expect(t) \in Blocks /\ Start(t) \in Blocks
      BY BlockType
    <2>2. /\ Expect(t).tokens = {t} /\ Start(t).tokens = {t}
          /\ Expect(t).class = "GenericToken" /\ Start(t).class = "GenericToken"
      BY BlocksAre
    <2>3. In(Expect(t)) /\ In(Start(t))
      BY <1>1, <2>1, <2>2
    <2> HIDE DEF In
    <2> QED
      BY <1>9, <2>3
  <1>4. ASSUME NEW t \in Tokens \ F, NEW c \in Classes \ Declarations, F \subseteq Forbidden(c)
        PROVE  Repeat(t, c) \in Avoiding(F)
    <2>1. Repeat(t, c) \in Blocks
      BY BlockType
    <2>2. Repeat(t, c).tokens = {t} /\ Repeat(t, c).class = c
      BY DEF Repeat, Block
    <2>3. In(Repeat(t, c))
      BY <1>4, <2>1, <2>2
    <2> HIDE DEF In
    <2> QED
      BY <1>9, <2>3
  <1>5. ASSUME NEW ts \in SUBSET Tokens, NEW c \in Classes \ Declarations,
               F \subseteq Forbidden(c), ts \cap F = {}
        PROVE  Continue(ts, c) \in Avoiding(F)
    <2>1. Continue(ts, c) \in Blocks
      BY BlockType
    <2>2. Continue(ts, c).tokens = ts /\ Continue(ts, c).class = c
      BY DEF Continue, Block
    <2>3. In(Continue(ts, c))
      BY <1>5, <2>1, <2>2
    <2> HIDE DEF In
    <2> QED
      BY <1>9, <2>3
  <1>6. ASSUME NEW ts \in SUBSET {"RETURN", "identifier", "literal", "("},
               NEW c \in {"Statement", "PrimaryExpression"}
        PROVE  Branch(ts, c) \in Avoiding(F)
    <2>1. Branch(ts, c) \in Blocks
      BY BlockType
    <2>2. Branch(ts, c).tokens = ts /\ Branch(ts, c).class = c
      BY DEF Branch, Block
    <2>3. Forbidden(c) = {"BEGIN", "END", ";"} /\ ts \cap F = {}
      BY ForbiddenIs
    <2>4. In(Branch(ts, c))
      BY <2>1, <2>2, <2>3
    <2> HIDE DEF In
    <2> QED
      BY <1>9, <2>4
  <1>7. Sign \in Avoiding(F)
    BY <1>1, BlockType, BlocksAre DEF Avoiding
  <1>8. Avoiding({}) = Blocks
    BY DEF Avoiding
  <1> QED
    BY <1>2, <1>3, <1>4, <1>5, <1>6, <1>7, <1>8

\* An activation starts with blocks that avoid what its class forbids.
LEMMA BodyAvoids ==
  ASSUME NEW c \in Classes
  PROVE  Body(c) \in Seq(Avoiding(Forbidden(c)))
  <1> DEFINE F == {"BEGIN", "END"}
             G == {"BEGIN", "END", ";"}
             S == Avoiding(F)
             R == Avoiding(G)
  <1>1. Tokens = {"PARAM", "VAR", "CONST", "BEGIN", "END", "RETURN",
                  "identifier", "literal", "+", "-", "*", "/", "(", ")", ",",
                  ";", "=", ":=", "."}
    BY DEF Tokens, Keywords
  <1>2. Classes \ Declarations =
          {"FunctionDeclaration", "DeclaratorList", "InitDeclaratorList",
           "InitDeclarator", "CompoundStatement", "StatementList", "Statement",
           "AssignmentExpression", "AdditiveExpression",
           "MultiplicativeExpression", "UnaryExpression", "PrimaryExpression",
           "Identifier", "Literal"}
    BY DEF Classes, Declarations
  <1>3. CASE Forbidden(c) = {}
    <2>1. Body(c) \in Seq(Blocks)
      BY BodyType
    <2> QED
      BY <1>3, <2>1, AvoidingIs
  <1>4. /\ Start("PARAM") \in S /\ Start("VAR") \in S /\ Start("CONST") \in S
        /\ Expect(";") \in S /\ Need("DeclaratorList") \in S /\ Need("InitDeclaratorList") \in S
        /\ Need("Identifier") \in S /\ Repeat(",", "Identifier") \in S
        /\ Need("InitDeclarator") \in S /\ Repeat(",", "InitDeclarator") \in S
        /\ Expect("=") \in S /\ Need("Literal") \in S
        /\ Need("Statement") \in S /\ Repeat(";", "Statement") \in S
    <2>1. F \subseteq {"BEGIN", "END", ";"}
      OBVIOUS
    <2>2. /\ \A d \in {"DeclaratorList", "InitDeclaratorList", "Identifier", "InitDeclarator",
                       "Literal", "Statement"} :
                d \in Classes \ Declarations /\ F \subseteq Forbidden(d)
          /\ \A t \in {"PARAM", "VAR", "CONST", ";", ",", "="} : t \in Tokens \ F
      BY <1>1, <1>2, ForbiddenIs DEF Lists
    <2> HIDE DEF F
    <2>3. /\ \A d \in Classes \ Declarations : F \subseteq Forbidden(d) => Need(d) \in S
          /\ \A t \in Tokens \ F : Expect(t) \in S /\ Start(t) \in S
          /\ \A t \in Tokens \ F, d \in Classes \ Declarations :
                F \subseteq Forbidden(d) => Repeat(t, d) \in S
      BY <2>1, AvoidingIs
    <2> HIDE DEF S
    <2> QED
      BY <2>2, <2>3
  <1>5. /\ Branch({"RETURN", "identifier"}, "Statement") \in R
        /\ Need("Identifier") \in R /\ Expect(":=") \in R /\ Need("AdditiveExpression") \in R
        /\ Need("MultiplicativeExpression") \in R
        /\ Continue({"+", "-"}, "AdditiveExpression") \in R
        /\ Need("UnaryExpression") \in R
        /\ Continue({"*", "/"}, "MultiplicativeExpression") \in R
        /\ Sign \in R /\ Need("PrimaryExpression") \in R
        /\ Branch({"identifier", "literal", "("}, "PrimaryExpression") \in R
        /\ Expect("identifier") \in R /\ Expect("literal") \in R
    <2>1. G \subseteq {"BEGIN", "END", ";"}
      OBVIOUS
    <2>2. /\ \A d \in {"Identifier", "AdditiveExpression", "MultiplicativeExpression",
                       "UnaryExpression", "PrimaryExpression"} :
                d \in Classes \ Declarations /\ G \subseteq Forbidden(d)
          /\ \A t \in {":=", "identifier", "literal"} : t \in Tokens \ G
          /\ {"+", "-"} \in SUBSET Tokens /\ {"+", "-"} \cap G = {}
          /\ {"*", "/"} \in SUBSET Tokens /\ {"*", "/"} \cap G = {}
      BY <1>1, <1>2, ForbiddenIs
    <2> HIDE DEF G
    <2>3. /\ \A d \in Classes \ Declarations : G \subseteq Forbidden(d) => Need(d) \in R
          /\ \A t \in Tokens \ G : Expect(t) \in R /\ Start(t) \in R
          /\ \A ts \in SUBSET Tokens, d \in Classes \ Declarations :
                G \subseteq Forbidden(d) /\ ts \cap G = {} => Continue(ts, d) \in R
          /\ \A ts \in SUBSET {"RETURN", "identifier", "literal", "("},
                d \in {"Statement", "PrimaryExpression"} : Branch(ts, d) \in R
          /\ Sign \in R
      BY <2>1, AvoidingIs
    <2> HIDE DEF R
    <2> QED
      BY <2>2, <2>3
  <1> HIDE DEF R, S
  <1>6. CASE c \in Lists
    <2>1. /\ ParameterDeclaration \in Seq(S) /\ VariableDeclaration \in Seq(S)
          /\ ConstantDeclaration \in Seq(S) /\ DeclaratorList \in Seq(S)
          /\ InitDeclaratorList \in Seq(S) /\ InitDeclarator \in Seq(S)
          /\ StatementList \in Seq(S)
      BY <1>4, ListType DEF ParameterDeclaration, VariableDeclaration, ConstantDeclaration,
         DeclaratorList, InitDeclaratorList, InitDeclarator, StatementList
    <2>2. Body(c) \in Seq(S)
      BY <1>6, <2>1 DEF Body, Lists
    <2> QED
      BY <1>6, <2>2, ForbiddenIs DEF S
  <1>7. CASE c \in {"Statement", "AssignmentExpression", "AdditiveExpression",
                    "MultiplicativeExpression", "UnaryExpression", "PrimaryExpression",
                    "Identifier", "Literal"}
    <2>1. /\ Statement \in Seq(R) /\ AssignmentExpression \in Seq(R)
          /\ AdditiveExpression \in Seq(R) /\ MultiplicativeExpression \in Seq(R)
          /\ UnaryExpression \in Seq(R) /\ PrimaryExpression \in Seq(R)
          /\ Identifier \in Seq(R) /\ Literal \in Seq(R)
      BY <1>5, ListType DEF Statement, AssignmentExpression, AdditiveExpression,
         MultiplicativeExpression, UnaryExpression, PrimaryExpression, Identifier, Literal
    <2>2. Body(c) \in Seq(R)
      BY <1>7, <2>1 DEF Body
    <2> QED
      BY <1>7, <2>2, ForbiddenIs DEF R
  <1>8. c \in Lists \/ Forbidden(c) = {}
        \/ c \in {"Statement", "AssignmentExpression", "AdditiveExpression",
                  "MultiplicativeExpression", "UnaryExpression", "PrimaryExpression",
                  "Identifier", "Literal"}
    BY DEF Forbidden, Lists, Classes
  <1> QED
    BY <1>3, <1>6, <1>7, <1>8

\* The parts of a sequence over S, and what is put before it.
LEMMA SeqParts ==
  ASSUME NEW S, NEW r \in Seq(S)
  PROVE  /\ r # <<>> => Head(r) \in S /\ Tail(r) \in Seq(S)
         /\ \A x \in S : <<x>> \in Seq(S)
         /\ \A t \in Seq(S) : r \o t \in Seq(S)
  OBVIOUS

\* Steps leave only blocks that add no token of F.
LEMMA MovesAvoid ==
  ASSUME NEW F, F \subseteq {"BEGIN", "END", ";"}, NEW S, S = Avoiding(F),
         NEW r \in Seq(S), r # <<>>, NEW p, NEW q, NEW s, Moves(p, r, q, s)
  PROVE  s \in Seq(S)
  <1> DEFINE b == Head(r)
             tail == Tail(r)
  <1>1. b \in S /\ tail \in Seq(S) /\ r \in Seq(S)
    BY SeqParts, Zenon
  <1>2. MovesBlock(b, tail, p, r, q, s)
    BY DEF Moves
  <1> HIDE DEF b, tail
  <1>3. b \in Blocks /\ (b.class \in Classes => F \subseteq Forbidden(b.class))
    BY <1>1 DEF Avoiding
  <1>4. CASE s = tail
    BY <1>1, <1>4
  <1>5. ASSUME b.kind \in {"repeat", "continue"}, NEW t \in Seq(S), s = <<Need(b.class)>> \o t
        PROVE  s \in Seq(S)
    <2>1. b.class \in Classes \ Declarations
      BY <1>3, <1>5 DEF Blocks
    <2>2. Need(b.class) \in S
      BY <1>3, <2>1, AvoidingIs
    <2>3. <<Need(b.class)>> \in Seq(S)
      BY <1>1, <2>2, SeqParts, Zenon
    <2> QED
      BY <1>5, <2>3, SeqParts, Zenon
  <1>6. ASSUME b.kind = "branch", NEW t \in b.tokens, s = Alternative(b.class, t) \o tail
        PROVE  s \in Seq(S)
    <2>1. /\ b.class \in {"Statement", "PrimaryExpression"}
          /\ t \in {"RETURN", "identifier", "literal", "("}
      BY <1>3, <1>6 DEF Blocks
    <2>2. /\ Need("AdditiveExpression") \in S /\ Need("Literal") \in S
          /\ Need("AssignmentExpression") \in S /\ Need("Identifier") \in S
      <3>1. \A d \in {"AdditiveExpression", "Literal", "AssignmentExpression", "Identifier"} :
               d \in Classes \ Declarations /\ F \subseteq Forbidden(d)
        BY ForbiddenIs DEF Classes, Declarations
      <3>2. \A d \in Classes \ Declarations : F \subseteq Forbidden(d) => Need(d) \in S
        BY AvoidingIs
      <3> QED
        BY <3>1, <3>2
    <2>3. Expect("RETURN") \in S /\ Expect("(") \in S /\ Expect(")") \in S
      <3>1. \A t1 \in {"RETURN", "(", ")"} : t1 \in Tokens \ F
        BY DEF Tokens, Keywords
      <3>2. \A t1 \in Tokens \ F : Expect(t1) \in S
        BY AvoidingIs
      <3> QED
        BY <3>1, <3>2
    <2> DEFINE more == Alternative(b.class, t)
    <2>4. more \in Seq(S)
      BY <2>1, <2>2, <2>3, ListType DEF Alternative
    <2> HIDE DEF more
    <2>5. more \o tail \in Seq(S)
      BY <1>1, <2>4, SeqParts, Zenon
    <2> QED
      BY <1>6, <2>5 DEF more
  <1> QED
    BY <1>1, <1>2, <1>4, <1>5, <1>6 DEF MovesBlock

\* The part of a and b has no token that is forbidden for c.
Avoids(words, a, b, c) == \A i \in a + 1 .. b : words[i] \notin Forbidden(c)

\* One node after the other stands for the tokens after a up to b; D has the
\* parts that are known.
Ends(D, kids, a, b, ends) ==
    /\ ends \in [0 .. Len(kids) -> Nat]
    /\ ends[0] = a /\ ends[Len(kids)] = b
    /\ \A i \in 1 .. Len(kids) : <<kids[i], ends[i - 1], ends[i]>> \in D
\* The children cover the part of a and b without a gap.
Covers(D, kids, a, b) == \E ends : Ends(D, kids, a, b, ends)

\* A leaf stands for one token, the one it holds.
Leaf(words, x, a, b) ==
    /\ b = a + 1 /\ x.token = words[b] /\ x.at = b
    /\ x.class = "Identifier" => x.token = "identifier"
    /\ x.class = "Literal" => x.token = "literal"

\* A node with these blocks left stands for the tokens after a up to b.
Part(D, words, x, rest, a, b) ==
    /\ a \in Nat /\ b \in Nat /\ a <= b /\ b <= Len(words)
    /\ Avoids(words, a, b, x.class)
    /\ rest \in Seq(Avoiding(Forbidden(x.class)))
    /\ x.class \in Leafs => \/ rest = <<>> /\ Leaf(words, x, a, b)
                            \/ rest # <<>> /\ rest = Body(x.class) /\ a = b
    /\ x.class \notin Leafs => /\ x.token = NoToken
                               /\ Covers(D, x.children, a, b)
                               /\ Stage(x.class, Pattern(x.children), rest)

\* Every node of D has its part.
Settled(T, D, words) ==
    /\ D \subseteq T \X Nat \X Nat
    /\ \A x \in T, a, b \in Nat : <<x, a, b>> \in D => Part(D, words, x, <<>>, a, b)

\* One part after the other up to the last cut.
Spanned(T, D, words, nodes, stack, cuts) ==
    /\ nodes \in Seq(T) /\ stack \in Seq(Frames) /\ cuts \in Seq(Nat)
    /\ Len(stack) = Len(nodes) /\ Len(cuts) = Len(nodes) + 1 /\ cuts[1] = 0
    /\ \A i \in 1 .. Len(nodes) :
          /\ nodes[i].class = stack[i].class
          /\ Part(D, words, nodes[i], stack[i].rest, cuts[i], cuts[i + 1])
    /\ \A i \in 1 .. Len(nodes) - 1 : Head(stack[i].rest).class = stack[i + 1].class

\* What covers a part still does when more nodes have parts.
LEMMA CoversGrow ==
  ASSUME NEW D, NEW E, D \subseteq E, NEW kids, NEW a, NEW b, Covers(D, kids, a, b)
  PROVE  Covers(E, kids, a, b)
  BY DEF Covers, Ends

\* No children cover the empty part and no other.
LEMMA CoversNone ==
  ASSUME NEW D, NEW a \in Nat
  PROVE  /\ Covers(D, <<>>, a, a)
         /\ \A b : Covers(D, <<>>, a, b) => a = b
  <1> DEFINE none == <<>>
  <1>1. Len(none) = 0
    OBVIOUS
  <1> HIDE DEF none
  <1>2. Covers(D, none, a, a)
    <2> DEFINE ends == [i \in 0 .. 0 |-> a]
    <2>1. ends \in [0 .. 0 -> Nat] /\ ends[0] = a
      OBVIOUS
    <2> HIDE DEF ends
    <2>2. Ends(D, none, a, a, ends)
      BY <1>1, <2>1 DEF Ends
    <2> QED
      BY <2>2 DEF Covers
  <1>3. ASSUME NEW b, Covers(D, none, a, b)
        PROVE  a = b
    BY <1>1, <1>3 DEF Covers, Ends
  <1> QED
    BY <1>2, <1>3 DEF none

\* A child that goes on where the others end makes the cover longer.
LEMMA CoversMore ==
  ASSUME NEW D, NEW T, NEW kids \in Seq(T), NEW a, NEW b, Covers(D, kids, a, b),
         NEW y \in T, NEW c \in Nat, <<y, b, c>> \in D
  PROVE  Covers(D, Append(kids, y), a, c)
  <1> DEFINE n == Len(kids)
             t == Append(kids, y)
  <1>1. PICK ends : Ends(D, kids, a, b, ends)
    BY DEF Covers
  <1>2. /\ n \in Nat /\ Len(t) = n + 1 /\ t[n + 1] = y
        /\ \A i \in 1 .. n : t[i] = kids[i]
    BY AppendIs
  <1>3. /\ ends \in [0 .. n -> Nat] /\ ends[0] = a /\ ends[n] = b
        /\ \A i \in 1 .. n : <<kids[i], ends[i - 1], ends[i]>> \in D
    BY <1>1 DEF Ends
  <1> HIDE DEF n, t
  <1> DEFINE m == n + 1
             more == [i \in 0 .. m |-> IF i = m THEN c ELSE ends[i]]
  <1>4. /\ m \in Nat /\ m = n + 1 /\ \A i \in 0 .. n : i \in 0 .. m /\ i # m
        /\ \A i \in 1 .. m : i = m \/ i \in 1 .. n
        /\ \A i \in 1 .. n : i \in 0 .. n /\ i - 1 \in 0 .. n
        /\ m - 1 = n /\ n \in 0 .. n /\ m \in 0 .. m /\ 0 \in 0 .. n
    BY <1>2
  <1>5. /\ more[m] = c /\ \A i \in 0 .. n : more[i] = ends[i]
    BY <1>4
  <1>6. more \in [0 .. m -> Nat]
    <2>1. \A i \in 0 .. m : i = m \/ i \in 0 .. n
      BY <1>4
    <2> QED
      BY <1>3, <2>1
  <1> HIDE DEF m, more
  <1>7. \A i \in 1 .. m : <<t[i], more[i - 1], more[i]>> \in D
    <2> TAKE i \in 1 .. m
    <2>1. CASE i = m
      <3>1. t[i] = y /\ more[i] = c /\ more[i - 1] = b
        BY <1>2, <1>3, <1>4, <1>5, <2>1
      <3> QED
        BY <3>1
    <2>2. CASE i \in 1 .. n
      <3>1. t[i] = kids[i] /\ more[i] = ends[i] /\ more[i - 1] = ends[i - 1]
        BY <1>2, <1>4, <1>5, <2>2
      <3> QED
        BY <1>3, <2>2, <3>1
    <2> QED
      BY <1>4, <2>1, <2>2
  <1>8. Ends(D, t, a, c, more)
    BY <1>2, <1>3, <1>4, <1>5, <1>6, <1>7 DEF Ends
  <1> QED
    BY <1>8 DEF Covers, t

\* A label tells the class, or the token of a GenericToken.
LEMMA LabelIs ==
  ASSUME NEW T, T \subseteq NodesOver(T), NEW y \in T
  PROVE  /\ Label(y) \in Labels
         /\ y.class \in Classes => Label(y) = y.class
         /\ y.class = "GenericToken" => Label(y) = y.token
         /\ Label(y) \in Classes => y.class = Label(y)
         /\ Label(y) \in Tokens => y.class = "GenericToken" /\ y.token = Label(y)
  <1>1. /\ y.class \in Classes \cup {"GenericToken"} /\ y.token \in Tokens \cup {NoToken}
    BY DEF NodesOver
  <1>2. "GenericToken" \notin Classes /\ Classes \cap (Tokens \cup {NoToken}) = {}
    BY DEF Classes, Tokens, Keywords, NoToken
  <1> QED
    BY <1>1, <1>2 DEF Label, Labels

\* The labels of the children, and of one child more.
LEMMA PatternIs ==
  ASSUME NEW T, T \subseteq NodesOver(T), NEW kids \in Seq(T)
  PROVE  /\ Pattern(kids) \in Seq(Labels) /\ Len(Pattern(kids)) = Len(kids)
         /\ \A i \in 1 .. Len(kids) : Pattern(kids)[i] = Label(kids[i])
         /\ \A y \in T : Pattern(Append(kids, y)) = Append(Pattern(kids), Label(y))
  <1>1. \A y \in T : Label(y) \in Labels
    BY LabelIs
  <1>2. ASSUME NEW s \in Seq(T)
        PROVE  /\ Pattern(s) \in Seq(Labels) /\ Len(Pattern(s)) = Len(s)
               /\ \A i \in 1 .. Len(s) : Pattern(s)[i] = Label(s[i])
    BY <1>1 DEF Pattern
  <1>3. ASSUME NEW y \in T
        PROVE  Pattern(Append(kids, y)) = Append(Pattern(kids), Label(y))
    <2> DEFINE t == Append(kids, y)
               p == Pattern(kids)
               n == Len(kids)
               u == Pattern(t)
               l == Label(y)
               v == Append(p, l)
    <2>1. /\ n \in Nat /\ t \in Seq(T) /\ Len(t) = n + 1 /\ t[n + 1] = y
          /\ \A i \in 1 .. n : t[i] = kids[i]
      BY AppendIs
    <2>2. /\ p \in Seq(Labels) /\ Len(p) = n /\ \A i \in 1 .. n : p[i] = Label(kids[i])
          /\ l \in Labels
      BY <1>1, <1>2
    <2> HIDE DEF t
    <2>3. /\ u \in Seq(Labels) /\ Len(u) = n + 1
          /\ \A i \in 1 .. n + 1 : u[i] = Label(t[i])
      BY <1>2, <2>1
    <2> HIDE DEF n, p, u, l
    <2>4. /\ v \in Seq(Labels) /\ Len(v) = n + 1 /\ v[n + 1] = l
          /\ \A i \in 1 .. n : v[i] = p[i]
      BY <2>2
    <2> HIDE DEF v
    <2>5. \A i \in 1 .. n + 1 : i = n + 1 \/ i \in 1 .. n
      BY <2>1
    <2>6. \A i \in 1 .. Len(u) : u[i] = v[i]
      <3> TAKE i \in 1 .. Len(u)
      <3>1. CASE i = n + 1
        BY <2>1, <2>3, <2>4, <3>1 DEF l
      <3>2. CASE i \in 1 .. n
        <4>1. i \in 1 .. n + 1
          BY <2>1, <3>2
        <4> QED
          BY <2>1, <2>2, <2>3, <2>4, <3>2, <4>1
      <3> QED
        BY <2>3, <2>5, <3>1, <3>2
    <2>7. u = v
      BY <2>3, <2>4, <2>6, SeqEqual
    <2> QED
      BY <2>7 DEF u, v, t, p, l
  <1> QED
    BY <1>2, <1>3

\* What a part is stays so when others are known and the text goes on.
LEMMA PartGrows ==
  ASSUME NEW D, NEW E, D \subseteq E, NEW words \in Seq(Tokens), NEW more \in Seq(Tokens),
         Len(words) <= Len(more), \A i \in 1 .. Len(words) : more[i] = words[i],
         NEW x, NEW rest, NEW a, NEW b, Part(D, words, x, rest, a, b)
  PROVE  Part(E, more, x, rest, a, b)
  <1>1. a \in Nat /\ b \in Nat /\ a <= b /\ b <= Len(words) /\ b <= Len(more)
    BY DEF Part
  <1>2. Avoids(more, a, b, x.class)
    <2>1. \A i \in a + 1 .. b : more[i] = words[i]
      BY <1>1
    <2> QED
      BY <2>1 DEF Part, Avoids
  <1>3. Leaf(words, x, a, b) => Leaf(more, x, a, b)
    <2>1. b = a + 1 => more[b] = words[b]
      BY <1>1
    <2> QED
      BY <2>1 DEF Leaf
  <1>4. Covers(D, x.children, a, b) => Covers(E, x.children, a, b)
    BY CoversGrow
  <1> QED
    BY <1>1, <1>2, <1>3, <1>4 DEF Part

\* Parts stay parts when the text gets longer and a node gets its part.
LEMMA SettledGrows ==
  ASSUME NEW T, NEW D, NEW words \in Seq(Tokens), NEW more \in Seq(Tokens),
         Len(words) <= Len(more), \A i \in 1 .. Len(words) : more[i] = words[i],
         Settled(T, D, words), NEW U, T \subseteq U,
         NEW x \in U, NEW a \in Nat, NEW b \in Nat,
         Part(D \cup {<<x, a, b>>}, more, x, <<>>, a, b)
  PROVE  Settled(U, D \cup {<<x, a, b>>}, more)
  <1> DEFINE E == D \cup {<<x, a, b>>}
  <1>1. E \subseteq U \X Nat \X Nat /\ D \subseteq E
    BY DEF Settled
  <1>2. ASSUME NEW y \in U, NEW c \in Nat, NEW d \in Nat, <<y, c, d>> \in E
        PROVE  Part(E, more, y, <<>>, c, d)
    <2>1. CASE <<y, c, d>> = <<x, a, b>>
      BY <2>1
    <2>2. CASE <<y, c, d>> \in D
      <3>1. y \in T
        BY <2>2 DEF Settled
      <3>2. Part(D, words, y, <<>>, c, d)
        BY <2>2, <3>1 DEF Settled
      <3> HIDE DEF E
      <3> QED
        BY <1>1, <3>2, PartGrows
    <2> QED
      BY <1>2, <2>1, <2>2
  <1> QED
    BY <1>1, <1>2 DEF Settled

\* So do the nodes under construction.
LEMMA SpannedGrows ==
  ASSUME NEW T, NEW D, NEW words \in Seq(Tokens), NEW more \in Seq(Tokens),
         Len(words) <= Len(more), \A i \in 1 .. Len(words) : more[i] = words[i],
         NEW nodes, NEW stack, NEW cuts, Spanned(T, D, words, nodes, stack, cuts),
         NEW U, T \subseteq U, NEW E, D \subseteq E
  PROVE  Spanned(U, E, more, nodes, stack, cuts)
  <1>1. nodes \in Seq(U)
    BY DEF Spanned
  <1>2. ASSUME NEW i \in 1 .. Len(nodes)
        PROVE  Part(E, more, nodes[i], stack[i].rest, cuts[i], cuts[i + 1])
    <2>1. Part(D, words, nodes[i], stack[i].rest, cuts[i], cuts[i + 1])
      BY DEF Spanned
    <2> QED
      BY <2>1, PartGrows
  <1> QED
    BY <1>1, <1>2 DEF Spanned

\* The innermost part, and the ones without it.
Drops(T, D, words, s, stack, cuts) ==
    /\ Spanned(T, D, words, Front(s), Front(stack), Front(cuts))
    /\ Last(s) \in T /\ s = Append(Front(s), Last(s))
    /\ Last(stack) \in Frames /\ stack = Append(Front(stack), Last(stack))
    /\ Last(s).class = Last(stack).class
    /\ Last(Front(cuts)) \in Nat /\ Last(cuts) \in Nat
    /\ cuts = Append(Front(cuts), Last(cuts))
    /\ Part(D, words, Last(s), Last(stack).rest, Last(Front(cuts)), Last(cuts))
    /\ Front(s) # <<>> => /\ Front(stack) # <<>>
                          /\ Head(Last(Front(stack)).rest).class = Last(stack).class

\* What is left when the last activation returns.
LEMMA SpannedDropped ==
  ASSUME NEW T, NEW D, NEW words, NEW s, NEW stack, NEW cuts,
         Spanned(T, D, words, s, stack, cuts), s # <<>>
  PROVE  Drops(T, D, words, s, stack, cuts)
  <1>1. /\ s \in Seq(T) /\ stack \in Seq(Frames) /\ cuts \in Seq(Nat)
        /\ Len(stack) = Len(s) /\ Len(cuts) = Len(s) + 1 /\ cuts[1] = 0
        /\ \A i \in 1 .. Len(s) :
              /\ s[i].class = stack[i].class
              /\ Part(D, words, s[i], stack[i].rest, cuts[i], cuts[i + 1])
        /\ \A i \in 1 .. Len(s) - 1 : Head(stack[i].rest).class = stack[i + 1].class
    BY DEF Spanned
  <1> DEFINE n == Len(s)
             f == Front(s)
             x == Last(s)
             g == Front(stack)
             b == Last(stack)
             h == Front(cuts)
             z == Last(cuts)
  <1>2. n \in Nat /\ n >= 1 /\ stack # <<>> /\ cuts # <<>>
    BY <1>1
  <1>3. /\ f \in Seq(T) /\ x \in T /\ s = Append(f, x) /\ Len(f) = n - 1 /\ x = s[n]
        /\ \A i \in 1 .. n - 1 : f[i] = s[i]
    BY <1>1, FrontLast
  <1>4. /\ g \in Seq(Frames) /\ b \in Frames /\ stack = Append(g, b) /\ Len(g) = n - 1
        /\ b = stack[n] /\ \A i \in 1 .. n - 1 : g[i] = stack[i]
    BY <1>1, <1>2, FrontLast
  <1>5. /\ h \in Seq(Nat) /\ z \in Nat /\ cuts = Append(h, z) /\ Len(h) = n
        /\ z = cuts[n + 1] /\ \A i \in 1 .. n : h[i] = cuts[i]
    <2>1. Len(cuts) - 1 = n /\ Len(cuts) = n + 1
      BY <1>1, <1>2
    <2> QED
      BY <1>1, <1>2, <2>1, FrontLast
  <1> HIDE DEF f, x, g, b, h, z
  <1>6. h # <<>> /\ Last(h) = h[n] /\ Last(h) \in Nat
    <2>1. h # <<>>
      BY <1>2, <1>5
    <2>2. Last(h) \in Nat /\ Last(h) = h[Len(h)]
      BY <1>5, <2>1, FrontLast
    <2> QED
      BY <1>5, <2>1, <2>2
  <1> HIDE DEF n
  <1>7. Spanned(T, D, words, f, g, h)
    <2>1. /\ Len(h) = Len(f) + 1 /\ 1 \in 1 .. n /\ Len(g) = Len(f)
          /\ \A i \in 1 .. n - 1 : i \in 1 .. n /\ i + 1 \in 1 .. n
          /\ \A i \in 1 .. (n - 1) - 1 : i \in 1 .. n - 1 /\ i + 1 \in 1 .. n - 1
      BY <1>2, <1>3, <1>4, <1>5
    <2>2. ASSUME NEW i \in 1 .. n - 1
          PROVE  /\ f[i].class = g[i].class
                 /\ Part(D, words, f[i], g[i].rest, h[i], h[i + 1])
      <3>1. f[i] = s[i] /\ g[i] = stack[i] /\ h[i] = cuts[i] /\ h[i + 1] = cuts[i + 1]
        BY <1>3, <1>4, <1>5, <2>1
      <3> QED
        BY <1>1, <2>1, <3>1 DEF n
    <2>3. \A i \in 1 .. (n - 1) - 1 : Head(g[i].rest).class = g[i + 1].class
      <3> TAKE i \in 1 .. (n - 1) - 1
      <3>1. g[i] = stack[i] /\ g[i + 1] = stack[i + 1]
        BY <1>4, <2>1
      <3>2. Head(stack[i].rest).class = stack[i + 1].class
        BY <1>1, <2>1 DEF n
      <3> QED
        BY <3>1, <3>2
    <2>4. h[1] = 0
      BY <1>1, <1>5, <2>1
    <2> QED
      BY <1>3, <1>4, <1>5, <2>1, <2>2, <2>3, <2>4 DEF Spanned
  <1>8. x.class = b.class /\ Part(D, words, x, b.rest, Last(h), z)
    <2>1. n \in 1 .. n
      BY <1>2
    <2>2. s[n].class = stack[n].class /\ Part(D, words, s[n], stack[n].rest, cuts[n], cuts[n + 1])
      BY <1>1, <2>1 DEF n
    <2> QED
      BY <1>3, <1>4, <1>5, <1>6, <2>1, <2>2
  <1>9. ASSUME f # <<>>
        PROVE  g # <<>> /\ Head(Last(g).rest).class = b.class
    <2>1. Len(f) # 0
      BY <1>3, <1>9
    <2>2. n - 1 \in 1 .. n - 1 /\ (n - 1) + 1 = n
      BY <1>2, <1>3, <2>1
    <2>3. g # <<>>
      BY <1>2, <1>4, <2>2
    <2>4. Last(g) = g[n - 1]
      <3>1. Last(g) = g[Len(g)]
        BY <1>4, <2>3, FrontLast
      <3> QED
        BY <1>4, <3>1
    <2>5. Head(stack[n - 1].rest).class = stack[(n - 1) + 1].class
      BY <1>1, <2>2 DEF n
    <2> QED
      BY <1>4, <2>2, <2>3, <2>4, <2>5
  <1> QED
    BY <1>3, <1>4, <1>5, <1>6, <1>7, <1>8, <1>9 DEF Drops, f, x, g, b, h, z

\* One more part.
LEMMA SpannedAdded ==
  ASSUME NEW T, NEW D, NEW words, NEW s, NEW stack, NEW cuts,
         Spanned(T, D, words, s, stack, cuts),
         NEW y \in T, NEW b \in Frames, y.class = b.class, NEW z \in Nat,
         Part(D, words, y, b.rest, Last(cuts), z),
         s # <<>> => Head(Last(stack).rest).class = b.class
  PROVE  Spanned(T, D, words, Append(s, y), Append(stack, b), Append(cuts, z))
  <1>1. /\ s \in Seq(T) /\ stack \in Seq(Frames) /\ cuts \in Seq(Nat)
        /\ Len(stack) = Len(s) /\ Len(cuts) = Len(s) + 1 /\ cuts[1] = 0
        /\ \A i \in 1 .. Len(s) :
              /\ s[i].class = stack[i].class
              /\ Part(D, words, s[i], stack[i].rest, cuts[i], cuts[i + 1])
        /\ \A i \in 1 .. Len(s) - 1 : Head(stack[i].rest).class = stack[i + 1].class
    BY DEF Spanned
  <1> DEFINE n == Len(s)
             t == Append(s, y)
             g == Append(stack, b)
             h == Append(cuts, z)
  <1>2. /\ n \in Nat /\ t \in Seq(T) /\ Len(t) = n + 1 /\ t[n + 1] = y
        /\ \A i \in 1 .. n : t[i] = s[i]
    BY <1>1, AppendIs
  <1>3. /\ g \in Seq(Frames) /\ Len(g) = n + 1 /\ g[n + 1] = b
        /\ \A i \in 1 .. n : g[i] = stack[i]
    BY <1>1, AppendIs
  <1>4. /\ h \in Seq(Nat) /\ Len(h) = n + 2 /\ h[n + 2] = z
        /\ \A i \in 1 .. n + 1 : h[i] = cuts[i]
    <2>1. /\ h \in Seq(Nat) /\ Len(h) = Len(cuts) + 1 /\ h[Len(cuts) + 1] = z
          /\ \A i \in 1 .. Len(cuts) : h[i] = cuts[i]
      BY <1>1, AppendIs
    <2>2. Len(cuts) = n + 1 /\ Len(cuts) + 1 = n + 2
      BY <1>1, <1>2
    <2> HIDE DEF h
    <2> QED
      BY <2>1, <2>2
  <1>5. Last(cuts) = cuts[n + 1]
    <2>1. cuts # <<>> /\ Len(cuts) = n + 1
      BY <1>1, <1>2
    <2>2. Last(cuts) = cuts[Len(cuts)]
      BY <1>1, <2>1, FrontLast
    <2> QED
      BY <2>1, <2>2
  <1> HIDE DEF t, g, h, n
  <1>6. /\ \A i \in 1 .. n + 1 : i = n + 1 \/ i \in 1 .. n
        /\ \A i \in 1 .. n : i \in 1 .. n + 1 /\ i + 1 \in 1 .. n + 1
        /\ n + 1 \in 1 .. n + 1 /\ (n + 1) + 1 = n + 2 /\ 1 \in 1 .. n + 1
        /\ (n + 1) - 1 = n /\ \A i \in 1 .. n : i = n \/ i \in 1 .. n - 1
    BY <1>2
  <1>7. ASSUME NEW i \in 1 .. n + 1
        PROVE  t[i].class = g[i].class /\ Part(D, words, t[i], g[i].rest, h[i], h[i + 1])
    <2>1. CASE i = n + 1
      <3>1. t[i] = y /\ g[i] = b /\ h[i] = Last(cuts) /\ h[i + 1] = z
        BY <1>2, <1>3, <1>4, <1>5, <1>6, <2>1
      <3> QED
        BY <3>1
    <2>2. CASE i \in 1 .. n
      <3>1. t[i] = s[i] /\ g[i] = stack[i] /\ h[i] = cuts[i] /\ h[i + 1] = cuts[i + 1]
        BY <1>2, <1>3, <1>4, <1>6, <2>2
      <3>2. /\ s[i].class = stack[i].class
            /\ Part(D, words, s[i], stack[i].rest, cuts[i], cuts[i + 1])
        BY <1>1, <2>2 DEF n
      <3> QED
        BY <3>1, <3>2
    <2> QED
      BY <1>6, <2>1, <2>2
  <1>8. ASSUME NEW i \in 1 .. n
        PROVE  Head(g[i].rest).class = g[i + 1].class
    <2>1. CASE i = n
      <3>1. s # <<>> /\ stack # <<>>
        BY <1>1, <2>1 DEF n
      <3>2. Last(stack) = stack[n]
        <4>1. Last(stack) = stack[Len(stack)]
          BY <1>1, <3>1, FrontLast
        <4> QED
          BY <1>1, <4>1 DEF n
      <3>3. g[i] = stack[n] /\ g[i + 1] = b
        BY <1>3, <2>1
      <3> QED
        BY <3>1, <3>2, <3>3
    <2>2. CASE i \in 1 .. n - 1
      <3>1. i + 1 \in 1 .. n
        BY <1>2, <2>2
      <3>2. g[i] = stack[i] /\ g[i + 1] = stack[i + 1]
        BY <1>3, <3>1
      <3>3. Head(stack[i].rest).class = stack[i + 1].class
        BY <1>1, <2>2 DEF n
      <3> QED
        BY <3>2, <3>3
    <2> QED
      BY <1>6, <2>1, <2>2
  <1>9. /\ Len(g) = Len(t) /\ Len(h) = Len(t) + 1 /\ h[1] = 0 /\ Len(t) = n + 1
        /\ Len(t) - 1 = n
    BY <1>1, <1>2, <1>3, <1>4, <1>6
  <1>10. Spanned(T, D, words, t, g, h)
    BY <1>2, <1>3, <1>4, <1>7, <1>8, <1>9 DEF Spanned
  <1> QED
    BY <1>10 DEF t, g, h

\* An activation that starts stands for nothing yet.
LEMMA PartStarts ==
  ASSUME NEW D, NEW words \in Seq(Tokens), NEW a \in Nat, a <= Len(words),
         NEW x, x.class \in Classes, x.token = NoToken, x.children = <<>>
  PROVE  Part(D, words, x, Body(x.class), a, a)
  <1>1. Avoids(words, a, a, x.class)
    <2>1. a + 1 .. a = {}
      OBVIOUS
    <2> QED
      BY <2>1 DEF Avoids
  <1>2. Body(x.class) \in Seq(Avoiding(Forbidden(x.class)))
    BY BodyAvoids, Zenon
  <1>3. x.class \in Leafs => Body(x.class) # <<>>
    <2>1. "GenericToken" \notin Classes
      BY DEF Classes
    <2>2. x.class \in Leafs => x.class \in Terminals
      BY <2>1 DEF Leafs
    <2> QED
      BY <2>2, BodyIs
  <1>4. Covers(D, x.children, a, a)
    BY CoversNone, Zenon
  <1>5. Stage(x.class, Pattern(x.children), Body(x.class))
    <2>1. Pattern(x.children) = <<>>
      BY DEF Pattern
    <2> QED
      BY <2>1, StageStarts, Zenon
  <1> QED
    BY <1>1, <1>2, <1>3, <1>4, <1>5 DEF Part

\* The same children, other blocks.
LEMMA PartMoves ==
  ASSUME NEW T, T \subseteq NodesOver(T), NEW D, NEW words, NEW x \in T,
         x.class \notin Leafs, NEW rest, rest # <<>>, NEW a, NEW b,
         Part(D, words, x, rest, a, b), NEW s,
         Moves(Pattern(x.children), rest, Pattern(x.children), s)
  PROVE  Part(D, words, x, s, a, b)
  <1>1. s \in Seq(Avoiding(Forbidden(x.class)))
    BY MovesAvoid, ForbiddenIs, Zenon DEF Part
  <1>2. Pattern(x.children) \in Seq(Labels)
    <2>1. x.children \in Seq(T)
      BY DEF NodesOver
    <2> QED
      BY <2>1, PatternIs
  <1>3. Stage(x.class, Pattern(x.children), s)
    <2>1. Stage(x.class, Pattern(x.children), rest)
      BY DEF Part
    <2> QED
      BY <1>2, <2>1, StageMoves, Zenon
  <1> QED
    BY <1>1, <1>3 DEF Part

\* One more child.
LEMMA PartAdopts ==
  ASSUME NEW T, T \subseteq NodesOver(T), NEW D, NEW words, NEW x \in T, NEW y \in T,
         x.class \notin Leafs, NEW rest, rest # <<>>, NEW a, NEW b, NEW c \in Nat,
         Part(D, words, x, rest, a, b), b <= c, c <= Len(words),
         <<y, b, c>> \in D, Avoids(words, b, c, x.class), NEW s,
         Moves(Pattern(x.children), rest, Append(Pattern(x.children), Label(y)), s),
         NEW z, z.class = x.class, z.token = x.token, z.children = Append(x.children, y)
  PROVE  Part(D, words, z, s, a, c)
  <1>1. s \in Seq(Avoiding(Forbidden(x.class)))
    BY MovesAvoid, ForbiddenIs, Zenon DEF Part
  <1>2. x.children \in Seq(T)
    BY DEF NodesOver
  <1>3. /\ Pattern(x.children) \in Seq(Labels)
        /\ Pattern(z.children) = Append(Pattern(x.children), Label(y))
    BY <1>2, PatternIs
  <1>4. Stage(x.class, Pattern(z.children), s)
    <2>1. Stage(x.class, Pattern(x.children), rest)
      BY DEF Part
    <2>2. Moves(Pattern(x.children), rest, Pattern(z.children), s)
      BY <1>3, Zenon
    <2> QED
      BY <1>3, <2>1, <2>2, StageMoves, Zenon
  <1>5. Covers(D, z.children, a, c)
    <2>1. Covers(D, x.children, a, b)
      BY DEF Part
    <2> QED
      BY <1>2, <2>1, CoversMore
  <1>6. a \in Nat /\ b \in Nat /\ a <= b
    BY DEF Part
  <1>7. Avoids(words, a, c, x.class)
    <2>1. \A i \in a + 1 .. c : i \in a + 1 .. b \/ i \in b + 1 .. c
      BY <1>6
    <2>2. Avoids(words, a, b, x.class)
      BY DEF Part
    <2> QED
      BY <2>1, <2>2 DEF Avoids
  <1>8. a <= c /\ x.token = NoToken
    BY <1>6 DEF Part
  <1> QED
    BY <1>1, <1>4, <1>5, <1>6, <1>7, <1>8 DEF Part

-----------------------------------------------------------------------------
(* What a step does, by the block that is executed.                        *)

\* The steps of the parser, by what they do to the activations: a call,
Begun ==
    /\ Top.rest # <<>> /\ Current.class \in Classes
    /\ frames' = Append(frames, Activation(Current.class))
    /\ consumed' = consumed /\ answer' = "none" /\ verdict' # "accepted"

\* With a token or without one.
Advanced(rest) ==
    /\ Top.rest # <<>>
    /\ frames' = Append(Front(frames), Frame(Top.class, rest))
    /\ answer' = "none" /\ verdict' # "accepted"
    /\ \/ /\ consumed' = consumed
          /\ \A p : Moves(p, Top.rest, p, rest)
       \/ /\ consumed' = consumed + 1 /\ ahead \in Current.tokens
          /\ \A p : Moves(p, Top.rest, Append(p, ahead), rest)

\* the activation that made the call,
Parent == Last(Front(frames))

\* A child is done, or was not there.
Completed ==
    /\ answer = "true" /\ Len(frames) > 1 /\ Parent.rest # <<>>
    /\ frames' = Append(Front(Front(frames)), Frame(Parent.class, Tail(Parent.rest)))
    /\ \A p : Moves(p, Parent.rest, Append(p, Head(Parent.rest).class), Tail(Parent.rest))
    /\ consumed' = consumed /\ answer' = "none" /\ verdict' # "accepted"

\* the return of false where the child may be missing,
LeftOut ==
    /\ answer = "false" /\ Len(frames) > 1 /\ Parent.rest # <<>>
    /\ frames' = Append(Front(Front(frames)), Frame(Parent.class, Tail(Parent.rest)))
    /\ \A p : Moves(p, Parent.rest, p, Tail(Parent.rest))
    /\ consumed' = consumed /\ answer' = "none" /\ verdict' # "accepted"

\* and steps that move no activation.
Waits ==
    /\ frames' = frames /\ consumed' = consumed
    /\ answer' = "true" => answer = "true" \/ Top.rest = <<>>
    /\ verdict' = "accepted" =>
          \/ answer' = "true" /\ Len(frames) = 1
          \/ verdict = "accepted" /\ answer' = answer

\* Every step without a message is one of them.
LEMMA NextMoves ==
  ASSUME ParserInv, Next, errors' = 0
  PROVE  Begun \/ (\E rest : Advanced(rest)) \/ Completed \/ LeftOut \/ Waits
  <1>1. TypeOK /\ Chain(frames) /\ Reported /\ errors \in Nat
    BY DEF ParserInv, TypeOK
  <1>2. \A p, q, rest :
           MovesBlock(Current, Tail(Top.rest), p, Top.rest, q, rest) => Moves(p, Top.rest, q, rest)
    BY DEF Moves, Current
  <1>3. ~Refuse
    BY <1>1 DEF Refuse
  <1>4. CASE Enter
    <2>1. Top.rest # <<>> /\ Current.kind \in {"need", "optional"}
      BY <1>4 DEF Enter, At
    <2>2. Current \in Blocks
      BY <1>1, <2>1, CurrentIs
    <2>3. Current.class \in Classes
      BY <2>1, <2>2 DEF Blocks, Declarations, Classes
    <2> QED
      BY <1>4, <2>1, <2>3 DEF Enter, At, Begun
  \* A token is taken and the other blocks follow.
  <1>5. ASSUME At("expect") \/ At("start") \/ At("sign"), ahead \in Current.tokens, Consume,
               Resume(Tail(Top.rest)), UNCHANGED <<answer, verdict>>
        PROVE  Advanced(Tail(Top.rest))
    <2>1. \A p : MovesBlock(Current, Tail(Top.rest), p, Top.rest, Append(p, ahead), Tail(Top.rest))
      BY <1>5 DEF At, MovesBlock
    <2> QED
      BY <1>2, <1>5, <2>1 DEF At, Advanced, Consume, Resume
  \* No token is taken.
  <1>6. ASSUME At("repeat") \/ At("continue") \/ At("sign"), UNCHANGED <<ahead, consumed>>,
               Resume(Tail(Top.rest)), UNCHANGED <<answer, verdict>>
        PROVE  Advanced(Tail(Top.rest))
    <2>1. \A p : MovesBlock(Current, Tail(Top.rest), p, Top.rest, p, Tail(Top.rest))
      BY <1>6 DEF At, MovesBlock
    <2> QED
      BY <1>2, <1>6, <2>1 DEF At, Advanced, Resume
  <1>7. CASE ExpectToken
    BY <1>3, <1>5, <1>7 DEF ExpectToken
  <1>8. CASE StartDeclaration
    <2>1. CASE Return("false")
      BY <1>8, <2>1 DEF StartDeclaration, Return, Waits, At
    <2> QED
      BY <1>5, <1>8, <2>1 DEF StartDeclaration
  <1>9. CASE RepeatChild
    <2>1. CASE ahead \in Current.tokens /\ Consume /\ Resume(<<Need(Current.class)>> \o Top.rest)
      <3> DEFINE list == <<Need(Current.class)>> \o Top.rest
      <3>1. Resume(list)
        BY <2>1
      <3>2. \A p : MovesBlock(Current, Tail(Top.rest), p, Top.rest, Append(p, ahead), list)
        BY <1>9, <2>1 DEF At, RepeatChild, MovesBlock
      <3> HIDE DEF list
      <3>3. Advanced(list)
        BY <1>2, <1>9, <2>1, <3>1, <3>2 DEF RepeatChild, At, Advanced, Consume, Resume
      <3> QED
        BY <3>3
    <2> QED
      BY <1>6, <1>9, <2>1 DEF RepeatChild
  <1>10. CASE ContinueExpression
    <2>1. CASE ahead \in Current.tokens /\ Consume
               /\ Resume(<<Need(Current.class)>> \o Tail(Top.rest))
      <3> DEFINE list == <<Need(Current.class)>> \o Tail(Top.rest)
      <3>1. Resume(list)
        BY <2>1
      <3>2. \A p : MovesBlock(Current, Tail(Top.rest), p, Top.rest, Append(p, ahead), list)
        BY <1>10, <2>1 DEF At, ContinueExpression, MovesBlock
      <3> HIDE DEF list
      <3>3. Advanced(list)
        BY <1>2, <1>10, <2>1, <3>1, <3>2 DEF ContinueExpression, At, Advanced, Consume, Resume
      <3> QED
        BY <3>3
    <2> QED
      BY <1>6, <1>10, <2>1 DEF ContinueExpression
  <1>11. CASE SkipSign
    <2>1. CASE UNCHANGED <<ahead, consumed, frames>> /\ verdict' = "aborted"
      BY <1>11, <2>1 DEF SkipSign, At, Waits
    <2> QED
      BY <1>5, <1>6, <1>11, <2>1 DEF SkipSign
  <1>12. CASE TakeBranch
    <2>1. /\ At("branch") /\ ahead \in Current.tokens
          /\ UNCHANGED <<ahead, consumed, answer, errors, wanted, verdict>>
      BY <1>3, <1>12 DEF TakeBranch
    <2> DEFINE list == Alternative(Current.class, ahead) \o Tail(Top.rest)
    <2>2. Resume(list)
      BY <1>3, <1>12 DEF TakeBranch
    <2>3. \A p : MovesBlock(Current, Tail(Top.rest), p, Top.rest, p, list)
      BY <2>1 DEF At, MovesBlock
    <2> HIDE DEF list
    <2>4. Advanced(list)
      BY <1>2, <2>1, <2>2, <2>3 DEF At, Advanced, Resume
    <2> QED
      BY <2>4
  <1>13. CASE Succeed
    BY <1>13 DEF Succeed, Return, Waits
  <1>14. CASE ReturnToParent
    <2>1. /\ frames \in Seq(Frames) /\ frames # <<>> /\ Len(frames) > 1
          /\ answer \in {"true", "false"} /\ verdict = "parsing"
          /\ UNCHANGED <<ahead, consumed, errors, wanted, verdict>>
      BY <1>1, <1>14 DEF ReturnToParent, TypeOK
    <2>2. /\ Parent = frames[Len(frames) - 1] /\ Parent.rest # <<>>
          /\ Head(Parent.rest).kind \in {"need", "optional"}
      BY <1>1, <2>1, DropLast DEF Parent
    <2>3. \/ /\ answer = "true" \/ Head(Parent.rest).kind = "optional"
             /\ frames' = Append(Front(Front(frames)), Frame(Parent.class, Tail(Parent.rest)))
             /\ answer' = "none"
          \/ answer = "false" /\ Head(Parent.rest).kind = "need"
      BY <1>14 DEF ReturnToParent, Parent
    <2> DEFINE b == Head(Parent.rest)
               l == Tail(Parent.rest)
               a == Parent.rest
    <2>4. \A p, q, rest : MovesBlock(b, l, p, a, q, rest) => Moves(p, a, q, rest)
      BY DEF Moves
    <2>5. errors = 0
      BY <2>1
    <2> HIDE DEF b, l, a
    <2>6. CASE answer = "true" /\ b.kind \in {"need", "optional"}
      <3>1. \A p : MovesBlock(b, l, p, a, Append(p, b.class), l)
        BY <2>6 DEF MovesBlock
      <3>2. \A p : Moves(p, a, Append(p, b.class), l)
        BY <2>4, <3>1
      <3> QED
        BY <2>1, <2>2, <2>3, <2>6, <3>2 DEF Completed, b, l, a
    <2>7. CASE answer = "false" /\ b.kind = "optional"
      <3>1. \A p : MovesBlock(b, l, p, a, p, l)
        BY <2>7 DEF MovesBlock
      <3>2. \A p : Moves(p, a, p, l)
        BY <2>4, <3>1
      <3> QED
        BY <2>1, <2>2, <2>3, <2>7, <3>2 DEF LeftOut, b, l, a
    <2>8. CASE answer = "false" /\ b.kind = "need"
      BY <1>1, <2>2, <2>5, <2>8 DEF Reported, b
    <2> QED
      BY <2>1, <2>2, <2>6, <2>7, <2>8 DEF b
  <1>15. CASE Finish
    BY <1>15 DEF Finish, Waits
  <1> QED
    BY <1>4, <1>7, <1>8, <1>9, <1>10, <1>11, <1>12, <1>13, <1>14, <1>15 DEF Next

-----------------------------------------------------------------------------
(* The nodes under construction cut the text into parts.                   *)

\* The nodes T with the parts D; cuts are where the activations began.
Laid(T, D, cuts) ==
    /\ T \subseteq NodesOver(T)
    /\ Settled(T, D, text)
    /\ Spanned(T, D, text, growing, frames, cuts)
    /\ Last(cuts) = consumed

\* As long as no message was printed; an activation is done before it returns.
Spans ==
    errors = 0 =>
        /\ answer = "true" => Top.rest = <<>>
        /\ verdict = "accepted" => answer = "true" /\ Len(frames) = 1
        /\ \E T, D, cuts : Laid(T, D, cuts)

\* The inductive invariant: the tree's, and the parts of its nodes.
SpanInv == TreeInv /\ Spans

\* The last element of a longer sequence.
LEMMA LastAppend ==
  ASSUME NEW S, NEW s \in Seq(S), NEW x \in S
  PROVE  Last(Append(s, x)) = x
  <1> DEFINE t == Append(s, x)
  <1>1. t \in Seq(S) /\ t # <<>> /\ t[Len(t)] = x
    <2>1. t \in Seq(S) /\ Len(t) = Len(s) + 1 /\ t[Len(s) + 1] = x /\ Len(s) \in Nat
      BY AppendIs
    <2> QED
      BY <2>1
  <1> HIDE DEF t
  <1>2. Last(t) = x
    BY <1>1, FrontLast
  <1> QED
    BY <1>2 DEF t

\* The element before the last one.
LEMMA SecondLast ==
  ASSUME NEW S, NEW s \in Seq(S), Len(s) > 1
  PROVE  Front(s) # <<>> /\ Last(Front(s)) = s[Len(s) - 1] /\ s # <<>>
  <1> DEFINE f == Front(s)
             n == Len(s)
  <1>1. n \in Nat /\ n > 1 /\ s # <<>>
    OBVIOUS
  <1>2. f \in Seq(S) /\ Len(f) = n - 1 /\ \A i \in 1 .. n - 1 : f[i] = s[i]
    BY <1>1, FrontLast
  <1> HIDE DEF f, n
  <1>3. f # <<>> /\ n - 1 \in 1 .. n - 1
    BY <1>1, <1>2
  <1>4. Last(f) = f[Len(f)]
    BY <1>2, <1>3, FrontLast
  <1> QED
    BY <1>1, <1>2, <1>3, <1>4 DEF f, n

\* More nodes, and more of the text, change nothing.
LEMMA SettledWidens ==
  ASSUME NEW T, NEW D, NEW words \in Seq(Tokens), NEW more \in Seq(Tokens),
         Len(words) <= Len(more), \A i \in 1 .. Len(words) : more[i] = words[i],
         Settled(T, D, words), NEW U, T \subseteq U
  PROVE  Settled(U, D, more)
  <1>1. D \subseteq U \X Nat \X Nat
    BY DEF Settled
  <1>2. ASSUME NEW y \in U, NEW c \in Nat, NEW d \in Nat, <<y, c, d>> \in D
        PROVE  Part(D, more, y, <<>>, c, d)
    <2>1. y \in T
      BY <1>2 DEF Settled
    <2>2. Part(D, words, y, <<>>, c, d)
      BY <1>2, <2>1 DEF Settled
    <2> QED
      BY <2>2, PartGrows
  <1> QED
    BY <1>1, <1>2 DEF Settled

\* A terminal has one block.
LEMMA LeafMoves ==
  ASSUME NEW c \in Terminals, NEW q, NEW s, Moves(<<>>, Body(c), q, s)
  PROVE  /\ s = <<>> /\ q # <<>>
         /\ c = "Identifier" => q = <<"identifier">>
         /\ c = "Literal" => q = <<"literal">>
  <1>1. CASE c = "Identifier"
    <2>1. Body(c) = <<Expect("identifier")>>
      BY <1>1 DEF Body, Identifier
    <2>2. Head(Body(c)) = Expect("identifier") /\ Tail(Body(c)) = <<>>
      BY <2>1, ListsAre
    <2>3. q = Append(<<>>, "identifier") /\ s = <<>>
      BY <2>2, ExpectMoves
    <2>4. q = <<"identifier">> /\ <<"identifier">> # <<>>
      BY <2>3, AppendsAre, ListsAre
    <2> QED
      BY <1>1, <2>3, <2>4
  <1>2. CASE c = "Literal"
    <2>1. Body(c) = <<Expect("literal")>>
      BY <1>2 DEF Body, Literal
    <2>2. Head(Body(c)) = Expect("literal") /\ Tail(Body(c)) = <<>>
      BY <2>1, ListsAre
    <2>3. q = Append(<<>>, "literal") /\ s = <<>>
      BY <2>2, ExpectMoves
    <2>4. q = <<"literal">> /\ <<"literal">> # <<>>
      BY <2>3, AppendsAre, ListsAre
    <2> QED
      BY <1>2, <2>3, <2>4
  <1> QED
    BY <1>1, <1>2 DEF Terminals

\* The innermost part, and the ones it is in.
LEMMA TopIs ==
  ASSUME TreeInv, NEW T, NEW D, NEW cuts, Laid(T, D, cuts)
  PROVE  /\ text \in Seq(Tokens) /\ Len(text) = consumed /\ consumed \in Nat
         /\ Spanned(T, D, text, Front(growing), Front(frames), Front(cuts))
         /\ Last(growing) \in T /\ growing = Append(Front(growing), Last(growing))
         /\ growing \in Seq(T) /\ Len(growing) = Len(frames) /\ growing # <<>>
         /\ Top \in Frames /\ Last(growing).class = Top.class
         /\ Last(Front(cuts)) \in Nat
         /\ cuts = Append(Front(cuts), consumed)
         /\ Part(D, text, Last(growing), Top.rest, Last(Front(cuts)), consumed)
         /\ Front(growing) # <<>> => Head(Parent.rest).class = Top.class
         /\ node_index_incrementer \in Nat
  <1>1. text \in Seq(Tokens) /\ Len(text) = consumed
    BY DEF TreeInv, Grown
  <1>2. Spanned(T, D, text, growing, frames, cuts) /\ Last(cuts) = consumed
    BY DEF Laid
  <1>3. /\ growing \in Seq(T) /\ Len(growing) = Len(frames)
    BY <1>2 DEF Spanned
  <1>4. frames # <<>> /\ frames \in Seq(Frames)
    BY DEF TreeInv, ParserInv, TypeOK
  <1>5. growing # <<>>
    BY <1>3, <1>4
  <1>6. /\ Spanned(T, D, text, Front(growing), Front(frames), Front(cuts))
        /\ Last(growing) \in T /\ growing = Append(Front(growing), Last(growing))
        /\ Last(frames) \in Frames
        /\ Last(growing).class = Last(frames).class
        /\ Last(Front(cuts)) \in Nat
        /\ cuts = Append(Front(cuts), Last(cuts))
        /\ Part(D, text, Last(growing), Last(frames).rest, Last(Front(cuts)), Last(cuts))
        /\ Front(growing) # <<>> => Head(Last(Front(frames)).rest).class = Last(frames).class
    <2>1. Drops(T, D, text, growing, frames, cuts)
      BY <1>2, <1>5, SpannedDropped, Zenon
    <2> QED
      BY <2>1 DEF Drops
  <1>7. node_index_incrementer \in Nat
    BY DEF TreeInv, Grown, Trees
  <1>8. consumed \in Nat
    BY <1>1
  <1> QED
    BY <1>1, <1>2, <1>3, <1>5, <1>6, <1>7, <1>8 DEF Top, Parent

\* Some parts and a new innermost one.
LEMMA LaidAgain ==
  ASSUME NEW T, T \subseteq NodesOver(T), NEW D, NEW words, Settled(T, D, words),
         NEW s, NEW stack, NEW cuts, Spanned(T, D, words, s, stack, cuts),
         NEW y \in T, NEW c \in Classes, y.class = c, NEW rest, NEW z \in Nat,
         Part(D, words, y, rest, Last(cuts), z),
         s # <<>> => Head(Last(stack).rest).class = c,
         growing' = Append(s, y), frames' = Append(stack, Frame(c, rest)),
         text' = words, consumed' = z
  PROVE  (\E U, E, h : Laid(U, E, h))'
  <1> DEFINE b == Frame(c, rest)
             h == Append(cuts, z)
  <1>1. rest \in Seq(Blocks)
    <2>1. rest \in Seq(Avoiding(Forbidden(y.class)))
      BY DEF Part
    <2>2. Avoiding(Forbidden(y.class)) \subseteq Blocks
      BY DEF Avoiding
    <2> QED
      BY <2>1, <2>2
  <1>2. b \in Frames /\ b.class = c /\ b.rest = rest
    BY <1>1 DEF Frame, Frames
  <1> HIDE DEF b
  <1>3. Spanned(T, D, words, Append(s, y), Append(stack, b), h)
    <2>1. Part(D, words, y, b.rest, Last(cuts), z) /\ y.class = b.class
          /\ (s # <<>> => Head(Last(stack).rest).class = b.class)
      BY <1>2
    <2> QED
      BY <1>2, <2>1, SpannedAdded
  <1>4. Last(h) = z
    <2>1. cuts \in Seq(Nat)
      BY DEF Spanned
    <2> QED
      BY <2>1, LastAppend
  <1> HIDE DEF h
  <1>5. Spanned(T, D, text', growing', frames', h) /\ Last(h) = consumed' /\ Settled(T, D, text')
    BY <1>3, <1>4 DEF b
  <1> QED
    BY <1>5 DEF Laid

\* A child is constructed: it stands for nothing yet.
LEMMA BegunLays ==
  ASSUME TreeInv, NEW T, NEW D, NEW cuts, Laid(T, D, cuts), Begun, GrowChild
  PROVE  (\E U, E, h : Laid(U, E, h))'
  <1> DEFINE c == Current.class
             y == NewNode(c, NoToken, 0)
             U == T \cup {y}
  <1>1. /\ text \in Seq(Tokens) /\ Len(text) = consumed /\ consumed \in Nat
        /\ node_index_incrementer \in Nat /\ T \subseteq NodesOver(T)
        /\ Spanned(T, D, text, growing, frames, cuts) /\ Settled(T, D, text)
        /\ Last(cuts) = consumed
    BY TopIs DEF Laid
  <1>2. /\ c \in Classes /\ frames' = Append(frames, Frame(c, Body(c)))
        /\ growing' = Append(growing, y) /\ text' = text /\ consumed' = consumed
    BY DEF Begun, GrowChild, Activation
  <1>3. Head(Last(frames).rest).class = c
    BY DEF Current, Top
  <1> HIDE DEF c
  <1>4. y \in NodesOver(T) /\ y.class = c /\ y.token = NoToken /\ y.children = <<>>
    BY <1>1, <1>2 DEF NewNode, NodesOver, Numbers
  <1> HIDE DEF y
  <1>5. U \subseteq NodesOver(U) /\ y \in U /\ T \subseteq U
    BY <1>1, <1>4, ForestGrows
  <1>6. Settled(U, D, text) /\ Spanned(U, D, text, growing, frames, cuts)
    BY <1>1, <1>5, SettledWidens, SpannedGrows
  <1>7. Part(D, text, y, Body(c), consumed, consumed)
    <2>1. consumed <= Len(text)
      BY <1>1
    <2> QED
      BY <1>1, <1>2, <1>4, <2>1, PartStarts, Zenon
  <1> HIDE DEF U
  <1> DEFINE rest == Body(c)
  <1>8. Part(D, text, y, rest, Last(cuts), consumed) /\ frames' = Append(frames, Frame(c, rest))
    BY <1>1, <1>2, <1>7
  <1> HIDE DEF rest
  <1> QED
    BY <1>1, <1>2, <1>3, <1>4, <1>5, <1>6, <1>8, LaidAgain

\* A block is done without a token.
LEMMA SilentLays ==
  ASSUME TreeInv, NEW T, NEW D, NEW cuts, Laid(T, D, cuts), NEW rest, Advanced(rest),
         consumed' = consumed, \A p : Moves(p, Top.rest, p, rest), UNCHANGED treeVars
  PROVE  (\E U, E, h : Laid(U, E, h))'
  <1> DEFINE x == Last(growing)
             f == Front(growing)
             g == Front(frames)
             h == Front(cuts)
             c == Top.class
             r == Top.rest
  <1>1. /\ text \in Seq(Tokens) /\ consumed \in Nat
        /\ Spanned(T, D, text, f, g, h) /\ x \in T /\ growing = Append(f, x)
        /\ Top \in Frames /\ x.class = c
        /\ Part(D, text, x, r, Last(h), consumed)
        /\ f # <<>> => Head(Last(g).rest).class = c
    BY TopIs DEF Parent
  <1>2. T \subseteq NodesOver(T) /\ Settled(T, D, text)
    BY DEF Laid
  <1>3. r # <<>> /\ frames' = Append(g, Frame(c, rest)) /\ \A p : Moves(p, r, p, rest)
    BY DEF Advanced
  <1>4. growing' = growing /\ text' = text
    BY DEF treeVars
  <1>5. c \in Classes
    BY <1>1 DEF Frames
  <1> HIDE DEF x, f, g, h, c, r
  <1>6. c \notin Leafs
    <2> SUFFICES ASSUME c \in Leafs PROVE FALSE
      OBVIOUS
    <2>1. c \in Terminals
      BY <1>5 DEF Leafs, Classes
    <2>2. r = Body(c)
      BY <1>1, <1>3 DEF Part
    <2>3. Moves(<<>>, Body(c), <<>>, rest)
      BY <1>3, <2>2
    <2> QED
      BY <2>1, <2>3, LeafMoves
  <1>7. Part(D, text, x, rest, Last(h), consumed)
    BY <1>1, <1>2, <1>3, <1>6, PartMoves
  <1>8. growing' = Append(f, x)
    BY <1>1, <1>4
  <1> QED
    BY <1>1, <1>2, <1>3, <1>4, <1>5, <1>7, <1>8, LaidAgain

\* The words and one more.
LEMMA MoreWords ==
  ASSUME NEW words \in Seq(Tokens), NEW w \in Tokens, NEW n, n = Len(words)
  PROVE  /\ Append(words, w) \in Seq(Tokens) /\ Len(Append(words, w)) = n + 1
         /\ Len(words) <= Len(Append(words, w)) /\ Append(words, w)[n + 1] = w
         /\ \A i \in 1 .. Len(words) : Append(words, w)[i] = words[i]
         /\ \A i \in n + 1 .. n + 1 : Append(words, w)[i] = w
  <1> DEFINE t == Append(words, w)
  <1>1. /\ t \in Seq(Tokens) /\ Len(t) = n + 1 /\ t[n + 1] = w /\ n \in Nat
        /\ \A i \in 1 .. n : t[i] = words[i]
    BY AppendIs
  <1> HIDE DEF t
  <1>2. Len(words) <= n + 1 /\ \A i \in n + 1 .. n + 1 : i = n + 1
    BY <1>1
  <1>3. t \in Seq(Tokens) /\ Len(words) <= Len(t) /\ \A i \in n + 1 .. n + 1 : t[i] = w
    BY <1>1, <1>2
  <1> QED
    BY <1>1, <1>3 DEF t

\* An identifier or a literal has its token.
LEMMA TerminalLays ==
  ASSUME TreeInv, NEW T, NEW D, NEW cuts, Laid(T, D, cuts), NEW rest, Advanced(rest),
         consumed' = consumed + 1, ahead \in Current.tokens, ahead \in Tokens,
         \A p : Moves(p, Top.rest, Append(p, ahead), rest), GrowLeaf, Top.class \in Terminals
  PROVE  (\E U, E, h : Laid(U, E, h))'
  <1> DEFINE x == Last(growing)
             f == Front(growing)
             g == Front(frames)
             h == Front(cuts)
             c == Top.class
             r == Top.rest
             n == node_index_incrementer
             y == IF Top.class = "Identifier"
                  THEN [x EXCEPT !.token = ahead, !.at = consumed']
                  ELSE [x EXCEPT !.token = ahead, !.at = consumed', !.id = n]
             U == T \cup {y}
             words == Append(text, ahead)
             z == consumed + 1
  <1>1. /\ text \in Seq(Tokens) /\ consumed \in Nat /\ Len(text) = consumed
        /\ Spanned(T, D, text, f, g, h) /\ x \in T /\ growing = Append(f, x)
        /\ Top \in Frames /\ x.class = c /\ n \in Nat
        /\ Part(D, text, x, r, Last(h), consumed)
        /\ f # <<>> => Head(Last(g).rest).class = c
    BY TopIs DEF Parent
  <1>2. T \subseteq NodesOver(T) /\ Settled(T, D, text)
    BY DEF Laid
  <1>3. r # <<>> /\ frames' = Append(g, Frame(c, rest))
    BY DEF Advanced
  <1>4. growing' = Append(f, y) /\ text' = words
    <2>1. Top.class = "Identifier" \/ (Top.class = "Literal" /\ Top.class # "Identifier")
      BY DEF Terminals
    <2> QED
      BY <1>1, <2>1 DEF GrowLeaf
  <1>5. c \in Classes /\ c \in Leafs
    BY <1>1 DEF Frames, Leafs
  <1>6. r = Body(c) /\ Last(h) = consumed /\ Last(h) \in Nat
    BY <1>1, <1>3, <1>5 DEF Part
  <1>7. /\ rest = <<>>
        /\ c = "Identifier" => ahead = "identifier"
        /\ c = "Literal" => ahead = "literal"
    <2>1. Moves(<<>>, Body(c), Append(<<>>, ahead), rest)
      BY <1>6
    <2>2. Append(<<>>, ahead) = <<ahead>>
      BY AppendsAre
    <2>3. /\ rest = <<>>
          /\ c = "Identifier" => <<ahead>> = <<"identifier">>
          /\ c = "Literal" => <<ahead>> = <<"literal">>
      BY <2>1, <2>2, LeafMoves
    <2> QED
      BY <2>3
  <1>8. z \in Nat /\ consumed' = z /\ consumed <= z
    BY <1>1
  <1>9. /\ y \in NodesOver(T) /\ y.token = ahead /\ y.at = z /\ y.class = c
    <2>1. x \in NodesOver(T) /\ consumed' \in Nat
      BY <1>1, <1>2, <1>8
    <2> QED
      BY <1>1, <1>8, <2>1 DEF NodesOver
  <1> HIDE DEF y, x, f, g, h, c, r, n
  <1>10. U \subseteq NodesOver(U) /\ y \in U /\ T \subseteq U
    BY <1>2, <1>9, ForestGrows
  <1>11. /\ words \in Seq(Tokens) /\ Len(words) = z /\ words[z] = ahead
         /\ Len(text) <= Len(words) /\ \A i \in 1 .. Len(text) : words[i] = text[i]
         /\ \A i \in consumed + 1 .. z : words[i] = ahead
    BY <1>1, MoreWords
  <1> HIDE DEF words, U
  <1>12. Settled(U, D, words) /\ Spanned(U, D, words, f, g, h)
    BY <1>1, <1>2, <1>10, <1>11, SettledWidens, SpannedGrows
  <1>13. Avoids(words, consumed, z, c)
    <2>1. ahead \notin {"BEGIN", "END", ";"}
      BY <1>7 DEF Terminals, c
    <2> QED
      BY <1>11, <2>1, ForbiddenIs DEF Avoids
  <1>14. Leaf(words, y, consumed, z)
    BY <1>7, <1>9, <1>11 DEF Leaf, z
  <1>15. Part(D, words, y, rest, consumed, z)
    <2>1. rest \in Seq(Avoiding(Forbidden(c)))
      BY <1>7
    <2>2. z <= Len(words)
      BY <1>8, <1>11
    <2> QED
      BY <1>1, <1>5, <1>7, <1>8, <1>9, <1>11, <1>13, <1>14, <2>1, <2>2 DEF Part
  <1> HIDE DEF z
  <1> QED
    BY <1>1, <1>3, <1>4, <1>5, <1>6, <1>8, <1>9, <1>10, <1>12, <1>15, LaidAgain

\* A node that has no token of its own gets a child.
LEMMA AdoptedIs ==
  ASSUME NEW T, T \subseteq NodesOver(T), NEW x \in T, NEW y \in T, NEW z,
         z = [x EXCEPT !.children = Append(@, y)]
  PROVE  /\ z \in NodesOver(T) /\ z.class = x.class /\ z.token = x.token
         /\ z.children = Append(x.children, y)
  <1> DEFINE all == Append(x.children, y)
  <1>1. x \in NodesOver(T)
    OBVIOUS
  <1>2. all \in Seq(T)
    <2>1. x.children \in Seq(T)
      BY <1>1 DEF NodesOver
    <2> QED
      BY <2>1
  <1>3. z = [x EXCEPT !.children = all]
    OBVIOUS
  <1> HIDE DEF all
  <1>4. z \in NodesOver(T) /\ z.class = x.class /\ z.token = x.token /\ z.children = all
    BY <1>1, <1>2, <1>3 DEF NodesOver
  <1> QED
    BY <1>4 DEF all

\* Another node has the token as a child.
LEMMA TokenLays ==
  ASSUME TreeInv, NEW T, NEW D, NEW cuts, Laid(T, D, cuts), NEW rest, Advanced(rest),
         consumed' = consumed + 1, ahead \in Current.tokens, ahead \in Tokens,
         \A p : Moves(p, Top.rest, Append(p, ahead), rest), GrowLeaf, Top.class \notin Terminals
  PROVE  (\E U, E, h : Laid(U, E, h))'
  <1> DEFINE x == Last(growing)
             f == Front(growing)
             g == Front(frames)
             h == Front(cuts)
             c == Top.class
             r == Top.rest
             y == NewNode("GenericToken", ahead, consumed')
             q == [x EXCEPT !.children = Append(@, y)]
             V == T \cup {y}
             U == V \cup {q}
             words == Append(text, ahead)
             z == consumed + 1
             E == D \cup {<<y, consumed, z>>}
  <1>1. /\ text \in Seq(Tokens) /\ consumed \in Nat /\ Len(text) = consumed
        /\ Spanned(T, D, text, f, g, h) /\ x \in T /\ growing = Append(f, x)
        /\ Top \in Frames /\ x.class = c /\ node_index_incrementer \in Nat
        /\ Part(D, text, x, r, Last(h), consumed)
        /\ f # <<>> => Head(Last(g).rest).class = c
    BY TopIs DEF Parent
  <1>2. T \subseteq NodesOver(T) /\ Settled(T, D, text)
    BY DEF Laid
  <1>3. /\ r # <<>> /\ frames' = Append(g, Frame(c, rest))
        /\ \A p : Moves(p, r, Append(p, ahead), rest)
    BY DEF Advanced
  <1>4. growing' = Append(f, q) /\ text' = words
    <2>1. Top.class # "Identifier" /\ Top.class # "Literal"
      BY DEF Terminals
    <2> QED
      BY <1>1, <2>1 DEF GrowLeaf, Adopt
  <1>5. c \in Classes /\ c \notin Leafs
    <2>1. c \in Classes
      BY <1>1 DEF Frames
    <2>2. "GenericToken" \notin Classes
      BY DEF Classes
    <2> QED
      BY <2>1, <2>2 DEF Leafs
  <1>6. ahead \notin Forbidden(c)
    <2>1. r \in Seq(Avoiding(Forbidden(c)))
      BY <1>1 DEF Part
    <2>2. Head(r) \in Avoiding(Forbidden(c))
      BY <1>3, <2>1, SeqParts, Zenon
    <2>3. Head(r).tokens \cap Forbidden(c) = {}
      BY <2>2 DEF Avoiding
    <2> QED
      BY <2>3 DEF Current
  <1>7. z \in Nat /\ consumed' = z /\ consumed <= z
    BY <1>1
  <1>8. /\ y \in NodesOver(T) /\ y.token = ahead /\ y.at = z /\ y.class = "GenericToken"
    BY <1>1, <1>7 DEF NewNode, NodesOver, Numbers
  <1> HIDE DEF y, V
  <1>9. V \subseteq NodesOver(V) /\ y \in V /\ T \subseteq V /\ x \in V
    BY <1>1, <1>2, <1>8, ForestGrows DEF V
  <1>10. /\ q \in NodesOver(V) /\ q.class = x.class /\ q.token = x.token
         /\ q.children = Append(x.children, y)
    BY <1>9, AdoptedIs
  <1> HIDE DEF q, x, f, g, h, c, r
  <1>11. U \subseteq NodesOver(U) /\ q \in U /\ V \subseteq U /\ T \subseteq U
    BY <1>9, <1>10, ForestGrows
  <1>12. /\ words \in Seq(Tokens) /\ Len(words) = z /\ words[z] = ahead
         /\ Len(text) <= Len(words) /\ \A i \in 1 .. Len(text) : words[i] = text[i]
         /\ \A i \in consumed + 1 .. z : words[i] = ahead
    BY <1>1, MoreWords
  <1> HIDE DEF words, U
  <1>13. Part(E, words, y, <<>>, consumed, z)
    <2>1. Leaf(words, y, consumed, z)
      BY <1>8, <1>12 DEF Leaf, z
    <2>2. z <= Len(words)
      BY <1>7, <1>12
    <2>3. <<>> \in Seq(Avoiding(Forbidden(y.class)))
      OBVIOUS
    <2>4. Avoids(words, consumed, z, y.class)
      BY <1>8 DEF Avoids, Forbidden
    <2>5. y.class \in Leafs
      BY <1>8 DEF Leafs
    <2> QED
      BY <1>1, <1>7, <2>1, <2>2, <2>3, <2>4, <2>5 DEF Part
  <1> HIDE DEF z
  <1>14. Settled(V, E, words)
    BY <1>1, <1>2, <1>7, <1>9, <1>12, <1>13, SettledGrows
  <1>15. D \subseteq E /\ <<y, consumed, z>> \in E
    OBVIOUS
  <1> HIDE DEF E
  <1>16. Settled(U, E, words)
    <2>1. Len(words) <= Len(words)
      BY <1>7, <1>12
    <2> QED
      BY <1>11, <1>12, <1>14, <2>1, SettledWidens
  <1>17. Spanned(U, E, words, f, g, h)
    BY <1>1, <1>11, <1>12, <1>15, SpannedGrows
  <1>18. Part(E, words, x, r, Last(h), consumed)
    BY <1>1, <1>12, <1>15, PartGrows
  <1>19. Moves(Pattern(x.children), r, Append(Pattern(x.children), Label(y)), rest)
    <2>1. Label(y) = ahead
      BY <1>8 DEF Label
    <2> QED
      BY <1>3, <2>1, Zenon
  <1>20. Part(E, words, q, rest, Last(h), z)
    <2>1. Avoids(words, consumed, z, x.class)
      BY <1>1, <1>6, <1>12 DEF Avoids
    <2>2. z <= Len(words)
      BY <1>7, <1>12
    <2>3. x.class \notin Leafs
      BY <1>1, <1>5
    <2> DEFINE a == Last(h)
    <2>4. Part(E, words, x, r, a, consumed)
      BY <1>18
    <2> HIDE DEF a
    <2>5. Part(E, words, q, rest, a, z)
      BY <1>3, <1>7, <1>9, <1>10, <1>15, <1>19, <2>1, <2>2, <2>3, <2>4, PartAdopts
    <2> QED
      BY <2>5 DEF a
  <1> QED
    BY <1>1, <1>3, <1>4, <1>5, <1>7, <1>10, <1>11, <1>16, <1>17, <1>20, LaidAgain

\* A child is done and joins its parent's children.
LEMMA CompletedLays ==
  ASSUME TreeInv, NEW T, NEW D, NEW cuts, Laid(T, D, cuts), Completed, Attach,
         Top.rest = <<>>
  PROVE  (\E U, E, h : Laid(U, E, h))'
  <1> DEFINE x == Last(growing)
             f == Front(growing)
             g == Front(frames)
             h == Front(cuts)
             c == Top.class
             p == Last(f)
             b == Last(g)
             e == Front(f)
             s == Front(g)
             k == Front(h)
             a == Last(h)
             rest == Tail(b.rest)
             q == [p EXCEPT !.children = Append(@, x)]
             U == T \cup {q}
             E == D \cup {<<x, a, consumed>>}
  <1>1. /\ text \in Seq(Tokens) /\ consumed \in Nat /\ Len(text) = consumed
        /\ Spanned(T, D, text, f, g, h) /\ x \in T /\ growing = Append(f, x)
        /\ Top \in Frames /\ x.class = c /\ growing \in Seq(T) /\ Len(growing) = Len(frames)
        /\ a \in Nat /\ Part(D, text, x, <<>>, a, consumed)
        /\ f # <<>> => Head(b.rest).class = c
    BY TopIs DEF Parent
  <1>2. T \subseteq NodesOver(T) /\ Settled(T, D, text)
    BY DEF Laid
  <1>3. /\ b.rest # <<>> /\ frames' = Append(s, Frame(b.class, rest))
        /\ \A l : Moves(l, b.rest, Append(l, Head(b.rest).class), rest)
        /\ Len(frames) > 1 /\ consumed' = consumed /\ answer = "true"
    BY DEF Completed, Parent
  <1>4. f # <<>> /\ p = growing[Len(growing) - 1]
    BY <1>1, <1>3, SecondLast
  <1>5. growing' = Append(e, q) /\ text' = text
    BY <1>3, <1>4 DEF Attach
  <1> HIDE DEF x, f, g, h, c
  <1>6. /\ Spanned(T, D, text, e, s, k) /\ p \in T /\ p.class = b.class /\ b \in Frames
        /\ Last(k) \in Nat /\ Part(D, text, p, b.rest, Last(k), a)
        /\ e # <<>> => Head(Last(s).rest).class = b.class
    <2>1. Drops(T, D, text, f, g, h)
      BY <1>1, <1>4, SpannedDropped
    <2> QED
      BY <2>1 DEF Drops
  <1> DEFINE r == b.rest
             d == b.class
  <1>7. c \in Classes /\ d \in Classes /\ Head(r).class = c /\ "GenericToken" \notin Classes
    BY <1>1, <1>4, <1>6 DEF Frames, c, Classes
  <1> HIDE DEF p, b, e, s, k, a, q, rest, U
  <1>8. r # <<>> /\ \A l : Moves(l, r, Append(l, c), rest)
    BY <1>3, <1>7 DEF rest
  <1>9. Part(D, text, p, r, Last(k), a)
    BY <1>6
  <1> HIDE DEF r, d
  <1>10. d \notin Leafs
    <2> SUFFICES ASSUME d \in Leafs PROVE FALSE
      OBVIOUS
    <2>1. d \in Terminals
      BY <1>7 DEF Leafs
    <2>2. r = Body(d)
      BY <1>6, <1>8, <1>9 DEF Part, d
    <2>3. Moves(<<>>, Body(d), Append(<<>>, c), rest)
      BY <1>8, <2>2
    <2>4. Append(<<>>, c) = <<c>>
      BY AppendsAre
    <2>5. <<c>> = <<"identifier">> \/ <<c>> = <<"literal">>
      BY <2>1, <2>3, <2>4, LeafMoves DEF Terminals
    <2>6. c \in {"identifier", "literal"}
      BY <2>5
    <2> QED
      BY <1>7, <2>6 DEF Classes
  <1>11. Forbidden(d) \subseteq Forbidden(c)
    <2>1. r \in Seq(Avoiding(Forbidden(d)))
      BY <1>6, <1>9 DEF Part, d
    <2>2. Head(r) \in Avoiding(Forbidden(d))
      BY <1>8, <2>1, SeqParts, Zenon
    <2> QED
      BY <1>7, <2>2 DEF Avoiding
  <1>12. a <= consumed /\ Avoids(text, a, consumed, c) /\ consumed <= Len(text)
    BY <1>1 DEF Part
  <1>13. Avoids(text, a, consumed, p.class)
    BY <1>6, <1>11, <1>12 DEF Avoids, d
  <1>14. Label(x) = c
    BY <1>1, <1>7 DEF Label
  <1>15. D \subseteq E /\ <<x, a, consumed>> \in E
    OBVIOUS
  <1>16. Len(text) <= Len(text)
    BY <1>1
  <1>17. Settled(T, E, text)
    <2>1. Part(E, text, x, <<>>, a, consumed)
      BY <1>1, <1>15, <1>16, PartGrows
    <2> QED
      BY <1>1, <1>2, <1>16, <2>1, SettledGrows
  <1>18. /\ q \in NodesOver(T) /\ q.class = p.class /\ q.token = p.token
         /\ q.children = Append(p.children, x)
    BY <1>1, <1>2, <1>6, AdoptedIs DEF q
  <1> HIDE DEF E
  <1>19. U \subseteq NodesOver(U) /\ q \in U /\ T \subseteq U
    BY <1>2, <1>18, ForestGrows DEF U
  <1>20. Settled(U, E, text) /\ Spanned(U, E, text, e, s, k)
    BY <1>1, <1>6, <1>15, <1>16, <1>17, <1>19, SettledWidens, SpannedGrows
  <1>21. Part(E, text, p, r, Last(k), a)
    BY <1>1, <1>9, <1>15, <1>16, PartGrows
  <1>22. Moves(Pattern(p.children), r, Append(Pattern(p.children), Label(x)), rest)
    BY <1>8, <1>14, Zenon
  <1>23. Part(E, text, q, rest, Last(k), consumed)
    <2> DEFINE l == Last(k)
    <2>1. Part(E, text, p, r, l, a)
      BY <1>21
    <2>2. p.class \notin Leafs
      BY <1>6, <1>10 DEF d
    <2> HIDE DEF l
    <2>3. Part(E, text, q, rest, l, consumed)
      BY <1>1, <1>2, <1>6, <1>8, <1>12, <1>13, <1>15, <1>18, <1>22, <2>1, <2>2, PartAdopts
    <2> QED
      BY <2>3 DEF l
  <1>24. q.class = d /\ frames' = Append(s, Frame(d, rest))
         /\ (e # <<>> => Head(Last(s).rest).class = d)
    BY <1>3, <1>6, <1>18 DEF d
  <1> QED
    BY <1>1, <1>3, <1>5, <1>7, <1>19, <1>20, <1>23, <1>24, LaidAgain

\* A declaration that is not there stands for nothing, and is dropped.
LEMMA LeftOutLays ==
  ASSUME TreeInv, NEW T, NEW D, NEW cuts, Laid(T, D, cuts), LeftOut, Attach, errors = 0
  PROVE  (\E U, E, h : Laid(U, E, h))'
  <1> DEFINE x == Last(growing)
             f == Front(growing)
             g == Front(frames)
             h == Front(cuts)
             c == Top.class
             p == Last(f)
             b == Last(g)
             e == Front(f)
             s == Front(g)
             k == Front(h)
             a == Last(h)
             rest == Tail(b.rest)
  <1>1. /\ text \in Seq(Tokens) /\ consumed \in Nat /\ Len(text) = consumed
        /\ Spanned(T, D, text, f, g, h) /\ x \in T /\ growing = Append(f, x)
        /\ Top \in Frames /\ x.class = c /\ growing \in Seq(T) /\ Len(growing) = Len(frames)
        /\ a \in Nat /\ Part(D, text, x, Top.rest, a, consumed)
        /\ f # <<>> => Head(b.rest).class = c
    BY TopIs DEF Parent
  <1>2. T \subseteq NodesOver(T) /\ Settled(T, D, text)
    BY DEF Laid
  <1>3. /\ b.rest # <<>> /\ frames' = Append(s, Frame(b.class, rest))
        /\ \A l : Moves(l, b.rest, l, rest)
        /\ Len(frames) > 1 /\ consumed' = consumed /\ answer = "false"
    BY DEF LeftOut, Parent
  <1>4. f # <<>> /\ growing # <<>>
    BY <1>1, <1>3, SecondLast
  <1>5. growing' = f /\ text' = text
    BY <1>3 DEF Attach
  <1>6. consumed = a
    <2>1. HasStart(Top.rest)
      BY <1>3 DEF TreeInv, Grown
    <2>2. PICK W : Trees(W, growing, frames, node_index_incrementer)
      BY DEF TreeInv, Grown
    <2>3. Fits(x, Top)
      BY <2>2, InnermostIs
    <2>4. x.children = <<>> /\ Begins(Top)
      BY <2>1, <2>3 DEF Fits
    <2>5. c \notin Leafs
      <3> SUFFICES ASSUME c \in Leafs PROVE FALSE
        OBVIOUS
      <3>1. c \in Terminals
        BY <1>1 DEF Leafs, Frames, Classes
      <3>2. Top.rest # <<>>
        BY <2>1, BodyIs
      <3> QED
        BY <1>1, <2>1, <2>4, <3>1, <3>2, BeginsIs
    <2>6. Covers(D, x.children, a, consumed)
      BY <1>1, <2>5 DEF Part
    <2>7. Covers(D, <<>>, a, consumed)
      BY <2>4, <2>6
    <2> QED
      BY <1>1, <2>7, CoversNone
  <1> HIDE DEF x, f, g, h, c
  <1>7. /\ Spanned(T, D, text, e, s, k) /\ p \in T /\ p.class = b.class /\ b \in Frames
        /\ Last(k) \in Nat /\ Part(D, text, p, b.rest, Last(k), a) /\ f = Append(e, p)
        /\ e # <<>> => Head(Last(s).rest).class = b.class
    <2>1. Drops(T, D, text, f, g, h)
      BY <1>1, <1>4, SpannedDropped
    <2> QED
      BY <2>1 DEF Drops
  <1> DEFINE r == b.rest
             d == b.class
  <1>8. d \in Classes
    BY <1>7 DEF Frames
  <1> HIDE DEF p, b, e, s, k, a, rest
  <1>9. r # <<>> /\ \A l : Moves(l, r, l, rest)
    BY <1>3 DEF rest
  <1>10. Part(D, text, p, r, Last(k), consumed)
    BY <1>6, <1>7
  <1> HIDE DEF r, d
  <1>11. d \notin Leafs
    <2> SUFFICES ASSUME d \in Leafs PROVE FALSE
      OBVIOUS
    <2>1. d \in Terminals
      BY <1>8 DEF Leafs, Classes
    <2>2. r = Body(d)
      BY <1>7, <1>9, <1>10 DEF Part, d
    <2>3. Moves(<<>>, Body(d), <<>>, rest)
      BY <1>9, <2>2
    <2> QED
      BY <2>1, <2>3, LeafMoves
  <1>12. Part(D, text, p, rest, Last(k), consumed)
    <2> DEFINE l == Last(k)
    <2>1. Part(D, text, p, r, l, consumed)
      BY <1>10
    <2>2. p.class \notin Leafs
      BY <1>7, <1>11 DEF d
    <2> HIDE DEF l
    <2>3. Part(D, text, p, rest, l, consumed)
      BY <1>2, <1>7, <1>9, <2>1, <2>2, PartMoves
    <2> QED
      BY <2>3 DEF l
  <1>13. /\ p.class = d /\ frames' = Append(s, Frame(d, rest))
         /\ growing' = Append(e, p)
         /\ e # <<>> => Head(Last(s).rest).class = d
    BY <1>3, <1>5, <1>7 DEF d
  <1> QED
    BY <1>1, <1>2, <1>3, <1>5, <1>7, <1>8, <1>12, <1>13, LaidAgain

\* The next step and what it does to the nodes.
LEMMA SpanNext ==
  ASSUME SpanInv, TreeNext
  PROVE  Spans'
  <1> SUFFICES ASSUME errors' = 0
               PROVE  /\ (answer = "true" => Top.rest = <<>>)'
                      /\ (verdict = "accepted" => answer = "true" /\ Len(frames) = 1)'
                      /\ (\E T, D, cuts : Laid(T, D, cuts))'
    BY DEF Spans
  <1>1. TreeInv /\ ParserInv /\ Next /\ errors \in Nat
    BY DEF SpanInv, TreeInv, TreeNext, ParserInv, TypeOK
  <1>2. errors = 0
    <2>1. errors' = errors \/ errors' = errors + 1
      <3>1. Begins(Top)
        <4>1. PICK T : Trees(T, growing, frames, node_index_incrementer)
          BY <1>1 DEF TreeInv, Grown
        <4> QED
          BY <1>1, <4>1, InnermostIs DEF Fits
      <3> QED
        BY <1>1, <3>1, NextIs DEF Enters, Continues, Returns, Stays
    <2> QED
      BY <1>1, <2>1
  <1>3. /\ answer = "true" => Top.rest = <<>>
        /\ verdict = "accepted" => answer = "true" /\ Len(frames) = 1
    BY <1>2 DEF SpanInv, Spans
  <1>4. PICK T, D, cuts : Laid(T, D, cuts)
    BY <1>2 DEF SpanInv, Spans
  <1>5. Begun \/ (\E rest : Advanced(rest)) \/ Completed \/ LeftOut \/ Waits
    BY <1>1, NextMoves
  <1>6. \/ GrowChild \/ GrowLeaf \/ Attach
        \/ Len(frames') = Len(frames) /\ consumed' = consumed /\ UNCHANGED treeVars
    BY DEF TreeNext
  <1>7. /\ frames \in Seq(Frames) /\ frames # <<>> /\ Len(frames) \in Nat /\ consumed \in Nat
        /\ Top.rest # <<>> => Current.tokens \subseteq Tokens
    BY <1>1, CurrentIs, LengthAssumption DEF ParserInv, TypeOK, Blocks
  <1>8. CASE Begun
    <2>1. Len(frames') = Len(frames) + 1 /\ consumed' = consumed
      BY <1>7, <1>8 DEF Begun
    <2>2. GrowChild
      BY <1>6, <1>7, <2>1 DEF GrowLeaf, Attach
    <2>3. (\E U, E, h : Laid(U, E, h))'
      BY <1>1, <1>4, <1>8, <2>2, BegunLays
    <2> QED
      BY <1>8, <2>3 DEF Begun
  <1>9. ASSUME NEW rest, Advanced(rest)
        PROVE  /\ (\E U, E, h : Laid(U, E, h))'
               /\ answer' = "none" /\ verdict' # "accepted"
    <2>1. Len(frames') = Len(frames)
      <3> DEFINE b == Frame(Top.class, rest)
                 f == Front(frames)
      <3>1. f \in Seq(Frames) /\ frames' = Append(f, b) /\ Len(f) = Len(frames) - 1
        BY <1>7, <1>9, FrontIs DEF Advanced
      <3> HIDE DEF b, f
      <3>2. Len(Append(f, b)) = Len(f) + 1
        BY <3>1
      <3> QED
        BY <1>7, <3>1, <3>2
    <2>2. CASE consumed' = consumed /\ \A p : Moves(p, Top.rest, p, rest)
      <3>1. UNCHANGED treeVars
        BY <1>6, <1>7, <2>1, <2>2 DEF GrowChild, GrowLeaf, Attach
      <3> QED
        BY <1>1, <1>4, <1>9, <2>2, <3>1, SilentLays DEF Advanced
    <2>3. CASE /\ consumed' = consumed + 1 /\ ahead \in Current.tokens
               /\ \A p : Moves(p, Top.rest, Append(p, ahead), rest)
      <3>1. GrowLeaf
        BY <1>6, <1>7, <2>1, <2>3 DEF GrowChild, Attach
      <3>2. ahead \in Tokens
        BY <1>7, <1>9, <2>3 DEF Advanced
      <3> QED
        BY <1>1, <1>4, <1>9, <2>3, <3>1, <3>2, TerminalLays, TokenLays DEF Advanced
    <2> QED
      BY <1>9, <2>2, <2>3 DEF Advanced
  <1>10. ASSUME Completed \/ LeftOut
         PROVE  Len(frames') < Len(frames) /\ consumed' = consumed
    <2> DEFINE f == Front(frames)
               e == Front(f)
               b == Frame(Parent.class, Tail(Parent.rest))
    <2>1. /\ Len(frames) > 1 /\ consumed' = consumed /\ frames' = Append(e, b)
      BY <1>10 DEF Completed, LeftOut
    <2>2. f \in Seq(Frames) /\ Len(f) = Len(frames) - 1
      BY <1>7, FrontIs
    <2>3. f # <<>>
      BY <2>1, <2>2
    <2> HIDE DEF f, b
    <2>4. e \in Seq(Frames) /\ Len(e) = Len(f) - 1
      BY <2>2, <2>3, FrontIs
    <2> HIDE DEF e
    <2>5. Len(Append(e, b)) = Len(e) + 1
      BY <2>4
    <2> QED
      BY <1>7, <2>1, <2>2, <2>4, <2>5
  <1>11. ASSUME Completed \/ LeftOut
         PROVE  Attach
    BY <1>6, <1>7, <1>10, <1>11 DEF GrowChild, GrowLeaf
  <1>12. CASE Completed
    <2>1. (\E U, E, h : Laid(U, E, h))'
      BY <1>1, <1>3, <1>4, <1>11, <1>12, CompletedLays DEF Completed
    <2> QED
      BY <1>12, <2>1 DEF Completed
  <1>13. CASE LeftOut
    <2>1. (\E U, E, h : Laid(U, E, h))'
      BY <1>1, <1>2, <1>4, <1>11, <1>13, LeftOutLays
    <2> QED
      BY <1>13, <2>1 DEF LeftOut
  <1>14. CASE Waits
    <2>1. UNCHANGED treeVars
      BY <1>6, <1>7, <1>14 DEF Waits, GrowChild, GrowLeaf, Attach
    <2>2. frames' = frames /\ consumed' = consumed
      BY <1>14 DEF Waits
    <2>3. (\E U, E, h : Laid(U, E, h))'
      BY <1>4, <2>1, <2>2 DEF Laid, treeVars
    <2>4. Top' = Top
      BY <2>2 DEF Top
    <2> QED
      BY <1>3, <1>14, <2>2, <2>3, <2>4 DEF Waits
  <1> QED
    BY <1>5, <1>8, <1>9, <1>12, <1>13, <1>14

\* Every step keeps the invariant,
LEMMA SpanStep == SpanInv /\ [TreeNext]_allVars => SpanInv'
  <1> SUFFICES ASSUME SpanInv, [TreeNext]_allVars PROVE SpanInv'
    OBVIOUS
  <1>1. TreeInv'
    BY TreeStep DEF SpanInv
  <1>2. CASE TreeNext
    BY <1>1, <1>2, SpanNext DEF SpanInv
  <1>3. CASE UNCHANGED allVars
    <2>1. /\ text' = text /\ growing' = growing /\ frames' = frames /\ consumed' = consumed
          /\ errors' = errors /\ answer' = answer /\ verdict' = verdict
      BY <1>3 DEF allVars, vars, treeVars
    <2>2. \A T, D, cuts : Laid(T, D, cuts) => Laid(T, D, cuts)'
      BY <2>1 DEF Laid
    <2>3. Top' = Top
      BY <2>1 DEF Top
    <2>4. Spans'
      BY <2>1, <2>2, <2>3 DEF SpanInv, Spans
    <2> QED
      BY <1>1, <2>4 DEF SpanInv
  <1> QED
    BY <1>2, <1>3

\* the first state has it,
LEMMA SpanStart == TreeInit => SpanInv
  <1> SUFFICES ASSUME TreeInit PROVE SpanInv
    OBVIOUS
  <1> DEFINE c == "FunctionDeclaration"
             x == [class |-> c, id |-> 0, token |-> NoToken, at |-> 0, children |-> <<>>]
             T == {x}
             rest == Body(c)
             a == Frame(c, rest)
  <1>1. /\ growing = <<x>> /\ text = <<>> /\ frames = <<a>> /\ consumed = 0
        /\ answer = "none" /\ verdict = "parsing"
    BY DEF TreeInit, Init, Activation
  <1>2. x.token = NoToken /\ x.children = <<>> /\ x.class = c /\ x \in T
    OBVIOUS
  <1>3. T \subseteq NodesOver(T)
    BY DEF NodesOver, Classes
  <1>4. c \in Classes
    BY DEF Classes
  <1> HIDE DEF x, T
  <1> DEFINE none == <<>>
  <1>5. none \in Seq(Tokens) /\ Len(none) = 0 /\ text = none
    BY <1>1
  <1>6. Part({}, none, x, rest, 0, 0)
    <2>1. 0 \in Nat /\ 0 <= Len(none) /\ 0 <= 0
      BY <1>5
    <2> QED
      BY <1>2, <1>4, <1>5, <2>1, PartStarts
  <1>7. a \in Frames /\ a.class = c /\ a.rest = rest
    <2>1. rest \in Seq(Blocks)
      BY <1>4, BodyType
    <2> QED
      BY <1>4, <2>1 DEF Frame, Frames
  <1> HIDE DEF none, a, rest
  <1>8. Settled(T, {}, none)
    BY DEF Settled
  <1> DEFINE cuts == <<0, 0>>
             nodes == <<x>>
             stack == <<a>>
  <1>9. /\ nodes \in Seq(T) /\ stack \in Seq(Frames) /\ cuts \in Seq(Nat)
        /\ Len(nodes) = 1 /\ Len(stack) = 1 /\ Len(cuts) = 2
        /\ nodes[1] = x /\ stack[1] = a /\ cuts[1] = 0 /\ cuts[2] = 0 /\ cuts # <<>>
    BY <1>2, <1>7
  <1> HIDE DEF cuts, nodes, stack
  <1>10. Last(cuts) = 0
    BY <1>9, FrontLast
  <1>11. Spanned(T, {}, none, nodes, stack, cuts)
    <2>1. \A i \in 1 .. 1 : i = 1 /\ i + 1 = 2
      OBVIOUS
    <2>2. 1 .. (1 - 1) = {} /\ 1 + 1 = 2
      OBVIOUS
    <2> QED
      BY <1>2, <1>6, <1>7, <1>9, <2>1, <2>2 DEF Spanned
  <1>12. Laid(T, {}, cuts)
    BY <1>1, <1>3, <1>5, <1>8, <1>10, <1>11 DEF Laid, nodes, stack
  <1>13. Spans
    BY <1>1, <1>12 DEF Spans
  <1> QED
    BY <1>13, TreeStart DEF SpanInv

\* and so it always holds: as long as nothing was printed, every finished node
\* of parse_function stands for one part of the text.
THEOREM SpanAlways == TreeSpec => []SpanInv
  BY SpanStart, SpanStep, PTL DEF TreeSpec

-----------------------------------------------------------------------------
(* The children of a finished node, and which parts they stand for.        *)

\* All nodes of T are nodes, and those of D have their parts.
Known(T, D) == T \subseteq NodesOver(T) /\ Settled(T, D, text)

\* A node that stands for a part is in T.
LEMMA KnownIs ==
  ASSUME NEW T, NEW D, Known(T, D), NEW y, NEW a, NEW b, <<y, a, b>> \in D
  PROVE  y \in T /\ a \in Nat /\ b \in Nat /\ Part(D, text, y, <<>>, a, b)
  <1>1. y \in T /\ a \in Nat /\ b \in Nat
    BY DEF Known, Settled
  <1> QED
    BY <1>1 DEF Known, Settled

\* A leaf's part is one token of the text.
LEMMA TokenIs ==
  ASSUME NEW T, NEW D, Known(T, D), NEW y, NEW a, NEW b, <<y, a, b>> \in D, y.class \in Leafs
  PROVE  /\ a \in Nat /\ b = a + 1 /\ b <= Len(text) /\ y.token = text[b] /\ y.at = b
         /\ y.class = "Identifier" => y.token = "identifier"
         /\ y.class = "Literal" => y.token = "literal"
  BY KnownIs DEF Part, Leaf

\* The parts of up to three children.
LEMMA KidsAre ==
  ASSUME NEW D, NEW T, D \subseteq T \X Nat \X Nat, NEW kids \in Seq(T), NEW a, NEW b,
         Covers(D, kids, a, b)
  PROVE  /\ Len(kids) = 1 => <<kids[1], a, b>> \in D
         /\ Len(kids) = 2 =>
               \E h \in Nat : <<kids[1], a, h>> \in D /\ <<kids[2], h, b>> \in D
         /\ Len(kids) = 3 =>
               \E h, i \in Nat : /\ <<kids[1], a, h>> \in D /\ <<kids[2], h, i>> \in D
                                 /\ <<kids[3], i, b>> \in D
  <1>1. PICK ends : Ends(D, kids, a, b, ends)
    BY DEF Covers
  <1> DEFINE n == Len(kids)
  <1>2. /\ ends \in [0 .. n -> Nat] /\ ends[0] = a /\ ends[n] = b /\ n \in Nat
        /\ \A i \in 1 .. n : <<kids[i], ends[i - 1], ends[i]>> \in D
    BY <1>1 DEF Ends
  <1> HIDE DEF n
  <1>3. CASE n = 1
    <2>1. 1 \in 1 .. n /\ 1 - 1 = 0
      BY <1>3
    <2> QED
      BY <1>2, <1>3, <2>1 DEF n
  <1>4. CASE n = 2
    <2>1. 1 \in 1 .. n /\ 1 - 1 = 0 /\ 2 \in 1 .. n /\ 2 - 1 = 1 /\ 1 \in 0 .. n
      BY <1>4
    <2>2. ends[1] \in Nat /\ <<kids[1], a, ends[1]>> \in D /\ <<kids[2], ends[1], b>> \in D
      BY <1>2, <1>4, <2>1
    <2>3. \E h \in Nat : <<kids[1], a, h>> \in D /\ <<kids[2], h, b>> \in D
      BY <2>2
    <2> QED
      BY <1>4, <2>3 DEF n
  <1>5. CASE n = 3
    <2>1. 1 \in 1 .. n /\ 1 - 1 = 0 /\ 2 \in 1 .. n /\ 2 - 1 = 1 /\ 1 \in 0 .. n
          /\ 3 \in 1 .. n /\ 3 - 1 = 2 /\ 2 \in 0 .. n
      BY <1>5
    <2>2. /\ ends[1] \in Nat /\ ends[2] \in Nat
          /\ <<kids[1], a, ends[1]>> \in D /\ <<kids[2], ends[1], ends[2]>> \in D
          /\ <<kids[3], ends[2], b>> \in D
      BY <1>2, <1>5, <2>1
    <2>3. \E h, i \in Nat : /\ <<kids[1], a, h>> \in D /\ <<kids[2], h, i>> \in D
                            /\ <<kids[3], i, b>> \in D
      BY <2>2
    <2> QED
      <3>1. n # 1 /\ n # 2
        BY <1>5
      <3> QED
        BY <2>3, <3>1, Zenon DEF n
  <1> QED
    BY <1>3, <1>4, <1>5 DEF n

\* Another node's children are at the last stage and cover its part.
LEMMA NodeIs ==
  ASSUME NEW T, NEW D, Known(T, D), NEW x, NEW a, NEW b, <<x, a, b>> \in D, x.class \notin Leafs
  PROVE  /\ x \in T /\ a \in Nat /\ b \in Nat /\ a <= b /\ b <= Len(text)
         /\ x.token = NoToken /\ x.children \in Seq(T)
         /\ Covers(D, x.children, a, b) /\ Stage(x.class, Pattern(x.children), <<>>)
         /\ Avoids(text, a, b, x.class)
  <1>1. x \in T /\ a \in Nat /\ b \in Nat /\ Part(D, text, x, <<>>, a, b)
    BY KnownIs
  <1>2. x.children \in Seq(T)
    BY <1>1 DEF Known, NodesOver
  <1> QED
    BY <1>1, <1>2 DEF Part

\* Lists of labels have what they are written with.
LEMMA LabelsAre ==
  ASSUME NEW T, T \subseteq NodesOver(T), NEW kids \in Seq(T)
  PROVE  /\ \A l : Pattern(kids) = <<l>> => Len(kids) = 1 /\ Label(kids[1]) = l
         /\ \A l, o : Pattern(kids) = <<l, o>> =>
               Len(kids) = 2 /\ Label(kids[1]) = l /\ Label(kids[2]) = o
         /\ \A l, o, r : Pattern(kids) = <<l, o, r>> =>
               Len(kids) = 3 /\ Label(kids[1]) = l /\ Label(kids[2]) = o /\ Label(kids[3]) = r
  <1> DEFINE p == Pattern(kids)
  <1>1. Len(p) = Len(kids) /\ \A i \in 1 .. Len(kids) : p[i] = Label(kids[i])
    BY PatternIs
  <1> HIDE DEF p
  <1>2. ASSUME NEW l, p = <<l>>
        PROVE  Len(kids) = 1 /\ Label(kids[1]) = l
    <2>1. Len(p) = 1 /\ p[1] = l
      BY <1>2
    <2>2. 1 \in 1 .. Len(kids)
      BY <1>1, <2>1
    <2> QED
      BY <1>1, <2>1, <2>2
  <1>3. ASSUME NEW l, NEW o, p = <<l, o>>
        PROVE  Len(kids) = 2 /\ Label(kids[1]) = l /\ Label(kids[2]) = o
    <2>1. Len(p) = 2 /\ p[1] = l /\ p[2] = o
      BY <1>3
    <2>2. 1 \in 1 .. Len(kids) /\ 2 \in 1 .. Len(kids)
      BY <1>1, <2>1
    <2> QED
      BY <1>1, <2>1, <2>2
  <1>4. ASSUME NEW l, NEW o, NEW r, p = <<l, o, r>>
        PROVE  Len(kids) = 3 /\ Label(kids[1]) = l /\ Label(kids[2]) = o /\ Label(kids[3]) = r
    <2>1. Len(p) = 3 /\ p[1] = l /\ p[2] = o /\ p[3] = r
      BY <1>4
    <2>2. 1 \in 1 .. Len(kids) /\ 2 \in 1 .. Len(kids) /\ 3 \in 1 .. Len(kids)
      BY <1>1, <2>1
    <2> QED
      BY <1>1, <2>1, <2>2
  <1> QED
    BY <1>2, <1>3, <1>4 DEF p

\* A label says what the child is.
LEMMA KidIs ==
  ASSUME NEW T, T \subseteq NodesOver(T), NEW kids \in Seq(T), NEW i \in 1 .. Len(kids)
  PROVE  /\ Label(kids[i]) \in Classes => kids[i].class = Label(kids[i])
         /\ Label(kids[i]) \in Tokens =>
               /\ kids[i].class = "GenericToken" /\ kids[i].class \in Leafs
               /\ kids[i].token = Label(kids[i])
  <1>1. kids[i] \in T
    OBVIOUS
  <1> DEFINE y == kids[i]
  <1>2. y \in T
    BY <1>1
  <1> HIDE DEF y
  <1>3. /\ Label(y) \in Classes => y.class = Label(y)
        /\ Label(y) \in Tokens => y.class = "GenericToken" /\ y.token = Label(y)
    BY <1>2, LabelIs
  <1> QED
    BY <1>3 DEF y, Leafs

\* One child, or an operator between two.
OperatorKids(D, kids, a, b, left, ops, right) ==
    \/ Len(kids) = 1 /\ kids[1].class = left /\ <<kids[1], a, b>> \in D
    \/ /\ Len(kids) = 3 /\ kids[1].class = left /\ kids[3].class = right
       /\ \E h \in Nat : /\ <<kids[1], a, h>> \in D /\ <<kids[3], h + 1, b>> \in D
                         /\ kids[2].token = text[h + 1] /\ kids[2].at = h + 1
                         /\ text[h + 1] \in ops

\* A sum or product is one operand, or two around an operator.
LEMMA OperatorKidsAre ==
  ASSUME NEW T, NEW D, Known(T, D), NEW x, NEW a, NEW b, <<x, a, b>> \in D, x.class \notin Leafs,
         NEW left \in Classes, NEW right \in Classes, NEW ops, ops \subseteq Tokens,
         OperatorStage(left, ops, right, Pattern(x.children), <<>>)
  PROVE  OperatorKids(D, x.children, a, b, left, ops, right)
  <1> DEFINE kids == x.children
             p == Pattern(kids)
  <1>1. kids \in Seq(T) /\ Covers(D, kids, a, b) /\ T \subseteq NodesOver(T)
        /\ D \subseteq T \X Nat \X Nat
    BY NodeIs DEF Known, Settled
  <1>2. p = <<left>> \/ \E o \in ops : p = <<left, o, right>>
    <2>1. /\ \A y : <<>> # <<y>>
          /\ \A y, z : <<>> # <<y, z>>
      BY ListsAre
    <2> QED
      BY <2>1 DEF OperatorStage
  <1> HIDE DEF kids
  <1>3. CASE p = <<left>>
    <2>1. Len(kids) = 1 /\ Label(kids[1]) = left
      BY <1>1, <1>3, LabelsAre
    <2>2. kids[1].class = left
      <3>1. 1 \in 1 .. Len(kids)
        BY <2>1
      <3> QED
        BY <1>1, <2>1, <3>1, KidIs
    <2>3. <<kids[1], a, b>> \in D
      BY <1>1, <2>1, KidsAre
    <2> QED
      BY <2>1, <2>2, <2>3 DEF OperatorKids, kids
  <1>4. ASSUME NEW o \in ops, p = <<left, o, right>>
        PROVE  OperatorKids(D, kids, a, b, left, ops, right)
    <2>1. Len(kids) = 3 /\ Label(kids[1]) = left /\ Label(kids[2]) = o /\ Label(kids[3]) = right
      BY <1>1, <1>4, LabelsAre
    <2>2. /\ kids[1].class = left /\ kids[3].class = right
          /\ kids[2].class \in Leafs /\ kids[2].token = o
      <3>1. 1 \in 1 .. Len(kids) /\ 2 \in 1 .. Len(kids) /\ 3 \in 1 .. Len(kids)
        BY <2>1
      <3> QED
        BY <1>1, <2>1, <3>1, KidIs
    <2>3. PICK h \in Nat, i \in Nat :
             <<kids[1], a, h>> \in D /\ <<kids[2], h, i>> \in D /\ <<kids[3], i, b>> \in D
      BY <1>1, <2>1, KidsAre
    <2>4. i = h + 1 /\ kids[2].token = text[i] /\ kids[2].at = i
      BY <2>2, <2>3, TokenIs
    <2> QED
      BY <2>1, <2>2, <2>3, <2>4 DEF OperatorKids
  <1> QED
    BY <1>2, <1>3, <1>4 DEF kids

\* A primary expression, perhaps with a sign.
UnaryKids(D, kids, a, b) ==
    \/ Len(kids) = 1 /\ kids[1].class = "PrimaryExpression" /\ <<kids[1], a, b>> \in D
    \/ /\ Len(kids) = 2 /\ kids[2].class = "PrimaryExpression" /\ <<kids[2], a + 1, b>> \in D
       /\ kids[1].token = text[a + 1] /\ kids[1].at = a + 1 /\ text[a + 1] \in Sums

\* A UnaryExpression is an operand with or without a sign.
LEMMA UnaryKidsAre ==
  ASSUME NEW T, NEW D, Known(T, D), NEW x, NEW a, NEW b, <<x, a, b>> \in D,
         x.class = "UnaryExpression"
  PROVE  UnaryKids(D, x.children, a, b)
  <1> DEFINE kids == x.children
             p == Pattern(kids)
             c == "PrimaryExpression"
  <1>0. x.class \notin Leafs /\ c \in Classes /\ Sums \subseteq Tokens
    BY DEF Leafs, Terminals, Classes, Sums, Tokens
  <1>1. kids \in Seq(T) /\ Covers(D, kids, a, b) /\ T \subseteq NodesOver(T)
        /\ D \subseteq T \X Nat \X Nat /\ Stage(x.class, p, <<>>) /\ a \in Nat
    BY <1>0, NodeIs DEF Known, Settled
  <1>2. p = <<c>> \/ \E o \in Sums : p = <<o, c>>
    <2>1. /\ \A y : <<>> # <<y>>
          /\ \A y, z : <<>> # <<y, z>>
      BY ListsAre
    <2>2. UnaryStage(p, <<>>)
      BY <1>1 DEF Stage
    <2> QED
      BY <2>1, <2>2 DEF UnaryStage, UnaryExpression, Sums
  <1> HIDE DEF kids, c
  <1>3. CASE p = <<c>>
    <2>1. Len(kids) = 1 /\ Label(kids[1]) = c
      BY <1>1, <1>3, LabelsAre
    <2>2. kids[1].class = c
      <3>1. 1 \in 1 .. Len(kids)
        BY <2>1
      <3> QED
        BY <1>0, <1>1, <2>1, <3>1, KidIs
    <2>3. <<kids[1], a, b>> \in D
      BY <1>1, <2>1, KidsAre
    <2> QED
      BY <2>1, <2>2, <2>3 DEF UnaryKids, kids, c
  <1>4. ASSUME NEW o \in Sums, p = <<o, c>>
        PROVE  UnaryKids(D, kids, a, b)
    <2>1. Len(kids) = 2 /\ Label(kids[1]) = o /\ Label(kids[2]) = c
      BY <1>1, <1>4, LabelsAre
    <2>2. /\ kids[2].class = c
          /\ kids[1].class \in Leafs /\ kids[1].token = o
      <3>1. 1 \in 1 .. Len(kids) /\ 2 \in 1 .. Len(kids)
        BY <2>1
      <3> QED
        BY <1>0, <1>1, <2>1, <3>1, KidIs
    <2>3. PICK h \in Nat : <<kids[1], a, h>> \in D /\ <<kids[2], h, b>> \in D
      BY <1>1, <2>1, KidsAre
    <2>4. h = a + 1 /\ kids[1].token = text[h] /\ kids[1].at = h
      BY <2>2, <2>3, TokenIs
    <2> QED
      BY <2>1, <2>2, <2>3, <2>4 DEF UnaryKids, c
  <1> QED
    BY <1>2, <1>3, <1>4 DEF kids

\* An identifier, a literal, or an expression in parentheses.
PrimaryKids(D, kids, a, b) ==
    \/ /\ Len(kids) = 1 /\ kids[1].class \in Terminals /\ b = a + 1
       /\ kids[1].token = text[b] /\ kids[1].at = b
       /\ kids[1].class = "Identifier" => text[b] = "identifier"
       /\ kids[1].class = "Literal" => text[b] = "literal"
    \/ /\ Len(kids) = 3 /\ kids[1].class = "GenericToken"
       /\ kids[2].class = "AdditiveExpression"
       /\ \E h \in Nat : b = h + 1 /\ <<kids[2], a + 1, h>> \in D
       /\ text[a + 1] = "(" /\ text[b] = ")"

\* A PrimaryExpression is a leaf or a sum in parentheses.
LEMMA PrimaryKidsAre ==
  ASSUME NEW T, NEW D, Known(T, D), NEW x, NEW a, NEW b, <<x, a, b>> \in D,
         x.class = "PrimaryExpression"
  PROVE  PrimaryKids(D, x.children, a, b)
  <1> DEFINE kids == x.children
             p == Pattern(kids)
             c == "AdditiveExpression"
  <1>0. x.class \notin Leafs /\ c \in Classes /\ {"(", ")"} \subseteq Tokens
        /\ Terminals \subseteq Classes /\ Terminals \subseteq Leafs
    BY DEF Leafs, Terminals, Classes, Tokens
  <1>1. kids \in Seq(T) /\ Covers(D, kids, a, b) /\ T \subseteq NodesOver(T)
        /\ D \subseteq T \X Nat \X Nat /\ Stage(x.class, p, <<>>) /\ a \in Nat
    BY <1>0, NodeIs DEF Known, Settled
  <1>2. (\E t \in Terminals : p = <<t>>) \/ p = <<"(", c, ")">>
    <2>1. /\ \A y : <<>> # <<y>>
          /\ \A y, z : <<>> # <<y, z>>
          /\ \A y, z, w : <<>> # <<y, z, w>>
      BY ListsAre
    <2>2. PrimaryStage(p, <<>>)
      BY <1>1 DEF Stage
    <2> QED
      BY <2>1, <2>2 DEF PrimaryStage, PrimaryExpression
  <1> HIDE DEF kids, c
  <1>3. ASSUME NEW t \in Terminals, p = <<t>>
        PROVE  PrimaryKids(D, kids, a, b)
    <2>1. Len(kids) = 1 /\ Label(kids[1]) = t
      BY <1>1, <1>3, LabelsAre
    <2>2. kids[1].class = t
      <3>1. 1 \in 1 .. Len(kids)
        BY <2>1
      <3> QED
        BY <1>0, <1>1, <2>1, <3>1, KidIs
    <2>3. <<kids[1], a, b>> \in D
      BY <1>1, <2>1, KidsAre
    <2>4. /\ b = a + 1 /\ kids[1].token = text[b] /\ kids[1].at = b
          /\ kids[1].class = "Identifier" => kids[1].token = "identifier"
          /\ kids[1].class = "Literal" => kids[1].token = "literal"
      BY <1>0, <2>2, <2>3, TokenIs
    <2> QED
      BY <2>1, <2>2, <2>4 DEF PrimaryKids
  <1>4. CASE p = <<"(", c, ")">>
    <2>1. Len(kids) = 3 /\ Label(kids[1]) = "(" /\ Label(kids[2]) = c /\ Label(kids[3]) = ")"
      BY <1>1, <1>4, LabelsAre
    <2>2. /\ kids[2].class = c
          /\ kids[1].class \in Leafs /\ kids[1].token = "(" /\ kids[1].class = "GenericToken"
          /\ kids[3].class \in Leafs /\ kids[3].token = ")"
      <3>1. 1 \in 1 .. Len(kids) /\ 2 \in 1 .. Len(kids) /\ 3 \in 1 .. Len(kids)
        BY <2>1
      <3> QED
        BY <1>0, <1>1, <2>1, <3>1, KidIs
    <2>3. PICK h \in Nat, i \in Nat :
             <<kids[1], a, h>> \in D /\ <<kids[2], h, i>> \in D /\ <<kids[3], i, b>> \in D
      BY <1>1, <2>1, KidsAre
    <2>4. h = a + 1 /\ text[h] = "(" /\ b = i + 1 /\ text[b] = ")"
      BY <2>2, <2>3, TokenIs
    <2>5. b = i + 1 /\ <<kids[2], a + 1, i>> \in D /\ text[a + 1] = "("
      BY <2>3, <2>4
    <2>6. PrimaryKids(D, kids, a, b)
      BY <2>1, <2>2, <2>3, <2>4, <2>5 DEF PrimaryKids, c
    <2> QED
      BY <2>6 DEF kids
  <1> QED
    BY <1>2, <1>3, <1>4 DEF kids

-----------------------------------------------------------------------------
(* What is made of an expression is what its part of the text means.       *)

\* Each kind of expression has its own case of analyzeExpression.
Value(x, n, made) ==
    CASE x.class = "AdditiveExpression" -> AnalyzeAdditive(x, n, made)
      [] x.class = "MultiplicativeExpression" -> AnalyzeMultiplicative(x, n, made)
      [] x.class = "UnaryExpression" -> AnalyzeUnary(x, n, made)
      [] x.class = "PrimaryExpression" -> AnalyzePrimary(x, n, made)

\* The classes of analyzeExpression.
Expressions ==
    {"AdditiveExpression", "MultiplicativeExpression", "UnaryExpression", "PrimaryExpression"}

\* A product has no sum outside parentheses, a factor no operator at all.
Reads(c, a, b) ==
    /\ Whole(a, b)
    /\ c # "AdditiveExpression" => Unsplit(a, b, Sums)
    /\ c \in {"UnaryExpression", "PrimaryExpression"} => Unsplit(a, b, Products)

\* From as many levels on as the part has tokens.
Agrees(x, a, b, made, meant, i, j, n) ==
    /\ Value(x, n, made[i]) = meant[j][a + 1][b][n]
    /\ Value(x, n, made[i]).id \in Nat

\* At every depth that is enough, both recursions give the same tree.
Means(x, a, b, made, meant) ==
    /\ Reads(x.class, a, b)
    /\ \A i, j \in 0 .. Len(text), n \in Nat :
          i + 1 >= b - a /\ j >= b - a => Agrees(x, a, b, made, meant, i, j, n)

\* Nodes with their parts, and the two recursions over them.
Setting(T, D, made, meant) ==
    /\ Known(T, D)
    /\ text \in Seq(Tokens)
    /\ Climbs(made, "expressions", Nodes, Len(text))
    /\ Climbs(meant, "meanings", <<>>, Len(text))
    /\ \A x \in Nodes : x.token = NoToken => \A i \in 1 .. Len(x.children) : x.children[i] \in Nodes

\* Every expression of less than k tokens has its meaning.
Shorter(D, k, made, meant) ==
    \A x \in Nodes, a, b \in Nat :
        <<x, a, b>> \in D /\ x.class \in Expressions /\ b - a < k => Means(x, a, b, made, meant)

\* So has every expression of less than a smaller number of tokens.
LEMMA ShorterStill ==
  ASSUME NEW D, NEW made, NEW meant, NEW k \in Int, NEW l \in Int, l <= k,
         Shorter(D, k, made, meant)
  PROVE  Shorter(D, l, made, meant)
  <1> SUFFICES ASSUME NEW x \in Nodes, NEW a \in Nat, NEW b \in Nat,
                      <<x, a, b>> \in D, x.class \in Expressions, b - a < l
               PROVE  Means(x, a, b, made, meant)
    BY DEF Shorter
  <1>1. b - a < k
    OBVIOUS
  <1> QED
    BY <1>1 DEF Shorter

\* The case that each class takes.
LEMMA ValueIs ==
  ASSUME NEW x, NEW n, NEW m
  PROVE  /\ x.class = "AdditiveExpression" => Value(x, n, m) = AnalyzeAdditive(x, n, m)
         /\ x.class = "MultiplicativeExpression" => Value(x, n, m) = AnalyzeMultiplicative(x, n, m)
         /\ x.class = "UnaryExpression" => Value(x, n, m) = AnalyzeUnary(x, n, m)
         /\ x.class = "PrimaryExpression" => Value(x, n, m) = AnalyzePrimary(x, n, m)
  BY DEF Value

\* The meaning of a part by its operators and its first token.
LEMMA MeaningIs ==
  ASSUME NEW f, NEW t, NEW n, NEW m,
         NEW s, s = Splits(f, t, Sums), NEW p, p = Splits(f, t, Products)
  PROVE  /\ s # {} => Meaning(f, t, n, m) = Split(f, t, n, Min(s), NoPlace, m)
         /\ s = {} /\ p # {} => Meaning(f, t, n, m) = Split(f, t, n, Min(p), Min(p), m)
         /\ s = {} /\ p = {} /\ text[f] \in Sums => Meaning(f, t, n, m) = Signed(f, t, n, m)
         /\ s = {} /\ p = {} /\ text[f] = "(" => Meaning(f, t, n, m) = m[f + 1][t - 1][n]
         /\ s = {} /\ p = {} /\ text[f] = "literal" =>
               Meaning(f, t, n, m) = Ast("Literal", text[f], f, n, <<>>)
         /\ s = {} /\ p = {} /\ text[f] = "identifier" =>
               Meaning(f, t, n, m) = Ast("Identifier", text[f], f, n, <<>>)
  BY DEF Meaning, Sums, Products

\* One more level of each.
LEMMA MeantIs ==
  ASSUME NEW T, NEW D, NEW made, NEW meant, Setting(T, D, made, meant),
         NEW f \in 1 .. Len(text), NEW t \in 1 .. Len(text), NEW j \in 1 .. Len(text), NEW n \in Nat
  PROVE  meant[j][f][t][n] = Meaning(f, t, n, meant[j - 1])
  <1>1. meant[j] = Longer(meant[j - 1])
    BY DEF Setting, Climbs, Continuation
  <1>2. DOMAIN text = 1 .. Len(text)
    BY DEF Setting
  <1>3. Longer(meant[j - 1])[f][t][n] = Meaning(f, t, n, meant[j - 1])
    BY <1>2 DEF Longer
  <1> QED
    BY <1>1, <1>3

\* One step of analyzeExpression for sums and products.
LEMMA MadeIs ==
  ASSUME NEW T, NEW D, NEW made, NEW meant, Setting(T, D, made, meant),
         NEW x \in Nodes, x.class \in {"AdditiveExpression", "MultiplicativeExpression"},
         NEW i \in 1 .. Len(text), NEW n \in Nat
  PROVE  made[i][x][n] = Value(x, n, made[i - 1])
  <1>1. made[i] = Analyzed(Nodes, made[i - 1])
    BY DEF Setting, Climbs, Continuation
  <1>2. Analyzed(Nodes, made[i - 1])[x][n] = Value(x, n, made[i - 1])
    BY ValueIs DEF Analyzed
  <1> QED
    BY <1>1, <1>2

\* The number of an AST node is the one it is given.
LEMMA AstIs ==
  \A kind, label, at, id, operands :
     Ast(kind, label, at, id, operands).id = id
  BY DEF Ast

\* What was made of a part one level below is what it means.
LEMMA MadeMeans ==
  ASSUME NEW T, NEW D, NEW made, NEW meant, Setting(T, D, made, meant), NEW y \in Nodes,
         y.class \in {"AdditiveExpression", "MultiplicativeExpression"},
         NEW a, NEW b, Means(y, a, b, made, meant),
         NEW i \in 1 .. Len(text), NEW j \in 0 .. Len(text), NEW n \in Nat,
         i >= b - a, j >= b - a
  PROVE  made[i][y][n] = meant[j][a + 1][b][n] /\ made[i][y][n].id \in Nat
  <1>1. made[i][y][n] = Value(y, n, made[i - 1])
    BY MadeIs
  <1>2. i - 1 \in 0 .. Len(text) /\ (i - 1) + 1 = i
    BY DEF Setting
  <1>3. Agrees(y, a, b, made, meant, i - 1, j, n)
    BY <1>2 DEF Means
  <1> QED
    BY <1>1, <1>3 DEF Agrees

\* Identifiers, literals and parentheses.
LEMMA PrimaryMeans ==
  ASSUME NEW T, NEW D, NEW made, NEW meant, Setting(T, D, made, meant), NEW x \in Nodes,
         NEW a \in Nat, NEW b \in Nat, <<x, a, b>> \in D, x.class = "PrimaryExpression",
         Shorter(D, b - a, made, meant)
  PROVE  Means(x, a, b, made, meant)
  <1> DEFINE N == Len(text)
             kids == x.children
  <1>1. N \in Nat /\ b <= N /\ x.token = NoToken /\ PrimaryKids(D, kids, a, b)
    <2>1. x.class \notin Leafs
      BY DEF Leafs, Terminals
    <2> QED
      BY <2>1, NodeIs, PrimaryKidsAre DEF Setting
  <1>2. \A n, m : Value(x, n, m) = AnalyzePrimary(x, n, m)
    BY ValueIs
  <1>3. \A i \in 1 .. Len(kids) : kids[i] \in Nodes
    BY <1>1 DEF Setting
  <1>4. ASSUME Len(kids) = 1, kids[1].class \in Terminals, b = a + 1,
               kids[1].token = text[b], kids[1].at = b,
               kids[1].class = "Identifier" => text[b] = "identifier",
               kids[1].class = "Literal" => text[b] = "literal"
        PROVE  Means(x, a, b, made, meant)
    <2>1. text[a + 1] \in {"identifier", "literal"}
      BY <1>4 DEF Terminals
    <2>2. Whole(a, b) /\ \A ops : Unsplit(a, b, ops)
      BY <1>1, <1>4, <2>1, LeafRead
    <2>3. ASSUME NEW i \in 0 .. N, NEW j \in 0 .. N, NEW n \in Nat, j >= b - a
          PROVE  Agrees(x, a, b, made, meant, i, j, n)
      <3>1. j \in 1 .. N /\ b \in 1 .. N /\ a + 1 \in 1 .. N /\ a + 1 = b
        BY <1>1, <1>4, <2>3
      <3>2. meant[j][b][b][n] = Meaning(b, b, n, meant[j - 1])
        BY <3>1, MeantIs
      <3>3. Meaning(b, b, n, meant[j - 1]) = Ast(kids[1].class, text[b], b, n, <<>>)
        <4>1. Splits(b, b, Sums) = {} /\ Splits(b, b, Products) = {}
          BY <2>2, <3>1 DEF Unsplit
        <4> QED
          BY <1>4, <4>1, MeaningIs DEF Terminals
      <3>4. Value(x, n, made[i]) = Ast(kids[1].class, text[b], b, n, <<>>)
        BY <1>2, <1>4 DEF AnalyzePrimary, Terminals
      <3> QED
        BY <3>1, <3>2, <3>3, <3>4, AstIs DEF Agrees
    <2> QED
      BY <2>2, <2>3 DEF Means, Reads
  <1>5. ASSUME Len(kids) = 3, kids[1].class = "GenericToken",
               kids[2].class = "AdditiveExpression",
               NEW h \in Nat, b = h + 1, <<kids[2], a + 1, h>> \in D,
               text[a + 1] = "(", text[b] = ")"
        PROVE  Means(x, a, b, made, meant)
    <2>1. kids[2] \in Nodes
      BY <1>3, <1>5
    <2> DEFINE y == kids[2]
    <2>2. Means(y, a + 1, h, made, meant)
      <3>1. a + 1 \in Nat /\ h - (a + 1) < b - a /\ y.class \in Expressions
        BY <1>5 DEF Expressions
      <3> QED
        BY <1>5, <2>1, <3>1 DEF Shorter
    <2>3. Whole(a + 1, h)
      BY <2>2 DEF Means, Reads
    <2>4. Whole(a, b) /\ \A ops : Unsplit(a, b, ops)
      BY <1>1, <1>5, <2>3, ParenRead
    <2>5. ASSUME NEW i \in 0 .. N, NEW j \in 0 .. N, NEW n \in Nat, i + 1 >= b - a, j >= b - a
          PROVE  Agrees(x, a, b, made, meant, i, j, n)
      <3>0. a + 1 < h /\ h = b - 1
        BY <1>5, <2>3 DEF Whole
      <3>1. /\ i \in 1 .. N /\ j \in 1 .. N /\ a + 1 \in 1 .. N /\ b \in 1 .. N
            /\ j - 1 \in 0 .. N
            /\ i >= h - (a + 1) /\ j - 1 >= h - (a + 1)
        <4>1. N \in Nat /\ b <= N /\ h \in Nat
          BY <1>1, <1>5
        <4> HIDE DEF N
        <4> QED
          BY ONLY <4>1, <3>0, <2>5, a \in Nat, b \in Nat, i \in 0 .. N, j \in 0 .. N
      <3>2. meant[j][a + 1][b][n] = Meaning(a + 1, b, n, meant[j - 1])
        BY <3>1, MeantIs
      <3>3. Meaning(a + 1, b, n, meant[j - 1]) = meant[j - 1][(a + 1) + 1][h][n]
        <4> DEFINE m == meant[j - 1]
        <4>1. Splits(a + 1, b, Sums) = {} /\ Splits(a + 1, b, Products) = {}
          BY <2>4 DEF Unsplit
        <4> HIDE DEF m
        <4>2. Meaning(a + 1, b, n, m) = m[(a + 1) + 1][b - 1][n]
          BY <1>5, <4>1, MeaningIs
        <4> QED
          BY <3>0, <4>2 DEF m
      <3>4. Value(x, n, made[i]) = made[i][y][n]
        BY <1>2, <1>5 DEF AnalyzePrimary
      <3>5. y.class \in {"AdditiveExpression", "MultiplicativeExpression"} /\ y \in Nodes
        BY <1>5, <2>1
      <3> HIDE DEF y
      <3>6. made[i][y][n] = meant[j - 1][(a + 1) + 1][h][n] /\ made[i][y][n].id \in Nat
        <4> DEFINE f == a + 1
                   g == j - 1
        <4>1. i \in 1 .. Len(text) /\ g \in 0 .. Len(text) /\ i >= h - f /\ g >= h - f
          BY <3>1
        <4>2. Means(y, f, h, made, meant)
          BY <2>2
        <4> HIDE DEF f, g
        <4>3. made[i][y][n] = meant[g][f + 1][h][n] /\ made[i][y][n].id \in Nat
          BY <3>5, <4>1, <4>2, MadeMeans
        <4> QED
          BY <4>3 DEF f, g
      <3> QED
        BY <3>2, <3>3, <3>4, <3>6 DEF Agrees
    <2> QED
      BY <2>4, <2>5 DEF Means, Reads
  <1> HIDE DEF kids
  <1> QED
    BY <1>1, <1>4, <1>5 DEF PrimaryKids

\* Signs.
LEMMA UnaryMeans ==
  ASSUME NEW T, NEW D, NEW made, NEW meant, Setting(T, D, made, meant), NEW x \in Nodes,
         NEW a \in Nat, NEW b \in Nat, <<x, a, b>> \in D, x.class = "UnaryExpression",
         Shorter(D, b - a, made, meant)
  PROVE  Means(x, a, b, made, meant)
  <1> DEFINE N == Len(text)
             kids == x.children
  <1>1. N \in Nat /\ b <= N /\ x.token = NoToken /\ UnaryKids(D, kids, a, b)
    <2>1. x.class \notin Leafs
      BY DEF Leafs, Terminals
    <2> QED
      BY <2>1, NodeIs, UnaryKidsAre DEF Setting
  <1>2. \A n, m : Value(x, n, m) = AnalyzeUnary(x, n, m)
    BY ValueIs
  <1>3. \A i \in 1 .. Len(kids) : kids[i] \in Nodes
    BY <1>1 DEF Setting
  <1>4. ASSUME Len(kids) = 1, kids[1].class = "PrimaryExpression", <<kids[1], a, b>> \in D
        PROVE  Means(x, a, b, made, meant)
    <2> DEFINE y == kids[1]
    <2>1. y \in Nodes
      BY <1>3, <1>4
    <2>2. \A n, m : Value(x, n, m) = Value(y, n, m)
      BY <1>2, <1>4, ValueIs DEF AnalyzeUnary
    <2>3. y.class = "PrimaryExpression" /\ <<y, a, b>> \in D
      BY <1>4
    <2> HIDE DEF y
    <2>4. Means(y, a, b, made, meant)
      BY <2>1, <2>3, PrimaryMeans
    <2>5. Reads(x.class, a, b)
      BY <2>3, <2>4 DEF Means, Reads
    <2>6. ASSUME NEW i \in 0 .. N, NEW j \in 0 .. N, NEW n \in Nat, i + 1 >= b - a, j >= b - a
          PROVE  Agrees(x, a, b, made, meant, i, j, n)
      <3>1. Agrees(y, a, b, made, meant, i, j, n)
        BY <2>4, <2>6 DEF Means
      <3> QED
        BY <2>2, <3>1 DEF Agrees
    <2> QED
      BY <2>5, <2>6 DEF Means
  <1>5. ASSUME Len(kids) = 2, kids[2].class = "PrimaryExpression", <<kids[2], a + 1, b>> \in D,
               kids[1].token = text[a + 1], kids[1].at = a + 1, text[a + 1] \in Sums
        PROVE  Means(x, a, b, made, meant)
    <2> DEFINE y == kids[2]
    <2>1. y \in Nodes
      BY <1>3, <1>5
    <2>2. a + 1 \in Nat /\ b - (a + 1) < b - a /\ y.class \in Expressions
      BY <1>5 DEF Expressions
    <2>3. Means(y, a + 1, b, made, meant)
      BY <1>5, <2>1, <2>2 DEF Shorter
    <2>4. Whole(a + 1, b) /\ Unsplit(a + 1, b, Sums) /\ Unsplit(a + 1, b, Products)
      BY <1>5, <2>3 DEF Means, Reads
    <2>5. Whole(a, b) /\ Unsplit(a, b, Sums) /\ Unsplit(a, b, Products)
      BY <1>5, <2>4, SignRead
    <2>6. ASSUME NEW i \in 0 .. N, NEW j \in 0 .. N, NEW n \in Nat, i + 1 >= b - a, j >= b - a
          PROVE  Agrees(x, a, b, made, meant, i, j, n)
      <3>1. /\ j \in 1 .. N /\ a + 1 \in 1 .. N /\ b \in 1 .. N
            /\ j - 1 \in 0 .. N /\ i + 1 >= b - (a + 1) /\ j - 1 >= b - (a + 1)
        <4>1. a + 1 < b
          BY <2>4 DEF Whole
        <4> QED
          BY <1>1, <2>6, <4>1
      <3>2. meant[j][a + 1][b][n] = Meaning(a + 1, b, n, meant[j - 1])
        <4> DEFINE f == a + 1
        <4>1. f \in 1 .. Len(text) /\ b \in 1 .. Len(text) /\ j \in 1 .. Len(text)
          BY <3>1
        <4> HIDE DEF f
        <4>2. meant[j][f][b][n] = Meaning(f, b, n, meant[j - 1])
          BY <4>1, MeantIs
        <4> QED
          BY <4>2 DEF f
      <3> DEFINE v == meant[j - 1][(a + 1) + 1][b][n]
      <3>3. Meaning(a + 1, b, n, meant[j - 1]) =
               Ast("UnaryExpression", text[a + 1], a + 1, v.id + 1, <<v>>)
        <4>1. Splits(a + 1, b, Sums) = {} /\ Splits(a + 1, b, Products) = {}
          BY <2>5 DEF Unsplit
        <4>2. Meaning(a + 1, b, n, meant[j - 1]) = Signed(a + 1, b, n, meant[j - 1])
          BY <1>5, <4>1, MeaningIs
        <4> QED
          BY <4>2 DEF Signed
      <3>4. Value(x, n, made[i]) =
               Unary(IF kids[1].token = "+" THEN "+" ELSE "-", kids[1].at,
                     Value(y, n, made[i]).id + 1, Value(y, n, made[i]))
        BY <1>2, <1>5, ValueIs DEF AnalyzeUnary
      <3>5. Agrees(y, a + 1, b, made, meant, i, j - 1, n)
        BY <2>3, <3>1 DEF Means
      <3>6. Value(y, n, made[i]) = v /\ v.id \in Nat
        BY <3>5 DEF Agrees
      <3>7. (IF kids[1].token = "+" THEN "+" ELSE "-") = text[a + 1]
        BY <1>5 DEF Sums
      <3> HIDE DEF v, y
      <3>8. Value(x, n, made[i]) = Ast("UnaryExpression", text[a + 1], a + 1, v.id + 1, <<v>>)
        BY <1>5, <3>4, <3>6, <3>7 DEF Unary
      <3> QED
        BY <3>2, <3>3, <3>6, <3>8, AstIs DEF Agrees
    <2> QED
      BY <2>5, <2>6 DEF Means, Reads
  <1> HIDE DEF kids
  <1> QED
    BY <1>1, <1>4, <1>5 DEF UnaryKids

\* What analyzeExpression makes of an operator between y and z.
Pair(y, z, label, place, n, made) ==
    LET left == Value(y, n, made)
        right == made[z][left.id + 1]
    IN Binary(label, place, right.id + 1, left, right)

\* A split of the text at the operator means the same.
LEMMA PairMeans ==
  ASSUME NEW T, NEW D, NEW made, NEW meant, Setting(T, D, made, meant),
         NEW x, NEW y, NEW z \in Nodes,
         z.class \in {"AdditiveExpression", "MultiplicativeExpression"},
         NEW a \in Nat, NEW b \in Nat, NEW h \in Nat, NEW place, b <= Len(text),
         Means(y, a, h, made, meant), Means(z, h + 1, b, made, meant),
         \A n, m : Meaning(a + 1, b, n, m) = Split(a + 1, b, n, h + 1, place, m),
         \A n, m : Value(x, n, m) = Pair(y, z, text[h + 1], place, n, m),
         NEW i \in 0 .. Len(text), NEW j \in 0 .. Len(text), NEW n \in Nat,
         i + 1 >= b - a, j >= b - a
  PROVE  Agrees(x, a, b, made, meant, i, j, n)
  <1> DEFINE N == Len(text)
             f == a + 1
             k == h + 1
             g == j - 1
             v == meant[g][f][h][n]
             w == meant[g][k + 1][b][v.id + 1]
  <1>1. a < h /\ k < b
    BY DEF Means, Reads, Whole
  <1>2. N \in Nat
    BY DEF Setting
  <1>3. /\ i \in 1 .. N /\ j \in 1 .. N /\ g \in 0 .. N /\ f \in 1 .. N /\ b \in 1 .. N
        /\ h \in 1 .. N /\ i + 1 >= h - a /\ g >= h - a /\ i >= b - k /\ g >= b - k
    BY <1>1, <1>2
  <1>4. k - 1 = h
    OBVIOUS
  <1>5. Means(z, k, b, made, meant)
    OBVIOUS
  <1>6. Meaning(f, b, n, meant[g]) = Ast("BinaryExpression", text[k], place, w.id + 1, <<v, w>>)
    BY <1>4 DEF Split
  <1>7. meant[j][a + 1][b][n] = meant[j][f][b][n]
    OBVIOUS
  <1>8. \A m : Value(x, n, m) = Pair(y, z, text[k], place, n, m)
    OBVIOUS
  <1>9. meant[j][f][b][n] = Meaning(f, b, n, meant[g])
    <2>1. f \in 1 .. Len(text) /\ b \in 1 .. Len(text) /\ j \in 1 .. Len(text) /\ g = j - 1
      BY <1>3
    <2> HIDE DEF f, g
    <2> QED
      BY <2>1, MeantIs
  <1>10. Value(y, n, made[i]) = v /\ v.id \in Nat
    <2>1. Agrees(y, a, h, made, meant, i, g, n)
      BY <1>3 DEF Means
    <2> QED
      BY <2>1 DEF Agrees
  <1>11. made[i][z][v.id + 1] = w /\ w.id \in Nat
    <2> DEFINE o == v.id + 1
    <2>1. o \in Nat /\ i \in 1 .. Len(text) /\ g \in 0 .. Len(text)
      <3> HIDE DEF v, f, g
      <3> QED
        BY <1>3, <1>10
    <2> HIDE DEF v, k, g, o
    <2>2. made[i][z][o] = meant[g][k + 1][b][o] /\ made[i][z][o].id \in Nat
      BY <1>3, <1>5, <2>1, MadeMeans DEF o
    <2> QED
      BY <2>2 DEF o
  <1> HIDE DEF v, w, f, g, k
  <1>12. Value(x, n, made[i]) = Ast("BinaryExpression", text[k], place, w.id + 1, <<v, w>>)
    BY <1>8, <1>10, <1>11 DEF Pair, Binary
  <1> QED
    BY <1>6, <1>7, <1>9, <1>11, <1>12, AstIs DEF Agrees

\* A node with the part and the value of its only child.
LEMMA SameMeans ==
  ASSUME NEW x, NEW y, NEW a, NEW b, NEW made, NEW meant, Means(y, a, b, made, meant),
         \A n, m : Value(x, n, m) = Value(y, n, m),
         Reads(y.class, a, b) => Reads(x.class, a, b)
  PROVE  Means(x, a, b, made, meant)
  <1>1. Reads(x.class, a, b)
    BY DEF Means
  <1>2. ASSUME NEW i \in 0 .. Len(text), NEW j \in 0 .. Len(text), NEW n \in Nat,
               i + 1 >= b - a, j >= b - a
        PROVE  Agrees(x, a, b, made, meant, i, j, n)
    <2>1. Agrees(y, a, b, made, meant, i, j, n)
      BY <1>2 DEF Means
    <2> QED
      BY <2>1 DEF Agrees
  <1> QED
    BY <1>1, <1>2 DEF Means

\* Products.
LEMMA MultiplicativeMeans ==
  ASSUME NEW T, NEW D, NEW made, NEW meant, Setting(T, D, made, meant), NEW x \in Nodes,
         NEW a \in Nat, NEW b \in Nat, <<x, a, b>> \in D, x.class = "MultiplicativeExpression",
         Shorter(D, b - a, made, meant)
  PROVE  Means(x, a, b, made, meant)
  <1> DEFINE N == Len(text)
             kids == x.children
             c == "UnaryExpression"
             d == "MultiplicativeExpression"
  <1>1. /\ N \in Nat /\ b <= N /\ x.token = NoToken
        /\ OperatorKids(D, kids, a, b, c, Products, d)
    <2>1. /\ x.class \notin Leafs /\ c \in Classes /\ d \in Classes /\ Products \subseteq Tokens
      BY DEF Leafs, Terminals, Classes, Tokens, Products
    <2>2. Known(T, D) /\ N \in Nat
      BY DEF Setting
    <2>3. b <= N /\ x.token = NoToken /\ Stage(x.class, Pattern(kids), <<>>)
      BY <2>1, <2>2, NodeIs
    <2>4. OperatorStage(c, Products, d, Pattern(kids), <<>>)
      BY <2>3 DEF Stage, Products
    <2> HIDE DEF c, d
    <2> QED
      BY <2>1, <2>2, <2>3, <2>4, OperatorKidsAre
  <1>2. \A n, m : Value(x, n, m) = AnalyzeMultiplicative(x, n, m)
    BY ValueIs
  <1>3. \A i \in 1 .. Len(kids) : kids[i] \in Nodes
    BY <1>1 DEF Setting
  <1>4. ASSUME Len(kids) = 1, kids[1].class = c, <<kids[1], a, b>> \in D
        PROVE  Means(x, a, b, made, meant)
    <2> DEFINE y == kids[1]
    <2>1. y \in Nodes /\ y.class = c /\ <<y, a, b>> \in D
      BY <1>3, <1>4
    <2>2. \A n, m : Value(x, n, m) = Value(y, n, m)
      BY <1>2, <1>4, ValueIs DEF AnalyzeMultiplicative
    <2> HIDE DEF y
    <2>3. Means(y, a, b, made, meant)
      BY <2>1, UnaryMeans
    <2>4. Reads(y.class, a, b) => Reads(x.class, a, b)
      BY <2>1 DEF Reads
    <2> QED
      BY <2>2, <2>3, <2>4, SameMeans
  <1>5. ASSUME Len(kids) = 3, kids[1].class = c, kids[3].class = d,
               NEW h \in Nat, <<kids[1], a, h>> \in D, <<kids[3], h + 1, b>> \in D,
               kids[2].token = text[h + 1], kids[2].at = h + 1, text[h + 1] \in Products
        PROVE  Means(x, a, b, made, meant)
    <2> DEFINE y == kids[1]
               z == kids[3]
    <2>1. /\ y \in Nodes /\ y.class = c /\ <<y, a, h>> \in D
          /\ z \in Nodes /\ z.class = d /\ <<z, h + 1, b>> \in D
      BY <1>3, <1>5
    <2>2. \A n, m : Value(x, n, m) = Pair(y, z, text[h + 1], h + 1, n, m)
      <3>1. (IF kids[2].token = "*" THEN "*" ELSE "/") = text[h + 1]
        BY <1>5 DEF Products
      <3>2. \A n, m : Value(y, n, m) = AnalyzeUnary(y, n, m)
        BY <1>5, ValueIs
      <3> QED
        BY <1>2, <1>5, <3>1, <3>2 DEF AnalyzeMultiplicative, Pair
    <2> HIDE DEF y, z
    <2>3. h < b /\ a <= h
      <3>1. c \notin Leafs /\ d \notin Leafs /\ Known(T, D)
        BY DEF Leafs, Terminals, Setting
      <3>2. h + 1 <= b /\ a <= h
        BY <2>1, <3>1, NodeIs
      <3> QED
        BY <3>2
    <2>4. Means(z, h + 1, b, made, meant)
      <3>1. h + 1 \in Nat /\ b - (h + 1) < b - a
        BY <2>3
      <3> QED
        BY <2>1, <3>1 DEF Shorter, Expressions
    <2>5. Shorter(D, h - a, made, meant)
      BY <2>3, ShorterStill
    <2>6. Means(y, a, h, made, meant)
      BY <2>1, <2>5, UnaryMeans
    <2>7. /\ Whole(a, h) /\ Unsplit(a, h, Sums) /\ Unsplit(a, h, Products)
          /\ Whole(h + 1, b) /\ Unsplit(h + 1, b, Sums)
      BY <2>1, <2>4, <2>6 DEF Means, Reads
    <2>8. /\ Whole(a, b) /\ Unsplit(a, b, Sums)
          /\ SplitAt(a, b, Products, h + 1)
      <3>1. text[h + 1] \in Sums \cup Products /\ text[h + 1] \notin Sums
        BY <1>5 DEF Sums, Products
      <3> DEFINE k == h + 1
      <3>2. k = h + 1 /\ k \in Nat
        OBVIOUS
      <3>3. Whole(k, b) /\ Unsplit(k, b, Sums) /\ text[k] \in Sums \cup Products
            /\ text[k] \notin Sums /\ text[k] \in Products
        BY <1>5, <2>7, <3>1
      <3> HIDE DEF k
      <3>4. Whole(a, b)
        BY <1>1, <2>7, <3>2, <3>3, BinaryRead
      <3>5. Unsplit(a, b, Sums)
        BY <1>1, <2>7, <3>2, <3>3, BinaryRead
      <3>6. SplitAt(a, b, Products, k)
        BY <1>1, <2>7, <3>2, <3>3, BinaryRead
      <3> QED
        BY <3>2, <3>4, <3>5, <3>6
    <2>9. \A n, m : Meaning(a + 1, b, n, m) = Split(a + 1, b, n, h + 1, h + 1, m)
      <3>1. Splits(a + 1, b, Sums) = {}
        BY <2>8 DEF Unsplit
      <3> QED
        BY <2>8, <3>1, MeaningIs DEF SplitAt
    <2>10. ASSUME NEW i \in 0 .. Len(text), NEW j \in 0 .. Len(text), NEW n \in Nat,
                  i + 1 >= b - a, j >= b - a
           PROVE  Agrees(x, a, b, made, meant, i, j, n)
      BY <1>1, <2>1, <2>2, <2>4, <2>6, <2>9, <2>10, PairMeans
    <2>11. Reads(x.class, a, b)
      BY <2>8 DEF Reads
    <2> QED
      BY <2>10, <2>11 DEF Means
  <1> HIDE DEF kids, c, d
  <1> QED
    BY <1>1, <1>4, <1>5 DEF OperatorKids
\* Sums.
LEMMA AdditiveMeans ==
  ASSUME NEW T, NEW D, NEW made, NEW meant, Setting(T, D, made, meant), NEW x \in Nodes,
         NEW a \in Nat, NEW b \in Nat, <<x, a, b>> \in D, x.class = "AdditiveExpression",
         Shorter(D, b - a, made, meant)
  PROVE  Means(x, a, b, made, meant)
  <1> DEFINE N == Len(text)
             kids == x.children
             c == "MultiplicativeExpression"
             d == "AdditiveExpression"
  <1>1. /\ N \in Nat /\ b <= N /\ x.token = NoToken
        /\ OperatorKids(D, kids, a, b, c, Sums, d)
    <2>1. /\ x.class \notin Leafs /\ c \in Classes /\ d \in Classes /\ Sums \subseteq Tokens
      BY DEF Leafs, Terminals, Classes, Tokens, Sums
    <2>2. Known(T, D) /\ N \in Nat
      BY DEF Setting
    <2>3. b <= N /\ x.token = NoToken /\ Stage(x.class, Pattern(kids), <<>>)
      BY <2>1, <2>2, NodeIs
    <2>4. OperatorStage(c, Sums, d, Pattern(kids), <<>>)
      BY <2>3 DEF Stage, Sums
    <2> HIDE DEF c, d
    <2> QED
      BY <2>1, <2>2, <2>3, <2>4, OperatorKidsAre
  <1>2. \A n, m : Value(x, n, m) = AnalyzeAdditive(x, n, m)
    BY ValueIs
  <1>3. \A i \in 1 .. Len(kids) : kids[i] \in Nodes
    BY <1>1 DEF Setting
  <1>4. ASSUME Len(kids) = 1, kids[1].class = c, <<kids[1], a, b>> \in D
        PROVE  Means(x, a, b, made, meant)
    <2> DEFINE y == kids[1]
    <2>1. y \in Nodes /\ y.class = c /\ <<y, a, b>> \in D
      BY <1>3, <1>4
    <2>2. \A n, m : Value(x, n, m) = Value(y, n, m)
      BY <1>2, <1>4, ValueIs DEF AnalyzeAdditive
    <2> HIDE DEF y
    <2>3. Means(y, a, b, made, meant)
      BY <2>1, MultiplicativeMeans
    <2>4. Reads(y.class, a, b) => Reads(x.class, a, b)
      BY <2>1 DEF Reads
    <2> QED
      BY <2>2, <2>3, <2>4, SameMeans
  <1>5. ASSUME Len(kids) = 3, kids[1].class = c, kids[3].class = d,
               NEW h \in Nat, <<kids[1], a, h>> \in D, <<kids[3], h + 1, b>> \in D,
               kids[2].token = text[h + 1], kids[2].at = h + 1, text[h + 1] \in Sums
        PROVE  Means(x, a, b, made, meant)
    <2> DEFINE y == kids[1]
               z == kids[3]
    <2>1. /\ y \in Nodes /\ y.class = c /\ <<y, a, h>> \in D
          /\ z \in Nodes /\ z.class = d /\ <<z, h + 1, b>> \in D
      BY <1>3, <1>5
    <2>2. \A n, m : Value(x, n, m) = Pair(y, z, text[h + 1], NoPlace, n, m)
      <3>1. (IF kids[2].token = "+" THEN "+" ELSE "-") = text[h + 1]
        BY <1>5 DEF Sums
      <3>2. \A n, m : Value(y, n, m) = AnalyzeMultiplicative(y, n, m)
        BY <1>5, ValueIs
      <3> QED
        BY <1>2, <1>5, <3>1, <3>2 DEF AnalyzeAdditive, Pair
    <2> HIDE DEF y, z
    <2>3. h < b /\ a <= h
      <3>1. c \notin Leafs /\ d \notin Leafs /\ Known(T, D)
        BY DEF Leafs, Terminals, Setting
      <3>2. h + 1 <= b /\ a <= h
        BY <2>1, <3>1, NodeIs
      <3> QED
        BY <3>2
    <2>4. Means(z, h + 1, b, made, meant)
      <3>1. h + 1 \in Nat /\ b - (h + 1) < b - a
        BY <2>3
      <3> QED
        BY <2>1, <3>1 DEF Shorter, Expressions
    <2>5. Shorter(D, h - a, made, meant)
      BY <2>3, ShorterStill
    <2>6. Means(y, a, h, made, meant)
      BY <2>1, <2>5, MultiplicativeMeans
    <2>7. Whole(a, h) /\ Unsplit(a, h, Sums) /\ Whole(h + 1, b)
      BY <2>1, <2>4, <2>6 DEF Means, Reads
    <2>8. Whole(a, b) /\ SplitAt(a, b, Sums, h + 1)
      <3> DEFINE k == h + 1
      <3>1. k = h + 1 /\ k \in Nat
        OBVIOUS
      <3>2. Whole(k, b) /\ text[k] \in Sums \cup Products /\ text[k] \in Sums
        BY <1>5, <2>7
      <3> HIDE DEF k
      <3>3. Whole(a, b)
        BY <2>7, <3>1, <3>2, BinaryRead
      <3>4. SplitAt(a, b, Sums, k)
        BY <2>7, <3>1, <3>2, BinaryRead
      <3> QED
        BY <3>1, <3>3, <3>4
    <2>9. \A n, m : Meaning(a + 1, b, n, m) = Split(a + 1, b, n, h + 1, NoPlace, m)
      BY <2>8, MeaningIs DEF SplitAt
    <2>10. ASSUME NEW i \in 0 .. Len(text), NEW j \in 0 .. Len(text), NEW n \in Nat,
                  i + 1 >= b - a, j >= b - a
           PROVE  Agrees(x, a, b, made, meant, i, j, n)
      BY <1>1, <2>1, <2>2, <2>4, <2>6, <2>9, <2>10, PairMeans
    <2>11. Reads(x.class, a, b)
      BY <2>8 DEF Reads
    <2> QED
      BY <2>10, <2>11 DEF Means
  <1> HIDE DEF kids, c, d
  <1> QED
    BY <1>1, <1>4, <1>5 DEF OperatorKids

\* Every expression, by the length of its part.
LEMMA ExpressionsMean ==
  ASSUME NEW T, NEW D, NEW made, NEW meant, Setting(T, D, made, meant)
  PROVE  \A x \in Nodes, a, b \in Nat :
            <<x, a, b>> \in D /\ x.class \in Expressions => Means(x, a, b, made, meant)
  <1> DEFINE P(k) == Shorter(D, k, made, meant)
  <1>1. P(0)
    <2> SUFFICES ASSUME NEW x \in Nodes, NEW a \in Nat, NEW b \in Nat,
                        <<x, a, b>> \in D, x.class \in Expressions, b - a < 0
                 PROVE  FALSE
      BY DEF Shorter
    <2>1. x.class \notin Leafs
      BY DEF Expressions, Leafs, Terminals
    <2>2. a <= b
      BY <2>1, NodeIs DEF Setting
    <2> QED
      BY <2>2
  <1>2. ASSUME NEW k \in Nat, P(k)
        PROVE  P(k + 1)
    <2> SUFFICES ASSUME NEW x \in Nodes, NEW a \in Nat, NEW b \in Nat,
                        <<x, a, b>> \in D, x.class \in Expressions, b - a < k + 1
                 PROVE  Means(x, a, b, made, meant)
      BY DEF Shorter
    <2>1. Shorter(D, b - a, made, meant)
      <3>1. b - a <= k /\ b - a \in Int
        OBVIOUS
      <3> QED
        BY <1>2, <3>1, ShorterStill
    <2>2. CASE x.class = "AdditiveExpression"
      BY <2>1, <2>2, AdditiveMeans
    <2>3. CASE x.class = "MultiplicativeExpression"
      BY <2>1, <2>3, MultiplicativeMeans
    <2>4. CASE x.class = "UnaryExpression"
      BY <2>1, <2>4, UnaryMeans
    <2>5. CASE x.class = "PrimaryExpression"
      BY <2>1, <2>5, PrimaryMeans
    <2> QED
      BY <2>2, <2>3, <2>4, <2>5 DEF Expressions
  <1>3. ASSUME NEW k \in Nat
        PROVE  P(k)
    <2> DEFINE S == {l \in Nat : P(l)}
    <2> HIDE DEF P
    <2>1. 0 \in S
      BY <1>1
    <2>2. \A l \in 0 .. k - 1 : l \in S => l + 1 \in S
      BY <1>2
    <2> HIDE DEF S
    <2>3. 0 .. k \subseteq S
      BY <2>1, <2>2, BoundedInduction
    <2> QED
      BY <2>3 DEF S
  <1> SUFFICES ASSUME NEW x \in Nodes, NEW a \in Nat, NEW b \in Nat,
                      <<x, a, b>> \in D, x.class \in Expressions
               PROVE  Means(x, a, b, made, meant)
    OBVIOUS
  <1>4. a <= b
    <2>1. x.class \notin Leafs
      BY DEF Expressions, Leafs, Terminals
    <2> QED
      BY <2>1, NodeIs DEF Setting
  <1>5. b - a + 1 \in Nat /\ b - a < b - a + 1
    BY <1>4
  <1> QED
    BY <1>3, <1>5 DEF Shorter

-----------------------------------------------------------------------------
(* The node of the whole text, and the nodes in it.                        *)

\* The outermost activation stays the one of the function.
Outermost == frames[1].class = "FunctionDeclaration"

\* The first element when the last ones are replaced.
LEMMA FirstIs ==
  ASSUME NEW S, NEW s \in Seq(S), s # <<>>, NEW x \in S
  PROVE  /\ Append(s, x)[1] = s[1]
         /\ Len(s) = 1 => Append(Front(s), x)[1] = x
         /\ Len(s) > 1 => Append(Front(s), x)[1] = s[1] /\ Front(s)[1] = s[1]
         /\ Len(s) = 2 => Append(Front(Front(s)), x)[1] = x
         /\ Len(s) > 2 => Append(Front(Front(s)), x)[1] = s[1]
  <1> DEFINE n == Len(s)
             f == Front(s)
             g == Front(f)
  <1>1. n \in Nat /\ n >= 1 /\ Append(s, x)[1] = s[1]
    OBVIOUS
  <1>2. f \in Seq(S) /\ Len(f) = n - 1 /\ \A i \in 1 .. n - 1 : f[i] = s[i]
    BY FrontLast
  <1> HIDE DEF n, f
  <1>3. \A t \in Seq(S) : /\ Len(t) = 0 => Append(t, x)[1] = x
                          /\ Len(t) > 0 => Append(t, x)[1] = t[1]
    <2> TAKE t \in Seq(S)
    <2>1. Append(t, x)[Len(t) + 1] = x /\ \A i \in 1 .. Len(t) : Append(t, x)[i] = t[i]
      BY AppendIs
    <2> QED
      BY <2>1
  <1>4. ASSUME n > 1
        PROVE  g \in Seq(S) /\ Len(g) = n - 2 /\ \A i \in 1 .. n - 2 : g[i] = f[i]
    <2>1. f # <<>> /\ Len(f) = n - 1
      BY <1>1, <1>2, <1>4
    <2>2. g \in Seq(S) /\ Len(g) = Len(f) - 1 /\ \A i \in 1 .. Len(f) - 1 : g[i] = f[i]
      BY <1>2, <2>1, FrontLast
    <2> QED
      BY <1>1, <2>1, <2>2
  <1> HIDE DEF g
  <1>5. n = 1 => Append(f, x)[1] = x
    BY <1>1, <1>2, <1>3
  <1>6. n > 1 => Append(f, x)[1] = s[1] /\ f[1] = s[1]
    BY <1>1, <1>2, <1>3
  <1>7. n = 2 => Append(g, x)[1] = x
    BY <1>3, <1>4
  <1>8. n > 2 => Append(g, x)[1] = s[1]
    BY <1>1, <1>2, <1>3, <1>4
  <1> QED
    BY <1>1, <1>5, <1>6, <1>7, <1>8 DEF f, g, n

\* A sequence that is not empty has a first element.
LEMMA NotEmpty ==
  ASSUME NEW S, NEW s \in Seq(S), s # <<>>
  PROVE  Len(s) \in Nat /\ Len(s) >= 1 /\ s[1] \in S
  OBVIOUS

\* A sequence with a length is not empty.
LEMMA EmptyIs ==
  ASSUME NEW s, Len(s) # 0
  PROVE  s # <<>>
  <1>1. Len(<<>>) = 0
    OBVIOUS
  <1> QED
    BY <1>1, Zenon

\* No step replaces the activation of the function.
LEMMA OutermostStep ==
  ASSUME TreeInv, Outermost, Next
  PROVE  Outermost'
  <1>1. frames \in Seq(Frames) /\ frames # <<>> /\ ParserInv
    BY DEF TreeInv, ParserInv, TypeOK
  <1>2. Top = frames[Len(frames)] /\ Top \in Frames
    BY <1>1, FrontLast DEF Top
  <1>3. Begins(Top)
    <2>1. PICK T : Trees(T, growing, frames, node_index_incrementer)
      BY DEF TreeInv, Grown
    <2> QED
      BY <1>1, <2>1, InnermostIs DEF Fits
  <1>4. \A c, rest : c \in Classes /\ rest \in Seq(Blocks) =>
           Frame(c, rest) \in Frames /\ Frame(c, rest).class = c
    BY DEF Frame, Frames
  <1>5. CASE Enters
    <2>1. Activation(Current.class) \in Frames
      BY <1>4, <1>5, BodyType DEF Enters, Activation
    <2> QED
      BY <1>1, <1>5, <2>1, FirstIs DEF Enters, Outermost
  <1>6. ASSUME NEW rest, Continues(rest)
        PROVE  Outermost'
    <2>1. Frame(Top.class, rest) \in Frames /\ Frame(Top.class, rest).class = Top.class
      BY <1>2, <1>4, <1>6 DEF Continues, Frames
    <2>2. Len(frames) = 1 \/ Len(frames) > 1
      <3>1. Len(frames) \in Nat /\ Len(frames) >= 1
        BY <1>1, NotEmpty
      <3> DEFINE n == Len(frames)
      <3>2. n \in Nat /\ n >= 1
        BY <3>1
      <3> HIDE DEF n
      <3>3. n = 1 \/ n > 1
        BY <3>2
      <3> QED
        BY <3>3 DEF n
    <2> QED
      BY <1>1, <1>2, <1>6, <2>1, <2>2, FirstIs DEF Continues, Outermost
  <1>7. CASE Returns
    <2> DEFINE p == frames[Len(frames) - 1]
               b == Frame(p.class, Tail(p.rest))
    <2>1. Len(frames) > 1 /\ p \in Frames /\ p.rest # <<>>
      BY <1>1, <1>7 DEF Returns
    <2>2. p.class \in Classes /\ p.rest \in Seq(Blocks)
      BY <2>1 DEF Frames
    <2>3. Tail(p.rest) \in Seq(Blocks)
      <3> DEFINE r == p.rest
      <3>1. r \in Seq(Blocks) /\ r # <<>>
        BY <2>1, <2>2
      <3> HIDE DEF r
      <3>2. Tail(r) \in Seq(Blocks)
        BY <3>1
      <3> QED
        BY <3>2 DEF r
    <2>4. b \in Frames /\ b.class = p.class
      BY <1>4, <2>2, <2>3
    <2>5. frames' = Append(Front(Front(frames)), b) \/ frames' = Front(frames)
      BY <1>7 DEF Returns
    <2>6. Len(frames) = 2 \/ Len(frames) > 2
      <3>1. Len(frames) \in Nat
        BY <1>1, NotEmpty
      <3> DEFINE n == Len(frames)
      <3>2. n \in Nat /\ n > 1
        BY <2>1, <3>1
      <3> HIDE DEF n
      <3>3. n = 2 \/ n > 2
        BY <3>2
      <3> QED
        BY <3>3 DEF n
    <2>7. Len(frames) = 2 => p = frames[1]
      OBVIOUS
    <2> HIDE DEF p, b
    <2> QED
      BY <1>1, <2>1, <2>4, <2>5, <2>6, <2>7, FirstIs DEF Outermost
  <1>8. CASE Stays
    BY <1>8 DEF Stays, Outermost
  <1> QED
    BY <1>1, <1>3, <1>5, <1>6, <1>7, <1>8, NextIs

\* At every moment the outermost activation is the one of parse_function: what
\* the parser returns last is the FunctionDeclaration.
THEOREM OutermostAlways == TreeSpec => [](SpanInv /\ Outermost)
  <1>1. TreeInit => Outermost
    BY DEF TreeInit, Init, Activation, Frame, Outermost
  <1>2. SpanInv /\ Outermost /\ [TreeNext]_allVars => Outermost'
    <2> SUFFICES ASSUME SpanInv, Outermost, [TreeNext]_allVars PROVE Outermost'
      OBVIOUS
    <2>1. CASE TreeNext
      BY <2>1, OutermostStep DEF SpanInv, TreeNext
    <2>2. CASE UNCHANGED allVars
      BY <2>2 DEF allVars, vars, Outermost
    <2> QED
      BY <2>1, <2>2
  <1> QED
    BY <1>1, <1>2, SpanStart, SpanStep, PTL DEF TreeSpec

\* What is below the nodes is in the sequence.
LEMMA JoinedHas ==
  ASSUME NEW T, T \subseteq NodesOver(T), NEW s \in Seq(T), NEW x \in Range(s),
         NEW y \in Range(Below(x))
  PROVE  y \in Range(Joined(s))
  <1> DEFINE Has(t) == \A z \in Range(t) : Range(Below(z)) \subseteq Range(Joined(t))
             P == {t \in Seq(T) : Has(t)}
  <1>1. <<>> \in P
    BY DEF Range
  <1>2. ASSUME NEW t \in Seq(T), NEW v \in T, t \in P
        PROVE  Append(t, v) \in P
    <2> DEFINE u == Append(t, v)
               a == Joined(t)
               b == Below(v)
    <2>1. /\ a \in Seq(T) /\ b \in Seq(T) /\ Joined(u) = a \o b
      BY JoinedIs, BelowsIs
    <2>2. u \in Seq(T) /\ Range(u) \subseteq Range(t) \cup {v}
      <3>1. /\ u \in Seq(T) /\ Len(u) = Len(t) + 1 /\ u[Len(t) + 1] = v
            /\ \A i \in 1 .. Len(t) : u[i] = t[i]
        BY AppendIs
      <3> HIDE DEF u
      <3>2. ASSUME NEW i \in 1 .. Len(u)
            PROVE  u[i] \in Range(t) \cup {v}
        <4>1. i = Len(t) + 1 \/ i \in 1 .. Len(t)
          BY <3>1
        <4>2. DOMAIN t = 1 .. Len(t)
          OBVIOUS
        <4> QED
          BY <3>1, <4>1, <4>2 DEF Range
      <3>3. DOMAIN u = 1 .. Len(u)
        BY <3>1
      <3> QED
        BY <3>1, <3>2, <3>3 DEF Range
    <2> HIDE DEF u, a, b
    <2>3. Range(a) \subseteq Range(a \o b) /\ Range(b) \subseteq Range(a \o b)
      <3> DEFINE c == a \o b
      <3>1. /\ DOMAIN c = 1 .. Len(a) + Len(b) /\ DOMAIN a = 1 .. Len(a)
            /\ DOMAIN b = 1 .. Len(b) /\ Len(a) \in Nat /\ Len(b) \in Nat
            /\ \A i \in 1 .. Len(a) : c[i] = a[i]
            /\ \A i \in 1 .. Len(b) : c[Len(a) + i] = b[i]
        BY <2>1
      <3> HIDE DEF c
      <3>2. \A i \in 1 .. Len(a) : a[i] \in Range(c)
        <4>1. \A i \in 1 .. Len(a) : i \in DOMAIN c
          BY <3>1
        <4> QED
          BY <3>1, <4>1 DEF Range
      <3>3. \A i \in 1 .. Len(b) : b[i] \in Range(c)
        <4>1. \A i \in 1 .. Len(b) : Len(a) + i \in DOMAIN c
          BY <3>1
        <4> QED
          BY <3>1, <4>1 DEF Range
      <3>4. Range(a) \subseteq Range(c) /\ Range(b) \subseteq Range(c)
        BY <3>1, <3>2, <3>3 DEF Range
      <3> QED
        BY <3>4 DEF c
    <2>4. ASSUME NEW z \in Range(u)
          PROVE  Range(Below(z)) \subseteq Range(Joined(u))
      <3>1. CASE z \in Range(t)
        <4>1. Range(Below(z)) \subseteq Range(a)
          BY <1>2, <3>1 DEF a
        <4> QED
          BY <2>1, <2>3, <4>1
      <3>2. CASE z = v
        BY <2>1, <2>3, <3>2 DEF b
      <3> QED
        BY <2>2, <3>1, <3>2
    <2> QED
      BY <2>2, <2>4 DEF u
  <1> HIDE DEF P
  <1>3. s \in P
    BY <1>1, <1>2, AppendInduction
  <1> QED
    BY <1>3 DEF P

\* The nodes are all there.
LEMMA BelowNodes ==
  ASSUME TreeInv, growing = <<Root>>
  PROVE  /\ Root \in Nodes
         /\ \A x \in Nodes : x.token = NoToken =>
               \A i \in 1 .. Len(x.children) : x.children[i] \in Nodes
  <1> DEFINE M == node_index_incrementer
             start == <<Root>>
             O(n) == OpenedOften(start, n)
  <1>1. PICK T : Trees(T, growing, frames, node_index_incrementer)
    BY DEF TreeInv, Grown
  <1>2. T \subseteq NodesOver(T) /\ Root \in T /\ start \in Seq(T) /\ M \in Nat /\ Closed(O(M))
    <2> DEFINE r == Root
    <2>1. growing = <<r>> /\ Len(<<r>>) = 1 /\ <<r>>[1] = r
      OBVIOUS
    <2> HIDE DEF r
    <2>2. T \subseteq NodesOver(T) /\ growing \in Seq(T) /\ M \in Nat
          /\ \A i \in 1 .. Len(growing) : Closed(OpenedOften(<<growing[i]>>, M + 1 - i))
      BY <1>1 DEF Trees
    <2>3. 1 \in 1 .. Len(growing) /\ M + 1 - 1 = M
      BY <2>1, <2>2
    <2>4. growing[1] = r
      BY <2>1
    <2>5. Closed(OpenedOften(<<r>>, M))
      BY <2>2, <2>3, <2>4
    <2> QED
      BY <2>1, <2>2, <2>3, <2>4, <2>5 DEF r
  <1>3. \A n \in 0 .. M : \A y : y \in Range(O(n)) => y \in Nodes
    BY DEF Nodes
  <1> HIDE DEF M, start
  <1>4. Root \in Nodes
    <2>1. O(0) = start /\ 0 \in 0 .. M
      BY <1>2, OftenIs
    <2>2. Root \in Range(start)
      <3> DEFINE r == Root
                 s == <<r>>
      <3>1. 1 \in DOMAIN s /\ s[1] = r
        OBVIOUS
      <3> HIDE DEF r, s
      <3>2. r \in Range(s)
        BY <3>1 DEF Range
      <3> QED
        BY <3>2 DEF r, s, start
    <2> HIDE DEF O
    <2> QED
      BY <1>3, <2>1, <2>2
  <1>5. ASSUME NEW x \in Nodes, x.token = NoToken, NEW i \in 1 .. Len(x.children)
        PROVE  x.children[i] \in Nodes
    <2>1. PICK n \in 0 .. M : x \in Range(O(n))
      BY DEF Nodes, M, start
    <2>2. O(n) \in Seq(T) /\ O(n + 1) = Opened(O(n))
      <3>1. n \in Nat
        BY <1>2
      <3> QED
        BY <1>2, <3>1, OftenIs
    <2>3. n + 1 \in 0 .. M
      <3>1. n # M
        <4> SUFFICES ASSUME n = M PROVE FALSE
          OBVIOUS
        <4> HIDE DEF O
        <4>1. Closed(O(n))
          BY <1>2
        <4> QED
          BY <1>5, <2>1, <4>1 DEF Closed, Range
      <3> QED
        BY <1>2, <3>1
    <2> DEFINE s == O(n)
    <2>4. Opened(s) = Joined(s) /\ s \in Seq(T) /\ x \in Range(s)
      BY <1>2, <2>1, <2>2, OpenedIs
    <2>5. O(n + 1) = Joined(s)
      BY <2>2, <2>4
    <2> HIDE DEF s, O
    <2>6. x \in T
      BY <2>4 DEF Range
    <2>7. x.children \in Seq(T) /\ Below(x) = x.children
      BY <1>2, <1>5, <2>6 DEF NodesOver, Below
    <2>8. x.children[i] \in Range(Below(x))
      BY <1>5, <2>7 DEF Range
    <2>9. x.children[i] \in Range(Joined(s))
      BY <1>2, <2>4, <2>8, JoinedHas
    <2> QED
      BY <1>3, <2>3, <2>5, <2>9
  <1> QED
    BY <1>4, <1>5

\* A text that was accepted is the part of its node.
LEMMA AcceptedIs ==
  ASSUME SpanInv, Outermost, verdict = "accepted", errors = 0
  PROVE  \E T, D : /\ Known(T, D) /\ Root \in T /\ Root.class = "FunctionDeclaration"
                   /\ Part(D, text, Root, <<>>, 0, Len(text)) /\ growing = <<Root>>
  <1>1. /\ answer = "true" /\ Len(frames) = 1 /\ Top.rest = <<>>
        /\ \E T, D, cuts : Laid(T, D, cuts)
    BY DEF SpanInv, Spans
  <1>2. PICK T, D, cuts : Laid(T, D, cuts)
    BY <1>1
  <1>3. TreeInv /\ frames \in Seq(Frames) /\ frames # <<>> /\ Len(text) = consumed
    BY DEF SpanInv, TreeInv, ParserInv, TypeOK, Grown
  <1>4. Top = frames[1]
    BY <1>1, <1>3, FrontLast DEF Top
  <1>5. /\ growing \in Seq(T) /\ Len(growing) = 1 /\ cuts \in Seq(Nat) /\ Len(cuts) = 2
        /\ cuts[1] = 0 /\ growing[1].class = frames[1].class
        /\ Part(D, text, growing[1], frames[1].rest, cuts[1], cuts[1 + 1])
    <2>1. Len(growing) = 1
      BY <1>1, <1>2 DEF Laid, Spanned
    <2>2. 1 \in 1 .. Len(growing)
      BY <2>1
    <2> QED
      BY <1>2, <2>1, <2>2 DEF Laid, Spanned
  <1>6. cuts[2] = consumed
    <2>1. cuts # <<>> /\ cuts \in Seq(Nat)
      <3>1. Len(cuts) # 0 /\ cuts \in Seq(Nat)
        BY <1>5
      <3> QED
        BY <3>1, EmptyIs
    <2>2. Last(cuts) = cuts[Len(cuts)]
      BY <2>1, FrontLast
    <2> QED
      BY <1>2, <1>5, <2>2 DEF Laid
  <1>7. growing = <<Root>>
    <2> DEFINE g == growing
               r == g[1]
    <2>1. g \in Seq(T) /\ Len(g) = 1
      BY <1>5
    <2> HIDE DEF g
    <2>4. r \in T
      BY <2>1
    <2>2. <<r>> \in Seq(T) /\ Len(<<r>>) = 1 /\ \A i \in 1 .. 1 : g[i] = <<r>>[i]
      BY <2>1, <2>4
    <2>3. g = <<r>>
      BY <2>1, <2>2, SeqEqual
    <2> QED
      BY <2>3 DEF g, Root
  <1>8. Root \in T /\ Root.class = "FunctionDeclaration"
    <2>1. Root \in T
      <3>1. growing # <<>>
        <4>1. Len(growing) # 0
          BY <1>5
        <4> QED
          BY <4>1, EmptyIs
      <3> QED
        BY <1>5, <3>1, NotEmpty DEF Root
    <2> QED
      BY <1>5, <2>1 DEF Root, Outermost
  <1>9. Part(D, text, Root, <<>>, 0, Len(text))
    <2>1. 1 + 1 = 2
      OBVIOUS
    <2>2. Part(D, text, growing[1], <<>>, 0, consumed)
      BY <1>1, <1>4, <1>5, <1>6, <2>1
    <2> QED
      BY <1>3, <2>2 DEF Root
  <1>10. Known(T, D)
    BY <1>2 DEF Laid, Known
  <1> QED
    BY <1>7, <1>8, <1>9, <1>10

-----------------------------------------------------------------------------
(* What is made of a statement is what its part of the text means.         *)

\* An assignment, or RETURN with an expression.
StatementKids(D, kids, a, b) ==
    \/ /\ Len(kids) = 1 /\ kids[1].class = "AssignmentExpression" /\ <<kids[1], a, b>> \in D
    \/ /\ Len(kids) = 2 /\ kids[1].class = "GenericToken" /\ text[a + 1] = "RETURN"
       /\ kids[2].class = "AdditiveExpression" /\ <<kids[2], a + 1, b>> \in D

\* The children of a Statement are one of the two.
LEMMA StatementKidsAre ==
  ASSUME NEW T, NEW D, Known(T, D), NEW x, NEW a, NEW b, <<x, a, b>> \in D,
         x.class = "Statement"
  PROVE  StatementKids(D, x.children, a, b)
  <1> DEFINE kids == x.children
             p == Pattern(kids)
             c == "AssignmentExpression"
             d == "AdditiveExpression"
             t == "RETURN"
  <1>0. x.class \notin Leafs /\ c \in Classes /\ d \in Classes /\ t \in Tokens
    BY DEF Leafs, Terminals, Classes, Tokens, Keywords
  <1>1. kids \in Seq(T) /\ Covers(D, kids, a, b) /\ T \subseteq NodesOver(T)
        /\ D \subseteq T \X Nat \X Nat /\ Stage(x.class, p, <<>>) /\ a \in Nat
    BY <1>0, NodeIs DEF Known, Settled
  <1>2. p = <<c>> \/ p = <<t, d>>
    <2>1. /\ \A y : <<>> # <<y>>
          /\ \A y, z : <<>> # <<y, z>>
      BY ListsAre
    <2>2. StatementStage(p, <<>>)
      BY <1>1 DEF Stage
    <2> QED
      BY <2>1, <2>2 DEF StatementStage, Statement
  <1> HIDE DEF kids, c, d, t
  <1>3. CASE p = <<c>>
    <2>1. Len(kids) = 1 /\ Label(kids[1]) = c
      BY <1>1, <1>3, LabelsAre
    <2>2. kids[1].class = c
      <3>1. 1 \in 1 .. Len(kids)
        BY <2>1
      <3> QED
        BY <1>0, <1>1, <2>1, <3>1, KidIs
    <2>3. <<kids[1], a, b>> \in D
      BY <1>1, <2>1, KidsAre
    <2> QED
      BY <2>1, <2>2, <2>3 DEF StatementKids, kids, c
  <1>4. CASE p = <<t, d>>
    <2>1. Len(kids) = 2 /\ Label(kids[1]) = t /\ Label(kids[2]) = d
      BY <1>1, <1>4, LabelsAre
    <2>2. /\ kids[2].class = d /\ kids[1].class = "GenericToken"
          /\ kids[1].class \in Leafs /\ kids[1].token = t
      <3>1. 1 \in 1 .. Len(kids) /\ 2 \in 1 .. Len(kids)
        BY <2>1
      <3> QED
        BY <1>0, <1>1, <2>1, <3>1, KidIs
    <2>3. PICK h \in Nat : <<kids[1], a, h>> \in D /\ <<kids[2], h, b>> \in D
      BY <1>1, <2>1, KidsAre
    <2>4. h = a + 1 /\ kids[1].token = text[h]
      BY <2>2, <2>3, TokenIs
    <2> QED
      BY <2>1, <2>2, <2>3, <2>4 DEF StatementKids, d, t, kids
  <1> QED
    BY <1>2, <1>3, <1>4 DEF kids

\* An identifier, := and an expression.
AssignmentKids(D, kids, a, b) ==
    /\ Len(kids) = 3 /\ kids[1].token = text[a + 1] /\ kids[1].at = a + 1
    /\ text[a + 1] = "identifier"
    /\ kids[3].class = "AdditiveExpression" /\ <<kids[3], a + 2, b>> \in D

\* So are the children of an AssignmentExpression.
LEMMA AssignmentKidsAre ==
  ASSUME NEW T, NEW D, Known(T, D), NEW x, NEW a, NEW b, <<x, a, b>> \in D,
         x.class = "AssignmentExpression"
  PROVE  AssignmentKids(D, x.children, a, b)
  <1> DEFINE kids == x.children
             p == Pattern(kids)
             c == "Identifier"
             d == "AdditiveExpression"
             t == ":="
  <1>0. x.class \notin Leafs /\ c \in Classes /\ d \in Classes /\ t \in Tokens /\ c \in Leafs
    BY DEF Leafs, Terminals, Classes, Tokens
  <1>1. kids \in Seq(T) /\ Covers(D, kids, a, b) /\ T \subseteq NodesOver(T)
        /\ D \subseteq T \X Nat \X Nat /\ Stage(x.class, p, <<>>) /\ a \in Nat
    BY <1>0, NodeIs DEF Known, Settled
  <1>2. p = <<c, t, d>>
    <2>1. /\ \A y : <<>> # <<y>>
          /\ \A y, z : <<>> # <<y, z>>
          /\ \A y, z, w : <<>> # <<y, z, w>>
      BY ListsAre
    <2>2. AssignmentStage(p, <<>>)
      BY <1>1 DEF Stage
    <2> QED
      BY <2>1, <2>2 DEF AssignmentStage, AssignmentExpression
  <1> HIDE DEF kids, c, d, t
  <1>3. Len(kids) = 3 /\ Label(kids[1]) = c /\ Label(kids[2]) = t /\ Label(kids[3]) = d
    BY <1>1, <1>2, LabelsAre
  <1>4. /\ kids[1].class = c /\ kids[3].class = d
        /\ kids[2].class \in Leafs
    <2>1. 1 \in 1 .. Len(kids) /\ 2 \in 1 .. Len(kids) /\ 3 \in 1 .. Len(kids)
      BY <1>3
    <2> QED
      BY <1>0, <1>1, <1>3, <2>1, KidIs
  <1>5. PICK h \in Nat, i \in Nat :
           <<kids[1], a, h>> \in D /\ <<kids[2], h, i>> \in D /\ <<kids[3], i, b>> \in D
    BY <1>1, <1>3, KidsAre
  <1>6. /\ h = a + 1 /\ kids[1].token = text[h] /\ kids[1].at = h
        /\ kids[1].class = "Identifier" => kids[1].token = "identifier"
    BY <1>0, <1>4, <1>5, TokenIs
  <1>7. i = h + 1
    BY <1>4, <1>5, TokenIs
  <1>8. i = a + 2
    BY <1>1, <1>6, <1>7
  <1> QED
    BY <1>3, <1>4, <1>5, <1>6, <1>8 DEF AssignmentKids, c, d, kids

\* The statement ends after it began, and has the value that it means.
StatementMeans(x, a, b, n, made, meant) ==
    /\ a < b
    /\ AnalyzeStatement(x, n, made[Len(text)]) = StatementMeaning(a + 1, b, n, meant[Len(text)])
    /\ AnalyzeStatement(x, n, made[Len(text)]).id \in Nat

\* analyzeStatement gives every Statement its meaning.
LEMMA StatementsMean ==
  ASSUME NEW T, NEW D, NEW made, NEW meant, Setting(T, D, made, meant), NEW x \in Nodes,
         NEW a \in Nat, NEW b \in Nat, <<x, a, b>> \in D, x.class = "Statement", NEW n \in Nat
  PROVE  StatementMeans(x, a, b, n, made, meant)
  <1> DEFINE N == Len(text)
             kids == x.children
  <1>1. N \in Nat /\ b <= N /\ x.token = NoToken /\ StatementKids(D, kids, a, b) /\ Known(T, D)
    <2>1. x.class \notin Leafs
      BY DEF Leafs, Terminals
    <2> QED
      BY <2>1, NodeIs, StatementKidsAre DEF Setting
  <1>2. \A i \in 1 .. Len(kids) : kids[i] \in Nodes
    BY <1>1 DEF Setting
  \* The expression of a statement that begins after c.
  <1>3. ASSUME NEW y \in Nodes, y.class = "AdditiveExpression", NEW c \in Nat, a <= c,
               <<y, c, b>> \in D
        PROVE  /\ made[N][y][n] = meant[N][c + 1][b][n] /\ made[N][y][n].id \in Nat /\ c < b
    <2>1. Means(y, c, b, made, meant)
      BY <1>3, ExpressionsMean DEF Expressions
    <2>2. c < b
      BY <2>1 DEF Means, Reads, Whole
    <2>3. N \in 1 .. Len(text) /\ N \in 0 .. Len(text) /\ N >= b - c
      BY <1>1, <2>2
    <2> HIDE DEF N
    <2> QED
      BY <1>3, <2>1, <2>2, <2>3, MadeMeans
  <1>4. ASSUME Len(kids) = 1, kids[1].class = "AssignmentExpression", <<kids[1], a, b>> \in D
        PROVE  StatementMeans(x, a, b, n, made, meant)
    <2> DEFINE first == kids[1]
               y == first.children[3]
    <2>1. first \in Nodes /\ first.class = "AssignmentExpression" /\ <<first, a, b>> \in D
      BY <1>2, <1>4
    <2> HIDE DEF first
    <2>2. AssignmentKids(D, first.children, a, b) /\ first.token = NoToken
      <3>1. first.class \notin Leafs
        BY <2>1 DEF Leafs, Terminals
      <3> QED
        BY <1>1, <2>1, <3>1, AssignmentKidsAre, NodeIs
    <2>3. y \in Nodes /\ y.class = "AdditiveExpression" /\ <<y, a + 2, b>> \in D
      <3>1. 3 \in 1 .. Len(first.children)
        BY <2>2 DEF AssignmentKids
      <3> QED
        BY <2>1, <2>2, <3>1 DEF AssignmentKids, Setting
    <2> DEFINE v == made[N][y][n]
               w == Ast("Identifier", text[a + 1], a + 1, v.id + 1, <<>>)
    <2>4. v = meant[N][(a + 1) + 2][b][n] /\ v.id \in Nat /\ a < b
      <3> DEFINE c == a + 2
      <3>1. c \in Nat /\ a <= c /\ c + 1 = (a + 1) + 2 /\ (c < b => a < b)
        OBVIOUS
      <3>2. <<y, c, b>> \in D
        BY <2>3
      <3> HIDE DEF c, y
      <3>3. v = meant[N][c + 1][b][n] /\ v.id \in Nat /\ c < b
        BY <1>3, <2>3, <3>1, <3>2
      <3> QED
        BY <3>1, <3>3
    <2>5. AnalyzeStatement(x, n, made[N]) =
             Ast("AssignmentStatement", ":=", NoPlace, w.id + 1, <<w, v>>)
      BY <2>1, <2>2 DEF AnalyzeStatement, AssignmentKids, first
    <2> HIDE DEF v
    <2>6. StatementMeaning(a + 1, b, n, meant[N]) =
             Ast("AssignmentStatement", ":=", NoPlace, v.id + 2, <<w, v>>)
      <3>1. text[a + 1] # "RETURN"
        BY <2>2 DEF AssignmentKids
      <3> QED
        BY <2>4, <3>1 DEF StatementMeaning
    <2>7. w.id = v.id + 1 /\ w.id + 1 = v.id + 2 /\ w.id + 1 \in Nat
      <3> DEFINE k == v.id
      <3>1. w.id = k + 1 /\ k \in Nat
        BY <2>4, AstIs
      <3> HIDE DEF w, k
      <3>2. w.id = k + 1 /\ w.id + 1 = k + 2 /\ w.id + 1 \in Nat
        BY <3>1
      <3> QED
        BY <3>2 DEF k
    <2> HIDE DEF w
    <2> QED
      BY <2>4, <2>5, <2>6, <2>7, AstIs DEF StatementMeans
  <1>5. ASSUME Len(kids) = 2, kids[1].class = "GenericToken", text[a + 1] = "RETURN",
               kids[2].class = "AdditiveExpression", <<kids[2], a + 1, b>> \in D
        PROVE  StatementMeans(x, a, b, n, made, meant)
    <2> DEFINE y == kids[2]
               v == made[N][y][n]
    <2>1. y \in Nodes /\ y.class = "AdditiveExpression" /\ <<y, a + 1, b>> \in D
      BY <1>2, <1>5
    <2>2. v = meant[N][(a + 1) + 1][b][n] /\ v.id \in Nat /\ a < b
      <3> DEFINE c == a + 1
      <3>1. c \in Nat /\ a <= c /\ (c < b => a < b)
        OBVIOUS
      <3>2. <<y, c, b>> \in D
        BY <2>1
      <3> HIDE DEF c, y
      <3>3. v = meant[N][c + 1][b][n] /\ v.id \in Nat /\ c < b
        BY <1>3, <2>1, <3>1, <3>2
      <3> QED
        BY <3>1, <3>3 DEF c
    <2>3. AnalyzeStatement(x, n, made[N]) =
             Ast("ReturnStatement", "RETURN", NoPlace, v.id + 1, <<v>>)
      BY <1>5 DEF AnalyzeStatement
    <2> HIDE DEF v
    <2>4. StatementMeaning(a + 1, b, n, meant[N]) =
             Ast("ReturnStatement", "RETURN", NoPlace, v.id + 1, <<v>>)
      BY <1>5, <2>2 DEF StatementMeaning
    <2> QED
      BY <2>2, <2>3, <2>4, AstIs DEF StatementMeans
  <1> HIDE DEF kids
  <1> QED
    BY <1>1, <1>4, <1>5 DEF StatementKids

-----------------------------------------------------------------------------
(* The parts of the function and of its list of statements.                *)

\* Nodes that stand for parts cover one after the other.
LEMMA EndsAscend ==
  ASSUME NEW T, NEW D, Known(T, D), NEW kids \in Seq(T), NEW a, NEW b, NEW ends,
         Ends(D, kids, a, b, ends), NEW i \in 1 .. Len(kids)
  PROVE  /\ ends[i - 1] \in Nat /\ ends[i] \in Nat /\ ends[i - 1] <= ends[i]
         /\ ends[i] <= Len(text) /\ i - 1 \in 0 .. Len(kids) /\ i \in 0 .. Len(kids)
         /\ <<kids[i], ends[i - 1], ends[i]>> \in D
         /\ Avoids(text, ends[i - 1], ends[i], kids[i].class)
  <1>1. i - 1 \in 0 .. Len(kids) /\ i \in 0 .. Len(kids)
    OBVIOUS
  <1> DEFINE g == ends[i - 1]
             h == ends[i]
  <1>2. g \in Nat /\ h \in Nat /\ <<kids[i], g, h>> \in D
    BY <1>1 DEF Ends
  <1> HIDE DEF g, h
  <1>3. Part(D, text, kids[i], <<>>, g, h)
    BY <1>2, KnownIs
  <1>4. g <= h /\ h <= Len(text) /\ Avoids(text, g, h, kids[i].class)
    BY <1>3 DEF Part
  <1> QED
    BY <1>1, <1>2, <1>4 DEF g, h

\* A token of the first i parts is in one of them.
LEMMA EndsFind ==
  ASSUME NEW T, NEW D, Known(T, D), NEW kids \in Seq(T), NEW a, NEW b, NEW ends,
         Ends(D, kids, a, b, ends), NEW i \in 0 .. Len(kids), NEW q \in a + 1 .. ends[i]
  PROVE  \E j \in 1 .. i : q \in ends[j - 1] + 1 .. ends[j]
  <1> DEFINE n == Len(kids)
             Found(k) == \A r \in a + 1 .. ends[k] : \E j \in 1 .. k : r \in ends[j - 1] + 1 .. ends[j]
             S == {k \in 0 .. n : Found(k)}
  <1>1. /\ n \in Nat /\ ends[0] = a /\ ends[0] \in Nat
        /\ \A k \in 1 .. n : ends[k - 1] \in Nat /\ ends[k] \in Nat
    BY EndsAscend DEF Ends
  <1>2. 0 \in S
    <2>1. 0 \in 0 .. n /\ a + 1 .. ends[0] = {}
      BY <1>1
    <2> QED
      BY <2>1
  <1>3. ASSUME NEW k \in 0 .. n - 1, k \in S
        PROVE  k + 1 \in S
    <2>1. k + 1 \in 1 .. n /\ k + 1 \in 0 .. n /\ (k + 1) - 1 = k
      BY <1>1
    <2> DEFINE g == ends[k]
               h == ends[k + 1]
    <2>2. g \in Nat /\ h \in Nat /\ a \in Nat
      <3>1. ends[(k + 1) - 1] \in Nat /\ ends[k + 1] \in Nat
        BY <1>1, <2>1
      <3> QED
        BY <1>1, <2>1, <3>1
    <2>3. ASSUME NEW r \in a + 1 .. h
          PROVE  \E j \in 1 .. k + 1 : r \in ends[j - 1] + 1 .. ends[j]
      <3> HIDE DEF g, h
      <3>1. r \in a + 1 .. g \/ r \in g + 1 .. h
        BY <2>2
      <3>2. CASE r \in a + 1 .. g
        <4>1. \E j \in 1 .. k : r \in ends[j - 1] + 1 .. ends[j]
          BY <1>3, <3>2 DEF g
        <4>2. \A j \in 1 .. k : j \in 1 .. k + 1
          OBVIOUS
        <4> QED
          BY <4>1, <4>2
      <3>3. CASE r \in g + 1 .. h
        <4>1. r \in ends[(k + 1) - 1] + 1 .. ends[k + 1] /\ k + 1 \in 1 .. k + 1
          BY <2>1, <3>3 DEF g, h
        <4> QED
          BY <4>1, Zenon
      <3> QED
        BY <3>1, <3>2, <3>3
    <2> QED
      BY <2>1, <2>3
  <1> HIDE DEF S
  <1>4. 0 .. n \subseteq S
    BY <1>1, <1>2, <1>3, BoundedInduction
  <1> QED
    BY <1>4 DEF S

\* BEGIN, a list of statements from h on, END and the period.
CompoundIs(D, list, h) ==
    /\ h \in Nat /\ h >= 1 /\ h + 2 <= Len(text) /\ text[h] = "BEGIN"
    /\ list.class = "StatementList" /\ <<list, h, Len(text) - 2>> \in D
    /\ text[Len(text) - 1] = "END" /\ text[Len(text)] = "."

\* The body of the function is its StatementList between BEGIN and END.
LEMMA CompoundKidsAre ==
  ASSUME NEW T, NEW D, Known(T, D), NEW x, NEW a, NEW b, <<x, a, b>> \in D,
         x.class = "CompoundStatement", Len(text) = b + 1, text[Len(text)] = "."
  PROVE  Len(x.children) = 3 /\ CompoundIs(D, x.children[2], a + 1)
  <1> DEFINE kids == x.children
             p == Pattern(kids)
             c == "StatementList"
             t == "BEGIN"
             u == "END"
  <1>0. x.class \notin Leafs /\ c \in Classes /\ t \in Tokens /\ u \in Tokens
        /\ c \notin Leafs
    BY DEF Leafs, Terminals, Classes, Tokens, Keywords
  <1>1. kids \in Seq(T) /\ Covers(D, kids, a, b) /\ T \subseteq NodesOver(T)
        /\ D \subseteq T \X Nat \X Nat /\ Stage(x.class, p, <<>>) /\ a \in Nat /\ b \in Nat
    BY <1>0, NodeIs DEF Known, Settled
  <1>2. p = <<t, c, u>>
    <2>1. /\ \A y : <<>> # <<y>>
          /\ \A y, z : <<>> # <<y, z>>
          /\ \A y, z, w : <<>> # <<y, z, w>>
      BY ListsAre
    <2>2. CompoundStage(p, <<>>)
      BY <1>1 DEF Stage
    <2> QED
      BY <2>1, <2>2 DEF CompoundStage, CompoundStatement
  <1> HIDE DEF kids, c, u, t
  <1>3. Len(kids) = 3 /\ Label(kids[1]) = t /\ Label(kids[2]) = c /\ Label(kids[3]) = u
    BY <1>1, <1>2, LabelsAre
  <1>4. /\ kids[1].class \in Leafs /\ kids[1].token = t /\ kids[2].class = c
        /\ kids[3].class \in Leafs /\ kids[3].token = u
    <2>1. 1 \in 1 .. Len(kids) /\ 2 \in 1 .. Len(kids) /\ 3 \in 1 .. Len(kids)
      BY <1>3
    <2> QED
      BY <1>0, <1>1, <1>3, <2>1, KidIs
  <1>5. PICK h \in Nat, i \in Nat :
           <<kids[1], a, h>> \in D /\ <<kids[2], h, i>> \in D /\ <<kids[3], i, b>> \in D
    BY <1>1, <1>3, KidsAre
  <1>6. h = a + 1 /\ text[h] = t /\ b = i + 1 /\ text[b] = u
    BY <1>4, <1>5, TokenIs
  <1>7. h <= i
    BY <1>0, <1>4, <1>5, NodeIs
  <1>8. /\ a + 1 >= 1 /\ a + 1 + 2 <= Len(text) /\ Len(text) - 2 = i /\ Len(text) - 1 = b
        /\ a + 1 \in Nat
    BY <1>1, <1>6, <1>7
  <1> QED
    BY <1>3, <1>4, <1>5, <1>6, <1>8 DEF CompoundIs, c, t, u, kids

\* Declarations without BEGIN, the compound statement and the period.
FunctionIs(D, kids, k, h) ==
    /\ k \in Nat /\ Len(kids) = k + 2
    /\ \A i \in 1 .. k : kids[i].class # "CompoundStatement"
    /\ kids[k + 1].class = "CompoundStatement" /\ kids[k + 1].token = NoToken
    /\ Len(kids[k + 1].children) = 3 /\ CompoundIs(D, kids[k + 1].children[2], h)
    /\ \A i \in 1 .. h - 1 : text[i] # "BEGIN"

\* The function is declarations, a body and a full stop.
LEMMA FunctionKidsAre ==
  ASSUME NEW T, NEW D, Known(T, D), text \in Seq(Tokens), NEW x \in T,
         x.class = "FunctionDeclaration",
         Part(D, text, x, <<>>, 0, Len(text))
  PROVE  \E k, h : FunctionIs(D, x.children, k, h)
  <1> DEFINE kids == x.children
             p == Pattern(kids)
             N == Len(text)
  <1>1. x.class \notin Leafs /\ "CompoundStatement" \in Classes /\ "." \in Tokens
        /\ Declarations \subseteq Classes /\ "CompoundStatement" \notin Declarations
        /\ Declarations \subseteq Lists
    BY DEF Leafs, Terminals, Classes, Tokens, Declarations, Lists
  <1>2. T \subseteq NodesOver(T) /\ kids \in Seq(T) /\ N \in Nat
    BY DEF Known, NodesOver
  <1>3. Covers(D, kids, 0, N) /\ Stage(x.class, p, <<>>)
    BY <1>1 DEF Part
  <1>4. PICK k \in Nat : /\ Len(p) = k + 2 /\ Declare(p, k)
                         /\ p[k + 1] = "CompoundStatement" /\ p[k + 2] = "."
    <2>1. /\ \A y : <<>> # <<y>>
          /\ \A y, z : <<>> # <<y, z>>
          /\ \A y, z, w : <<>> # <<y, z, w>>
          /\ \A y, z, w, v : <<>> # <<y, z, w, v>>
          /\ \A y, z, w, v, u : <<>> # <<y, z, w, v, u>>
      BY ListsAre
    <2>2. FunctionStage(p, <<>>)
      BY <1>3 DEF Stage
    <2> HIDE DEF p
    <2> QED
      BY <2>1, <2>2 DEF FunctionStage, FunctionDeclaration
  <1>5. PICK ends : Ends(D, kids, 0, N, ends)
    BY <1>3 DEF Covers
  <1>6. Len(kids) = k + 2 /\ \A i \in 1 .. Len(kids) : Label(kids[i]) = p[i]
    BY <1>2, <1>4, PatternIs
  <1> HIDE DEF kids, p
  <1>7. k + 1 \in 1 .. Len(kids) /\ k + 2 \in 1 .. Len(kids) /\ (k + 2) - 1 = k + 1
        /\ (k + 1) - 1 = k /\ k \in 0 .. Len(kids) /\ \A i \in 1 .. k : i \in 1 .. Len(kids)
    BY <1>6
  <1>8. kids[k + 1].class = "CompoundStatement"
    BY <1>1, <1>2, <1>4, <1>6, <1>7, KidIs
  <1>9. kids[k + 2].class \in Leafs /\ kids[k + 2].token = "."
    BY <1>1, <1>2, <1>4, <1>6, <1>7, KidIs
  <1>10. \A i \in 1 .. k : kids[i].class \in Declarations
    <2> TAKE i \in 1 .. k
    <2>1. Label(kids[i]) \in Declarations /\ i \in 1 .. Len(kids)
      BY <1>4, <1>6, <1>7 DEF Declare
    <2> QED
      BY <1>1, <1>2, <2>1, KidIs
  <1> DEFINE a == ends[k]
             b == ends[k + 1]
  <1>11. /\ a \in Nat /\ b \in Nat /\ <<kids[k + 1], a, b>> \in D
    <2>1. /\ ends[(k + 1) - 1] \in Nat /\ ends[k + 1] \in Nat
          /\ <<kids[k + 1], ends[(k + 1) - 1], ends[k + 1]>> \in D
      BY <1>2, <1>5, <1>7, EndsAscend
    <2> QED
      BY <1>7, <2>1
  <1>12. <<kids[k + 2], b, N>> \in D
    <2>1. <<kids[k + 2], ends[(k + 2) - 1], ends[k + 2]>> \in D
      BY <1>2, <1>5, <1>7, EndsAscend
    <2>2. ends[k + 2] = N
      BY <1>5, <1>6 DEF Ends
    <2> QED
      BY <1>7, <2>1, <2>2
  <1> HIDE DEF a, b
  <1>13. N = b + 1 /\ text[N] = "."
    BY <1>9, <1>12, TokenIs
  <1>14. Len(kids[k + 1].children) = 3 /\ CompoundIs(D, kids[k + 1].children[2], a + 1)
    <2> DEFINE y == kids[k + 1]
    <2>1. <<y, a, b>> \in D /\ y.class = "CompoundStatement"
      BY <1>8, <1>11
    <2> HIDE DEF y
    <2>2. Len(y.children) = 3 /\ CompoundIs(D, y.children[2], a + 1)
      BY <1>13, <2>1, CompoundKidsAre
    <2> QED
      BY <2>2 DEF y
  <1>15. ASSUME NEW i \in 1 .. (a + 1) - 1
         PROVE  text[i] # "BEGIN"
    <2>1. i \in 0 + 1 .. ends[k]
      BY <1>11 DEF a
    <2>2. PICK j \in 1 .. k : i \in ends[j - 1] + 1 .. ends[j]
      BY <1>2, <1>5, <1>7, <2>1, EndsFind
    <2>3. Avoids(text, ends[j - 1], ends[j], kids[j].class) /\ kids[j].class \in Lists
      BY <1>1, <1>2, <1>5, <1>7, <1>10, EndsAscend
    <2>4. text[i] \notin Forbidden(kids[j].class)
      BY <2>2, <2>3 DEF Avoids
    <2> QED
      BY <2>3, <2>4, ForbiddenIs
  <1>16. \A i \in 1 .. k : kids[i].class # "CompoundStatement"
    BY <1>1, <1>10
  <1>17. kids[k + 1].token = NoToken
    <2>1. kids[k + 1].class \notin Leafs
      BY <1>8 DEF Leafs, Terminals
    <2> QED
      BY <1>11, <2>1, NodeIs
  <1>18. FunctionIs(D, kids, k, a + 1)
    BY <1>6, <1>8, <1>14, <1>15, <1>16, <1>17 DEF FunctionIs
  <1> QED
    BY <1>18 DEF kids

\* Statements with a semicolon between each two.
ListIs(D, kids, a, b, ends) ==
    /\ Ends(D, kids, a, b, ends) /\ Len(kids) \in Nat /\ Len(kids) >= 1
    /\ kids[1].class = "Statement" /\ kids[Len(kids)].class = "Statement"
    /\ \A i \in 1 .. Len(kids) - 1 :
          ~(kids[i].class = "Statement" /\ kids[i + 1].class = "Statement")
    /\ \A i \in 1 .. Len(kids) : kids[i].class # "Statement" =>
          /\ ends[i] = ends[i - 1] + 1 /\ text[ends[i]] = ";"
          /\ i > 1 /\ kids[i - 1].class = "Statement"

\* A StatementList is statements and separators by turns.
LEMMA ListKidsAre ==
  ASSUME NEW T, NEW D, Known(T, D), NEW x, NEW a, NEW b, <<x, a, b>> \in D,
         x.class = "StatementList"
  PROVE  \E ends : ListIs(D, x.children, a, b, ends)
  <1> DEFINE kids == x.children
             p == Pattern(kids)
             n == Len(kids)
             c == "Statement"
             t == ";"
  <1>0. x.class \notin Leafs /\ c \in Classes /\ t \in Tokens /\ c # t /\ "GenericToken" # c
    BY DEF Leafs, Terminals, Classes, Tokens
  <1>1. kids \in Seq(T) /\ Covers(D, kids, a, b) /\ T \subseteq NodesOver(T)
        /\ Stage(x.class, p, <<>>)
    BY <1>0, NodeIs DEF Known, Settled
  <1>2. TakeTurns(p) /\ Len(p) > 0 /\ p[Len(p)] = c
    <2>1. /\ \A y : <<>> # <<y>>
          /\ \A y, z : <<>> # <<y, z>>
      BY ListsAre
    <2>2. ListStage(p, <<>>)
      BY <1>1 DEF Stage
    <2> HIDE DEF p
    <2> QED
      BY <2>1, <2>2 DEF ListStage, StatementList
  <1>3. n \in Nat /\ Len(p) = n /\ \A i \in 1 .. n : Label(kids[i]) = p[i]
    BY <1>1, PatternIs
  <1>4. PICK ends : Ends(D, kids, a, b, ends)
    BY <1>1 DEF Covers
  <1> HIDE DEF kids, p, c, t
  <1>5. /\ \A i \in 1 .. n : p[i] = c \/ p[i] = t
        /\ p[1] = c /\ p[n] = c /\ n >= 1
        /\ \A i \in 1 .. n - 1 : p[i] # p[i + 1]
    <2> HIDE DEF n
    <2>1. p[n] = c /\ n >= 1
      BY <1>2, <1>3
    <2>2. /\ \A i \in 1 .. n : p[i] \in {c, t}
          /\ p[1] = c /\ \A i \in 1 .. n - 1 : p[i] # p[i + 1]
      BY <1>2, <1>3, Zenon DEF TakeTurns, c, t
    <2> QED
      BY <2>1, <2>2
  <1>6. ASSUME NEW i \in 1 .. n
        PROVE  /\ p[i] = c => kids[i].class = c
               /\ p[i] = t => /\ kids[i].class = "GenericToken"
                              /\ ends[i] = ends[i - 1] + 1 /\ text[ends[i]] = t
    <2>1. p[i] = c => kids[i].class = c
      BY <1>0, <1>1, <1>3, <1>6, KidIs DEF n
    <2>2. ASSUME p[i] = t
          PROVE  /\ kids[i].class = "GenericToken"
                 /\ ends[i] = ends[i - 1] + 1 /\ text[ends[i]] = t
      <3>1. kids[i].class = "GenericToken" /\ kids[i].class \in Leafs /\ kids[i].token = t
        BY <1>0, <1>1, <1>3, <1>6, <2>2, KidIs DEF n
      <3>2. <<kids[i], ends[i - 1], ends[i]>> \in D
        BY <1>4, <1>6 DEF Ends, n
      <3>3. ends[i] = ends[i - 1] + 1 /\ kids[i].token = text[ends[i]]
        BY <3>1, <3>2, TokenIs
      <3> QED
        BY <3>1, <3>3
    <2> QED
      BY <2>1, <2>2
  <1>7. 1 \in 1 .. n /\ n \in 1 .. n
    BY <1>3, <1>5
  <1>8. ASSUME NEW i \in 1 .. n - 1
        PROVE  ~(kids[i].class = c /\ kids[i + 1].class = c)
    <2>1. i \in 1 .. n /\ i + 1 \in 1 .. n
      BY <1>3
    <2>2. p[i] = t \/ p[i + 1] = t
      BY <1>5, <1>8, <2>1
    <2> QED
      BY <1>0, <1>6, <2>1, <2>2
  <1>9. ASSUME NEW i \in 1 .. n, kids[i].class # c
        PROVE  /\ ends[i] = ends[i - 1] + 1 /\ text[ends[i]] = t
               /\ i > 1 /\ kids[i - 1].class = c
    <2>1. p[i] = t
      BY <1>5, <1>6, <1>9
    <2>2. i # 1
      BY <1>0, <1>5, <2>1
    <2>3. i - 1 \in 1 .. n - 1 /\ i - 1 \in 1 .. n /\ (i - 1) + 1 = i /\ i > 1
      BY <1>3, <2>2
    <2>4. p[i - 1] # p[(i - 1) + 1]
      BY <1>5, <2>3
    <2>5. p[i - 1] = c
      BY <1>5, <2>1, <2>3, <2>4
    <2> QED
      BY <1>6, <2>1, <2>3, <2>5
  <1>10. ListIs(D, kids, a, b, ends)
    BY <1>3, <1>4, <1>5, <1>6, <1>7, <1>8, <1>9 DEF ListIs, c, t, n
  <1> QED
    BY <1>10 DEF kids

-----------------------------------------------------------------------------
(* The statements, up to each end.                                         *)

\* The next statement of the text and the next child of the list.
LEMMA BodyNext ==
  ASSUME NEW f, NEW h, NEW M, Climbs(f, "body", <<h, M>>, Len(text)), NEW i \in 1 .. Len(text)
  PROVE  f[i] = EndAt(f[i - 1], h, i, M)
  BY DEF Climbs, Continuation

\* One step of the loop over the statements.
LEMMA ListNext ==
  ASSUME NEW g, NEW list, NEW X, NEW n, Climbs(g, "statements", <<list, X>>, n), NEW i \in 1 .. n
  PROVE  g[i] = AddStatement(g[i - 1], list[i], X)
  BY DEF Climbs, Continuation

\* A statement may end at a semicolon or END after the beginning, and begin
\* after BEGIN or a semicolon.
IsEnd(h, i) == ~(i <= h \/ text[i] \notin {";", "END"})
IsCut(i) == text[i] \in {"BEGIN", ";"}

\* Nothing ends where no semicolon and no END is.
LEMMA NothingEnds ==
  ASSUME NEW f, NEW h, NEW M, Climbs(f, "body", <<h, M>>, Len(text)), Len(text) \in Nat,
         NEW a \in Nat, NEW b \in Nat, a <= b, b <= Len(text),
         \A i \in a + 1 .. b : ~IsEnd(h, i)
  PROVE  f[b] = f[a]
  <1> DEFINE S == {k \in 0 .. b - a : f[a + k] = f[a]}
             n == b - a
  <1>1. n \in Nat /\ 0 \in 0 .. n /\ a + 0 = a /\ a + n = b
    OBVIOUS
  <1>2. 0 \in S
    BY <1>1
  <1>3. ASSUME NEW k \in 0 .. n - 1, k \in S
        PROVE  k + 1 \in S
    <2> DEFINE i == a + (k + 1)
    <2>1. /\ i \in 1 .. Len(text) /\ i - 1 = a + k /\ i \in a + 1 .. b
          /\ k + 1 \in 0 .. n
      OBVIOUS
    <2>2. ~IsEnd(h, i)
      BY <2>1
    <2> HIDE DEF i
    <2>3. f[i] = EndAt(f[i - 1], h, i, M)
      BY <2>1, BodyNext
    <2>4. f[i] = f[i - 1]
      BY <2>2, <2>3 DEF EndAt, IsEnd
    <2> QED
      BY <1>3, <2>1, <2>4 DEF i
  <1> HIDE DEF S, n
  <1>4. 0 .. n \subseteq S
    BY <1>1, <1>2, <1>3, BoundedInduction
  <1> QED
    BY <1>1, <1>4 DEF S, n

\* The last cut, if there is none after it.
LEMMA LastCutIs ==
  ASSUME NEW h \in Nat, NEW c \in Nat, NEW i \in Nat, h <= c, c < i,
         IsCut(c), \A j \in c + 1 .. i - 1 : ~IsCut(j)
  PROVE  LastCut(h, i) = c
  <1> DEFINE S == {j \in h .. i - 1 : IsCut(j)}
  <1>1. c \in S
    OBVIOUS
  <1>2. \A j \in S : c >= j
    <2> TAKE j \in S
    <2>1. j \in Int /\ (j \in c + 1 .. i - 1 \/ c >= j)
      OBVIOUS
    <2> QED
      BY <2>1
  <1>3. \A j \in S : j \in Int
    OBVIOUS
  <1> HIDE DEF S
  <1>4. \A y : y \in S /\ (\A j \in S : y >= j) => y = c
    BY <1>1, <1>2, <1>3
  <1>5. Max(S) \in S /\ \A j \in S : Max(S) >= j
    BY <1>1, <1>2 DEF Max
  <1>6. Max(S) = c
    BY <1>4, <1>5
  <1> QED
    BY <1>6 DEF LastCut, S, IsCut

\* Where a statement ends, its meaning is added.
LEMMA EndIs ==
  ASSUME NEW h, NEW i, IsEnd(h, i), NEW before, NEW M
  PROVE  EndAt(before, h, i, M) =
            Append(before, StatementMeaning(LastCut(h, i) + 1, i - 1, NextNumber(before), M))
  BY DEF IsEnd, EndAt

\* What the text means after a statement is what was made with it.
LEMMA StatementEnds ==
  ASSUME NEW T, NEW D, NEW made, NEW meant, Setting(T, D, made, meant),
         NEW f, NEW h \in Nat, Climbs(f, "body", <<h, meant[Len(text)]>>, Len(text)),
         NEW x \in Nodes, NEW c \in Nat, NEW d \in Nat, <<x, c, d>> \in D,
         x.class = "Statement", h <= c, IsCut(c), d + 1 <= Len(text), IsEnd(h, d + 1),
         NextNumber(f[c]) \in Nat
  PROVE  f[d + 1] = AddStatement(f[c], x, made[Len(text)])
  <1> DEFINE N == Len(text)
             M == meant[N]
             n == NextNumber(f[c])
  <1>1. N \in Nat /\ Known(T, D)
    BY DEF Setting
  <1>2. /\ c < d /\ AnalyzeStatement(x, n, made[N]) = StatementMeaning(c + 1, d, n, M)
    BY StatementsMean DEF StatementMeans
  <1>3. \A j \in c + 1 .. d : ~IsEnd(h, j) /\ ~IsCut(j)
    <2>1. x.class \notin Leafs
      BY DEF Leafs, Terminals
    <2>2. Avoids(text, c, d, "Statement")
      BY <1>1, <2>1, NodeIs
    <2>3. Forbidden("Statement") = {"BEGIN", "END", ";"}
      BY ForbiddenIs
    <2>4. \A j \in c + 1 .. d : text[j] \notin {"BEGIN", "END", ";"}
      BY <2>2, <2>3, Zenon DEF Avoids
    <2> QED
      BY <2>4 DEF IsEnd, IsCut
  <1>4. d + 1 \in 1 .. N /\ (d + 1) - 1 = d /\ d <= N /\ c <= d
    BY <1>1, <1>2
  <1>5. f[d] = f[c]
    BY <1>1, <1>3, <1>4, NothingEnds
  <1>6. LastCut(h, d + 1) = c
    <2> DEFINE i == d + 1
    <2>1. i \in Nat /\ c < i /\ \A j \in c + 1 .. i - 1 : ~IsCut(j)
      BY <1>2, <1>3, <1>4
    <2> HIDE DEF i
    <2>2. LastCut(h, i) = c
      BY <2>1, LastCutIs
    <2> QED
      BY <2>2 DEF i
  <1> DEFINE i == d + 1
  <1>7. i \in 1 .. N /\ i - 1 = d /\ LastCut(h, i) = c /\ IsEnd(h, i)
    BY <1>4, <1>6
  <1> HIDE DEF i, n, M
  <1>8. f[i] = EndAt(f[d], h, i, M)
    BY <1>7, BodyNext DEF M
  <1>9. f[i] = Append(f[d], StatementMeaning(c + 1, d, NextNumber(f[d]), M))
    BY <1>7, <1>8, EndIs
  <1>10. f[i] = Append(f[c], AnalyzeStatement(x, n, made[N]))
    BY <1>2, <1>5, <1>9 DEF n
  <1>11. f[i] = AddStatement(f[c], x, made[N])
    BY <1>10 DEF AddStatement, n
  <1> QED
    BY <1>11 DEF i

\* A statement more.
LEMMA StatementAdded ==
  ASSUME NEW R, NEW s \in Seq(R), NEW x, x.class = "Statement", NEW X,
         AnalyzeStatement(x, NextNumber(s), X) \in R,
         AnalyzeStatement(x, NextNumber(s), X).id \in Nat
  PROVE  AddStatement(s, x, X) \in Seq(R) /\ NextNumber(AddStatement(s, x, X)) \in Nat
  <1> DEFINE v == AnalyzeStatement(x, NextNumber(s), X)
             t == AddStatement(s, x, X)
  <1>1. t = Append(s, v)
    BY DEF AddStatement
  <1>2. v \in R /\ v.id + 1 \in Nat
    OBVIOUS
  <1> HIDE DEF v, t
  <1>3. t \in Seq(R) /\ t # <<>>
    <2>1. Append(s, v) \in Seq(R) /\ Len(Append(s, v)) = Len(s) + 1 /\ Len(s) \in Nat
      BY <1>2
    <2>2. Len(Append(s, v)) # 0
      BY <2>1
    <2> QED
      BY <1>1, <2>1, <2>2, EmptyIs
  <1>4. Last(t) = v
    BY <1>1, <1>2, LastAppend
  <1>5. NextNumber(t) = v.id + 1
    BY <1>3, <1>4 DEF NextNumber
  <1> QED
    BY <1>2, <1>3, <1>5 DEF t

\* The children of the list give what the text says between BEGIN and END.
LEMMA ListMeans ==
  ASSUME NEW T, NEW D, NEW made, NEW meant, Setting(T, D, made, meant),
         NEW f, NEW g, NEW h, NEW x \in Nodes, x.token = NoToken, CompoundIs(D, x, h),
         Climbs(f, "body", <<h, meant[Len(text)]>>, Len(text)),
         Climbs(g, "statements", <<x.children, made[Len(text)]>>, Len(x.children))
  PROVE  f[Len(text)] = g[Len(x.children)]
  <1> DEFINE N == Len(text)
             kids == x.children
             m == Len(kids)
             X == made[N]
             R == {AnalyzeStatement(y, n, X) : y \in Nodes, n \in Nat}
  <1>1. /\ N \in Nat /\ Known(T, D) /\ h \in Nat /\ h >= 1 /\ h + 2 <= N /\ text[h] = "BEGIN"
        /\ x.class = "StatementList" /\ <<x, h, N - 2>> \in D
        /\ text[N - 1] = "END" /\ text[N] = "."
    BY DEF Setting, CompoundIs
  <1>2. PICK e : ListIs(D, kids, h, N - 2, e)
    BY <1>1, ListKidsAre
  <1>3. kids \in Seq(T)
    <2>1. x.class \notin Leafs
      BY <1>1 DEF Leafs, Terminals
    <2> QED
      BY <1>1, <2>1, NodeIs
  <1>4. \A i \in 1 .. m : kids[i] \in Nodes
    BY DEF Setting
  <1>5. m \in Nat /\ m >= 1 /\ Ends(D, kids, h, N - 2, e) /\ e[0] = h /\ e[m] = N - 2
        /\ kids[m].class = "Statement"
    BY <1>2 DEF ListIs, Ends
  <1> DEFINE Cut(i) == i = 0 \/ kids[i].class # "Statement"
             Good(i) == /\ g[i] \in Seq(R) /\ NextNumber(g[i]) \in Nat
                        /\ e[i] \in Nat /\ h <= e[i]
                        /\ Cut(i) => f[e[i]] = g[i] /\ IsCut(e[i])
                        /\ ~Cut(i) /\ e[i] + 1 <= N /\ IsEnd(h, e[i] + 1) => f[e[i] + 1] = g[i]
             S == {i \in 0 .. m : Good(i)}
  <1>6. 0 \in S
    <2>1. 0 \in 0 .. m /\ g[0] = <<>> /\ f[0] = <<>> /\ <<>> \in Seq(R)
      BY <1>5 DEF Climbs
    <2>2. NextNumber(<<>>) = 1
      BY DEF NextNumber
    <2>3. f[h] = f[0]
      <3>1. \A i \in 0 + 1 .. h : ~IsEnd(h, i)
        <4>1. \A i \in 0 + 1 .. h : i <= h
          BY <1>1
        <4> QED
          BY <4>1 DEF IsEnd
      <3>2. h <= N /\ 0 <= h
        BY <1>1
      <3> QED
        BY <1>1, <3>1, <3>2, NothingEnds
    <2>4. IsCut(h)
      BY <1>1 DEF IsCut
    <2>5. Good(0)
      BY <1>1, <1>5, <2>1, <2>2, <2>3, <2>4
    <2> HIDE DEF Good
    <2> QED
      BY <2>1, <2>5
  <1>7. ASSUME NEW i \in 0 .. m - 1, i \in S
        PROVE  i + 1 \in S
    <2> DEFINE k == i + 1
               y == kids[k]
               c == e[i]
               d == e[k]
    <2>1. k \in 1 .. m /\ k \in 0 .. m /\ k - 1 = i /\ k # 0
      BY <1>5
    <2>2. /\ Good(i) /\ y \in Nodes
      BY <1>4, <1>7, <2>1
    <2> HIDE DEF k, X, R
    <2>3. c \in Nat /\ d \in Nat /\ c <= d /\ d <= N /\ <<y, c, d>> \in D
      BY <1>1, <1>3, <1>5, <2>1, EndsAscend
    <2>4. g[k] = AddStatement(g[i], y, X)
      BY <2>1, ListNext DEF X
    <2>5. h <= d
      BY <1>1, <2>2, <2>3
    <2>6. CASE y.class = "Statement"
      <3>1. Cut(i)
        <4> SUFFICES ASSUME ~Cut(i) PROVE FALSE
          OBVIOUS
        <4>1. i \in 1 .. m - 1 /\ kids[i].class = "Statement" /\ kids[i + 1].class = "Statement"
          BY <2>6 DEF k
        <4> QED
          BY <1>2, <4>1 DEF ListIs
      <3> DEFINE n == NextNumber(g[i])
      <3>2. f[c] = g[i] /\ IsCut(c) /\ n \in Nat /\ g[i] \in Seq(R) /\ h <= c
        BY <2>2, <3>1
      <3>3. AnalyzeStatement(y, n, X) \in R /\ AnalyzeStatement(y, n, X).id \in Nat
        <4> HIDE DEF y, c, d, n
        <4>1. StatementMeans(y, c, d, n, made, meant)
          BY <2>2, <2>3, <2>6, <3>2, StatementsMean
        <4> QED
          BY <2>2, <3>2, <4>1 DEF StatementMeans, X, R
      <3>4. g[k] \in Seq(R) /\ NextNumber(g[k]) \in Nat
        <4> HIDE DEF y
        <4> QED
          BY <2>4, <2>6, <3>2, <3>3, StatementAdded
      <3>5. ASSUME d + 1 <= N, IsEnd(h, d + 1)
            PROVE  f[d + 1] = g[k]
        <4> HIDE DEF y, c, d
        <4>1. NextNumber(f[c]) \in Nat
          BY <3>2
        <4>2. h \in Nat /\ IsCut(c) /\ h <= c
          BY <1>1, <3>2
        <4>3. y \in Nodes /\ c \in Nat /\ d \in Nat /\ <<y, c, d>> \in D
          BY <2>2, <2>3
        <4>4. d + 1 <= Len(text) /\ IsEnd(h, d + 1)
          BY <3>5
        <4>5. f[d + 1] = AddStatement(f[c], y, made[Len(text)])
          BY <2>6, <4>1, <4>2, <4>3, <4>4, StatementEnds
        <4> QED
          BY <2>4, <3>2, <4>5 DEF X
      <3>6. ~Cut(k)
        BY <2>1, <2>6
      <3>7. Good(k)
        BY <2>3, <2>5, <3>4, <3>5, <3>6
      <3> QED
        BY <2>1, <3>7 DEF k
    <2>7. CASE y.class # "Statement"
      <3>1. /\ d = e[k - 1] + 1 /\ text[d] = ";" /\ k > 1 /\ kids[k - 1].class = "Statement"
        BY <1>2, <2>1, <2>7 DEF ListIs
      <3>2. d = c + 1 /\ ~Cut(i)
        <4>1. i # 0
          <5>1. k > 1
            BY <3>1
          <5> QED
            BY <2>1, <5>1
        <4> QED
          BY <2>1, <3>1, <4>1
      <3>3. g[k] = g[i]
        BY <2>4, <2>7 DEF AddStatement
      <3>4. IsEnd(h, d) /\ IsCut(d)
        <4>1. ~(d <= h)
          BY <1>1, <2>2, <2>3, <3>2
        <4> QED
          BY <3>1, <4>1 DEF IsEnd, IsCut
      <3>5. f[d] = g[i]
        BY <2>2, <2>3, <3>2, <3>4
      <3>6. Good(k)
        BY <2>2, <2>3, <2>5, <2>7, <3>3, <3>4, <3>5
      <3> QED
        BY <2>1, <3>6 DEF k
    <2> QED
      BY <2>6, <2>7
  <1> HIDE DEF S
  <1>8. 0 .. m \subseteq S
    BY <1>5, <1>6, <1>7, BoundedInduction
  <1>9. Good(m)
    <2>1. m \in S
      BY <1>5, <1>8
    <2> HIDE DEF Good
    <2> QED
      BY <2>1 DEF S
  <1>10. f[N - 1] = g[m]
    <2>1. ~Cut(m) /\ e[m] + 1 = N - 1 /\ N - 1 <= N
      BY <1>1, <1>5
    <2>2. IsEnd(h, N - 1)
      <3>1. ~(N - 1 <= h)
        BY <1>1
      <3> QED
        BY <1>1, <3>1 DEF IsEnd
    <2> QED
      BY <1>9, <2>1, <2>2
  <1>11. f[N] = f[N - 1]
    <2>1. N \in 1 .. N
      BY <1>1
    <2>2. f[N] = EndAt(f[N - 1], h, N, meant[N])
      BY <2>1, BodyNext
    <2> QED
      BY <1>1, <2>2 DEF EndAt
  <1> QED
    BY <1>10, <1>11

-----------------------------------------------------------------------------
(* The function.                                                           *)

\* The compound statement and the first BEGIN are what is chosen.
LEMMA ChosenAre ==
  ASSUME NEW D, NEW kids, NEW k, NEW h, FunctionIs(D, kids, k, h), DOMAIN kids = 1 .. Len(kids),
         NEW T, Known(T, D), text \in Seq(Tokens)
  PROVE  /\ (CHOOSE i \in DOMAIN kids : IsFirstCompound(kids, i)) = k + 1
         /\ (CHOOSE i \in DOMAIN text : text[i] = "BEGIN") = h
  <1> DEFINE N == Len(text)
             list == kids[k + 1].children[2]
  <1>1. /\ k \in Nat /\ Len(kids) = k + 2 /\ kids[k + 1].class = "CompoundStatement"
        /\ \A i \in 1 .. k : kids[i].class # "CompoundStatement"
        /\ CompoundIs(D, list, h) /\ \A i \in 1 .. h - 1 : text[i] # "BEGIN"
    BY DEF FunctionIs
  <1>2. /\ h \in Nat /\ h >= 1 /\ h + 2 <= N /\ text[h] = "BEGIN"
        /\ list.class = "StatementList" /\ <<list, h, N - 2>> \in D
        /\ text[N - 1] = "END" /\ text[N] = "." /\ N \in Nat /\ DOMAIN text = 1 .. N
    BY <1>1 DEF CompoundIs
  <1> HIDE DEF list, N
  <1>3. \A i \in 1 .. N : text[i] = "BEGIN" => i = h
    <2>1. Avoids(text, h, N - 2, "StatementList")
      <3>1. list.class \notin Leafs
        BY <1>2 DEF Leafs, Terminals
      <3> QED
        BY <1>2, <3>1, NodeIs
    <2>2. "BEGIN" \in Forbidden("StatementList")
      BY ForbiddenIs DEF Lists
    <2>3. \A i \in h + 1 .. N - 2 : text[i] # "BEGIN"
      BY <2>1, <2>2 DEF Avoids
    <2>4. text[N - 1] # "BEGIN" /\ text[N] # "BEGIN"
      BY <1>2
    <2> TAKE i \in 1 .. N
    <2>5. i = h \/ i \in 1 .. h - 1 \/ i \in h + 1 .. N - 2 \/ i = N - 1 \/ i = N
      BY <1>2
    <2> QED
      BY <1>1, <2>3, <2>4, <2>5
  <1>4. (CHOOSE i \in DOMAIN text : text[i] = "BEGIN") = h
    <2>1. h \in DOMAIN text
      BY <1>2
    <2> QED
      BY <1>2, <1>3, <2>1
  <1>5. IsFirstCompound(kids, k + 1) /\ k + 1 \in DOMAIN kids
    <2>1. (k + 1) - 1 = k /\ k + 1 \in 1 .. Len(kids)
      BY <1>1
    <2> QED
      BY <1>1, <2>1 DEF IsFirstCompound
  <1>6. \A i \in DOMAIN kids : IsFirstCompound(kids, i) => i = k + 1
    <2> TAKE i \in DOMAIN kids
    <2>1. i \in 1 .. k \/ i = k + 1 \/ k + 1 \in 1 .. i - 1
      BY <1>1
    <2> QED
      BY <1>1, <2>1 DEF IsFirstCompound
  <1> DEFINE l == k + 1
  <1> HIDE DEF l
  <1>7. (CHOOSE i \in DOMAIN kids : IsFirstCompound(kids, i)) = l
    <2>1. IsFirstCompound(kids, l) /\ l \in DOMAIN kids
          /\ \A i \in DOMAIN kids : IsFirstCompound(kids, i) => i = l
      BY <1>5, <1>6 DEF l
    <2> QED
      BY <2>1
  <1> QED
    BY <1>4, <1>7 DEF l

\* Where the parts of a function are, what is made of it is what it means.
LEMMA FunctionMeans ==
  ASSUME SpanInv, Outermost, verdict = "accepted", errors = 0
  PROVE  FunctionAst(Root) = TextMeaning
  <1>1. PICK T, D : /\ Known(T, D) /\ Root \in T /\ Root.class = "FunctionDeclaration"
                    /\ Part(D, text, Root, <<>>, 0, Len(text)) /\ growing = <<Root>>
    BY AcceptedIs
  <1>2. TreeInv /\ text \in Seq(Tokens) /\ Len(text) \in Nat
    BY DEF SpanInv, TreeInv, Grown
  <1> DEFINE N == Len(text)
             kids == Root.children
  <1>3. PICK k, h : FunctionIs(D, kids, k, h)
    BY <1>1, <1>2, FunctionKidsAre
  <1> DEFINE compound == kids[k + 1]
             list == compound.children[2]
  <1>4. /\ k \in Nat /\ Len(kids) = k + 2 /\ compound.token = NoToken
        /\ Len(compound.children) = 3 /\ CompoundIs(D, list, h)
    BY <1>3 DEF FunctionIs
  <1>5. /\ Root \in Nodes
        /\ \A x \in Nodes : x.token = NoToken =>
              \A i \in 1 .. Len(x.children) : x.children[i] \in Nodes
    BY <1>1, <1>2, BelowNodes
  <1>6. list \in Nodes /\ list.token = NoToken
    <2>1. Root.token = NoToken
      <3>1. Root.class \notin Leafs
        BY <1>1 DEF Leafs, Terminals
      <3> QED
        BY <1>1, <3>1 DEF Part
    <2>2. compound \in Nodes
      <3>1. k + 1 \in 1 .. Len(kids)
        BY <1>4
      <3> QED
        BY <1>5, <2>1, <3>1
    <2>3. list \in Nodes
      <3>1. 2 \in 1 .. Len(compound.children)
        BY <1>4
      <3> HIDE DEF compound
      <3> QED
        BY <1>4, <1>5, <2>2, <3>1
    <2>4. list.token = NoToken
      <3> HIDE DEF list
      <3>1. list.class \notin Leafs /\ <<list, h, N - 2>> \in D
        BY <1>4 DEF CompoundIs, Leafs, Terminals
      <3> QED
        BY <1>1, <3>1, NodeIs
    <2> QED
      BY <2>3, <2>4
  <1>7. DOMAIN kids = 1 .. Len(kids)
    <2>1. kids \in Seq(T)
      BY <1>1 DEF Known, NodesOver
    <2> HIDE DEF kids
    <2> QED
      BY <2>1
  <1>8. /\ (CHOOSE i \in DOMAIN kids : IsFirstCompound(kids, i)) = k + 1
        /\ (CHOOSE i \in DOMAIN text : text[i] = "BEGIN") = h
    <2> HIDE DEF kids
    <2> QED
      BY <1>1, <1>2, <1>3, <1>7, ChosenAre
  <1>9. PICK made : made[N] = AnalyzeExpression(Nodes) /\ Climbs(made, "expressions", Nodes, N)
    BY <1>2, ExpressionsClimb
  <1>10. PICK meant : meant[N] = Meanings /\ Climbs(meant, "meanings", <<>>, N)
    BY <1>2, MeaningsClimb
  <1>11. Setting(T, D, made, meant)
    BY <1>1, <1>2, <1>5, <1>9, <1>10 DEF Setting
  <1>12. Len(list.children) \in Nat
    <2> HIDE DEF list
    <2>1. list.class \notin Leafs /\ <<list, h, N - 2>> \in D
      BY <1>4 DEF CompoundIs, Leafs, Terminals
    <2>2. list.children \in Seq(T)
      BY <1>1, <2>1, NodeIs
    <2> DEFINE s == list.children
    <2>3. s \in Seq(T)
      BY <2>2
    <2> HIDE DEF s
    <2>4. Len(s) \in Nat
      BY <2>3
    <2> QED
      BY <2>4 DEF s
  <1> HIDE DEF list
  <1>13. PICK g : /\ g[Len(list.children)] = Statements(list.children, made[N])
                  /\ Climbs(g, "statements", <<list.children, made[N]>>, Len(list.children))
    BY <1>12, StatementsClimb
  <1>14. PICK f : f[N] = BodyMeaning(h, meant[N]) /\ Climbs(f, "body", <<h, meant[N]>>, N)
    BY <1>2, BodyClimbs
  <1>15. f[N] = g[Len(list.children)]
    BY <1>4, <1>6, <1>11, <1>13, <1>14, ListMeans
  <1>16. FunctionAst(Root) = Ast("Function", "Function", NoPlace, 0,
                                 Statements(list.children, AnalyzeExpression(Nodes)))
    BY <1>8 DEF FunctionAst, list
  <1>17. TextMeaning = Ast("Function", "Function", NoPlace, 0, BodyMeaning(h, Meanings))
    BY <1>8 DEF TextMeaning
  <1> QED
    BY <1>9, <1>10, <1>13, <1>14, <1>15, <1>16, <1>17

\* For texts of every length and nesting of every depth, what analyzeStatement
\* and analyzeExpression make of the parse tree is what the text means:
\* precedence, parentheses, signs, associativity, operand order, places and
\* numbers.
THEOREM AstIsTrue == TreeSpec => []AstIsTheMeaning
  <1>1. SpanInv /\ Outermost => AstIsTheMeaning
    BY FunctionMeans DEF AstIsTheMeaning, Compiled
  <1> QED
    BY <1>1, OutermostAlways, PTL
=============================================================================
