-------------------------- MODULE ParseTreeProofs --------------------------
(***************************************************************************)
(* Theorems about module ParseTree, for texts of every length and trees of *)
(* every height.                                                           *)
(***************************************************************************)
EXTENDS ParseTree, ParserProofs, WellFoundedInduction

-----------------------------------------------------------------------------
(* Induction and recursion over the natural numbers up to a bound, stated  *)
(* of sets and of functions.                                               *)

\* What holds at 0 and passes from each number to the next holds up to n.
LEMMA BoundedInduction ==
  ASSUME NEW n \in Nat, NEW S, 0 \in S,
         \A i \in 0 .. n - 1 : i \in S => i + 1 \in S
  PROVE  0 .. n \subseteq S
  <1> DEFINE T == (0 .. n) \ S
             Less == OpToRel(<, Nat)
  <1> SUFFICES ASSUME T # {} PROVE FALSE
    OBVIOUS
  <1>1. T \subseteq Nat
    OBVIOUS
  <1>2. PICK m \in T : \A y \in T : ~(<<y, m>> \in Less)
    BY <1>1, NatLessThanWellFounded, WFMin
  <1>3. \A y \in T : ~(y < m)
    BY <1>1, <1>2 DEF OpToRel
  <1>4. m \in 0 .. n /\ m \notin S /\ m - 1 \in 0 .. n - 1
    OBVIOUS
  <1>5. m - 1 \notin T
    BY <1>3, <1>4
  <1> QED
    BY <1>4, <1>5

\* f is what base and step give for 0 .. n.
Recurses(f, n, base, step) ==
    f[0] = base /\ \A i \in 1 .. n : f[i] = step[<<i, f[i - 1]>>]

\* A step that takes values to values has a recursive function.
LEMMA RecursionExists ==
  ASSUME NEW n \in Nat, NEW A, NEW base \in A, NEW step \in [(1 .. n) \X A -> A]
  PROVE  \E f \in [0 .. n -> A] : Recurses(f, n, base, step)
  <1> DEFINE Is(f, m) == /\ f \in [0 .. m -> A] /\ f[0] = base
                         /\ \A i \in 1 .. m : f[i] = step[<<i, f[i - 1]>>]
             S == {m \in 0 .. n : \E f : Is(f, m)}
  <1>1. 0 \in S
    <2> DEFINE z == [i \in 0 .. 0 |-> base]
    <2>1. z \in [0 .. 0 -> A] /\ z[0] = base /\ 1 .. 0 = {}
      OBVIOUS
    <2> HIDE DEF z
    <2>2. Is(z, 0) /\ 0 \in 0 .. n
      BY <2>1
    <2> HIDE DEF Is
    <2> QED
      BY <2>2
  <1>2. ASSUME NEW m \in 0 .. n - 1, m \in S
        PROVE  m + 1 \in S
    <2>1. PICK f : Is(f, m)
      <3> HIDE DEF Is
      <3> QED
        BY <1>2
    <2> DEFINE v == step[<<m + 1, f[m]>>]
               g == [i \in 0 .. m + 1 |-> IF i = m + 1 THEN v ELSE f[i]]
    <2>2. /\ f \in [0 .. m -> A] /\ f[0] = base
          /\ \A i \in 1 .. m : f[i] = step[<<i, f[i - 1]>>]
      BY <2>1
    <2> HIDE DEF Is, S
    <2>3. /\ m \in Nat /\ m \in 0 .. m /\ m + 1 \in 1 .. n /\ m + 1 \in 0 .. m + 1
          /\ m \in 0 .. m + 1 /\ 0 \in 0 .. m /\ m + 1 \in 0 .. n
      OBVIOUS
    <2>4. v \in A
      <3>1. f[m] \in A
        BY <2>2, <2>3
      <3>2. <<m + 1, f[m]>> \in (1 .. n) \X A
        BY <2>3, <3>1
      <3> QED
        BY <3>2
    <2>5. /\ \A i \in 0 .. m : g[i] = f[i]
          /\ g[m + 1] = v
      <3> HIDE DEF v
      <3>1. \A i \in 0 .. m : i \in 0 .. m + 1 /\ i # m + 1
        BY <2>3
      <3> QED
        BY <2>3, <3>1
    <2>6. g \in [0 .. m + 1 -> A]
      <3> HIDE DEF v
      <3>1. \A i \in 0 .. m + 1 : i = m + 1 \/ (i # m + 1 /\ i \in 0 .. m)
        BY <2>3
      <3>2. \A i \in 0 .. m : f[i] \in A
        BY <2>2
      <3> QED
        BY <2>4, <3>1, <3>2
    <2> HIDE DEF g
    <2>7. \A i \in 1 .. m + 1 : g[i] = step[<<i, g[i - 1]>>]
      <3> TAKE i \in 1 .. m + 1
      <3>1. i - 1 \in 0 .. m /\ (i = m + 1 \/ (i \in 1 .. m /\ i \in 0 .. m))
        BY <2>3
      <3>2. CASE i = m + 1
        <4>1. i - 1 = m
          BY <2>3, <3>2
        <4> QED
          BY <2>3, <2>5, <3>2, <4>1
      <3>3. CASE i \in 1 .. m /\ i \in 0 .. m
        BY <2>2, <2>5, <3>1, <3>3
      <3> QED
        BY <3>1, <3>2, <3>3
    <2>8. g[0] = base
      BY <2>2, <2>3, <2>5
    <2>9. Is(g, m + 1)
      BY <2>6, <2>7, <2>8 DEF Is
    <2> QED
      BY <2>3, <2>9 DEF S
  <1>3. n \in S
    <2> HIDE DEF S
    <2>1. 0 .. n \subseteq S
      BY <1>1, <1>2, BoundedInduction
    <2> QED
      BY <2>1
  <1>4. PICK f : Is(f, n)
    <2> HIDE DEF Is
    <2> QED
      BY <1>3
  <1> HIDE DEF S
  <1> QED
    BY <1>4 DEF Recurses

-----------------------------------------------------------------------------
(* Sequences.                                                              *)

\* What holds of the empty sequence and passes to longer ones holds of all.
LEMMA AppendInduction ==
  ASSUME NEW S, NEW P, <<>> \in P,
         \A s \in Seq(S), x \in S : s \in P => Append(s, x) \in P,
         NEW t \in Seq(S)
  PROVE  t \in P
  <1> DEFINE Q == {n \in 0 .. Len(t) : \A s \in Seq(S) : Len(s) = n => s \in P}
  <1>1. Len(t) \in Nat
    OBVIOUS
  <1>2. 0 \in Q
    <2>1. \A s \in Seq(S) : Len(s) = 0 => s = <<>>
      OBVIOUS
    <2> QED
      BY <1>1, <2>1
  <1>3. ASSUME NEW n \in 0 .. Len(t) - 1, n \in Q
        PROVE  n + 1 \in Q
    <2>1. n + 1 \in 0 .. Len(t) /\ n \in Nat
      BY <1>1
    <2>2. ASSUME NEW s \in Seq(S), Len(s) = n + 1
          PROVE  s \in P
      <3>1. s # <<>> /\ Len(s) \in Nat
        BY <2>1, <2>2
      <3>2. /\ Last(s) \in S /\ Last(s) = s[Len(s)]
            /\ Front(s) \in Seq(S) /\ Len(Front(s)) = Len(s) - 1
            /\ \A i \in 1 .. Len(s) - 1 : Front(s)[i] = s[i]
        BY <3>1, FrontIs
      <3> DEFINE f == Front(s)
                 x == Last(s)
      <3>3. Append(f, x) = s
        <4> HIDE DEF f, x
        <4>1. /\ f \in Seq(S) /\ x \in S /\ Len(f) = Len(s) - 1 /\ x = s[Len(s)]
              /\ \A i \in 1 .. Len(s) - 1 : f[i] = s[i]
          BY <3>2 DEF f, x
        <4>2. Append(f, x) \in Seq(S) /\ Len(Append(f, x)) = Len(s)
          BY <2>1, <2>2, <4>1
        <4>3. \A i \in 1 .. Len(s) : Append(f, x)[i] = s[i]
          BY <2>1, <2>2, <4>1
        <4> QED
          BY <4>2, <4>3, SeqEqual
      <3> HIDE DEF f, x
      <3>4. f \in P
        <4>1. f \in Seq(S) /\ Len(f) = n
          BY <2>1, <2>2, <3>2 DEF f
        <4> QED
          BY <1>3, <4>1
      <3> QED
        BY <3>2, <3>3, <3>4 DEF f, x
    <2> QED
      BY <2>1, <2>2
  <1> HIDE DEF Q
  <1>4. 0 .. Len(t) \subseteq Q
    BY <1>1, <1>2, <1>3, BoundedInduction
  <1> QED
    BY <1>1, <1>4 DEF Q

\* A sequence is the ones before its last element and that element.
LEMMA FrontLast ==
  ASSUME NEW S, NEW s \in Seq(S), s # <<>>
  PROVE  /\ Front(s) \in Seq(S) /\ Last(s) \in S /\ s = Append(Front(s), Last(s))
         /\ Len(Front(s)) = Len(s) - 1 /\ Last(s) = s[Len(s)]
         /\ \A i \in 1 .. Len(s) - 1 : Front(s)[i] = s[i]
  <1> DEFINE f == Front(s)
             x == Last(s)
  <1>1. /\ Len(s) \in Nat /\ Len(s) >= 1 /\ f \in Seq(S) /\ x \in S
        /\ Len(f) = Len(s) - 1 /\ x = s[Len(s)]
        /\ \A i \in 1 .. Len(s) - 1 : f[i] = s[i]
    BY FrontIs
  <1> HIDE DEF f, x
  <1>2. Append(f, x) \in Seq(S) /\ Len(Append(f, x)) = Len(s)
    BY <1>1
  <1>3. \A i \in 1 .. Len(s) : Append(f, x)[i] = s[i]
    BY <1>1
  <1>4. Append(f, x) = s
    BY <1>2, <1>3, SeqEqual
  <1> QED
    BY <1>1, <1>4 DEF f, x

\* Concatenation, with nothing, of three and with one more element.
LEMMA ConcatIs ==
  ASSUME NEW S, NEW s \in Seq(S), NEW t \in Seq(S)
  PROVE  /\ s \o t \in Seq(S)
         /\ s \o <<>> = s /\ <<>> \o s = s
         /\ \A u \in Seq(S) : (s \o t) \o u = s \o (t \o u)
         /\ \A x \in S : s \o Append(t, x) = Append(s \o t, x)
         /\ \A x \in S : Append(s, x) = s \o <<x>>
  <1>1. s \o t \in Seq(S)
    OBVIOUS
  <1>2. s \o <<>> = s
    <2>1. s \o <<>> \in Seq(S) /\ Len(s \o <<>>) = Len(s)
          /\ \A i \in 1 .. Len(s) : (s \o <<>>)[i] = s[i]
      OBVIOUS
    <2> QED
      BY <2>1, SeqEqual
  <1>3. <<>> \o s = s
    <2>1. <<>> \o s \in Seq(S) /\ Len(<<>> \o s) = Len(s)
          /\ \A i \in 1 .. Len(s) : (<<>> \o s)[i] = s[i]
      OBVIOUS
    <2> QED
      BY <2>1, SeqEqual
  <1>4. ASSUME NEW u \in Seq(S)
        PROVE  (s \o t) \o u = s \o (t \o u)
    <2> DEFINE a == (s \o t) \o u
               b == s \o (t \o u)
    <2>1. a \in Seq(S) /\ b \in Seq(S) /\ Len(a) = Len(b)
      OBVIOUS
    <2>2. \A i \in 1 .. Len(a) : a[i] = b[i]
      OBVIOUS
    <2> HIDE DEF a, b
    <2>3. a = b
      BY <2>1, <2>2, SeqEqual
    <2> QED
      BY <2>3 DEF a, b
  <1>5. ASSUME NEW x \in S
        PROVE  s \o Append(t, x) = Append(s \o t, x)
    <2> DEFINE a == s \o Append(t, x)
               b == Append(s \o t, x)
    <2>1. a \in Seq(S) /\ b \in Seq(S) /\ Len(a) = Len(b)
      OBVIOUS
    <2>2. \A i \in 1 .. Len(a) : a[i] = b[i]
      OBVIOUS
    <2> HIDE DEF a, b
    <2>3. a = b
      BY <2>1, <2>2, SeqEqual
    <2> QED
      BY <2>3 DEF a, b
  <1>6. ASSUME NEW x \in S
        PROVE  Append(s, x) = s \o <<x>>
    <2> DEFINE a == s \o <<x>>
               b == Append(s, x)
    <2>1. a \in Seq(S) /\ b \in Seq(S) /\ Len(a) = Len(b)
      OBVIOUS
    <2>2. \A i \in 1 .. Len(a) : a[i] = b[i]
      OBVIOUS
    <2> HIDE DEF a, b
    <2>3. a = b
      BY <2>1, <2>2, SeqEqual
    <2> QED
      BY <2>3 DEF a, b
  <1> QED
    BY <1>1, <1>2, <1>3, <1>4, <1>5, <1>6

\* The sequences joined one after the other.
Joins(f, ss) ==
    /\ f[1] = ss[1]
    /\ \A i \in 2 .. Len(ss) : f[i] = f[i - 1] \o ss[i]

\* FlattenSeq joins the sequences.
LEMMA FlattenJoins ==
  ASSUME NEW A, NEW ss \in Seq(Seq(A)), ss # <<>>
  PROVE  \E f \in [1 .. Len(ss) -> Seq(A)] :
            Joins(f, ss) /\ FlattenSeq(ss) = f[Len(ss)]
  <1> DEFINE N == Len(ss)
             Flat(g) == [i \in 1 .. N |-> IF i = 1 THEN ss[i] ELSE g[i - 1] \o ss[i]]
             flatten == CHOOSE g : g = Flat(g)
             S == Seq(A)
             base == ss[1]
             step == [x \in (1 .. N - 1) \X S |-> x[2] \o ss[x[1] + 1]]
  <1>1. N \in Nat /\ N >= 1 /\ N - 1 \in Nat /\ \A i \in 1 .. N : ss[i] \in S
    OBVIOUS
  <1>2. \A s, t \in S : s \o t \in S
    OBVIOUS
  <1>3. FlattenSeq(ss) = flatten[N]
    <2>1. Len(ss) # 0
      BY <1>1
    <2> QED
      BY <2>1, Zenon DEF FlattenSeq
  <1> HIDE DEF S, N
  <1>4. base \in S /\ step \in [(1 .. N - 1) \X S -> S]
    <2>1. base \in S
      BY <1>1
    <2>2. \A n \in 1 .. N - 1, y \in S : y \o ss[n + 1] \in S
      <3> TAKE n \in 1 .. N - 1, y \in S
      <3>1. n + 1 \in 1 .. N
        BY <1>1
      <3> QED
        BY <1>1, <1>2, <3>1
    <2> QED
      BY <2>1, <2>2
  <1>5. \A n \in 1 .. N - 1, y \in S : step[<<n, y>>] = y \o ss[n + 1]
    OBVIOUS
  <1> DEFINE M == N - 1
  <1>6. M \in Nat /\ step \in [(1 .. M) \X S -> S]
    BY <1>1, <1>4
  <1> HIDE DEF base, step, M
  <1>7. PICK f \in [0 .. M -> S] : Recurses(f, M, base, step)
    BY <1>4, <1>6, RecursionExists, Zenon
  <1>8. f[0] = ss[1] /\ \A i \in 1 .. N - 1 : f[i] = f[i - 1] \o ss[i + 1]
    <2>1. \A i \in 1 .. M : f[i - 1] \in S
      <3> TAKE i \in 1 .. M
      <3>1. i - 1 \in 0 .. M
        BY <1>6
      <3> QED
        BY <1>7, <3>1
    <2> QED
      BY <1>5, <1>7, <2>1 DEF Recurses, base, M
  <1> DEFINE h == [i \in 1 .. N |-> f[i - 1]]
  <1>9. h = Flat(h)
    <2>1. ASSUME NEW i \in 1 .. N
          PROVE  f[i - 1] = IF i = 1 THEN ss[i] ELSE h[i - 1] \o ss[i]
      <3>1. CASE i = 1
        BY <1>8, <3>1
      <3>2. CASE i # 1
        <4>1. i - 1 \in 1 .. N - 1 /\ i - 1 \in 1 .. N /\ (i - 1) + 1 = i
          BY <1>1, <3>2
        <4>2. f[i - 1] = f[(i - 1) - 1] \o ss[i]
          BY <1>8, <4>1
        <4>3. h[i - 1] = f[(i - 1) - 1]
          BY <4>1
        <4> QED
          BY <3>2, <4>2, <4>3
      <3> QED
        BY <3>1, <3>2
    <2> QED
      BY <2>1
  <1>10. flatten = Flat(flatten)
    <2> HIDE DEF Flat, h
    <2> QED
      BY <1>9 DEF flatten
  <1> HIDE DEF flatten
  <1>11. flatten[1] = ss[1] /\ \A i \in 2 .. N : flatten[i] = flatten[i - 1] \o ss[i]
    <2>1. 1 \in 1 .. N /\ \A i \in 2 .. N : i \in 1 .. N /\ i # 1
      BY <1>1
    <2> QED
      BY <1>10, <2>1
  <1>12. flatten \in [1 .. N -> S]
    <2> DEFINE P == {i \in 0 .. M : flatten[i + 1] \in S}
    <2>1. 0 \in P
      BY <1>1, <1>6, <1>11
    <2>2. ASSUME NEW i \in 0 .. M - 1, i \in P
          PROVE  i + 1 \in P
      <3>1. i + 2 \in 2 .. N /\ i + 2 \in 1 .. N /\ (i + 2) - 1 = i + 1 /\ (i + 1) + 1 = i + 2
        BY <1>1, <1>6 DEF M
      <3>2. flatten[i + 2] = flatten[i + 1] \o ss[i + 2]
        BY <1>11, <3>1
      <3>3. flatten[i + 2] \in S
        BY <1>1, <1>2, <2>2, <3>1, <3>2
      <3> QED
        BY <1>6, <3>1, <3>3
    <2> HIDE DEF P
    <2>3. 0 .. M \subseteq P
      BY <1>6, <2>1, <2>2, BoundedInduction
    <2>4. \A i \in 1 .. N : flatten[i] \in S
      <3> TAKE i \in 1 .. N
      <3>1. i - 1 \in 0 .. M /\ (i - 1) + 1 = i
        BY <1>1 DEF M
      <3>2. i - 1 \in P
        BY <2>3, <3>1
      <3> QED
        BY <3>1, <3>2 DEF P
    <2>5. flatten = [i \in 1 .. N |-> flatten[i]]
      BY <1>10
    <2> QED
      BY <2>4, <2>5
  <1>13. Joins(flatten, ss)
    BY <1>11 DEF Joins, N
  <1> QED
    BY <1>3, <1>12, <1>13 DEF S, N

\* What is joined of no sequences, and of one more.
LEMMA FlattenIs ==
  ASSUME NEW A, NEW ss \in Seq(Seq(A)), NEW s \in Seq(A)
  PROVE  /\ FlattenSeq(<<>>) = <<>>
         /\ FlattenSeq(ss) \in Seq(A)
         /\ FlattenSeq(Append(ss, s)) = FlattenSeq(ss) \o s
  <1> DEFINE N == Len(ss)
             tt == Append(ss, s)
  <1>1. FlattenSeq(<<>>) = <<>>
    <2> DEFINE none == <<>>
    <2>1. Len(none) = 0
      OBVIOUS
    <2> HIDE DEF none
    <2>2. FlattenSeq(none) = none
      BY <2>1, Zenon DEF FlattenSeq
    <2> QED
      BY <2>2 DEF none
  <1>2. /\ N \in Nat /\ tt \in Seq(Seq(A)) /\ tt # <<>> /\ Len(tt) = N + 1
        /\ tt[N + 1] = s /\ \A i \in 1 .. N : tt[i] = ss[i]
    <2> DEFINE B == Seq(A)
    <2>1. ss \in Seq(B) /\ s \in B
      OBVIOUS
    <2> HIDE DEF B
    <2> SUFFICES /\ N \in Nat /\ tt \in Seq(B) /\ tt # <<>> /\ Len(tt) = N + 1
                 /\ tt[N + 1] = s /\ \A i \in 1 .. N : tt[i] = ss[i]
      BY DEF B
    <2> QED
      BY <2>1
  <1> HIDE DEF N, tt
  <1>3. PICK g \in [1 .. Len(tt) -> Seq(A)] : Joins(g, tt) /\ FlattenSeq(tt) = g[Len(tt)]
    BY <1>2, FlattenJoins
  <1>4. CASE ss = <<>>
    <2>1. N = 0
      BY <1>4 DEF N
    <2>2. FlattenSeq(tt) = s
      BY <1>2, <1>3, <2>1 DEF Joins
    <2>3. <<>> \o s = s /\ <<>> \in Seq(A)
      BY ConcatIs
    <2> DEFINE none == <<>>
    <2>4. FlattenSeq(ss) = none
      BY <1>1, <1>4, Zenon
    <2>5. FlattenSeq(tt) = none \o s /\ none \in Seq(A) /\ FlattenSeq(<<>>) = <<>>
      BY <1>1, <2>2, <2>3
    <2> HIDE DEF none
    <2> QED
      BY <2>4, <2>5, Zenon DEF tt
  <1>5. CASE ss # <<>>
    <2>1. PICK f \in [1 .. Len(ss) -> Seq(A)] : Joins(f, ss) /\ FlattenSeq(ss) = f[Len(ss)]
      BY <1>5, FlattenJoins
    <2>2. N >= 1 /\ N - 1 \in Nat
      BY <1>2, <1>5 DEF N
    <2> DEFINE P == {i \in 0 .. N - 1 : g[i + 1] = f[i + 1]}
    <2>3. 0 \in P
      <3>1. 1 \in 1 .. N
        BY <2>2, <1>2
      <3> QED
        BY <1>2, <1>3, <2>1, <2>2, <3>1 DEF Joins
    <2>4. ASSUME NEW i \in 0 .. (N - 1) - 1, i \in P
          PROVE  i + 1 \in P
      <3>1. /\ i + 2 \in 2 .. N /\ i + 2 \in 1 .. N /\ i + 2 \in 2 .. N + 1
            /\ (i + 2) - 1 = i + 1 /\ (i + 1) + 1 = i + 2
        BY <1>2, <2>2
      <3>2. f[i + 2] = f[i + 1] \o ss[i + 2]
        BY <2>1, <3>1 DEF Joins, N
      <3>3. g[i + 2] = g[i + 1] \o tt[i + 2]
        BY <1>2, <1>3, <3>1 DEF Joins
      <3>4. g[i + 2] = f[i + 2]
        BY <1>2, <2>4, <3>1, <3>2, <3>3
      <3> QED
        BY <3>1, <3>4, <2>2
    <2> HIDE DEF P
    <2>5. 0 .. N - 1 \subseteq P
      <3> DEFINE M == N - 1
      <3>1. M \in Nat /\ 0 \in P /\ \A i \in 0 .. M - 1 : i \in P => i + 1 \in P
        BY <2>2, <2>3, <2>4
      <3> HIDE DEF M
      <3>2. 0 .. M \subseteq P
        BY <3>1, BoundedInduction
      <3> QED
        BY <3>2 DEF M
    <2>6. g[N] = f[N]
      <3>1. N - 1 \in 0 .. N - 1 /\ (N - 1) + 1 = N
        BY <1>2, <2>2
      <3> QED
        BY <2>5, <3>1 DEF P
    <2>7. g[N + 1] = g[N] \o tt[N + 1]
      <3>1. N + 1 \in 2 .. N + 1 /\ (N + 1) - 1 = N
        BY <1>2, <2>2
      <3> QED
        BY <1>2, <1>3, <3>1 DEF Joins
    <2>8. FlattenSeq(ss) = f[N] /\ f[N] \in Seq(A)
      <3>1. N \in 1 .. N
        BY <1>2, <2>2
      <3> QED
        BY <2>1, <3>1 DEF N
    <2>9. FlattenSeq(tt) = FlattenSeq(ss) \o s
      BY <1>2, <1>3, <2>6, <2>7, <2>8
    <2> QED
      BY <1>1, <2>8, <2>9 DEF tt
  <1> QED
    BY <1>4, <1>5

-----------------------------------------------------------------------------
(* Trees.                                                                  *)

\* Nodes whose children are in T.
NodesOver(T) ==
    [class : Classes \cup {"GenericToken"}, id : Nat,
     token : Tokens \cup {NoToken}, at : Nat, children : Seq(T)]

\* All of the nodes hold a token.
Closed(nodes) == \A i \in DOMAIN nodes : nodes[i].token # NoToken

\* What each of the nodes is replaced by, and all of it in one sequence.
Belows(nodes) == [i \in DOMAIN nodes |-> Below(nodes[i])]
Joined(nodes) == FlattenSeq(Belows(nodes))

LEMMA BelowsIs ==
  ASSUME NEW T, T \subseteq NodesOver(T), NEW s \in Seq(T), NEW x \in T
  PROVE  /\ Below(x) \in Seq(T)
         /\ Belows(<<>>) = <<>>
         /\ Belows(s) \in Seq(Seq(T))
         /\ Belows(Append(s, x)) = Append(Belows(s), Below(x))
  <1> DEFINE B == Seq(T)
  <1>1. \A y \in T : Below(y) \in B
    BY DEF Below, NodesOver
  <1> HIDE DEF B
  <1>2. Belows(<<>>) = <<>>
    BY DEF Belows
  <1>3. Belows(s) \in Seq(B) /\ Len(Belows(s)) = Len(s)
        /\ \A i \in 1 .. Len(s) : Belows(s)[i] = Below(s[i])
    BY <1>1 DEF Belows
  <1>4. Append(s, x) \in Seq(T) /\ Len(Append(s, x)) = Len(s) + 1
        /\ Append(s, x)[Len(s) + 1] = x /\ \A i \in 1 .. Len(s) : Append(s, x)[i] = s[i]
    BY AppendIs
  <1> DEFINE t == Append(s, x)
             a == Belows(t)
             b == Append(Belows(s), Below(x))
  <1> HIDE DEF t
  <1>5. t \in Seq(T) /\ Len(t) = Len(s) + 1 /\ t[Len(s) + 1] = x
        /\ \A i \in 1 .. Len(s) : t[i] = s[i]
    BY <1>4 DEF t
  <1>6. a \in Seq(B) /\ Len(a) = Len(t) /\ \A i \in 1 .. Len(t) : a[i] = Below(t[i])
    BY <1>1, <1>5 DEF Belows
  <1>7. b \in Seq(B) /\ Len(b) = Len(s) + 1 /\ b[Len(s) + 1] = Below(x)
        /\ \A i \in 1 .. Len(s) : b[i] = Below(s[i])
    BY <1>1, <1>3
  <1> HIDE DEF a, b
  <1>8. \A i \in 1 .. Len(a) : a[i] = b[i]
    <2> TAKE i \in 1 .. Len(a)
    <2>1. Len(s) \in Nat /\ (i = Len(s) + 1 \/ i \in 1 .. Len(s)) /\ i \in 1 .. Len(t)
      BY <1>5, <1>6
    <2> QED
      BY <1>5, <1>6, <1>7, <2>1
  <1>9. a = b
    BY <1>5, <1>6, <1>7, <1>8, SeqEqual
  <1> QED
    BY <1>1, <1>2, <1>3, <1>9 DEF B, a, b, t

LEMMA JoinedIs ==
  ASSUME NEW T, T \subseteq NodesOver(T), NEW s \in Seq(T)
  PROVE  /\ Joined(<<>>) = <<>>
         /\ Joined(s) \in Seq(T)
         /\ \A x \in T : Joined(Append(s, x)) = Joined(s) \o Below(x)
  <1>1. Joined(<<>>) = <<>>
    <2>1. <<>> \in Seq(Seq(T)) /\ <<>> \in Seq(T)
      OBVIOUS
    <2>2. FlattenSeq(<<>>) = <<>>
      BY <2>1, FlattenIs
    <2>3. Belows(<<>>) = <<>>
      BY DEF Belows
    <2> QED
      BY <2>2, <2>3, Zenon DEF Joined
  <1>2. Joined(s) \in Seq(T)
    <2> DEFINE none == <<>>
    <2>1. none \in Seq(T) /\ Belows(s) \in Seq(Seq(T))
      <3>1. \A y \in T : Below(y) \in Seq(T)
        BY DEF Below, NodesOver
      <3> DEFINE B == Seq(T)
      <3>2. \A y \in T : Below(y) \in B
        BY <3>1
      <3> HIDE DEF B
      <3>3. Belows(s) \in Seq(B)
        BY <3>2 DEF Belows
      <3> QED
        BY <3>3 DEF B
    <2> HIDE DEF none
    <2> QED
      BY <2>1, FlattenIs, Zenon DEF Joined
  <1>3. ASSUME NEW x \in T
        PROVE  Joined(Append(s, x)) = Joined(s) \o Below(x)
    <2>1. Below(x) \in Seq(T) /\ Belows(s) \in Seq(Seq(T))
          /\ Belows(Append(s, x)) = Append(Belows(s), Below(x))
      BY BelowsIs, Zenon
    <2>2. FlattenSeq(Append(Belows(s), Below(x))) = FlattenSeq(Belows(s)) \o Below(x)
      BY <2>1, FlattenIs, Zenon
    <2> QED
      BY <2>1, <2>2, Zenon DEF Joined
  <1> QED
    BY <1>1, <1>2, <1>3

\* The first part and the last one of a closed list are closed.
LEMMA ClosedIs ==
  ASSUME NEW T, NEW s \in Seq(T), NEW t \in Seq(T)
  PROVE  /\ Closed(<<>>)
         /\ Closed(s \o t) <=> Closed(s) /\ Closed(t)
         /\ \A x \in T : Closed(Append(s, x)) <=> Closed(s) /\ x.token # NoToken
  <1> DEFINE u == s \o t
  <1>1. Closed(<<>>)
    BY DEF Closed
  <1>2. Len(u) = Len(s) + Len(t) /\ DOMAIN u = 1 .. Len(u) /\ DOMAIN s = 1 .. Len(s)
        /\ DOMAIN t = 1 .. Len(t) /\ Len(s) \in Nat /\ Len(t) \in Nat
        /\ (\A i \in 1 .. Len(s) : u[i] = s[i])
        /\ (\A i \in 1 .. Len(t) : u[Len(s) + i] = t[i])
    OBVIOUS
  <1> HIDE DEF u
  <1>3. Closed(u) => Closed(s) /\ Closed(t)
    <2> SUFFICES ASSUME Closed(u) PROVE Closed(s) /\ Closed(t)
      OBVIOUS
    <2>1. Closed(s)
      BY <1>2 DEF Closed
    <2>2. ASSUME NEW i \in DOMAIN t
          PROVE  t[i].token # NoToken
      <3>1. Len(s) + i \in DOMAIN u /\ u[Len(s) + i] = t[i]
        BY <1>2
      <3> QED
        BY <3>1 DEF Closed
    <2> QED
      BY <2>1, <2>2 DEF Closed
  <1>4. ASSUME Closed(s), Closed(t), NEW i \in DOMAIN u
        PROVE  u[i].token # NoToken
    <2>1. CASE i \in 1 .. Len(s)
      BY <1>2, <1>4, <2>1 DEF Closed
    <2>2. CASE i \notin 1 .. Len(s)
      <3>1. i - Len(s) \in 1 .. Len(t) /\ Len(s) + (i - Len(s)) = i
        BY <1>2, <2>2
      <3>2. u[i] = t[i - Len(s)]
        BY <1>2, <3>1
      <3> QED
        BY <1>2, <1>4, <3>1, <3>2 DEF Closed
    <2> QED
      BY <2>1, <2>2
  <1>5. Closed(s) /\ Closed(t) => Closed(u)
    BY <1>4 DEF Closed
  <1>6. ASSUME NEW x \in T
        PROVE  Closed(Append(s, x)) <=> Closed(s) /\ x.token # NoToken
    <2> DEFINE v == Append(s, x)
    <2>1. /\ DOMAIN v = 1 .. Len(s) + 1 /\ v[Len(s) + 1] = x
          /\ \A i \in 1 .. Len(s) : v[i] = s[i]
      OBVIOUS
    <2> HIDE DEF v
    <2>2. \A i \in 1 .. Len(s) + 1 : i \in 1 .. Len(s) \/ i = Len(s) + 1
      BY <1>2
    <2>3. 1 .. Len(s) \subseteq 1 .. Len(s) + 1 /\ Len(s) + 1 \in 1 .. Len(s) + 1
      BY <1>2
    <2>4. Closed(v) <=> Closed(s) /\ x.token # NoToken
      BY <1>2, <2>1, <2>2, <2>3 DEF Closed
    <2> QED
      BY <2>4 DEF v
  <1> QED
    BY <1>1, <1>3, <1>5, <1>6 DEF u

\* Opening joins what is below the nodes, and leaves closed lists alone.
LEMMA OpenedIs ==
  ASSUME NEW T, T \subseteq NodesOver(T), NEW s \in Seq(T)
  PROVE  /\ Opened(s) = Joined(s)
         /\ Opened(s) \in Seq(T)
         /\ Closed(s) => Opened(s) = s
  <1> DEFINE P == {t \in Seq(T) : Closed(t) => Joined(t) = t}
  <1>1. <<>> \in P
    <2>1. Joined(<<>>) = <<>> /\ <<>> \in Seq(T)
      BY JoinedIs
    <2> QED
      BY <2>1
  <1>2. ASSUME NEW t \in Seq(T), NEW x \in T, t \in P
        PROVE  Append(t, x) \in P
    <2>1. Append(t, x) \in Seq(T)
      OBVIOUS
    <2>2. ASSUME Closed(Append(t, x))
          PROVE  Joined(Append(t, x)) = Append(t, x)
      <3>1. Closed(t) /\ x.token # NoToken
        BY <2>2, ClosedIs
      <3>2. Joined(t) = t /\ Below(x) = <<x>>
        BY <1>2, <3>1 DEF Below
      <3>3. Joined(Append(t, x)) = t \o <<x>>
        BY <3>2, JoinedIs
      <3> QED
        BY <3>3, ConcatIs
    <2> QED
      BY <2>1, <2>2
  <1> HIDE DEF P
  <1>3. s \in P
    BY <1>1, <1>2, AppendInduction
  <1>4. Closed(s) => Joined(s) = s
    BY <1>3 DEF P
  <1>5. Opened(s) = Joined(s)
    BY <1>4 DEF Opened, Closed, Joined, Belows
  <1> QED
    BY <1>4, <1>5, JoinedIs

\* The trees, opened up to n times.
Opens(f, s, n) == f[0] = s /\ \A i \in 1 .. n : f[i] = Opened(f[i - 1])

LEMMA OftenOpens ==
  ASSUME NEW T, T \subseteq NodesOver(T), NEW s \in Seq(T), NEW n \in Nat
  PROVE  \E f \in [0 .. n -> Seq(T)] : Opens(f, s, n) /\ OpenedOften(s, n) = f[n]
  <1> DEFINE Levels(g) == [i \in 0 .. n |-> IF i = 0 THEN s ELSE Opened(g[i - 1])]
             opened == CHOOSE g : g = Levels(g)
             S == Seq(T)
             step == [x \in (1 .. n) \X S |-> Opened(x[2])]
  <1>1. OpenedOften(s, n) = opened[n]
    BY Zenon DEF OpenedOften
  <1>2. \A y \in S : Opened(y) \in S
    BY OpenedIs
  <1> HIDE DEF opened, S
  <1>3. s \in S /\ step \in [(1 .. n) \X S -> S]
    BY <1>2 DEF S
  <1>4. \A i \in 1 .. n, y \in S : step[<<i, y>>] = Opened(y)
    OBVIOUS
  <1> HIDE DEF step
  <1>5. PICK f \in [0 .. n -> S] : Recurses(f, n, s, step)
    BY <1>3, RecursionExists, Zenon
  <1>6. f[0] = s /\ \A i \in 1 .. n : f[i] = Opened(f[i - 1])
    <2>1. \A i \in 1 .. n : f[i - 1] \in S
      <3> TAKE i \in 1 .. n
      <3>1. i - 1 \in 0 .. n
        OBVIOUS
      <3> QED
        BY <1>5, <3>1
    <2> QED
      BY <1>4, <1>5, <2>1 DEF Recurses
  <1>7. f = Levels(f)
    <2>1. ASSUME NEW i \in 0 .. n
          PROVE  f[i] = IF i = 0 THEN s ELSE Opened(f[i - 1])
      BY <1>6
    <2>2. f = [i \in 0 .. n |-> f[i]]
      BY <1>5
    <2> QED
      BY <2>1, <2>2
  <1>8. opened = Levels(opened)
    <2> HIDE DEF Levels
    <2> QED
      BY <1>7 DEF opened
  <1>9. opened[0] = s /\ \A i \in 1 .. n : opened[i] = Opened(opened[i - 1])
    <2>1. 0 \in 0 .. n /\ \A i \in 1 .. n : i \in 0 .. n /\ i # 0
      OBVIOUS
    <2> QED
      BY <1>8, <2>1
  <1>10. opened \in [0 .. n -> S]
    <2> DEFINE P == {i \in 0 .. n : opened[i] \in S}
    <2>1. 0 \in P
      BY <1>3, <1>9
    <2>2. ASSUME NEW i \in 0 .. n - 1, i \in P
          PROVE  i + 1 \in P
      <3>1. i + 1 \in 1 .. n /\ i + 1 \in 0 .. n /\ (i + 1) - 1 = i
        OBVIOUS
      <3> QED
        BY <1>2, <1>9, <2>2, <3>1
    <2> HIDE DEF P
    <2>3. 0 .. n \subseteq P
      BY <2>1, <2>2, BoundedInduction
    <2>4. \A i \in 0 .. n : opened[i] \in S
      BY <2>3 DEF P
    <2>5. opened = [i \in 0 .. n |-> opened[i]]
      BY <1>8
    <2> QED
      BY <2>4, <2>5
  <1>11. Opens(opened, s, n)
    BY <1>9 DEF Opens
  <1> QED
    BY <1>1, <1>10, <1>11 DEF S

LEMMA OftenIs ==
  ASSUME NEW T, T \subseteq NodesOver(T), NEW s \in Seq(T), NEW n \in Nat
  PROVE  /\ OpenedOften(s, 0) = s
         /\ OpenedOften(s, n) \in Seq(T)
         /\ OpenedOften(s, n + 1) = Opened(OpenedOften(s, n))
  <1>1. OpenedOften(s, 0) = s
    <2> DEFINE zero == 0
    <2>1. zero \in Nat
      OBVIOUS
    <2> HIDE DEF zero
    <2>2. PICK f \in [0 .. zero -> Seq(T)] : Opens(f, s, zero) /\ OpenedOften(s, zero) = f[zero]
      BY <2>1, OftenOpens, Zenon
    <2> QED
      BY <2>2 DEF Opens, zero
  <1>2. PICK f \in [0 .. n -> Seq(T)] : Opens(f, s, n) /\ OpenedOften(s, n) = f[n]
    BY OftenOpens, Zenon
  <1> DEFINE m == n + 1
  <1>3. m \in Nat
    OBVIOUS
  <1> HIDE DEF m
  <1>4. PICK g \in [0 .. m -> Seq(T)] : Opens(g, s, m) /\ OpenedOften(s, m) = g[m]
    BY <1>3, OftenOpens, Zenon
  <1> DEFINE P == {i \in 0 .. n : f[i] = g[i]}
  <1>5. 0 \in P
    BY <1>2, <1>4 DEF Opens
  <1>6. ASSUME NEW i \in 0 .. n - 1, i \in P
        PROVE  i + 1 \in P
    <2>1. i + 1 \in 1 .. n /\ i + 1 \in 0 .. n /\ i + 1 \in 1 .. m /\ (i + 1) - 1 = i
      BY DEF m
    <2> QED
      BY <1>2, <1>4, <1>6, <2>1 DEF Opens
  <1> HIDE DEF P
  <1>7. 0 .. n \subseteq P
    BY <1>5, <1>6, BoundedInduction
  <1>8. f[n] = g[n]
    BY <1>7 DEF P
  <1>9. g[m] = Opened(g[n])
    <2>1. m \in 1 .. m /\ m - 1 = n
      BY DEF m
    <2> QED
      BY <1>4, <2>1 DEF Opens
  <1> QED
    BY <1>1, <1>2, <1>4, <1>8, <1>9 DEF m

\* Opening a list with one more tree.
LEMMA OpenedAppend ==
  ASSUME NEW T, T \subseteq NodesOver(T), NEW s \in Seq(T), NEW x \in T
  PROVE  Opened(Append(s, x)) = Opened(s) \o Below(x)
  <1> DEFINE t == Append(s, x)
  <1>1. t \in Seq(T)
    OBVIOUS
  <1>2. Joined(t) = Joined(s) \o Below(x)
    BY JoinedIs
  <1> HIDE DEF t
  <1>3. Opened(s) = Joined(s) /\ Opened(t) = Joined(t)
    BY <1>1, OpenedIs
  <1> QED
    BY <1>2, <1>3 DEF t

\* Lists side by side are opened side by side.
LEMMA OpenedConcat ==
  ASSUME NEW T, T \subseteq NodesOver(T), NEW s \in Seq(T), NEW t \in Seq(T)
  PROVE  Opened(s \o t) = Opened(s) \o Opened(t)
  <1> DEFINE P == {u \in Seq(T) : Opened(s \o u) = Opened(s) \o Opened(u)}
             o == Opened(s)
  <1>0. o \in Seq(T)
    BY OpenedIs
  <1>1. <<>> \in P
    <2> HIDE DEF o
    <2> DEFINE none == <<>>
    <2>1. none \in Seq(T) /\ s \o none = s /\ o \o none = o
      BY <1>0, ConcatIs
    <2>2. Opened(none) = none
      BY DEF Opened
    <2> HIDE DEF none
    <2>3. Opened(s \o none) = o \o Opened(none)
      BY <2>1, <2>2 DEF o
    <2> QED
      BY <2>1, <2>3 DEF none, o
  <1>2. ASSUME NEW u \in Seq(T), NEW x \in T, u \in P
        PROVE  Append(u, x) \in P
    <2> DEFINE a == Append(u, x)
               b == Below(x)
               w == s \o u
    <2>1. a \in Seq(T)
      OBVIOUS
    <2>2. w \in Seq(T) /\ s \o a = Append(w, x)
      BY ConcatIs
    <2>3. b \in Seq(T)
      BY BelowsIs
    <2>4. Opened(a) = Opened(u) \o b
      BY OpenedAppend
    <2>5. Opened(w) = o \o Opened(u)
      BY <1>2
    <2>6. Opened(u) \in Seq(T)
      BY OpenedIs
    <2> HIDE DEF a, b, o, w
    <2>7. Opened(Append(w, x)) = Opened(w) \o b
      BY <2>2, OpenedAppend DEF b
    <2> DEFINE v == Opened(u)
    <2>8. v \in Seq(T)
      BY <2>6
    <2> HIDE DEF v
    <2>9. (o \o v) \o b = o \o (v \o b)
      BY <1>0, <2>3, <2>8, ConcatIs
    <2>10. Opened(s \o a) = o \o Opened(a)
      BY <2>2, <2>4, <2>5, <2>7, <2>9 DEF v
    <2> QED
      BY <2>1, <2>10 DEF a, o
  <1> HIDE DEF P
  <1>3. t \in P
    BY <1>1, <1>2, AppendInduction
  <1> QED
    BY <1>3 DEF P

\* The same, as often as one likes, and what is closed stays as it is.
LEMMA OftenConcat ==
  ASSUME NEW T, T \subseteq NodesOver(T), NEW s \in Seq(T), NEW t \in Seq(T), NEW n \in Nat
  PROVE  OpenedOften(s \o t, n) = OpenedOften(s, n) \o OpenedOften(t, n)
  <1> DEFINE u == s \o t
             P == {i \in 0 .. n : OpenedOften(u, i) = OpenedOften(s, i) \o OpenedOften(t, i)}
  <1>0. u \in Seq(T)
    OBVIOUS
  <1> HIDE DEF u
  <1>1. 0 \in P
    <2>1. OpenedOften(u, 0) = u /\ OpenedOften(s, 0) = s /\ OpenedOften(t, 0) = t
      BY <1>0, OftenIs, 0 \in Nat
    <2> QED
      BY <2>1 DEF u
  <1>2. ASSUME NEW i \in 0 .. n - 1, i \in P
        PROVE  i + 1 \in P
    <2>1. i \in Nat /\ i + 1 \in 0 .. n
      OBVIOUS
    <2>2. /\ OpenedOften(u, i + 1) = Opened(OpenedOften(u, i))
          /\ OpenedOften(s, i + 1) = Opened(OpenedOften(s, i))
          /\ OpenedOften(t, i + 1) = Opened(OpenedOften(t, i))
          /\ OpenedOften(s, i) \in Seq(T) /\ OpenedOften(t, i) \in Seq(T)
      BY <1>0, <2>1, OftenIs
    <2>3. Opened(OpenedOften(s, i) \o OpenedOften(t, i)) =
             Opened(OpenedOften(s, i)) \o Opened(OpenedOften(t, i))
      BY <2>2, OpenedConcat
    <2> QED
      BY <1>2, <2>1, <2>2, <2>3
  <1> HIDE DEF P
  <1>3. 0 .. n \subseteq P
    BY <1>1, <1>2, BoundedInduction
  <1> QED
    BY <1>3 DEF P, u

\* The other way round: the first step can be taken first.
LEMMA OftenFirst ==
  ASSUME NEW T, T \subseteq NodesOver(T), NEW s \in Seq(T), NEW n \in Nat
  PROVE  OpenedOften(s, n + 1) = OpenedOften(Opened(s), n)
  <1> DEFINE t == Opened(s)
             P == {i \in 0 .. n : OpenedOften(s, i + 1) = OpenedOften(t, i)}
  <1>0. t \in Seq(T)
    BY OpenedIs
  <1> HIDE DEF t
  <1>1. 0 \in P
    <2>1. OpenedOften(s, 0) = s /\ OpenedOften(t, 0) = t
          /\ OpenedOften(s, 0 + 1) = Opened(OpenedOften(s, 0))
      BY <1>0, OftenIs, 0 \in Nat
    <2> QED
      BY <2>1 DEF t
  <1>2. ASSUME NEW i \in 0 .. n - 1, i \in P
        PROVE  i + 1 \in P
    <2>1. i \in Nat /\ i + 1 \in Nat /\ i + 1 \in 0 .. n
      OBVIOUS
    <2>2. /\ OpenedOften(s, (i + 1) + 1) = Opened(OpenedOften(s, i + 1))
          /\ OpenedOften(t, i + 1) = Opened(OpenedOften(t, i))
      BY <1>0, <2>1, OftenIs
    <2> QED
      BY <1>2, <2>1, <2>2
  <1> HIDE DEF P
  <1>3. 0 .. n \subseteq P
    BY <1>1, <1>2, BoundedInduction
  <1> QED
    BY <1>3 DEF P, t

\* Once everything is closed, opening changes nothing.
LEMMA OftenClosed ==
  ASSUME NEW T, T \subseteq NodesOver(T), NEW s \in Seq(T), NEW n \in Nat,
         Closed(OpenedOften(s, n)), NEW m \in Nat, m >= n
  PROVE  OpenedOften(s, m) = OpenedOften(s, n)
  <1> DEFINE P == {i \in 0 .. m - n : OpenedOften(s, n + i) = OpenedOften(s, n)}
             d == m - n
  <1>0. d \in Nat
    OBVIOUS
  <1>1. 0 \in P
    OBVIOUS
  <1>2. ASSUME NEW i \in 0 .. m - n - 1, i \in P
        PROVE  i + 1 \in P
    <2>1. n + i \in Nat /\ n + (i + 1) = (n + i) + 1 /\ i + 1 \in 0 .. m - n
      OBVIOUS
    <2>2. /\ OpenedOften(s, (n + i) + 1) = Opened(OpenedOften(s, n + i))
          /\ OpenedOften(s, n) \in Seq(T)
      BY <2>1, OftenIs
    <2>3. Opened(OpenedOften(s, n)) = OpenedOften(s, n)
      BY <2>2, OpenedIs
    <2> QED
      BY <1>2, <2>1, <2>2, <2>3
  <1>3. \A i \in 0 .. d - 1 : i \in P => i + 1 \in P
    BY <1>2
  <1>4. n + d = m
    OBVIOUS
  <1> HIDE DEF P, d
  <1>5. 0 .. d \subseteq P
    BY <1>0, <1>1, <1>3, BoundedInduction
  <1> QED
    BY <1>0, <1>4, <1>5 DEF P

\* A tree alone.
LEMMA OpenedSingle ==
  ASSUME NEW T, T \subseteq NodesOver(T), NEW x \in T
  PROVE  <<x>> \in Seq(T) /\ Opened(<<x>>) = Below(x) /\ Below(x) \in Seq(T)
  <1> DEFINE none == <<>>
             b == Below(x)
  <1>1. none \in Seq(T) /\ <<x>> \in Seq(T) /\ Append(none, x) = <<x>>
    OBVIOUS
  <1>2. b \in Seq(T)
    BY <1>1, BelowsIs
  <1>3. Opened(none) = none
    BY DEF Opened
  <1>4. none \o b = b
    <2> HIDE DEF b
    <2> QED
      BY <1>2, ConcatIs
  <1> HIDE DEF none
  <1>5. Opened(Append(none, x)) = Opened(none) \o b
    BY <1>1, OpenedAppend
  <1> QED
    BY <1>1, <1>2, <1>3, <1>4, <1>5 DEF b

\* A node that holds a token is closed, one without children has no leaves.
LEMMA OftenSingle ==
  ASSUME NEW T, T \subseteq NodesOver(T), NEW x \in T, NEW n \in Nat
  PROVE  /\ OpenedOften(<<x>>, n) \in Seq(T)
         /\ x.token # NoToken => OpenedOften(<<x>>, n) = <<x>>
         /\ x.token = NoToken /\ x.children = <<>> /\ n >= 1 =>
               OpenedOften(<<x>>, n) = <<>>
  <1> DEFINE s == <<x>>
  <1>1. s \in Seq(T) /\ Opened(s) = Below(x) /\ Below(x) \in Seq(T)
    BY OpenedSingle
  <1>2. x.token # NoToken => Closed(s)
    BY DEF Closed
  <1> HIDE DEF s
  <1>3. OpenedOften(s, 0) = s /\ OpenedOften(s, n) \in Seq(T)
    BY <1>1, OftenIs
  <1>4. ASSUME x.token # NoToken
        PROVE  OpenedOften(s, n) = s
    <2>1. Closed(OpenedOften(s, 0))
      BY <1>2, <1>3, <1>4
    <2> QED
      BY <1>1, <1>3, <2>1, OftenClosed, 0 \in Nat
  <1>5. ASSUME x.token = NoToken, x.children = <<>>, n >= 1
        PROVE  OpenedOften(s, n) = <<>>
    <2> DEFINE one == 0 + 1
    <2>1. one \in Nat /\ n >= one
      BY <1>5
    <2>2. Below(x) = <<>>
      BY <1>5 DEF Below
    <2>3. OpenedOften(s, one) = <<>>
      BY <1>1, <1>3, <2>2, OftenIs, 0 \in Nat
    <2> HIDE DEF one
    <2>4. Closed(OpenedOften(s, one))
      BY <2>3 DEF Closed
    <2> QED
      BY <1>1, <2>1, <2>3, <2>4, OftenClosed
  <1> QED
    BY <1>3, <1>4, <1>5 DEF s

\* A node that gets one more child gets its leaves, one level higher up.
Adopts(x, y, c, n) ==
    OpenedOften(<<y>>, n + 1) = OpenedOften(<<x>>, n + 1) \o OpenedOften(<<c>>, n)

LEMMA OftenAdopted ==
  ASSUME NEW T, T \subseteq NodesOver(T), NEW x \in T, NEW y \in T, NEW c \in T,
         x.token = NoToken, y.token = NoToken,
         y.children = Append(x.children, c), NEW n \in Nat
  PROVE  Adopts(x, y, c, n)
  <1> DEFINE a == <<x>>
             b == <<y>>
             d == <<c>>
             k == x.children
  <1>1. a \in Seq(T) /\ b \in Seq(T) /\ d \in Seq(T)
        /\ Opened(a) = Below(x) /\ Opened(b) = Below(y)
    BY OpenedSingle
  <1>2. k \in Seq(T) /\ Below(x) = k
    BY DEF NodesOver, Below
  <1>3. Below(y) = k \o d
    <2>1. Below(y) = Append(k, c)
      BY DEF Below
    <2> HIDE DEF k, d
    <2>2. Append(k, c) = k \o <<c>>
      BY <1>2, ConcatIs
    <2> QED
      BY <2>1, <2>2 DEF d
  <1> HIDE DEF a, b, d, k
  <1>4. /\ OpenedOften(b, n + 1) = OpenedOften(Opened(b), n)
        /\ OpenedOften(a, n + 1) = OpenedOften(Opened(a), n)
    BY <1>1, OftenFirst
  <1>5. OpenedOften(k \o d, n) = OpenedOften(k, n) \o OpenedOften(d, n)
    BY <1>1, <1>2, OftenConcat
  <1> QED
    BY <1>1, <1>2, <1>3, <1>4, <1>5 DEF a, b, d, Adopts

\* Trees under construction: the last one, and the ones before it.
LEMMA OftenLast ==
  ASSUME NEW T, T \subseteq NodesOver(T), NEW s \in Seq(T), NEW x \in T, NEW n \in Nat
  PROVE  /\ OpenedOften(s, n) \in Seq(T)
         /\ OpenedOften(Append(s, x), n) = OpenedOften(s, n) \o OpenedOften(<<x>>, n)
  <1> DEFINE d == <<x>>
  <1>1. d \in Seq(T) /\ Append(s, x) = s \o d
    <2>1. Append(s, x) = s \o <<x>>
      BY ConcatIs
    <2> QED
      BY <2>1
  <1> HIDE DEF d
  <1>2. OpenedOften(s \o d, n) = OpenedOften(s, n) \o OpenedOften(d, n)
    BY <1>1, OftenConcat
  <1> QED
    BY <1>1, <1>2, OftenIs DEF d

\* When y has more leaves than x, and takes its place at the end of s.
Replaces(T, s, x, n, y, m) ==
    Closed(OpenedOften(Append(s, x), n)) =>
    \A more \in Seq(T) :
        OpenedOften(<<y>>, m) = OpenedOften(<<x>>, n) \o more =>
        OpenedOften(Append(s, y), m) = OpenedOften(Append(s, x), n) \o more

LEMMA OftenReplaced ==
  ASSUME NEW T, T \subseteq NodesOver(T), NEW s \in Seq(T), NEW x \in T, NEW y \in T,
         NEW n \in Nat, NEW m \in Nat, m >= n
  PROVE  Replaces(T, s, x, n, y, m)
  <1> DEFINE a == OpenedOften(s, n)
             b == OpenedOften(<<x>>, n)
  <1>1. a \in Seq(T) /\ b \in Seq(T)
    BY OftenIs, OftenSingle
  <1>2. OpenedOften(Append(s, x), n) = a \o b
    BY OftenLast
  <1>3. OpenedOften(Append(s, y), m) = OpenedOften(s, m) \o OpenedOften(<<y>>, m)
    BY OftenLast
  <1> HIDE DEF a, b
  <1>4. Closed(a \o b) => OpenedOften(s, m) = a
    BY <1>1, ClosedIs, OftenClosed DEF a
  <1>5. \A more \in Seq(T) : (a \o b) \o more = a \o (b \o more)
    BY <1>1, ConcatIs
  <1> QED
    BY <1>2, <1>3, <1>4, <1>5 DEF b, Replaces

\* The nodes hold these words, each one with its place.
AreText(nodes, words) ==
    TokensOf(nodes) = words /\ \A i \in DOMAIN words : nodes[i].at = i

LEMMA AreTextIs ==
  ASSUME NEW T, NEW s \in Seq(T), NEW words \in Seq(Tokens), AreText(s, words)
  PROVE  /\ Closed(s) /\ Len(s) = Len(words)
         /\ \A x \in T, w \in Tokens :
               x.token = w /\ x.at = Len(words) + 1 =>
               AreText(Append(s, x), Append(words, w))
  <1>1. NoToken \notin Tokens
    BY DEF NoToken, Tokens, Keywords
  <1>2. Len(s) = Len(words) /\ \A i \in 1 .. Len(s) : s[i].token = words[i] /\ s[i].at = i
    <2>1. DOMAIN TokensOf(s) = DOMAIN s /\ \A i \in DOMAIN s : TokensOf(s)[i] = s[i].token
      BY DEF TokensOf
    <2>2. DOMAIN s = 1 .. Len(s) /\ DOMAIN words = 1 .. Len(words)
          /\ Len(s) \in Nat /\ Len(words) \in Nat
      OBVIOUS
    <2>3. 1 .. Len(s) = 1 .. Len(words)
      BY <2>1, <2>2 DEF AreText
    <2>4. Len(s) = Len(words)
      <3>1. \A m, n \in Nat : m < n => n \in 1 .. n /\ n \notin 1 .. m
        OBVIOUS
      <3>2. ~(Len(s) < Len(words)) /\ ~(Len(words) < Len(s))
        BY <2>2, <2>3, <3>1
      <3>3. \A m, n \in Nat : ~(m < n) /\ ~(n < m) => m = n
        OBVIOUS
      <3>4. Len(s) \in Nat /\ Len(words) \in Nat
        OBVIOUS
      <3> QED
        BY ONLY <3>2, <3>3, <3>4
    <2> QED
      BY <2>1, <2>2, <2>4 DEF AreText
  <1>3. Closed(s)
    BY <1>1, <1>2 DEF Closed
  <1>4. ASSUME NEW x \in T, NEW w \in Tokens, x.token = w, x.at = Len(words) + 1
        PROVE  AreText(Append(s, x), Append(words, w))
    <2> DEFINE a == Append(s, x)
               b == Append(words, w)
               n == Len(words)
    <2>1. /\ n \in Nat /\ a \in Seq(T) /\ DOMAIN a = 1 .. n + 1 /\ a[n + 1] = x
          /\ \A i \in 1 .. n : a[i] = s[i]
      BY <1>2
    <2>2. /\ b \in Seq(Tokens) /\ Len(b) = n + 1 /\ DOMAIN b = 1 .. n + 1
          /\ b[n + 1] = w /\ \A i \in 1 .. n : b[i] = words[i]
      OBVIOUS
    <2> HIDE DEF a, b, n
    <2>3. \A i \in 1 .. n + 1 : a[i].token = b[i] /\ a[i].at = i
      <3> TAKE i \in 1 .. n + 1
      <3>1. i \in 1 .. n \/ i = n + 1
        BY <2>1
      <3> QED
        BY <1>2, <1>4, <2>1, <2>2, <3>1 DEF n
    <2>4. b = [i \in 1 .. n + 1 |-> b[i]]
      BY <2>2
    <2>5. TokensOf(a) = b
      BY <2>1, <2>3, <2>4 DEF TokensOf
    <2> QED
      BY <2>2, <2>3, <2>5 DEF AreText, a, b
  <1> QED
    BY <1>2, <1>3, <1>4

-----------------------------------------------------------------------------
(* Steps of the parser.                                                    *)

Terminals == {"Identifier", "Literal"}

\* A terminal has one block, and a declaration starts with its keyword.
Begins(frame) ==
    /\ frame.class \in Terminals => frame.rest \in {<<>>, Body(frame.class)}
    /\ HasStart(frame.rest) => frame.rest = Body(frame.class)

LEMMA BodyIs ==
  /\ \A c \in Terminals :
        Body(c) # <<>> /\ Head(Body(c)).kind = "expect" /\ Tail(Body(c)) = <<>>
  /\ \A c \in Declarations :
        Body(c) # <<>> /\ Head(Body(c)).kind = "start" /\ ~HasStart(Tail(Body(c)))
  /\ ~HasStart(<<>>)
  <1>1. \A c \in Terminals :
           Body(c) # <<>> /\ Head(Body(c)).kind = "expect" /\ Tail(Body(c)) = <<>>
    <2>1. Body("Identifier") = <<Expect("identifier")>> /\ Body("Literal") = <<Expect("literal")>>
      BY DEF Body, Identifier, Literal
    <2>2. \A t : /\ <<Expect(t)>> # <<>> /\ Head(<<Expect(t)>>) = Expect(t)
                 /\ Tail(<<Expect(t)>>) = <<>>
      OBVIOUS
    <2>3. \A t : Expect(t).kind = "expect"
      BY DEF Expect, Block
    <2> QED
      BY <2>1, <2>2, <2>3 DEF Terminals
  <1>2. \A c \in Declarations :
           Body(c) # <<>> /\ Head(Body(c)).kind = "start" /\ ~HasStart(Tail(Body(c)))
    <2>1. /\ Body("ParameterDeclaration") = <<Start("PARAM"), Need("DeclaratorList"), Expect(";")>>
          /\ Body("VariableDeclaration") = <<Start("VAR"), Need("DeclaratorList"), Expect(";")>>
          /\ Body("ConstantDeclaration") = <<Start("CONST"), Need("InitDeclaratorList"), Expect(";")>>
      BY DEF Body, ParameterDeclaration, VariableDeclaration, ConstantDeclaration
    <2>2. \A t, c, e :
             /\ <<Start(t), Need(c), Expect(e)>> # <<>>
             /\ Head(<<Start(t), Need(c), Expect(e)>>) = Start(t)
             /\ Tail(<<Start(t), Need(c), Expect(e)>>) = <<Need(c), Expect(e)>>
      OBVIOUS
    <2>3. \A t, c, e : /\ Start(t).kind = "start"
                       /\ ~HasStart(<<Need(c), Expect(e)>>)
      <3>1. \A t, c, e : /\ Start(t).kind = "start" /\ Need(c).kind = "need"
                         /\ Expect(e).kind = "expect"
        BY DEF Start, Need, Expect, Block
      <3>2. \A a, b : a.kind # "start" /\ b.kind # "start" => ~HasStart(<<a, b>>)
        BY DEF HasStart
      <3> QED
        BY <3>1, <3>2
    <2>4. ASSUME NEW c \in Declarations
          PROVE  Body(c) # <<>> /\ Head(Body(c)).kind = "start"
                 /\ ~HasStart(Tail(Body(c)))
      <3>1. \E t, d : Body(c) = <<Start(t), Need(d), Expect(";")>>
        BY <2>1 DEF Declarations
      <3>2. PICK t, d : Body(c) = <<Start(t), Need(d), Expect(";")>>
        BY <3>1
      <3> DEFINE list == <<Start(t), Need(d), Expect(";")>>
      <3>3. list # <<>> /\ Head(list) = Start(t) /\ Tail(list) = <<Need(d), Expect(";")>>
        BY <2>2
      <3>4. Body(c) = list
        BY <3>2
      <3> HIDE DEF list
      <3> QED
        BY <2>3, <3>3, <3>4
    <2> QED
      BY <2>4
  <1>3. ~HasStart(<<>>)
    BY DEF HasStart
  <1> QED
    BY <1>1, <1>2, <1>3

\* The innermost activation, by the block it is about to execute.
LEMMA BeginsIs ==
  ASSUME NEW frame \in Frames, Begins(frame), frame.rest # <<>>
  PROVE  /\ Head(frame.rest).kind # "start" => ~HasStart(frame.rest)
         /\ ~HasStart(Tail(frame.rest))
         /\ frame.class \in Terminals =>
               Head(frame.rest).kind = "expect" /\ Tail(frame.rest) = <<>>
  <1> DEFINE c == frame.class
             r == frame.rest
  <1>1. c \in Classes /\ r \in Seq(Blocks) /\ r # <<>>
    BY DEF Frames
  <1>2. /\ c \in Terminals => r \in {<<>>, Body(c)}
        /\ HasStart(r) => r = Body(c)
    BY DEF Begins
  <1> HIDE DEF c, r
  <1>3. HasStart(Body(c)) => c \in Declarations
    BY <1>1, BodyType
  <1>4. HasStart(Tail(r)) => HasStart(r)
    BY <1>1, TailType
  <1> QED
    BY <1>1, <1>2, <1>3, <1>4, BodyIs DEF c, r

\* What a step does to the activations: one is added, the innermost one goes
\* on, it returns to the one below it, or all of them stay.
Enters ==
    /\ Top.rest # <<>> /\ Current.class \in Classes
    /\ frames' = Append(frames, Activation(Current.class))
    /\ consumed' = consumed /\ errors' = errors /\ answer' = "none"

Continues(rest) ==
    /\ rest \in Seq(Blocks) /\ ~HasStart(rest)
    /\ frames' = Append(Front(frames), Frame(Top.class, rest))
    /\ Top.class \in Terminals =>
          rest = <<>> /\ Top.rest # <<>> /\ consumed' # consumed
    /\ \/ consumed' = consumed
       \/ consumed' = consumed + 1 /\ ahead \in Tokens /\ Top.rest # <<>>
    /\ errors' = errors /\ answer' = "none"

Returns ==
    LET parent == frames[Len(frames) - 1]
    IN /\ Len(frames) > 1 /\ parent.rest # <<>> /\ answer \in {"true", "false"}
       /\ Head(parent.rest).kind \in {"need", "optional"}
       /\ \/ /\ frames' = Append(Front(Front(frames)),
                                 Frame(parent.class, Tail(parent.rest)))
             /\ answer' = "none"
          \/ answer = "false" /\ frames' = Front(frames) /\ errors > 0
       /\ consumed' = consumed /\ errors' = errors

Stays ==
    /\ frames' = frames /\ consumed' = consumed
    /\ errors' = errors \/ errors' = errors + 1
    /\ answer' = "false" /\ errors' = 0 => answer = "false" \/ HasStart(Top.rest)

LEMMA NextIs ==
  ASSUME ParserInv, Begins(Top), Next
  PROVE  Enters \/ (\E rest : Continues(rest)) \/ Returns \/ Stays
  <1>1. TypeOK /\ Chain(frames) /\ Reported /\ errors \in Nat /\ consumed \in Nat
    BY LengthAssumption DEF ParserInv, TypeOK
  <1>2. ASSUME Top.rest # <<>>
        PROVE  /\ Top.rest \in Seq(Blocks) /\ Current \in Blocks
               /\ Current.tokens \subseteq Tokens /\ Tail(Top.rest) \in Seq(Blocks)
               /\ ~HasStart(Tail(Top.rest))
               /\ Current.kind # "start" => ~HasStart(Top.rest)
               /\ Current.kind = "start" => HasStart(Top.rest)
               /\ Top.class \in Terminals =>
                     Current.kind = "expect" /\ Tail(Top.rest) = <<>>
    <2>1. /\ Top \in Frames /\ Top.rest \in Seq(Blocks)
          /\ Current \in Blocks /\ Current.tokens \subseteq Tokens
          /\ Tail(Top.rest) \in Seq(Blocks)
          /\ Current.kind = "start" => HasStart(Top.rest)
      BY <1>1, <1>2, CurrentIs
    <2>2. /\ Current.kind # "start" => ~HasStart(Top.rest)
          /\ ~HasStart(Tail(Top.rest))
          /\ Top.class \in Terminals =>
                Current.kind = "expect" /\ Tail(Top.rest) = <<>>
      <3>1. Top \in Frames
        BY <2>1
      <3> DEFINE t == Top
      <3>2. t \in Frames /\ Begins(t) /\ t.rest # <<>> /\ Current = Head(t.rest)
        BY <1>2, <3>1 DEF Current
      <3> HIDE DEF t
      <3>3. /\ Head(t.rest).kind # "start" => ~HasStart(t.rest)
            /\ ~HasStart(Tail(t.rest))
            /\ t.class \in Terminals => Head(t.rest).kind = "expect" /\ Tail(t.rest) = <<>>
        BY <3>2, BeginsIs
      <3> QED
        BY <3>2, <3>3 DEF t
    <2> QED
      BY <2>1, <2>2
  <1>3. CASE Enter
    <2>1. /\ Top.rest # <<>> /\ Current.kind \in {"need", "optional"} /\ answer = "none"
          /\ frames' = Append(frames, Activation(Current.class))
          /\ UNCHANGED <<ahead, consumed, answer, errors, wanted, verdict>>
      BY <1>3 DEF Enter, At
    <2>2. Current.class \in Classes
      BY <1>2, <2>1 DEF Blocks, Declarations, Classes
    <2> QED
      BY <2>1, <2>2 DEF Enters
  <1>4. ASSUME Refuse PROVE Stays
    <2>1. /\ frames' = frames /\ consumed' = consumed /\ errors' = errors + 1
      BY <1>4 DEF Refuse, Return
    <2> QED
      BY <1>1, <2>1 DEF Stays
  <1>5. CASE ExpectToken
    <2>1. Top.rest # <<>> /\ answer = "none"
      BY <1>5 DEF ExpectToken, At
    <2>2. CASE /\ ahead \in Current.tokens /\ Consume /\ Resume(Tail(Top.rest))
               /\ UNCHANGED <<answer, errors, wanted, verdict>>
      <3>1. Continues(Tail(Top.rest))
        BY <1>1, <1>2, <2>1, <2>2 DEF Continues, Resume, Consume
      <3> QED
        BY <3>1
    <2>3. CASE ahead \notin Current.tokens /\ Refuse
      BY <1>4, <2>3
    <2> QED
      BY <1>5, <2>2, <2>3 DEF ExpectToken
  <1>6. CASE StartDeclaration
    <2>1. Top.rest # <<>> /\ answer = "none" /\ Current.kind = "start"
      BY <1>6 DEF StartDeclaration, At
    <2>2. CASE /\ ahead \in Current.tokens /\ Consume /\ Resume(Tail(Top.rest))
               /\ UNCHANGED <<answer, errors, wanted, verdict>>
      <3>1. Continues(Tail(Top.rest))
        BY <1>1, <1>2, <2>1, <2>2 DEF Continues, Resume, Consume
      <3> QED
        BY <3>1
    <2>3. CASE Return("false") /\ UNCHANGED <<errors, wanted>>
      <3>1. Stays
        BY <1>2, <2>1, <2>3 DEF Stays, Return
      <3> QED
        BY <3>1
    <2> QED
      BY <1>6, <2>2, <2>3 DEF StartDeclaration
  <1>7. CASE RepeatChild
    <2>1. /\ Top.rest # <<>> /\ answer = "none" /\ Current.kind = "repeat"
          /\ UNCHANGED <<answer, errors, wanted, verdict>>
      BY <1>7 DEF RepeatChild, At
    <2>2. CASE ahead \in Current.tokens /\ Consume
               /\ Resume(<<Need(Current.class)>> \o Top.rest)
      <3> DEFINE list == <<Need(Current.class)>> \o Top.rest
      <3>1. Current.class \in Classes \ Declarations
        BY <1>2, <2>1 DEF Blocks
      <3>2. <<Need(Current.class)>> \in Seq(PlainBlocks)
        BY <3>1, PlainType, ListType
      <3>3. list \in Seq(Blocks) /\ ~HasStart(list)
        BY <1>2, <2>1, <3>2, PrefixType
      <3>4. Resume(list)
        BY <2>2
      <3> HIDE DEF list
      <3>5. Continues(list)
        BY <1>1, <1>2, <2>1, <2>2, <3>3, <3>4 DEF Continues, Resume, Consume
      <3> QED
        BY <3>5
    <2>3. CASE Resume(Tail(Top.rest)) /\ UNCHANGED <<ahead, consumed>>
      <3>1. Continues(Tail(Top.rest))
        BY <1>1, <1>2, <2>1, <2>3 DEF Continues, Resume
      <3> QED
        BY <3>1
    <2> QED
      BY <1>7, <2>2, <2>3 DEF RepeatChild
  <1>8. CASE ContinueExpression
    <2>1. /\ Top.rest # <<>> /\ answer = "none" /\ Current.kind = "continue"
          /\ UNCHANGED <<answer, errors, wanted, verdict>>
      BY <1>8 DEF ContinueExpression, At
    <2>2. CASE ahead \in Current.tokens /\ Consume
               /\ Resume(<<Need(Current.class)>> \o Tail(Top.rest))
      <3> DEFINE list == <<Need(Current.class)>> \o Tail(Top.rest)
      <3>1. Current.class \in Classes \ Declarations
        BY <1>2, <2>1 DEF Blocks
      <3>2. <<Need(Current.class)>> \in Seq(PlainBlocks)
        BY <3>1, PlainType, ListType
      <3>3. list \in Seq(Blocks) /\ ~HasStart(list)
        BY <1>2, <2>1, <3>2, PrefixType
      <3>4. Resume(list)
        BY <2>2
      <3> HIDE DEF list
      <3>5. Continues(list)
        BY <1>1, <1>2, <2>1, <2>2, <3>3, <3>4 DEF Continues, Resume, Consume
      <3> QED
        BY <3>5
    <2>3. CASE Resume(Tail(Top.rest)) /\ UNCHANGED <<ahead, consumed>>
      <3>1. Continues(Tail(Top.rest))
        BY <1>1, <1>2, <2>1, <2>3 DEF Continues, Resume
      <3> QED
        BY <3>1
    <2> QED
      BY <1>8, <2>2, <2>3 DEF ContinueExpression
  <1>9. CASE SkipSign
    <2>1. /\ Top.rest # <<>> /\ answer = "none" /\ Current.kind = "sign"
          /\ UNCHANGED <<answer, errors, wanted>>
      BY <1>9 DEF SkipSign, At
    <2>2. CASE ahead \in Current.tokens /\ Consume /\ Resume(Tail(Top.rest))
      <3>1. Continues(Tail(Top.rest))
        BY <1>1, <1>2, <2>1, <2>2 DEF Continues, Resume, Consume
      <3> QED
        BY <3>1
    <2>3. CASE Resume(Tail(Top.rest)) /\ UNCHANGED <<ahead, consumed, verdict>>
      <3>1. Continues(Tail(Top.rest))
        BY <1>1, <1>2, <2>1, <2>3 DEF Continues, Resume
      <3> QED
        BY <3>1
    <2>4. CASE UNCHANGED <<ahead, consumed, frames>>
      <3>1. Stays
        BY <2>1, <2>4 DEF Stays
      <3> QED
        BY <3>1
    <2> QED
      BY <1>9, <2>2, <2>3, <2>4 DEF SkipSign
  <1>10. CASE TakeBranch
    <2>1. Top.rest # <<>> /\ answer = "none" /\ Current.kind = "branch"
      BY <1>10 DEF TakeBranch, At
    <2>2. CASE /\ ahead \in Current.tokens
               /\ Resume(Alternative(Current.class, ahead) \o Tail(Top.rest))
               /\ UNCHANGED <<ahead, consumed, answer, errors, wanted, verdict>>
      <3> DEFINE blocks == Alternative(Current.class, ahead)
                 list == blocks \o Tail(Top.rest)
      <3>1. /\ Current.class \in {"Statement", "PrimaryExpression"}
            /\ ahead \in {"RETURN", "literal", "(", "identifier"}
        BY <1>2, <2>1, <2>2 DEF Blocks
      <3>2. blocks \in Seq(PlainBlocks)
        BY <3>1, AlternativeType
      <3>3. Resume(list)
        BY <2>2
      <3> HIDE DEF blocks
      <3>4. list \in Seq(Blocks) /\ ~HasStart(list)
        BY <1>2, <2>1, <3>2, PrefixType
      <3> HIDE DEF list
      <3>5. Continues(list)
        BY <1>1, <1>2, <2>1, <2>2, <3>3, <3>4 DEF Continues, Resume
      <3> QED
        BY <3>5
    <2>3. CASE ahead \notin Current.tokens /\ Refuse
      BY <1>4, <2>3
    <2> QED
      BY <1>10, <2>2, <2>3 DEF TakeBranch
  <1>11. CASE Succeed
    <2>1. Stays
      BY <1>11 DEF Succeed, Return, Stays
    <2> QED
      BY <2>1
  <1>12. CASE ReturnToParent
    <2> DEFINE p == Last(Front(frames))
    <2>1. frames \in Seq(Frames) /\ frames # <<>> /\ Len(frames) > 1
          /\ answer \in {"true", "false"}
          /\ UNCHANGED <<ahead, consumed, errors, wanted, verdict>>
      BY <1>1, <1>12 DEF ReturnToParent, TypeOK
    <2>2. /\ p = frames[Len(frames) - 1] /\ p.rest # <<>>
          /\ Head(p.rest).kind \in {"need", "optional"}
      BY <1>1, <2>1, DropLast
    <2>3. \/ /\ frames' = Append(Front(Front(frames)), Frame(p.class, Tail(p.rest)))
             /\ answer' = "none"
          \/ answer = "false" /\ Head(p.rest).kind = "need" /\ frames' = Front(frames)
      BY <1>12 DEF ReturnToParent
    <2>4. answer = "false" /\ Head(p.rest).kind = "need" => errors > 0
      BY <1>1, <2>2 DEF Reported
    <2> HIDE DEF p
    <2>5. Returns
      BY <2>1, <2>2, <2>3, <2>4 DEF Returns
    <2> QED
      BY <2>5
  <1>13. CASE Finish
    <2>1. /\ frames' = frames /\ consumed' = consumed /\ answer' = answer
          /\ errors' = errors \/ errors' = errors + 1
      BY <1>13 DEF Finish
    <2>2. Stays
      BY <2>1 DEF Stays
    <2> QED
      BY <2>2
  <1> QED
    BY <1>3, <1>5, <1>6, <1>7, <1>8, <1>9, <1>10, <1>11, <1>12, <1>13 DEF Next

-----------------------------------------------------------------------------
(* The trees under construction.                                           *)

\* A node belongs to its activation: only a terminal that is done holds a
\* token, and neither a terminal nor a declaration that has not found its
\* keyword has a child.
Fits(node, frame) ==
    /\ node.class = frame.class
    /\ Begins(frame)
    /\ node.token # NoToken => frame.class \in Terminals /\ frame.rest = <<>>
    /\ frame.class \in Terminals \/ HasStart(frame.rest) => node.children = <<>>

\* One tree for each activation, of nodes in T.  Of n nodes ever made those
\* from an activation inwards are at most n + 1 - i, and so many levels the
\* i-th tree has.
Trees(T, nodes, stack, n) ==
    /\ T \subseteq NodesOver(T)
    /\ nodes \in Seq(T) /\ stack \in Seq(Frames)
    /\ Len(nodes) = Len(stack)
    /\ n \in Nat /\ n >= Len(nodes)
    /\ \A i \in 1 .. Len(nodes) :
          /\ Fits(nodes[i], stack[i])
          /\ Closed(OpenedOften(<<nodes[i]>>, n + 1 - i))

\* A new node joins the ones there are.
LEMMA ForestGrows ==
  ASSUME NEW T, T \subseteq NodesOver(T), NEW y \in NodesOver(T)
  PROVE  /\ T \cup {y} \subseteq NodesOver(T \cup {y})
         /\ Seq(T) \subseteq Seq(T \cup {y})
  <1> DEFINE U == T \cup {y}
  <1>1. T \subseteq U /\ \A z \in U : z \in NodesOver(T)
    OBVIOUS
  <1> HIDE DEF U
  <1>2. Seq(T) \subseteq Seq(U)
    BY <1>1
  <1>3. NodesOver(T) \subseteq NodesOver(U)
    BY <1>2 DEF NodesOver
  <1> QED
    BY <1>1, <1>2, <1>3 DEF U

\* The innermost tree, and the ones without it.
LEMMA TreesDropped ==
  ASSUME NEW T, NEW s, NEW stack, NEW n, Trees(T, s, stack, n), s # <<>>
  PROVE  /\ Trees(T, Front(s), Front(stack), n)
         /\ Last(s) \in T /\ s = Append(Front(s), Last(s)) /\ Last(s) = s[Len(s)]
         /\ Last(stack) \in Frames /\ stack = Append(Front(stack), Last(stack))
         /\ Fits(Last(s), Last(stack))
         /\ Len(s) \in Nat /\ Len(Front(s)) = Len(s) - 1
         /\ n - Len(Front(s)) \in Nat /\ n - Len(Front(s)) >= 1
         /\ Closed(OpenedOften(<<Last(s)>>, n - Len(Front(s))))
  <1>1. /\ T \subseteq NodesOver(T) /\ s \in Seq(T) /\ stack \in Seq(Frames)
        /\ Len(s) = Len(stack) /\ n \in Nat /\ n >= Len(s)
        /\ \A i \in 1 .. Len(s) : /\ Fits(s[i], stack[i])
                                  /\ Closed(OpenedOften(<<s[i]>>, n + 1 - i))
    BY DEF Trees
  <1>2. stack # <<>> /\ Len(s) \in Nat /\ Len(s) >= 1
    BY <1>1
  <1> DEFINE f == Front(s)
             x == Last(s)
             g == Front(stack)
             a == Last(stack)
             k == Len(s)
  <1>3. /\ f \in Seq(T) /\ x \in T /\ s = Append(f, x) /\ Len(f) = k - 1 /\ x = s[k]
        /\ \A i \in 1 .. k - 1 : f[i] = s[i]
    BY <1>1, FrontLast
  <1>4. /\ g \in Seq(Frames) /\ a \in Frames /\ stack = Append(g, a) /\ Len(g) = k - 1
        /\ a = stack[k] /\ \A i \in 1 .. k - 1 : g[i] = stack[i]
    BY <1>1, <1>2, FrontLast
  <1> HIDE DEF f, x, g, a, k
  <1>5. Trees(T, f, g, n)
    <2>1. n >= Len(f) /\ \A i \in 1 .. k - 1 : i \in 1 .. k
      BY <1>1, <1>2, <1>3 DEF k
    <2> QED
      BY <1>1, <1>3, <1>4, <2>1 DEF Trees, k
  <1>6. k \in 1 .. k /\ n + 1 - k = n - Len(f) /\ n - Len(f) \in Nat /\ n - Len(f) >= 1
    <2>1. k \in Nat /\ k >= 1 /\ n \in Nat /\ n >= k
      BY <1>1, <1>2 DEF k
    <2>2. Len(f) = k - 1
      BY <1>3
    <2> QED
      BY ONLY <2>1, <2>2
  <1>7. Fits(x, a) /\ Closed(OpenedOften(<<x>>, n - Len(f)))
    BY <1>1, <1>3, <1>4, <1>6 DEF k
  <1> QED
    BY <1>2, <1>3, <1>4, <1>5, <1>6, <1>7 DEF f, x, g, a, k

\* One more tree.
LEMMA TreesAdded ==
  ASSUME NEW T, NEW s, NEW stack, NEW n, Trees(T, s, stack, n),
         NEW U, U \subseteq NodesOver(U), s \in Seq(U), NEW y \in U, NEW b \in Frames,
         NEW m \in Nat, m >= n, m >= Len(s) + 1, Fits(y, b),
         Closed(OpenedOften(<<y>>, m - Len(s)))
  PROVE  Trees(U, Append(s, y), Append(stack, b), m)
  <1> DEFINE k == Len(s)
             t == Append(s, y)
             g == Append(stack, b)
  <1>1. /\ stack \in Seq(Frames)
        /\ Len(s) = Len(stack) /\ n \in Nat /\ n >= Len(s)
        /\ \A i \in 1 .. Len(s) : /\ Fits(s[i], stack[i])
                                  /\ Closed(OpenedOften(<<s[i]>>, n + 1 - i))
    BY DEF Trees
  <1>2. /\ k \in Nat /\ t \in Seq(U) /\ Len(t) = k + 1 /\ t[k + 1] = y
        /\ \A i \in 1 .. k : t[i] = s[i]
    BY AppendIs
  <1>3. /\ g \in Seq(Frames) /\ Len(g) = k + 1 /\ g[k + 1] = b
        /\ \A i \in 1 .. k : g[i] = stack[i]
    BY <1>1, AppendIs
  <1> HIDE DEF t, g
  <1>4. \A i \in 1 .. k : Closed(OpenedOften(<<s[i]>>, m + 1 - i))
    <2> TAKE i \in 1 .. k
    <2> DEFINE z == <<s[i]>>
               p == n + 1 - i
               q == m + 1 - i
    <2>1. z \in Seq(U)
      BY <1>2
    <2>2. p \in Nat /\ q \in Nat /\ q >= p
      BY <1>1
    <2>3. Closed(OpenedOften(z, p))
      BY <1>1
    <2> HIDE DEF z, p, q
    <2>4. OpenedOften(z, q) = OpenedOften(z, p)
      BY <2>1, <2>2, <2>3, OftenClosed
    <2> QED
      BY <2>3, <2>4 DEF z, q
  <1>5. m + 1 - (k + 1) = m - k
    BY <1>2
  <1> HIDE DEF k
  <1>6. \A i \in 1 .. k + 1 : /\ Fits(t[i], g[i])
                              /\ Closed(OpenedOften(<<t[i]>>, m + 1 - i))
    <2> TAKE i \in 1 .. k + 1
    <2>1. CASE i = k + 1
      BY <1>2, <1>3, <1>5, <2>1 DEF k
    <2>2. CASE i # k + 1
      <3>1. i \in 1 .. k
        BY <1>2, <2>2
      <3> QED
        BY <1>1, <1>2, <1>3, <1>4, <3>1 DEF k
    <2> QED
      BY <2>1, <2>2
  <1> QED
    BY <1>2, <1>3, <1>6 DEF Trees, t, g, k

-----------------------------------------------------------------------------
(* The leaves are the text.                                                *)

\* Which trees there are, who has failed without a message, and what the
\* leaves are.
Grown ==
    /\ text \in Seq(Tokens) /\ Len(text) = consumed
    /\ \E T : Trees(T, growing, frames, node_index_incrementer)
    /\ answer = "false" /\ errors = 0 => HasStart(Top.rest)
    /\ errors = 0 => AreText(OpenedOften(growing, node_index_incrementer), text)

TreeInv == ParserInv /\ alphabet \in Alphabets /\ Grown

LEMMA TreeStart == TreeInit => TreeInv
  <1> SUFFICES ASSUME TreeInit PROVE TreeInv
    OBVIOUS
  <1>1. ParserInv /\ alphabet \in Alphabets
    BY ParserInit DEF TreeInit
  <1> DEFINE c == "FunctionDeclaration"
             x == [class |-> c, id |-> 0, token |-> NoToken, at |-> 0, children |-> <<>>]
             a == Activation(c)
             T == {x}
  <1>2. /\ node_index_incrementer = 1 /\ growing = <<x>> /\ text = <<>>
        /\ frames = <<a>> /\ consumed = 0 /\ errors = 0 /\ answer = "none"
    BY DEF TreeInit, Init
  <1>3. x.token = NoToken /\ x.children = <<>> /\ x.class = c /\ x \in T
    OBVIOUS
  <1>4. T \subseteq NodesOver(T)
    BY DEF NodesOver, Classes
  <1>5. a \in Frames /\ a.class = c /\ a.rest = Body(c)
    <2>1. c \in Classes
      BY DEF Classes
    <2>2. Body(c) \in Seq(Blocks)
      BY <2>1, BodyType
    <2> QED
      BY <2>1, <2>2 DEF Activation, Frame, Frames
  <1> HIDE DEF x, T, a
  <1>6. Fits(x, a)
    BY <1>3, <1>5 DEF Fits, Begins
  <1>7. OpenedOften(<<x>>, 1) = <<>>
    BY <1>3, <1>4, OftenSingle, 1 \in Nat
  <1>8. Closed(<<>>) /\ AreText(<<>>, <<>>)
    BY DEF Closed, AreText, TokensOf
  <1>9. Trees(T, growing, frames, 1)
    <2>1. growing \in Seq(T) /\ Len(growing) = 1 /\ growing[1] = x
      BY <1>2, <1>3
    <2>2. frames \in Seq(Frames) /\ Len(frames) = 1 /\ frames[1] = a
      BY <1>2, <1>5
    <2>3. \A i \in 1 .. 1 : i = 1
      OBVIOUS
    <2>4. 1 + 1 - 1 = 1 /\ 1 \in Nat /\ 1 >= 1
      OBVIOUS
    <2>5. Closed(OpenedOften(<<x>>, 1))
      BY <1>7, <1>8
    <2> QED
      BY <1>4, <1>6, <2>1, <2>2, <2>3, <2>4, <2>5 DEF Trees
  <1>10. Grown
    <2>1. text \in Seq(Tokens) /\ Len(text) = consumed
      BY <1>2
    <2>2. AreText(OpenedOften(growing, node_index_incrementer), text)
      BY <1>2, <1>7, <1>8
    <2> QED
      BY <1>2, <1>9, <2>1, <2>2 DEF Grown
  <1> QED
    BY <1>1, <1>10 DEF TreeInv

\* A child without leaves is added.
LEMMA EnterKeeps ==
  ASSUME TreeInv, Enters, GrowChild
  PROVE  Grown'
  <1>1. PICK T : Trees(T, growing, frames, node_index_incrementer)
    BY DEF TreeInv, Grown
  <1> DEFINE n == node_index_incrementer
             k == Len(growing)
             c == NewNode(Current.class, NoToken, 0)
             b == Activation(Current.class)
             U == T \cup {c}
             m == node_index_incrementer'
  <1>2. /\ T \subseteq NodesOver(T) /\ growing \in Seq(T) /\ n \in Nat /\ n >= k /\ k \in Nat
    BY <1>1 DEF Trees
  <1>3. /\ Current.class \in Classes /\ frames' = Append(frames, b)
        /\ consumed' = consumed /\ errors' = errors /\ answer' = "none"
        /\ growing' = Append(growing, c) /\ text' = text /\ m = n + Numbers(Current.class)
    BY DEF Enters, GrowChild
  <1>4. /\ c \in NodesOver(T) /\ c.class = Current.class /\ c.token = NoToken
        /\ c.children = <<>> /\ Numbers(Current.class) \in {1, 2}
    <2> DEFINE class == Current.class
               at == 0
    <2>1. /\ class \in Classes \cup {"GenericToken"}
          /\ NoToken \in Tokens \cup {NoToken} /\ at \in Nat
          /\ node_index_incrementer \in Nat
      BY <1>2, <1>3
    <2> HIDE DEF class, at
    <2>2. /\ NewNode(class, NoToken, at) \in NodesOver(T)
          /\ NewNode(class, NoToken, at).class = class
          /\ NewNode(class, NoToken, at).token = NoToken
          /\ NewNode(class, NoToken, at).children = <<>>
          /\ Numbers(class) \in {1, 2}
      BY <2>1 DEF NewNode, NodesOver, Numbers
    <2> QED
      BY <2>2 DEF class, at
  <1>5. b \in Frames /\ b.class = Current.class /\ b.rest = Body(Current.class)
    <2>1. Body(Current.class) \in Seq(Blocks)
      BY <1>3, BodyType
    <2> QED
      BY <1>3, <2>1 DEF Activation, Frame, Frames
  <1> HIDE DEF c, b
  <1>6. U \subseteq NodesOver(U) /\ growing \in Seq(U) /\ c \in U
    BY <1>2, <1>4, ForestGrows
  <1>7. m \in Nat /\ m >= n /\ m >= k + 1 /\ m - k \in Nat /\ m - k >= 1 /\ m >= 1
    BY <1>2, <1>3, <1>4
  <1>8. Fits(c, b)
    BY <1>4, <1>5 DEF Fits, Begins
  <1> HIDE DEF U, m, n, k
  <1>9. OpenedOften(<<c>>, m - k) = <<>> /\ OpenedOften(<<c>>, m) = <<>>
    BY <1>4, <1>6, <1>7, OftenSingle
  <1>10. Closed(<<>>)
    BY DEF Closed
  <1>11. Trees(U, growing', frames', m)
    BY <1>1, <1>3, <1>5, <1>6, <1>7, <1>8, <1>9, <1>10, TreesAdded DEF k, n
  <1>12. errors = 0 => AreText(OpenedOften(growing', m), text')
    <2> SUFFICES ASSUME errors = 0
                 PROVE  AreText(OpenedOften(growing', m), text')
      OBVIOUS
    <2> DEFINE l == OpenedOften(growing, n)
    <2>1. l \in Seq(T)
      BY <1>2, OftenIs
    <2>2. AreText(l, text) /\ text \in Seq(Tokens)
      BY DEF TreeInv, Grown, n
    <2>3. Closed(l)
      BY <2>1, <2>2, AreTextIs
    <2>4. OpenedOften(growing, m) = l
      BY <1>2, <1>7, <2>3, OftenClosed
    <2>5. OpenedOften(Append(growing, c), m) = l \o <<>>
      <3>1. OpenedOften(Append(growing, c), m) =
               OpenedOften(growing, m) \o OpenedOften(<<c>>, m)
        <4>1. m \in Nat
          BY <1>7
        <4> QED
          BY ONLY <1>6, <4>1, OftenLast
      <3> QED
        BY <1>9, <2>4, <3>1
    <2> HIDE DEF l
    <2>6. l \o <<>> = l
      BY <2>1, ConcatIs
    <2> QED
      BY <1>3, <2>2, <2>5, <2>6
  <1>13. text' \in Seq(Tokens) /\ Len(text') = consumed'
    BY <1>3 DEF TreeInv, Grown
  <1> QED
    BY <1>3, <1>11, <1>12, <1>13 DEF Grown, m

\* What the innermost tree and its activation are before a token is consumed.
LEMMA InnermostIs ==
  ASSUME TreeInv, NEW T, Trees(T, growing, frames, node_index_incrementer)
  PROVE  /\ growing # <<>> /\ growing \in Seq(T) /\ T \subseteq NodesOver(T)
         /\ node_index_incrementer \in Nat
         /\ Trees(T, Front(growing), Front(frames), node_index_incrementer)
         /\ Last(growing) \in T /\ Front(growing) \in Seq(T)
         /\ growing = Append(Front(growing), Last(growing))
         /\ Top \in Frames /\ Fits(Last(growing), Top)
         /\ Len(growing) = Len(frames) /\ Len(growing) \in Nat
         /\ Len(Front(growing)) = Len(growing) - 1
         /\ Len(Front(growing)) \in Nat
         /\ node_index_incrementer - Len(Front(growing)) \in Nat
         /\ node_index_incrementer - Len(Front(growing)) >= 1
         /\ Closed(OpenedOften(<<Last(growing)>>,
                               node_index_incrementer - Len(Front(growing))))
  <1> DEFINE n == node_index_incrementer
  <1>1. /\ T \subseteq NodesOver(T) /\ growing \in Seq(T) /\ frames \in Seq(Frames)
        /\ Len(growing) = Len(frames) /\ n \in Nat
    BY DEF Trees
  <1>2. frames # <<>>
    BY DEF TreeInv, ParserInv, TypeOK
  <1>3. growing # <<>>
    BY <1>1, <1>2
  <1>4. Trees(T, growing, frames, n)
    OBVIOUS
  <1> HIDE DEF n
  <1>5. /\ Trees(T, Front(growing), Front(frames), n)
        /\ Last(growing) \in T /\ growing = Append(Front(growing), Last(growing))
        /\ Last(frames) \in Frames /\ Fits(Last(growing), Last(frames))
        /\ Len(growing) \in Nat /\ Len(Front(growing)) = Len(growing) - 1
        /\ n - Len(Front(growing)) \in Nat /\ n - Len(Front(growing)) >= 1
        /\ Closed(OpenedOften(<<Last(growing)>>, n - Len(Front(growing))))
    BY <1>3, <1>4, TreesDropped
  <1>6. Front(growing) \in Seq(T) /\ Len(Front(growing)) \in Nat
    BY <1>1, <1>3, FrontLast
  <1> QED
    BY <1>1, <1>3, <1>5, <1>6 DEF n, Top

\* A token is consumed: the innermost tree has one more leaf.
LEMMA LeafKeeps ==
  ASSUME TreeInv, NEW rest, Continues(rest), consumed' = consumed + 1, ahead \in Tokens,
         growing # <<>>, growing = Append(Front(growing), Last(growing)),
         text' = Append(text, ahead),
         NEW U, U \subseteq NodesOver(U), Front(growing) \in Seq(U), Last(growing) \in U,
         NEW y \in U, NEW leaf \in U, growing' = Append(Front(growing), y),
         leaf.token = ahead, leaf.at = consumed',
         NEW m \in Nat, m = node_index_incrementer', node_index_incrementer \in Nat,
         m >= node_index_incrementer,
         Trees(U, growing', frames', m),
         errors = 0 => OpenedOften(<<y>>, m) =
            OpenedOften(<<Last(growing)>>, node_index_incrementer) \o <<leaf>>
  PROVE  Grown'
  <1> DEFINE n == node_index_incrementer
             f == Front(growing)
             x == Last(growing)
             l == OpenedOften(growing, n)
  <1>1. text \in Seq(Tokens) /\ Len(text) = consumed
    BY DEF TreeInv, Grown
  <1>2. text' \in Seq(Tokens) /\ Len(text') = consumed'
    BY <1>1
  <1>3. errors = 0 => AreText(OpenedOften(growing', m), text')
    <2> SUFFICES ASSUME errors = 0
                 PROVE  AreText(OpenedOften(growing', m), text')
      OBVIOUS
    <2>1. AreText(l, text)
      BY DEF TreeInv, Grown
    <2>2. growing = Append(f, x) /\ growing \in Seq(U) /\ n \in Nat /\ f \in Seq(U) /\ x \in U
      <3> HIDE DEF f, x
      <3>1. f \in Seq(U) /\ x \in U /\ growing = Append(f, x)
        BY DEF f, x
      <3> QED
        BY <3>1
    <2>3. l \in Seq(U)
      BY <2>2, OftenIs
    <2>4. Closed(l)
      BY <1>1, <2>1, <2>3, AreTextIs
    <2> DEFINE more == <<leaf>>
    <2>5. more \in Seq(U) /\ OpenedOften(<<y>>, m) = OpenedOften(<<x>>, n) \o more
      <3>1. more \in Seq(U)
        BY ListType
      <3>2. OpenedOften(<<y>>, m) = OpenedOften(<<x>>, n) \o more
        OBVIOUS
      <3> QED
        BY <3>1, <3>2
    <2>6. Replaces(U, f, x, n, y, m)
      <3> HIDE DEF n, f, x
      <3>1. m >= n
        BY DEF n
      <3>2. y \in U /\ m \in Nat /\ U \subseteq NodesOver(U) /\ n \in Nat
            /\ f \in Seq(U) /\ x \in U
        BY <2>2
      <3> QED
        BY ONLY <3>1, <3>2, OftenReplaced
    <2>7. Closed(OpenedOften(Append(f, x), n)) /\ l = OpenedOften(Append(f, x), n)
      <3> HIDE DEF f, x
      <3> QED
        BY <2>2, <2>4
    <2>8. growing' = Append(f, y)
      OBVIOUS
    <2> HIDE DEF n, f, x, l
    <2>9. OpenedOften(growing', m) = l \o more
      <3> HIDE DEF more
      <3> QED
        BY ONLY <2>5, <2>6, <2>7, <2>8 DEF Replaces
    <2>10. l \o more = Append(l, leaf)
      BY <2>3, ConcatIs
    <2>11. AreText(Append(l, leaf), Append(text, ahead))
      BY <1>1, <2>1, <2>3, AreTextIs
    <2> QED
      BY <2>9, <2>10, <2>11
  <1>4. errors' = errors /\ answer' = "none"
    BY DEF Continues
  <1> QED
    BY <1>2, <1>3, <1>4 DEF Grown

\* A terminal keeps the token itself.
LEMMA TerminalKeeps ==
  ASSUME TreeInv, NEW rest, Continues(rest), consumed' = consumed + 1, ahead \in Tokens,
         Top.rest # <<>>, GrowLeaf, Top.class \in Terminals
  PROVE  Grown'
  <1>1. PICK T : Trees(T, growing, frames, node_index_incrementer)
    BY DEF TreeInv, Grown
  <1> DEFINE n == node_index_incrementer
             m == node_index_incrementer'
             f == Front(growing)
             x == Last(growing)
             k == Len(Front(growing))
             b == Frame(Top.class, rest)
             y == IF Top.class = "Identifier"
                  THEN [x EXCEPT !.token = ahead, !.at = consumed']
                  ELSE [x EXCEPT !.token = ahead, !.at = consumed', !.id = n]
             U == T \cup {y}
  <1>2. /\ growing # <<>> /\ T \subseteq NodesOver(T) /\ n \in Nat
        /\ Trees(T, f, Front(frames), n) /\ x \in T /\ f \in Seq(T)
        /\ growing = Append(f, x) /\ Top \in Frames /\ Fits(x, Top)
        /\ k \in Nat /\ n - k \in Nat /\ n - k >= 1
    BY <1>1, InnermostIs
  <1>3. /\ rest = <<>> /\ frames' = Append(Front(frames), b) /\ errors' = errors
    BY DEF Continues
  <1>4. consumed \in Nat /\ consumed' \in Nat
    BY LengthAssumption DEF TreeInv, ParserInv, TypeOK
  <1>5. growing' = Append(f, y) /\ text' = Append(text, ahead) /\ m \in {n, n + 1}
    <2>1. Top.class = "Identifier" \/ (Top.class = "Literal" /\ Top.class # "Identifier")
      BY DEF Terminals
    <2> QED
      BY <1>2, <2>1 DEF GrowLeaf
  <1>6. x \in NodesOver(T) /\ x.children = <<>> /\ x.token = NoToken /\ x.class = Top.class
    BY <1>2 DEF Fits
  <1>7. /\ y \in NodesOver(T) /\ y.token = ahead /\ y.at = consumed'
        /\ y.children = <<>> /\ y.class = Top.class
    BY <1>2, <1>4, <1>6 DEF NodesOver
  <1>8. b \in Frames /\ b.class = Top.class /\ b.rest = <<>>
    <2>1. Top.class \in Classes /\ <<>> \in Seq(Blocks)
      BY <1>2 DEF Frames
    <2> QED
      BY <1>3, <2>1 DEF Frame, Frames
  <1> HIDE DEF y, b
  <1>9. Fits(y, b)
    BY <1>7, <1>8, BodyIs DEF Fits, Begins
  <1>10. U \subseteq NodesOver(U) /\ f \in Seq(U) /\ x \in U /\ y \in U
    BY <1>2, <1>7, ForestGrows
  <1>11. m \in Nat /\ m >= n /\ m >= k + 1 /\ m - k \in Nat /\ n >= 1
    BY <1>2, <1>5
  <1>12. NoToken \notin Tokens
    BY DEF NoToken, Tokens, Keywords
  <1> DEFINE front == Front(frames)
  <1>13. Trees(T, f, front, n) /\ frames' = Append(front, b)
    BY <1>2, <1>3
  <1> HIDE DEF U, m, n, f, x, k, front
  <1>14. /\ OpenedOften(<<y>>, m) = <<y>> /\ OpenedOften(<<y>>, m - k) = <<y>>
    BY <1>7, <1>10, <1>11, <1>12, OftenSingle
  <1>15. OpenedOften(<<x>>, n) = <<>>
    BY <1>2, <1>6, <1>10, <1>11, OftenSingle
  <1>16. Closed(<<y>>)
    BY <1>7, <1>12 DEF Closed
  <1>17. Trees(U, growing', frames', m)
    <2>1. Closed(OpenedOften(<<y>>, m - k))
      BY <1>14, <1>16
    <2>2. Trees(U, Append(f, y), Append(front, b), m)
      BY <1>8, <1>9, <1>10, <1>11, <1>13, <2>1, TreesAdded DEF k, f
    <2> QED
      BY <1>5, <1>13, <2>2
  <1>18. OpenedOften(<<y>>, m) = OpenedOften(<<x>>, n) \o <<y>>
    <2>1. <<>> \o <<y>> = <<y>>
      OBVIOUS
    <2> QED
      BY <1>14, <1>15, <2>1
  <1> QED
    BY <1>2, <1>5, <1>7, <1>10, <1>11, <1>17, <1>18, LeafKeeps DEF n, m, f, x

\* Another node gets a child that holds the token.
LEMMA ChildKeeps ==
  ASSUME TreeInv, NEW rest, Continues(rest), consumed' = consumed + 1, ahead \in Tokens,
         Top.rest # <<>>, GrowLeaf, Top.class \notin Terminals
  PROVE  Grown'
  <1>1. PICK T : Trees(T, growing, frames, node_index_incrementer)
    BY DEF TreeInv, Grown
  <1> DEFINE n == node_index_incrementer
             m == node_index_incrementer'
             f == Front(growing)
             x == Last(growing)
             k == Len(Front(growing))
             b == Frame(Top.class, rest)
             c == NewNode("GenericToken", ahead, consumed')
             y == [x EXCEPT !.children = Append(@, c)]
             V == T \cup {c}
             U == V \cup {y}
  <1>2. /\ growing # <<>> /\ T \subseteq NodesOver(T) /\ n \in Nat
        /\ Trees(T, f, Front(frames), n) /\ x \in T /\ f \in Seq(T)
        /\ growing = Append(f, x) /\ Top \in Frames /\ Fits(x, Top)
        /\ k \in Nat /\ n - k \in Nat /\ n - k >= 1
        /\ Closed(OpenedOften(<<x>>, n - k))
    BY <1>1, InnermostIs
  <1>3. /\ rest \in Seq(Blocks) /\ ~HasStart(rest)
        /\ frames' = Append(Front(frames), b) /\ errors' = errors
    BY DEF Continues
  <1>4. consumed \in Nat /\ consumed' \in Nat
    BY LengthAssumption DEF TreeInv, ParserInv, TypeOK
  <1>5. growing' = Append(f, y) /\ text' = Append(text, ahead) /\ m = n + 2
    <2>1. Top.class # "Identifier" /\ Top.class # "Literal"
      BY DEF Terminals
    <2> QED
      BY <2>1 DEF GrowLeaf, Adopt, Numbers
  <1>6. x \in NodesOver(T) /\ x.token = NoToken /\ x.class = Top.class
    BY <1>2 DEF Fits
  <1>7. c \in NodesOver(T) /\ c.token = ahead /\ c.at = consumed'
    BY <1>2, <1>4 DEF NewNode, NodesOver, Numbers
  <1> HIDE DEF c, V
  <1>8. V \subseteq NodesOver(V) /\ f \in Seq(V) /\ x \in V /\ c \in V
    BY <1>2, <1>7, ForestGrows DEF V
  <1>9. /\ y \in NodesOver(V) /\ y.token = NoToken
        /\ y.children = Append(x.children, c) /\ y.class = Top.class
    <2> DEFINE all == Append(x.children, c)
    <2>1. x \in NodesOver(V)
      BY <1>8
    <2>2. all \in Seq(V)
      <3>1. x.children \in Seq(V)
        BY <2>1 DEF NodesOver
      <3> QED
        BY <1>8, <3>1
    <2> HIDE DEF all, x
    <2>3. y = [x EXCEPT !.children = all]
      BY DEF all
    <2> HIDE DEF y
    <2>4. y \in NodesOver(V) /\ y.token = x.token /\ y.children = all /\ y.class = x.class
      BY <2>1, <2>2, <2>3 DEF NodesOver
    <2> QED
      BY <1>6, <2>4 DEF all
  <1>10. b \in Frames /\ b.class = Top.class /\ b.rest = rest
    <2>1. Top.class \in Classes
      BY <1>2 DEF Frames
    <2> QED
      BY <1>3, <2>1 DEF Frame, Frames
  <1> HIDE DEF y, b
  <1>11. Fits(y, b)
    BY <1>3, <1>9, <1>10 DEF Fits, Begins
  <1> DEFINE front == Front(frames)
  <1>12. Trees(T, f, front, n) /\ frames' = Append(front, b)
    BY <1>2, <1>3
  <1> HIDE DEF U, front
  <1>13. U \subseteq NodesOver(U) /\ f \in Seq(U) /\ x \in U /\ y \in U /\ c \in U
    BY <1>8, <1>9, ForestGrows DEF U
  <1>14. NoToken \notin Tokens
    BY DEF NoToken, Tokens, Keywords
  <1> DEFINE i == m - k - 1
             j == m - 1
  <1>15. /\ m \in Nat /\ m >= n /\ m >= k + 1 /\ m - k \in Nat
         /\ i \in Nat /\ i + 1 = m - k /\ j \in Nat /\ j + 1 = m
         /\ m - k >= n - k /\ m >= n - k /\ n >= n - k
    BY <1>2, <1>5
  <1> DEFINE s == <<x>>
             h == n - k
  <1>16. s \in Seq(U) /\ h \in Nat
    BY <1>2, <1>13
  <1> DEFINE g == m - k
  <1>17. g \in Nat /\ g >= h /\ m >= h /\ n >= h
    BY <1>15
  <1> HIDE DEF m, n, f, x, k, i, j, s, g
  <1>18. Closed(OpenedOften(s, h))
    BY <1>2 DEF s
  <1> HIDE DEF h
  <1>19. /\ OpenedOften(s, g) = OpenedOften(s, h) /\ OpenedOften(s, m) = OpenedOften(s, h)
         /\ OpenedOften(s, n) = OpenedOften(s, h) /\ OpenedOften(s, h) \in Seq(U)
    BY <1>2, <1>13, <1>15, <1>16, <1>17, <1>18, OftenClosed, OftenIs
  <1>20. OpenedOften(<<c>>, i) = <<c>> /\ OpenedOften(<<c>>, j) = <<c>>
    BY <1>7, <1>13, <1>14, <1>15, OftenSingle
  <1>21. /\ OpenedOften(<<y>>, g) = OpenedOften(s, h) \o <<c>>
         /\ OpenedOften(<<y>>, m) = OpenedOften(s, n) \o <<c>>
    <2>1. Adopts(x, y, c, i)
      BY <1>6, <1>9, <1>13, <1>15, OftenAdopted
    <2>2. Adopts(x, y, c, j)
      BY <1>6, <1>9, <1>13, <1>15, OftenAdopted
    <2>3. i + 1 = g /\ j + 1 = m
      BY <1>15 DEF g
    <2> QED
      BY <1>19, <1>20, <2>1, <2>2, <2>3 DEF s, Adopts
  <1>22. Closed(OpenedOften(<<y>>, g))
    <2> DEFINE l == OpenedOften(s, h)
               d == <<c>>
    <2>1. l \in Seq(U) /\ d \in Seq(U) /\ Closed(l) /\ Closed(d)
      BY <1>7, <1>13, <1>14, <1>18, <1>19 DEF Closed
    <2> HIDE DEF l, d
    <2>2. Closed(l \o d)
      BY <2>1, ClosedIs
    <2> QED
      BY <1>21, <2>2 DEF l, d
  <1>23. Trees(U, growing', frames', m)
    <2>1. Trees(U, Append(f, y), Append(front, b), m)
      BY <1>10, <1>11, <1>12, <1>13, <1>15, <1>22, TreesAdded DEF k, f, g
    <2> QED
      BY <1>5, <1>12, <2>1
  <1> QED
    BY <1>2, <1>5, <1>7, <1>13, <1>15, <1>21, <1>23, LeafKeeps DEF n, m, f, x, s

\* The tree below the innermost one, and the activation the step leaves it.
LEMMA ParentIs ==
  ASSUME TreeInv, Returns, NEW T, Trees(T, growing, frames, node_index_incrementer)
  PROVE  LET f == Front(growing)
             n == node_index_incrementer
             p == Last(f)
         IN /\ f # <<>> /\ Front(f) \in Seq(T) /\ p \in T /\ f = Append(Front(f), p)
            /\ Len(growing) > 1 /\ p = growing[Len(growing) - 1]
            /\ Trees(T, Front(f), Front(Front(frames)), n)
            /\ Len(Front(f)) = Len(f) - 1 /\ Len(Front(f)) \in Nat
            /\ Closed(OpenedOften(<<p>>, n - Len(Front(f))))
            /\ p.token = NoToken
            /\ \E b \in Frames :
                  /\ frames' = Append(Front(Front(frames)), b)
                  /\ b.class = p.class /\ b.class \notin Terminals /\ ~HasStart(b.rest)
  <1> DEFINE f == Front(growing)
             n == node_index_incrementer
             p == Last(f)
             g == Front(frames)
             a == frames[Len(frames) - 1]
  <1>1. /\ growing # <<>> /\ Trees(T, f, g, n) /\ f \in Seq(T)
        /\ Len(growing) = Len(frames) /\ Len(growing) \in Nat
        /\ Len(f) = Len(growing) - 1 /\ growing \in Seq(T)
    BY InnermostIs
  <1>2. /\ Len(frames) > 1 /\ a.rest # <<>> /\ Head(a.rest).kind \in {"need", "optional"}
        /\ \/ frames' = Append(Front(g), Frame(a.class, Tail(a.rest)))
           \/ frames' = g
    BY DEF Returns
  <1>3. frames \in Seq(Frames) /\ frames # <<>> /\ Chain(frames)
    BY DEF TreeInv, ParserInv, TypeOK
  <1>4. g \in Seq(Frames) /\ g # <<>> /\ Last(g) = a
    BY <1>2, <1>3, DropLast
  <1>5. f # <<>>
    BY <1>1, <1>2
  <1>6. p = growing[Len(growing) - 1]
    <2>1. f[Len(f)] = growing[Len(f)]
      <3>1. Len(f) \in 1 .. Len(growing) - 1
        BY <1>1, <1>2
      <3>2. \A i \in 1 .. Len(growing) - 1 : Front(growing)[i] = growing[i]
        BY <1>1, FrontIs
      <3> QED
        BY <3>1, <3>2
    <2>2. p = f[Len(f)]
      BY <1>1, <1>5, FrontLast
    <2> QED
      BY <1>1, <2>1, <2>2
  <1> HIDE DEF f, g, a, n
  <1>7. /\ Trees(T, Front(f), Front(g), n)
        /\ Last(f) \in T /\ f = Append(Front(f), Last(f))
        /\ Last(g) \in Frames /\ g = Append(Front(g), Last(g))
        /\ Fits(Last(f), Last(g))
        /\ Len(Front(f)) = Len(f) - 1
        /\ Closed(OpenedOften(<<Last(f)>>, n - Len(Front(f))))
    BY <1>1, <1>5, TreesDropped
  <1>8. Front(f) \in Seq(T) /\ Len(Front(f)) \in Nat
    BY <1>1, <1>5, FrontLast
  <1> DEFINE q == Last(g)
  <1>9. q \in Frames /\ Begins(q) /\ q.rest # <<>> /\ Head(q.rest).kind \in {"need", "optional"}
    BY <1>2, <1>4, <1>7 DEF Fits
  <1> HIDE DEF q
  <1>10. ~HasStart(q.rest) /\ ~HasStart(Tail(q.rest)) /\ q.class \notin Terminals
    BY <1>9, BeginsIs
  <1>11. p.token = NoToken /\ p.class = q.class
    BY <1>7, <1>10 DEF Fits, q
  <1> DEFINE r == Frame(q.class, Tail(q.rest))
  <1>12. r \in Frames /\ r.class = q.class /\ r.rest = Tail(q.rest)
    <2>1. q.class \in Classes /\ q.rest \in Seq(Blocks)
      BY <1>9 DEF Frames
    <2>2. Tail(q.rest) \in Seq(Blocks)
      BY <1>9, <2>1, TailType
    <2> QED
      BY <2>1, <2>2 DEF Frame, Frames
  <1>13. q = a
    BY <1>4 DEF q
  <1>14. frames' = Append(Front(g), r) \/ frames' = Append(Front(g), q)
    <2>1. g = Append(Front(g), q)
      BY <1>7 DEF q
    <2> QED
      BY <1>2, <1>13, <2>1
  <1> HIDE DEF r
  <1>15. \E b \in Frames :
            /\ frames' = Append(Front(g), b)
            /\ b.class = p.class /\ b.class \notin Terminals /\ ~HasStart(b.rest)
    BY <1>9, <1>10, <1>11, <1>12, <1>14
  <1>16. Len(growing) > 1
    BY <1>1, <1>2
  <1> QED
    BY <1>5, <1>6, <1>7, <1>8, <1>11, <1>15, <1>16 DEF f, g, n

\* A child that has failed is dropped: without a message it has no leaves.
LEMMA FailureKeeps ==
  ASSUME TreeInv, Returns, answer # "true", growing' = Front(growing),
         UNCHANGED <<node_index_incrementer, text>>
  PROVE  Grown'
  <1>1. PICK T : Trees(T, growing, frames, node_index_incrementer)
    BY DEF TreeInv, Grown
  <1> DEFINE n == node_index_incrementer
             f == Front(growing)
             c == Last(growing)
             p == Last(f)
             h == Front(f)
             e == Front(Front(frames))
  <1>2. /\ growing # <<>> /\ T \subseteq NodesOver(T) /\ n \in Nat
        /\ c \in T /\ f \in Seq(T) /\ growing = Append(f, c) /\ Fits(c, Top)
        /\ n - Len(f) \in Nat /\ n - Len(f) >= 1 /\ Len(f) \in Nat
    BY <1>1, InnermostIs
  <1>3. /\ h \in Seq(T) /\ p \in T /\ f = Append(h, p) /\ Trees(T, h, e, n)
        /\ Len(h) = Len(f) - 1 /\ Len(h) \in Nat
        /\ Closed(OpenedOften(<<p>>, n - Len(h))) /\ p.token = NoToken
        /\ \E b \in Frames :
              /\ frames' = Append(e, b)
              /\ b.class = p.class /\ b.class \notin Terminals /\ ~HasStart(b.rest)
    BY <1>1, ParentIs
  <1>4. PICK b \in Frames :
              /\ frames' = Append(e, b)
              /\ b.class = p.class /\ b.class \notin Terminals /\ ~HasStart(b.rest)
    BY <1>3
  <1>5. Fits(p, b)
    BY <1>3, <1>4 DEF Fits, Begins
  <1> HIDE DEF n, f, c, p, h, e
  <1>6. n >= n /\ n >= Len(h) + 1 /\ n >= 1
    BY <1>2, <1>3
  <1>7. Trees(T, Append(h, p), Append(e, b), n)
    BY <1>2, <1>3, <1>5, <1>6, TreesAdded
  <1>8. Trees(T, growing', frames', n)
    BY <1>3, <1>4, <1>7 DEF f
  <1>9. /\ consumed' = consumed /\ errors' = errors /\ answer = "false"
        /\ answer' = "false" => errors > 0
    BY DEF Returns
  <1>10. errors = 0 => AreText(OpenedOften(growing', n), text)
    <2> SUFFICES ASSUME errors = 0
                 PROVE  AreText(OpenedOften(growing', n), text)
      OBVIOUS
    <2>1. HasStart(Top.rest)
      BY <1>9 DEF TreeInv, Grown
    <2>2. c.token = NoToken /\ c.children = <<>>
      BY <1>2, <2>1, BodyIs DEF Fits
    <2>3. OpenedOften(<<c>>, n) = <<>>
      BY <1>2, <1>6, <2>2, OftenSingle
    <2>4. OpenedOften(f, n) \in Seq(T)
      BY <1>2, OftenIs
    <2>5. OpenedOften(Append(f, c), n) = OpenedOften(f, n) \o OpenedOften(<<c>>, n)
      <3>1. T \subseteq NodesOver(T) /\ f \in Seq(T) /\ c \in T /\ n \in Nat
        BY <1>2
      <3> QED
        BY ONLY <3>1, OftenLast
    <2> DEFINE l == OpenedOften(f, n)
    <2> HIDE DEF l
    <2>6. l \o <<>> = l
      BY <2>4, ConcatIs DEF l
    <2>7. AreText(OpenedOften(growing, n), text)
      BY DEF TreeInv, Grown, n
    <2>8. OpenedOften(growing, n) = l
      BY <1>2, <2>3, <2>5, <2>6 DEF l
    <2> QED
      BY <2>7, <2>8 DEF l, f
  <1>11. text \in Seq(Tokens) /\ Len(text) = consumed /\ errors \in Nat
    BY DEF TreeInv, Grown, ParserInv, TypeOK
  <1>12. node_index_incrementer' = n /\ text' = text
    BY DEF n
  <1> QED
    BY <1>8, <1>9, <1>10, <1>11, <1>12 DEF Grown

\* A child that has succeeded is attached: its leaves stay the last ones.
LEMMA SuccessKeeps ==
  ASSUME TreeInv, Returns, answer = "true",
         growing' = Append(Front(Front(growing)),
                           [growing[Len(growing) - 1] EXCEPT
                               !.children = Append(@, Last(growing))]),
         UNCHANGED <<node_index_incrementer, text>>
  PROVE  Grown'
  <1>1. PICK T : Trees(T, growing, frames, node_index_incrementer)
    BY DEF TreeInv, Grown
  <1> DEFINE n == node_index_incrementer
             f == Front(growing)
             c == Last(growing)
             p == Last(f)
             h == Front(f)
             e == Front(Front(frames))
             y == [p EXCEPT !.children = Append(@, c)]
             U == T \cup {y}
             k == n - Len(f)
  <1>2. /\ growing # <<>> /\ T \subseteq NodesOver(T) /\ n \in Nat
        /\ c \in T /\ f \in Seq(T) /\ growing = Append(f, c)
        /\ k \in Nat /\ k >= 1 /\ Len(f) \in Nat
        /\ Closed(OpenedOften(<<c>>, k))
    BY <1>1, InnermostIs
  <1>3. /\ h \in Seq(T) /\ p \in T /\ f = Append(h, p) /\ Trees(T, h, e, n)
        /\ p = growing[Len(growing) - 1]
        /\ Len(h) = Len(f) - 1 /\ Len(h) \in Nat
        /\ Closed(OpenedOften(<<p>>, n - Len(h))) /\ p.token = NoToken
        /\ \E b \in Frames :
              /\ frames' = Append(e, b)
              /\ b.class = p.class /\ b.class \notin Terminals /\ ~HasStart(b.rest)
    BY <1>1, ParentIs
  <1>4. PICK b \in Frames :
              /\ frames' = Append(e, b)
              /\ b.class = p.class /\ b.class \notin Terminals /\ ~HasStart(b.rest)
    BY <1>3
  <1>5. growing' = Append(h, y)
    BY <1>3
  <1> HIDE DEF f, c, p, h, e
  <1>6. /\ y \in NodesOver(T) /\ y.token = NoToken
        /\ y.children = Append(p.children, c) /\ y.class = p.class
    <2> DEFINE all == Append(p.children, c)
    <2>1. p \in NodesOver(T)
      BY <1>2, <1>3
    <2>2. all \in Seq(T)
      <3>1. p.children \in Seq(T)
        BY <2>1 DEF NodesOver
      <3> QED
        BY <1>2, <3>1
    <2> HIDE DEF all
    <2>3. y = [p EXCEPT !.children = all]
      BY DEF all
    <2> HIDE DEF y
    <2>4. y \in NodesOver(T) /\ y.token = p.token /\ y.children = all /\ y.class = p.class
      BY <2>1, <2>2, <2>3 DEF NodesOver
    <2> QED
      BY <1>3, <2>4 DEF all
  <1> HIDE DEF y
  <1>7. Fits(y, b)
    BY <1>4, <1>6 DEF Fits, Begins
  <1>8. /\ U \subseteq NodesOver(U) /\ h \in Seq(U) /\ f \in Seq(U)
        /\ p \in U /\ y \in U /\ c \in U
    BY <1>2, <1>3, <1>6, ForestGrows
  <1> HIDE DEF U
  <1> DEFINE j == n - 1
             g == n - Len(h)
  <1>9. /\ k + 1 = g /\ n >= n /\ n >= Len(h) + 1 /\ g \in Nat /\ n >= g
        /\ j \in Nat /\ j + 1 = n /\ j >= k /\ n >= k
    BY <1>2, <1>3
  <1> HIDE DEF j, g, k, n
  <1>10. Closed(OpenedOften(<<p>>, g))
    BY <1>3 DEF g
  \* How often the child is opened makes no difference.
  <1>11. /\ OpenedOften(<<c>>, j) = OpenedOften(<<c>>, k)
         /\ OpenedOften(<<c>>, n) = OpenedOften(<<c>>, k)
         /\ OpenedOften(<<c>>, k) \in Seq(U)
    <2> DEFINE d == <<c>>
    <2>1. d \in Seq(U)
      BY <1>8, OpenedSingle
    <2>2. Closed(OpenedOften(d, k))
      BY <1>2
    <2> HIDE DEF d
    <2>3. OpenedOften(d, j) = OpenedOften(d, k) /\ OpenedOften(d, n) = OpenedOften(d, k)
          /\ OpenedOften(d, k) \in Seq(U)
      BY <1>2, <1>8, <1>9, <2>1, <2>2, OftenClosed, OftenIs
    <2> QED
      BY <2>3 DEF d
  <1>12. Adopts(p, y, c, k) /\ Adopts(p, y, c, j)
    BY <1>2, <1>3, <1>6, <1>8, <1>9, OftenAdopted
  <1>13. /\ OpenedOften(<<y>>, g) = OpenedOften(<<p>>, g) \o OpenedOften(<<c>>, k)
         /\ OpenedOften(<<y>>, n) = OpenedOften(<<p>>, n) \o OpenedOften(<<c>>, k)
    BY <1>9, <1>11, <1>12 DEF Adopts
  <1>14. Closed(OpenedOften(<<y>>, g))
    <2> DEFINE l == OpenedOften(<<p>>, g)
               d == OpenedOften(<<c>>, k)
    <2>1. l \in Seq(U) /\ d \in Seq(U) /\ Closed(l) /\ Closed(d)
      BY <1>2, <1>8, <1>9, <1>10, <1>11, OftenSingle
    <2> HIDE DEF l, d
    <2>2. Closed(l \o d)
      BY <2>1, ClosedIs
    <2> QED
      BY <1>13, <2>2 DEF l, d
  <1>15. Trees(U, growing', frames', n)
    <2>1. Trees(U, Append(h, y), Append(e, b), n)
      BY <1>2, <1>3, <1>7, <1>8, <1>9, <1>14, TreesAdded DEF g
    <2> QED
      BY <1>4, <1>5, <2>1
  <1>16. errors = 0 => AreText(OpenedOften(growing', n), text)
    <2> SUFFICES ASSUME errors = 0
                 PROVE  AreText(OpenedOften(growing', n), text)
      OBVIOUS
    <2>1. AreText(OpenedOften(growing, n), text) /\ text \in Seq(Tokens)
      BY DEF TreeInv, Grown, n
    <2>2. OpenedOften(Append(f, c), n) = OpenedOften(f, n) \o OpenedOften(<<c>>, n)
      <3>1. T \subseteq NodesOver(T) /\ f \in Seq(T) /\ c \in T /\ n \in Nat
        BY <1>2
      <3> QED
        BY ONLY <3>1, OftenLast
    <2>3. OpenedOften(f, n) \in Seq(U)
      BY <1>2, <1>8, OftenIs
    <2> DEFINE l == OpenedOften(f, n)
               more == OpenedOften(<<c>>, k)
    <2>4. l \in Seq(U) /\ more \in Seq(U) /\ OpenedOften(growing, n) = l \o more
      BY <1>2, <1>11, <2>2, <2>3
    <2>5. OpenedOften(<<y>>, n) = OpenedOften(<<p>>, n) \o more
      BY <1>13
    <2> HIDE DEF more, l
    <2>6. Closed(l \o more)
      <3> DEFINE all == l \o more
      <3>1. all \in Seq(U) /\ AreText(all, text)
        BY <2>1, <2>4
      <3> HIDE DEF all
      <3>2. Closed(all)
        BY <2>1, <3>1, AreTextIs
      <3> QED
        BY <3>2 DEF all
    <2>7. Closed(l)
      BY <2>4, <2>6, ClosedIs
    <2>8. Closed(OpenedOften(Append(h, p), n)) /\ l = OpenedOften(Append(h, p), n)
      BY <1>3, <2>7 DEF l
    <2>9. Replaces(U, h, p, n, y, n)
      BY <1>2, <1>8, <1>9, OftenReplaced
    <2>10. OpenedOften(Append(h, y), n) = l \o more
      BY ONLY <2>4, <2>5, <2>8, <2>9 DEF Replaces
    <2> QED
      BY <1>5, <2>1, <2>4, <2>10
  <1>17. /\ consumed' = consumed /\ errors' = errors
         /\ answer' = "false" => errors > 0
    BY DEF Returns
  <1>18. text \in Seq(Tokens) /\ Len(text) = consumed /\ errors \in Nat
    BY DEF TreeInv, Grown, ParserInv, TypeOK
  <1>19. node_index_incrementer' = n /\ text' = text
    BY DEF n
  <1> QED
    BY <1>15, <1>16, <1>17, <1>18, <1>19 DEF Grown

\* The trees stay as they are, and so does the list of activations but for
\* the blocks of the innermost one.
LEMMA StayKeeps ==
  ASSUME TreeInv, Stays \/ \E rest : Continues(rest), consumed' = consumed,
         UNCHANGED treeVars
  PROVE  Grown'
  <1>1. PICK T : Trees(T, growing, frames, node_index_incrementer)
    BY DEF TreeInv, Grown
  <1>2. /\ text \in Seq(Tokens) /\ Len(text) = consumed /\ errors \in Nat
        /\ errors = 0 => AreText(OpenedOften(growing, node_index_incrementer), text)
        /\ answer = "false" /\ errors = 0 => HasStart(Top.rest)
    BY DEF TreeInv, Grown, ParserInv, TypeOK
  <1>3. /\ growing' = growing /\ node_index_incrementer' = node_index_incrementer
        /\ text' = text
    BY DEF treeVars
  <1>4. CASE Stays
    <2>1. /\ frames' = frames /\ consumed' = consumed
          /\ errors' = 0 => errors = 0
          /\ answer' = "false" /\ errors' = 0 => HasStart(Top.rest)
      BY <1>2, <1>4 DEF Stays
    <2>2. Top' = Top
      BY <2>1 DEF Top
    <2> QED
      BY <1>1, <1>2, <1>3, <2>1, <2>2 DEF Grown
  <1>5. ASSUME NEW rest, Continues(rest)
        PROVE  Grown'
    <2> DEFINE n == node_index_incrementer
               f == Front(growing)
               x == Last(growing)
               k == Len(Front(growing))
               b == Frame(Top.class, rest)
               g == Front(frames)
    <2>1. /\ T \subseteq NodesOver(T) /\ n \in Nat
          /\ Trees(T, f, g, n) /\ x \in T /\ f \in Seq(T)
          /\ growing = Append(f, x) /\ Top \in Frames /\ Fits(x, Top)
          /\ k \in Nat /\ n - k \in Nat /\ n - k >= 1
          /\ Closed(OpenedOften(<<x>>, n - k))
      BY <1>1, InnermostIs
    <2>2. /\ rest \in Seq(Blocks) /\ ~HasStart(rest) /\ frames' = Append(g, b)
          /\ Top.class \notin Terminals /\ errors' = errors /\ answer' = "none"
      BY <1>5 DEF Continues
    <2>3. b \in Frames /\ b.class = Top.class /\ b.rest = rest
      <3>1. Top.class \in Classes
        BY <2>1 DEF Frames
      <3> QED
        BY <2>2, <3>1 DEF Frame, Frames
    <2> HIDE DEF n, f, x, b, g
    <2>4. Fits(x, b)
      BY <2>1, <2>2, <2>3 DEF Fits, Begins
    <2>5. n >= n /\ n >= k + 1 /\ k = Len(f)
      BY <2>1 DEF f
    <2>6. Trees(T, Append(f, x), Append(g, b), n)
      BY <2>1, <2>3, <2>4, <2>5, TreesAdded
    <2>7. Trees(T, growing', frames', n)
      BY <1>3, <2>1, <2>2, <2>6
    <2> QED
      BY <1>2, <1>3, <2>2, <2>7 DEF Grown, n
  <1> QED
    BY <1>4, <1>5

\* Every step of the parser and of its tree keeps the invariant.
LEMMA TreeStep == TreeInv /\ [TreeNext]_allVars => TreeInv'
  <1> SUFFICES ASSUME TreeInv, [TreeNext]_allVars PROVE TreeInv'
    OBVIOUS
  <1>1. /\ ParserInv /\ alphabet \in Alphabets
        /\ frames \in Seq(Frames) /\ frames # <<>> /\ consumed \in Nat
    BY LengthAssumption DEF TreeInv, ParserInv, TypeOK
  <1>2. CASE TreeNext
    <2>1. ParserInv' /\ alphabet' \in Alphabets
      BY <1>1, <1>2, ParserStep DEF TreeNext
    <2>2. Begins(Top)
      <3>1. PICK T : Trees(T, growing, frames, node_index_incrementer)
        BY DEF TreeInv, Grown
      <3> QED
        BY <3>1, InnermostIs DEF Fits
    <2>3. Enters \/ (\E rest : Continues(rest)) \/ Returns \/ Stays
      BY <1>1, <1>2, <2>2, NextIs DEF TreeNext
    <2>4. Len(frames) \in Nat
      BY <1>1
    <2>5. \/ GrowChild \/ GrowLeaf \/ Attach
          \/ Len(frames') = Len(frames) /\ consumed' = consumed /\ UNCHANGED treeVars
      BY <1>2 DEF TreeNext
    <2>6. CASE Enters
      <3>1. Len(frames') = Len(frames) + 1 /\ consumed' = consumed
        <4>1. /\ Current.class \in Classes /\ frames' = Append(frames, Activation(Current.class))
              /\ consumed' = consumed
          BY <2>6 DEF Enters
        <4> QED
          BY <1>1, <4>1
      <3>2. GrowChild
        BY <2>4, <2>5, <3>1 DEF GrowLeaf, Attach
      <3>3. Grown'
        BY <2>6, <3>2, EnterKeeps
      <3> QED
        BY <2>1, <3>3 DEF TreeInv
    <2>7. ASSUME NEW rest, Continues(rest)
          PROVE  TreeInv'
      <3>1. Len(frames') = Len(frames)
        <4>1. frames' = Append(Front(frames), Frame(Top.class, rest))
          BY <2>7 DEF Continues
        <4>2. Front(frames) \in Seq(Frames) /\ Len(Front(frames)) = Len(frames) - 1
          BY <1>1, FrontIs
        <4> DEFINE b == Frame(Top.class, rest)
                   f == Front(frames)
        <4>3. f \in Seq(Frames) /\ frames' = Append(f, b) /\ Len(f) = Len(frames) - 1
          BY <4>1, <4>2
        <4> HIDE DEF b, f
        <4>4. Len(Append(f, b)) = Len(f) + 1
          BY <4>3
        <4> QED
          BY <2>4, <4>3, <4>4
      <3>2. CASE consumed' = consumed
        <4>1. UNCHANGED treeVars
          BY <2>4, <2>5, <3>1, <3>2 DEF GrowChild, GrowLeaf, Attach
        <4>2. Grown'
          BY <2>7, <3>2, <4>1, StayKeeps
        <4> QED
          BY <2>1, <4>2 DEF TreeInv
      <3>3. CASE consumed' = consumed + 1 /\ ahead \in Tokens /\ Top.rest # <<>>
        <4>1. GrowLeaf
          BY <1>1, <2>4, <2>5, <3>1, <3>3 DEF GrowChild, Attach
        <4>2. Grown'
          BY <2>7, <3>3, <4>1, TerminalKeeps, ChildKeeps
        <4> QED
          BY <2>1, <4>2 DEF TreeInv
      <3> QED
        BY <2>7, <3>2, <3>3 DEF Continues
    <2>8. CASE Returns
      <3>1. Len(frames') < Len(frames) /\ consumed' = consumed
        <4> DEFINE f == Front(frames)
                   e == Front(f)
        <4>1. f \in Seq(Frames) /\ Len(f) = Len(frames) - 1 /\ Len(frames) > 1
          BY <1>1, <2>8, FrontIs DEF Returns
        <4>2. f # <<>>
          BY <4>1
        <4> HIDE DEF f
        <4>3. e \in Seq(Frames) /\ Len(e) = Len(f) - 1
          BY <4>1, <4>2, FrontIs
        <4> HIDE DEF e
        <4>4. \A b : Len(Append(e, b)) = Len(e) + 1
          BY <4>3
        <4>5. (\E b : frames' = Append(e, b)) \/ frames' = f
          BY <2>8 DEF Returns, e, f
        <4>6. consumed' = consumed
          BY <2>8 DEF Returns
        <4> QED
          BY <2>4, <4>1, <4>3, <4>4, <4>5, <4>6
      <3>2. Attach
        BY <2>4, <2>5, <3>1 DEF GrowChild, GrowLeaf
      <3>3. CASE answer = "true"
        <4>1. Grown'
          BY <2>8, <3>2, <3>3, SuccessKeeps DEF Attach
        <4> QED
          BY <2>1, <4>1 DEF TreeInv
      <3>4. CASE answer # "true"
        <4>1. Grown'
          BY <2>8, <3>2, <3>4, FailureKeeps DEF Attach
        <4> QED
          BY <2>1, <4>1 DEF TreeInv
      <3> QED
        BY <3>3, <3>4
    <2>9. CASE Stays
      <3>1. frames' = frames /\ consumed' = consumed
        BY <2>9 DEF Stays
      <3>2. UNCHANGED treeVars
        BY <2>4, <2>5, <3>1 DEF GrowChild, GrowLeaf, Attach
      <3>3. Grown'
        BY <2>9, <3>1, <3>2, StayKeeps
      <3> QED
        BY <2>1, <3>3 DEF TreeInv
    <2> QED
      BY <2>3, <2>6, <2>7, <2>8, <2>9
  <1>3. CASE UNCHANGED allVars
    <2>1. UNCHANGED vars /\ UNCHANGED alphabet /\ UNCHANGED treeVars
      BY <1>3 DEF allVars
    <2>2. ParserInv'
      BY <1>1, <2>1, ParserStep
    <2>3. Stays
      BY <2>1 DEF Stays, vars
    <2>4. consumed' = consumed
      BY <2>1 DEF vars
    <2>5. Grown'
      BY <2>1, <2>3, <2>4, StayKeeps
    <2> QED
      BY <1>1, <2>1, <2>2, <2>5 DEF TreeInv
  <1> QED
    BY <1>2, <1>3

\* The invariant holds throughout.
LEMMA TreeAlways == TreeSpec => []TreeInv
  BY TreeStart, TreeStep, PTL DEF TreeSpec

\* For texts of every length there is one node for each activation, of the
\* class of the activation.
THEOREM TreeTypeCorrect == TreeSpec => []TreeTypeOK
  <1>1. TreeInv => TreeTypeOK
    <2> SUFFICES ASSUME TreeInv PROVE TreeTypeOK
      OBVIOUS
    <2>1. PICK T : Trees(T, growing, frames, node_index_incrementer)
      BY DEF TreeInv, Grown
    <2>2. /\ node_index_incrementer \in Nat /\ Len(growing) = Len(frames)
          /\ DOMAIN growing = 1 .. Len(growing)
          /\ \A i \in 1 .. Len(growing) : growing[i].class = frames[i].class
      <3>1. /\ growing \in Seq(T) /\ node_index_incrementer \in Nat
            /\ Len(growing) = Len(frames)
            /\ \A i \in 1 .. Len(growing) : Fits(growing[i], frames[i])
        BY <2>1 DEF Trees
      <3>2. DOMAIN growing = 1 .. Len(growing)
        BY <3>1
      <3> QED
        BY <3>1, <3>2 DEF Fits
    <2> QED
      BY <2>2 DEF TreeInv, Grown, TreeTypeOK
  <1> QED
    BY <1>1, TreeAlways, PTL

\* For texts of every length, and trees of every height, the nodes hold the
\* tokens consumed, each one once, in the order of the text and with its
\* place: what a child that failed silently leaves behind is nothing, and what
\* one that succeeded has is attached where it belongs.
THEOREM TreeHoldsTheText == TreeSpec => []LeavesAreTheText
  <1>1. TreeInv => LeavesAreTheText
    BY DEF TreeInv, Grown, LeavesAreTheText, AreText, Leaves
  <1> QED
    BY <1>1, TreeAlways, PTL

-----------------------------------------------------------------------------
(* The numbers of the nodes.                                               *)

\* No node is twice a child of x.
Once(x) == \A i, j \in DOMAIN x.children : x.children[i] = x.children[j] => i = j

\* Two nodes have two numbers and no child in common.
Distinct(x, y) ==
    /\ x.id # y.id
    /\ \A i \in DOMAIN x.children, j \in DOMAIN y.children : x.children[i] # y.children[j]

\* A node with children in T that differs from all of them.
New(T, n, y) ==
    y \in NodesOver(T) /\ y.id < n /\ Once(y) /\ \A x \in T : Distinct(x, y)

Beside(nodes, y) == \A i \in 1 .. Len(nodes) : Distinct(nodes[i], y)

\* The finished nodes are in T; neither they nor those under construction share
\* a number or a child, and n is beyond all their numbers.
Numbered(T, nodes, n) ==
    /\ T \subseteq NodesOver(T) /\ nodes \in Seq(NodesOver(T)) /\ n \in Nat
    /\ \A x \in T : x.id < n /\ Once(x)
    /\ \A x, y \in T : x # y => Distinct(x, y)
    /\ \A i \in 1 .. Len(nodes) : New(T, n, nodes[i])
    /\ \A i, j \in 1 .. Len(nodes) : i # j => Distinct(nodes[i], nodes[j])

\* To be distinct is symmetric.
LEMMA DistinctBoth ==
  ASSUME NEW x, NEW y, Distinct(x, y)
  PROVE  Distinct(y, x)
  BY DEF Distinct

\* The counter may be further.
LEMMA NumberedLater ==
  ASSUME NEW T, NEW s, NEW n, Numbered(T, s, n), NEW m \in Nat, m >= n
  PROVE  Numbered(T, s, m)
  <1>1. /\ \A x \in T : x.id \in Nat
        /\ \A y \in NodesOver(T) : y.id \in Nat
    BY DEF Numbered, NodesOver
  <1>2. n \in Nat
    BY DEF Numbered
  <1>3. \A i \in Nat : i < n => i < m
    BY <1>2
  <1>4. ASSUME NEW y, New(T, n, y) PROVE New(T, m, y)
    BY <1>1, <1>3, <1>4 DEF New
  <1> HIDE DEF New
  <1> QED
    BY <1>1, <1>3, <1>4 DEF Numbered

\* The innermost node, and the ones without it.
LEMMA NumberedDropped ==
  ASSUME NEW T, NEW s, NEW n, Numbered(T, s, n), s # <<>>
  PROVE  /\ Numbered(T, Front(s), n) /\ New(T, n, Last(s)) /\ Beside(Front(s), Last(s))
         /\ s = Append(Front(s), Last(s)) /\ Len(Front(s)) = Len(s) - 1 /\ Len(s) \in Nat
         /\ Last(s) = s[Len(s)]
  <1> DEFINE f == Front(s)
             y == Last(s)
             k == Len(s)
             S == NodesOver(T)
  <1>1. /\ T \subseteq S /\ s \in Seq(S) /\ n \in Nat
        /\ \A x \in T : x.id < n /\ Once(x)
        /\ \A x, z \in T : x # z => Distinct(x, z)
        /\ \A i \in 1 .. k : New(T, n, s[i])
        /\ \A i, j \in 1 .. k : i # j => Distinct(s[i], s[j])
    BY DEF Numbered
  <1>2. s \in Seq(S) /\ s # <<>>
    BY <1>1
  <1> HIDE DEF S
  <1>3. /\ f \in Seq(S) /\ Len(f) = k - 1 /\ y = s[k] /\ s = Append(f, y)
        /\ \A i \in 1 .. k - 1 : f[i] = s[i]
    BY <1>2, FrontLast
  <1>4. k \in Nat /\ k >= 1
    BY <1>2
  <1> HIDE DEF f, y, k
  <1>5. k \in 1 .. k /\ \A i \in 1 .. k - 1 : i \in 1 .. k /\ i # k
    BY <1>4
  <1>6. New(T, n, y)
    BY <1>1, <1>3, <1>5
  <1>7. Beside(f, y)
    BY <1>1, <1>3, <1>5 DEF Beside
  <1>8. \A i \in 1 .. Len(f) : New(T, n, f[i])
    BY <1>1, <1>3, <1>5
  <1>9. \A i, j \in 1 .. Len(f) : i # j => Distinct(f[i], f[j])
    BY <1>1, <1>3, <1>5
  <1>10. Numbered(T, f, n)
    BY <1>1, <1>3, <1>8, <1>9 DEF Numbered, S
  <1> QED
    BY <1>3, <1>4, <1>6, <1>7, <1>10 DEF f, y, k

\* One more node.
LEMMA NumberedAdded ==
  ASSUME NEW T, NEW f, NEW n, Numbered(T, f, n), NEW y, New(T, n, y), Beside(f, y)
  PROVE  Numbered(T, Append(f, y), n)
  <1> DEFINE s == Append(f, y)
             k == Len(f)
             S == NodesOver(T)
  <1>1. /\ T \subseteq S /\ f \in Seq(S) /\ n \in Nat
        /\ \A x \in T : x.id < n /\ Once(x)
        /\ \A x, z \in T : x # z => Distinct(x, z)
        /\ \A i \in 1 .. k : New(T, n, f[i])
        /\ \A i, j \in 1 .. k : i # j => Distinct(f[i], f[j])
    BY DEF Numbered
  <1>2. y \in S
    BY DEF New
  <1> HIDE DEF S
  <1>3. /\ s \in Seq(S) /\ Len(s) = k + 1 /\ s[k + 1] = y /\ k \in Nat
        /\ \A i \in 1 .. k : s[i] = f[i]
    BY <1>1, <1>2, AppendIs
  <1>4. \A i \in 1 .. k : Distinct(f[i], y) /\ Distinct(y, f[i])
    BY DistinctBoth DEF Beside
  <1> HIDE DEF s, k
  <1>5. \A i \in 1 .. Len(s) : i = k + 1 \/ i \in 1 .. k
    BY <1>3
  <1>6. \A i \in 1 .. Len(s) : New(T, n, s[i])
    BY <1>1, <1>3, <1>5
  <1>7. \A i, j \in 1 .. Len(s) : i # j => Distinct(s[i], s[j])
    BY <1>1, <1>3, <1>4, <1>5
  <1>8. Numbered(T, s, n)
    BY <1>1, <1>3, <1>6, <1>7 DEF Numbered, S
  <1> QED
    BY <1>8 DEF s

\* The node y as a further child of z.
Adopting(z, y) == [z EXCEPT !.children = Append(@, y)]

\* A node that differs from x still does.
StillDistinct(T, z, w) == \A x \in NodesOver(T) : Distinct(x, z) => Distinct(x, w)

\* A new child makes no two nodes alike.
LEMMA AdoptedDiffers ==
  ASSUME NEW T, NEW y, y \notin T, NEW z \in NodesOver(T), Once(z),
         NEW w, w = Adopting(z, y), NEW U, U = T \cup {y}
  PROVE  w \in NodesOver(U) /\ w.id = z.id /\ Once(w) /\ StillDistinct(T, z, w)
  <1> DEFINE c == z.children
             d == Append(c, y)
             k == Len(c)
  <1>1. c \in Seq(T) /\ c \in Seq(U) /\ y \in U /\ Seq(T) \subseteq Seq(U)
    <2>1. c \in Seq(T)
      BY DEF NodesOver
    <2>2. T \subseteq U /\ y \in U
      OBVIOUS
    <2> HIDE DEF c
    <2>3. Seq(T) \subseteq Seq(U)
      BY <2>2
    <2> QED
      BY <2>1, <2>2, <2>3
  <1>2. w.children = d /\ w.id = z.id /\ w \in NodesOver(U)
    <2>1. d \in Seq(U)
      <3> HIDE DEF c
      <3> QED
        BY <1>1
    <2>2. w = [z EXCEPT !.children = d]
      BY DEF Adopting
    <2> HIDE DEF d
    <2> QED
      BY <2>1, <2>2 DEF NodesOver
  <1>3. /\ k \in Nat /\ DOMAIN c = 1 .. k /\ DOMAIN d = 1 .. k + 1 /\ d[k + 1] = y
        /\ \A i \in 1 .. k : d[i] = c[i] /\ c[i] \in T
    <2> HIDE DEF c
    <2> QED
      BY <1>1
  <1>4. \A i, j \in DOMAIN c : c[i] = c[j] => i = j
    BY DEF Once
  <1> HIDE DEF d, c, k
  <1>5. \A i \in DOMAIN d : (i = k + 1 /\ d[i] = y) \/ (i \in DOMAIN c /\ d[i] = c[i] /\ d[i] \in T)
    BY <1>3
  <1>6. Once(w)
    <2>1. \A i, j \in DOMAIN d : d[i] = d[j] => i = j
      BY <1>4, <1>5
    <2> QED
      BY <1>2, <2>1 DEF Once
  <1>7. ASSUME NEW x \in NodesOver(T), Distinct(x, z)
        PROVE  Distinct(x, w)
    <2> DEFINE e == x.children
    <2>1. \A i \in DOMAIN e : e[i] \in T
      <3>1. e \in Seq(T)
        BY DEF NodesOver
      <3> HIDE DEF e
      <3> QED
        BY <3>1
    <2>2. x.id # z.id /\ \A i \in DOMAIN e, j \in DOMAIN c : e[i] # c[j]
      BY <1>7 DEF Distinct, c
    <2>3. \A i \in DOMAIN e, j \in DOMAIN d : e[i] # d[j]
      <3> HIDE DEF e
      <3> QED
        BY <1>5, <2>1, <2>2
    <2> QED
      BY <1>2, <2>2, <2>3 DEF Distinct
  <1> QED
    BY <1>2, <1>6, <1>7 DEF StillDistinct

\* A finished node becomes the child of the innermost one.
LEMMA NumberedAdopted ==
  ASSUME NEW T, NEW f, NEW n, Numbered(T, f, n), NEW y, New(T, n, y), Beside(f, y),
         NEW z, New(T, n, z), Beside(f, z), Distinct(y, z),
         NEW w, w = Adopting(z, y)
  PROVE  Numbered(T \cup {y}, Append(f, w), n)
  <1> DEFINE U == T \cup {y}
  <1>1. /\ T \subseteq NodesOver(T) /\ f \in Seq(NodesOver(T)) /\ n \in Nat
        /\ \A x \in T : x.id < n /\ Once(x)
        /\ \A x, v \in T : x # v => Distinct(x, v)
        /\ \A i \in 1 .. Len(f) : New(T, n, f[i])
        /\ \A i, j \in 1 .. Len(f) : i # j => Distinct(f[i], f[j])
    BY DEF Numbered
  <1>2. /\ y \in NodesOver(T) /\ y.id < n /\ Once(y) /\ \A x \in T : Distinct(x, y)
        /\ z \in NodesOver(T) /\ z.id < n /\ Once(z) /\ \A x \in T : Distinct(x, z)
    BY DEF New
  <1>3. y \notin T
    BY <1>2 DEF Distinct
  <1>4. /\ w \in NodesOver(U) /\ w.id = z.id /\ Once(w)
        /\ \A x \in NodesOver(T) : Distinct(x, z) => Distinct(x, w)
    <2>1. w \in NodesOver(U) /\ w.id = z.id /\ Once(w) /\ StillDistinct(T, z, w)
      BY <1>2, <1>3, AdoptedDiffers
    <2> QED
      BY <2>1 DEF StillDistinct
  <1>5. /\ U \subseteq NodesOver(U) /\ NodesOver(T) \subseteq NodesOver(U)
    <2>1. U \subseteq NodesOver(U) /\ Seq(T) \subseteq Seq(U)
      BY <1>1, <1>2, ForestGrows
    <2> HIDE DEF U
    <2> QED
      BY <2>1 DEF NodesOver
  <1>6. f \in Seq(NodesOver(U))
    <2> DEFINE A == NodesOver(T)
               B == NodesOver(U)
    <2>1. f \in Seq(A) /\ A \subseteq B
      BY <1>1, <1>5
    <2> HIDE DEF A, B
    <2>2. f \in Seq(B)
      BY <2>1
    <2> QED
      BY <2>2 DEF B
  <1>7. \A x, v \in U : x # v => Distinct(x, v)
    BY <1>1, <1>2, DistinctBoth
  <1>8. \A x \in U : x.id < n /\ Once(x)
    BY <1>1, <1>2
  <1>9. \A i \in 1 .. Len(f) : New(U, n, f[i])
    BY <1>1, <1>5, DistinctBoth DEF New, Beside
  <1>10. Numbered(U, f, n)
    BY <1>1, <1>5, <1>6, <1>7, <1>8, <1>9 DEF Numbered
  <1>11. New(U, n, w)
    <2>1. w.id < n
      BY <1>2, <1>4
    <2>2. \A x \in U : Distinct(x, w)
      BY <1>1, <1>2, <1>4
    <2> QED
      BY <1>4, <2>1, <2>2 DEF New
  <1>12. Beside(f, w)
    <2>1. \A i \in 1 .. Len(f) : f[i] \in NodesOver(T)
      BY <1>1 DEF New
    <2> QED
      BY <1>4, <2>1 DEF Beside
  <1> HIDE DEF U
  <1> QED
    BY <1>10, <1>11, <1>12, NumberedAdded DEF U

\* Which nodes are finished, and that all numbers are different.
NumbersInv == \E T : Numbered(T, growing, node_index_incrementer)

\* The first tree has one node.
LEMMA NumbersStart == TreeInit => NumbersInv
  <1> SUFFICES ASSUME TreeInit PROVE NumbersInv
    OBVIOUS
  <1> DEFINE x == [class |-> "FunctionDeclaration", id |-> 0, token |-> NoToken, at |-> 0,
                   children |-> <<>>]
             T == {}
  <1>1. growing = <<x>> /\ node_index_incrementer = 1
    BY DEF TreeInit
  <1>2. x \in NodesOver(T) /\ x.id = 0 /\ x.children = <<>>
    BY DEF NodesOver, Classes
  <1> HIDE DEF x
  <1>3. New(T, 1, x)
    BY <1>2 DEF New, Once
  <1>4. Numbered(T, <<>>, 1)
    BY DEF Numbered
  <1>5. Beside(<<>>, x)
    BY DEF Beside
  <1> HIDE DEF T
  <1>6. Append(<<>>, x) = <<x>>
    OBVIOUS
  <1>7. Numbered(T, <<x>>, 1)
    BY <1>3, <1>4, <1>5, <1>6, NumberedAdded
  <1> QED
    BY <1>1, <1>7 DEF NumbersInv

\* A node that has no child and a number that was not given out before.
LEMMA NumberIsNew ==
  ASSUME NEW T, NEW s, NEW n, Numbered(T, s, n), NEW y \in NodesOver(T), y.children = <<>>,
         y.id >= n
  PROVE  /\ \A m \in Nat : y.id < m => New(T, m, y)
         /\ Beside(s, y)
         /\ \A z \in NodesOver(T) : z.id < n => Distinct(y, z)
  <1>1. /\ T \subseteq NodesOver(T) /\ n \in Nat /\ y.id \in Nat
        /\ \A x \in T : x.id < n
        /\ \A i \in 1 .. Len(s) : s[i] \in NodesOver(T) /\ s[i].id < n
    BY DEF Numbered, New, NodesOver
  <1>2. \A z \in NodesOver(T) : z.id \in Nat
    BY DEF NodesOver
  <1>3. ASSUME NEW z \in NodesOver(T), z.id < n
        PROVE  Distinct(y, z) /\ Distinct(z, y)
    <2>1. y.id # z.id
      BY <1>1, <1>2, <1>3
    <2>2. DOMAIN y.children = {}
      OBVIOUS
    <2> QED
      BY <2>1, <2>2 DEF Distinct
  <1>4. Once(y)
    BY DEF Once
  <1>5. \A x \in T : Distinct(x, y)
    BY <1>1, <1>3
  <1>6. Beside(s, y)
    BY <1>1, <1>3 DEF Beside
  <1> QED
    BY <1>3, <1>4, <1>5, <1>6 DEF New

\* A child is constructed.
LEMMA GrowChildNumbers ==
  ASSUME TreeInv, NumbersInv, Enters, GrowChild
  PROVE  NumbersInv'
  <1>1. PICK T : Numbered(T, growing, node_index_incrementer)
    BY DEF NumbersInv
  <1> DEFINE n == node_index_incrementer
             c == Current.class
             y == NewNode(c, NoToken, 0)
             m == n + Numbers(c)
  <1>2. n \in Nat /\ c \in Classes
    BY <1>1 DEF Numbered, Enters
  <1>3. /\ growing' = Append(growing, y) /\ node_index_incrementer' = m
    BY DEF GrowChild
  <1> HIDE DEF c
  <1>4. /\ y \in NodesOver(T) /\ y.children = <<>> /\ y.id >= n /\ y.id < m
        /\ m \in Nat /\ m >= n
    <2> DEFINE at == 0
    <2>1. at \in Nat
      OBVIOUS
    <2> HIDE DEF at
    <2>2. /\ NewNode(c, NoToken, at) \in NodesOver(T) /\ NewNode(c, NoToken, at).children = <<>>
          /\ NewNode(c, NoToken, at).id = n + Numbers(c) - 1 /\ Numbers(c) \in {1, 2}
      BY <1>2, <2>1 DEF NewNode, NodesOver, Numbers
    <2> QED
      BY <1>2, <2>2 DEF at
  <1> HIDE DEF y, m, n
  <1>5. New(T, m, y) /\ Beside(growing, y)
    BY <1>1, <1>4, NumberIsNew DEF n
  <1>6. Numbered(T, growing, m)
    BY <1>1, <1>4, NumberedLater DEF n
  <1>7. Numbered(T, growing', node_index_incrementer')
    BY <1>3, <1>5, <1>6, NumberedAdded
  <1> QED
    BY <1>7 DEF NumbersInv

\* A token is consumed.
LEMMA GrowLeafNumbers ==
  ASSUME TreeInv, NumbersInv, NEW rest, Continues(rest), GrowLeaf
  PROVE  NumbersInv'
  <1>1. PICK T : Numbered(T, growing, node_index_incrementer)
    BY DEF NumbersInv
  <1> DEFINE n == node_index_incrementer
             f == Front(growing)
             z == Last(growing)
             at == consumed'
  <1>2. growing # <<>>
    <2>1. PICK S : Trees(S, growing, frames, node_index_incrementer)
      BY DEF TreeInv, Grown
    <2> QED
      BY <2>1, InnermostIs
  <1>3. n \in Nat /\ at \in Nat /\ ahead \in Tokens
    <2>1. consumed \in Nat
      BY LengthAssumption DEF TreeInv, ParserInv, TypeOK
    <2> QED
      BY <1>1, <2>1 DEF Numbered, Continues, GrowLeaf
  <1>4. Numbered(T, f, n) /\ New(T, n, z) /\ Beside(f, z)
    BY <1>1, <1>2, NumberedDropped
  <1>5. z \in NodesOver(T) /\ z.id \in Nat /\ z.id < n
    BY <1>4 DEF New, NodesOver
  <1>6. CASE Top.class = "Identifier"
    <2> DEFINE w == [z EXCEPT !.token = ahead, !.at = consumed']
    <2>1. growing' = Append(f, w) /\ node_index_incrementer' = n
      BY <1>3, <1>6 DEF GrowLeaf
    <2>2. w \in NodesOver(T) /\ w.id = z.id /\ w.children = z.children
      BY <1>3, <1>5 DEF NodesOver
    <2> HIDE DEF w, z, f, n
    <2>3. New(T, n, w) /\ Beside(f, w)
      BY <1>4, <2>2 DEF New, Beside, Distinct, Once
    <2>4. Numbered(T, growing', node_index_incrementer')
      BY <1>4, <2>1, <2>3, NumberedAdded
    <2> QED
      BY <2>4 DEF NumbersInv
  <1>7. CASE Top.class = "Literal"
    <2> DEFINE w == [z EXCEPT !.token = ahead, !.at = consumed', !.id = node_index_incrementer]
               m == n + 1
    <2>1. growing' = Append(f, w) /\ node_index_incrementer' = m
      BY <1>3, <1>7 DEF GrowLeaf
    <2>2. w \in NodesOver(T) /\ w.id = n /\ w.children = z.children
      BY <1>3, <1>5 DEF NodesOver
    <2>3. m \in Nat /\ n < m /\ m >= n
      BY <1>3
    <2> HIDE DEF w, z, f, n, m
    <2>4. /\ \A x \in T : x.id \in Nat /\ x.id < n
          /\ \A i \in 1 .. Len(f) : f[i].id \in Nat /\ f[i].id < n
      BY <1>4 DEF Numbered, New, NodesOver
    <2>5. (\A x \in T : x.id # n) /\ \A i \in 1 .. Len(f) : f[i].id # n
      BY <1>3, <2>4
    <2>6. New(T, m, w) /\ Beside(f, w)
      BY <1>4, <2>2, <2>3, <2>5 DEF New, Beside, Distinct, Once
    <2>7. Numbered(T, f, m)
      BY <1>4, <2>3, NumberedLater
    <2>8. Numbered(T, growing', node_index_incrementer')
      BY <2>1, <2>6, <2>7, NumberedAdded
    <2> QED
      BY <2>8 DEF NumbersInv
  <1>8. CASE Top.class \notin Terminals
    <2> DEFINE g == "GenericToken"
               y == NewNode(g, ahead, consumed')
               w == Adopting(z, y)
               m == n + 2
    <2>1. growing' = Append(f, w) /\ node_index_incrementer' = m
      BY <1>3, <1>8 DEF GrowLeaf, Adopt, Adopting, Numbers, Terminals
    <2>2. /\ y \in NodesOver(T) /\ y.children = <<>> /\ y.id = n + 1
      <3>1. Numbers(g) = 2 /\ n + 2 - 1 = n + 1 /\ n + 1 \in Nat
        BY <1>3 DEF Numbers
      <3> QED
        BY <1>3, <3>1 DEF NewNode, NodesOver
    <2>3. m \in Nat /\ n + 1 < m /\ m >= n /\ n + 1 >= n
      BY <1>3
    <2> HIDE DEF y, z, f, n, m
    <2>4. New(T, m, y) /\ Beside(f, y) /\ Distinct(y, z)
      BY <1>4, <1>5, <2>2, <2>3, NumberIsNew
    <2>5. Numbered(T, f, m)
      BY <1>4, <2>3, NumberedLater
    <2>6. New(T, m, z)
      <3>1. z.id < m
        BY <1>3, <1>5, <2>3
      <3> QED
        BY <1>4, <3>1 DEF New
    <2>7. Numbered(T \cup {y}, Append(f, w), m)
      BY <1>4, <2>4, <2>5, <2>6, NumberedAdopted
    <2>8. Numbered(T \cup {y}, growing', node_index_incrementer')
      BY <2>1, <2>7
    <2> QED
      BY <2>8 DEF NumbersInv
  <1> QED
    BY <1>6, <1>7, <1>8 DEF Terminals

\* An activation ends.
LEMMA AttachNumbers ==
  ASSUME TreeInv, NumbersInv, Returns, Attach
  PROVE  NumbersInv'
  <1>1. PICK T : Numbered(T, growing, node_index_incrementer)
    BY DEF NumbersInv
  <1> DEFINE n == node_index_incrementer
             k == Len(growing)
             f == Front(growing)
             y == Last(growing)
  <1>2. growing # <<>> /\ k > 1 /\ k \in Nat
    <2>1. PICK S : Trees(S, growing, frames, node_index_incrementer)
      BY DEF TreeInv, Grown
    <2> QED
      BY <2>1, InnermostIs DEF Returns
  <1>3. /\ Numbered(T, f, n) /\ New(T, n, y) /\ Beside(f, y)
        /\ growing = Append(f, y) /\ Len(f) = k - 1
    BY <1>1, <1>2, NumberedDropped
  <1>4. node_index_incrementer' = n
    BY DEF Attach
  <1>5. CASE answer # "true"
    <2>1. growing' = f
      BY <1>5 DEF Attach
    <2> QED
      BY <1>3, <1>4, <2>1 DEF NumbersInv
  <1>6. CASE answer = "true"
    <2> DEFINE e == Front(f)
               z == Last(f)
               w == Adopting(z, y)
    <2>1. f # <<>>
      BY <1>2, <1>3
    <2>2. /\ Numbered(T, e, n) /\ New(T, n, z) /\ Beside(e, z)
          /\ f = Append(e, z) /\ Len(e) = k - 2 /\ z = f[k - 1]
      <3> HIDE DEF f, e, z
      <3>1. /\ Numbered(T, e, n) /\ New(T, n, z) /\ Beside(e, z)
            /\ f = Append(e, z) /\ Len(e) = Len(f) - 1 /\ z = f[Len(f)]
        BY <1>3, <2>1, NumberedDropped DEF e, z
      <3> QED
        BY <1>2, <1>3, <3>1
    <2>3. f \in Seq(NodesOver(T)) /\ y \in NodesOver(T) /\ e \in Seq(NodesOver(T))
      BY <1>3, <2>2 DEF Numbered, New
    <2> DEFINE N == NodesOver(T)
    <2>4. /\ z = growing[k - 1] /\ k - 1 \in 1 .. Len(f)
          /\ \A i \in 1 .. k - 2 : f[i] = e[i] /\ i \in 1 .. Len(f)
      <3> HIDE DEF f, e, z, y, N, k
      <3>1. f \in Seq(N) /\ y \in N /\ e \in Seq(N) /\ z \in N
        BY <2>2, <2>3 DEF New, N
      <3>2. \A i \in 1 .. Len(f) : growing[i] = f[i]
        BY <1>3, <3>1, AppendIs
      <3>3. \A i \in 1 .. Len(e) : f[i] = e[i]
        BY <2>2, <3>1, AppendIs
      <3>4. /\ k - 1 \in 1 .. Len(f)
            /\ \A i \in 1 .. k - 2 : i \in 1 .. Len(f) /\ i \in 1 .. Len(e)
        BY <1>2, <1>3, <2>2
      <3> QED
        BY <2>2, <3>2, <3>3, <3>4
    <2>5. growing' = Append(e, w)
      <3> DEFINE v == [growing[k - 1] EXCEPT !.children = Append(@, Last(growing))]
      <3>1. growing' = Append(Front(Front(growing)), v)
        BY <1>6 DEF Attach
      <3>2. v = w
        BY <2>4 DEF Adopting
      <3> QED
        BY <3>1, <3>2
    <2> HIDE DEF f, e, z, y, n, k
    <2>6. Beside(e, y) /\ Distinct(y, z)
      <3>1. \A i \in 1 .. Len(f) : Distinct(f[i], y)
        BY <1>3 DEF Beside
      <3>2. Distinct(z, y)
        BY <2>2, <2>4, <3>1
      <3>3. \A i \in 1 .. Len(e) : Distinct(e[i], y)
        BY <2>2, <2>4, <3>1
      <3> QED
        BY <3>2, <3>3, DistinctBoth DEF Beside
    <2>7. Numbered(T \cup {y}, Append(e, w), n)
      BY <1>3, <2>2, <2>6, NumberedAdopted
    <2>8. Numbered(T \cup {y}, growing', node_index_incrementer')
      BY <1>4, <2>5, <2>7
    <2> QED
      BY <2>8 DEF NumbersInv
  <1> QED
    BY <1>5, <1>6

\* Every step keeps the numbers different.
LEMMA NumbersStep == TreeInv /\ NumbersInv /\ [TreeNext]_allVars => NumbersInv'
  <1> SUFFICES ASSUME TreeInv, NumbersInv, [TreeNext]_allVars PROVE NumbersInv'
    OBVIOUS
  <1>1. ParserInv /\ frames \in Seq(Frames) /\ frames # <<>> /\ Len(frames) \in Nat
    <2>1. ParserInv /\ frames \in Seq(Frames) /\ frames # <<>>
      BY DEF TreeInv, ParserInv, TypeOK
    <2> QED
      BY <2>1
  <1>2. Begins(Top)
    <2>1. PICK T : Trees(T, growing, frames, node_index_incrementer)
      BY DEF TreeInv, Grown
    <2> QED
      BY <2>1, InnermostIs DEF Fits
  <1>3. ASSUME UNCHANGED treeVars
        PROVE  NumbersInv'
    BY <1>3 DEF treeVars, NumbersInv
  <1>4. CASE TreeNext
    <2>1. Enters \/ (\E rest : Continues(rest)) \/ Returns \/ Stays
      BY <1>1, <1>2, <1>4, NextIs DEF TreeNext
    <2>2. \/ GrowChild \/ GrowLeaf \/ Attach \/ UNCHANGED treeVars
      BY <1>4 DEF TreeNext
    <2>3. CASE Enters
      <3>1. consumed' = consumed /\ ~(Len(frames') < Len(frames))
        <4> DEFINE b == Activation(Current.class)
        <4>1. frames' = Append(frames, b) /\ consumed' = consumed
          BY <2>3 DEF Enters
        <4> HIDE DEF b
        <4>2. Len(Append(frames, b)) = Len(frames) + 1
          BY <1>1
        <4> QED
          BY <1>1, <4>1, <4>2
      <3> QED
        BY <1>3, <2>2, <2>3, <3>1, GrowChildNumbers DEF GrowLeaf, Attach
    <2>4. ASSUME NEW rest, Continues(rest)
          PROVE  NumbersInv'
      <3>1. Len(frames') = Len(frames)
        <4> DEFINE b == Frame(Top.class, rest)
                   f == Front(frames)
        <4>1. f \in Seq(Frames) /\ frames' = Append(f, b) /\ Len(f) = Len(frames) - 1
          BY <1>1, <2>4, FrontIs DEF Continues
        <4> HIDE DEF b, f
        <4>2. Len(Append(f, b)) = Len(f) + 1
          BY <4>1
        <4> QED
          BY <1>1, <4>1, <4>2
      <3>2. ~(Len(frames') < Len(frames)) /\ ~(Len(frames') > Len(frames))
        BY <1>1, <3>1
      <3> QED
        BY <1>3, <2>2, <2>4, <3>2, GrowLeafNumbers DEF GrowChild, Attach
    <2>5. CASE Returns
      <3>1. consumed' = consumed /\ ~(Len(frames') > Len(frames))
        <4> DEFINE f == Front(frames)
                   e == Front(f)
        <4>1. f \in Seq(Frames) /\ Len(f) = Len(frames) - 1 /\ Len(frames) > 1
          BY <1>1, <2>5, FrontIs DEF Returns
        <4>2. f # <<>>
          BY <4>1
        <4> HIDE DEF f
        <4>3. e \in Seq(Frames) /\ Len(e) = Len(f) - 1
          BY <4>1, <4>2, FrontIs
        <4> HIDE DEF e
        <4>4. \A b : Len(Append(e, b)) = Len(e) + 1
          BY <4>3
        <4>5. (\E b : frames' = Append(e, b)) \/ frames' = f
          BY <2>5 DEF Returns, e, f
        <4>6. consumed' = consumed
          BY <2>5 DEF Returns
        <4> QED
          BY <1>1, <4>1, <4>3, <4>4, <4>5, <4>6
      <3> QED
        BY <1>3, <2>2, <2>5, <3>1, AttachNumbers DEF GrowChild, GrowLeaf
    <2>6. CASE Stays
      <3>1. /\ consumed' = consumed /\ ~(Len(frames') < Len(frames))
            /\ ~(Len(frames') > Len(frames))
        BY <1>1, <2>6 DEF Stays
      <3> QED
        BY <1>3, <2>2, <3>1 DEF GrowChild, GrowLeaf, Attach
    <2> QED
      BY <2>1, <2>3, <2>4, <2>5, <2>6
  <1>5. CASE UNCHANGED allVars
    BY <1>3, <1>5 DEF allVars
  <1> QED
    BY <1>4, <1>5

\* The nodes below the root are the root and finished ones.
LEMMA NodesAre ==
  ASSUME NEW T, Numbered(T, growing, node_index_incrementer), growing # <<>>
  PROVE  /\ Root \in NodesOver(T) /\ Nodes \subseteq T \cup {Root}
         /\ New(T, node_index_incrementer, Root)
  <1> DEFINE r == Root
             s == <<r>>
             U == T \cup {r}
             n == node_index_incrementer
  <1>1. T \subseteq NodesOver(T) /\ n \in Nat /\ New(T, n, r) /\ r \in NodesOver(T)
    <2>1. 1 \in 1 .. Len(growing)
      <3> DEFINE S == NodesOver(T)
                 g == growing
      <3>1. g \in Seq(S) /\ g # <<>>
        BY DEF Numbered
      <3> HIDE DEF S, g
      <3>2. Len(g) \in Nat /\ Len(g) >= 1
        BY <3>1
      <3> QED
        BY <3>2 DEF g
    <2>2. New(T, n, growing[1])
      BY <2>1 DEF Numbered
    <2> QED
      BY <2>2 DEF Numbered, New, Root
  <1> HIDE DEF r
  <1>2. U \subseteq NodesOver(U)
    BY <1>1, ForestGrows
  <1>3. s \in Seq(U)
    <2>1. r \in U
      OBVIOUS
    <2> HIDE DEF U
    <2> QED
      BY <2>1
  <1> HIDE DEF U, s
  <1>4. \A i \in 0 .. n : Range(OpenedOften(s, i)) \subseteq U
    <2> TAKE i \in 0 .. n
    <2>1. i \in Nat
      BY <1>1
    <2> DEFINE t == OpenedOften(s, i)
    <2>2. t \in Seq(U)
      BY <1>2, <1>3, <2>1, OftenIs
    <2> HIDE DEF t
    <2>3. Range(t) \subseteq U
      BY <2>2 DEF Range
    <2> QED
      BY <2>3 DEF t
  <1>5. Nodes \subseteq U
    BY <1>4 DEF Nodes, r, s, n
  <1> QED
    BY <1>1, <1>5 DEF U, r, n

\* For texts of every length the nodes below the root are a tree at every
\* moment, and each of them is known by its number.
THEOREM TreeIsNumbered == TreeSpec => []NumbersMakeATree
  <1>1. TreeInv /\ NumbersInv => NumbersMakeATree
    <2> SUFFICES ASSUME TreeInv, NumbersInv PROVE NumbersMakeATree
      OBVIOUS
    <2>1. PICK T : Numbered(T, growing, node_index_incrementer)
      BY DEF NumbersInv
    <2>2. growing # <<>>
      <3>1. PICK S : Trees(S, growing, frames, node_index_incrementer)
        BY DEF TreeInv, Grown
      <3> QED
        BY <3>1, InnermostIs
    <2> DEFINE r == Root
               U == T \cup {r}
    <2>3. Nodes \subseteq U /\ New(T, node_index_incrementer, r) /\ r \in NodesOver(T)
      BY <2>1, <2>2, NodesAre
    <2> HIDE DEF r
    <2>4. /\ \A x \in T : Once(x) /\ Distinct(x, r) /\ Distinct(r, x)
          /\ \A x, y \in T : x # y => Distinct(x, y)
          /\ Once(r) /\ T \subseteq NodesOver(T)
      BY <2>1, <2>3, DistinctBoth DEF Numbered, New
    <2>5. \A x, y \in U : Once(x) /\ (x # y => Distinct(x, y))
      BY <2>4
    <2>6. r \notin T
      BY <2>4 DEF Distinct
    <2>7. ASSUME NEW x \in U PROVE r \notin Range(x.children)
      <3>1. x \in NodesOver(T)
        BY <2>3, <2>4
      <3> DEFINE c == x.children
      <3>2. c \in Seq(T)
        BY <3>1 DEF NodesOver
      <3> HIDE DEF c
      <3>3. Range(c) \subseteq T
        BY <3>2 DEF Range
      <3> QED
        BY <2>6, <3>3 DEF c
    <2> HIDE DEF U
    <2>8. \A x, y \in Nodes : x.id = y.id => x = y
      BY <2>3, <2>5 DEF Distinct
    <2>9. ASSUME NEW x \in Nodes, NEW y \in Nodes, NEW i \in DOMAIN x.children,
                 NEW j \in DOMAIN y.children, x.children[i] = y.children[j]
          PROVE  x = y /\ i = j
      <3>1. x = y
        BY <2>3, <2>5, <2>9 DEF Distinct
      <3> QED
        BY <2>3, <2>5, <2>9, <3>1 DEF Once
    <2>10. \A x \in Nodes : Root \notin Range(x.children)
      BY <2>3, <2>7 DEF r
    <2> QED
      BY <2>8, <2>9, <2>10 DEF NumbersMakeATree
  <1> QED
    BY <1>1, NumbersStart, NumbersStep, TreeAlways, TreeStart, TreeStep, PTL DEF TreeSpec
=============================================================================
