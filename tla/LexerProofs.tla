---------------------------- MODULE LexerProofs ----------------------------
(***************************************************************************)
(* Theorems about modules Lexer and Literals, for texts and literals of    *)
(* every length and integers of every width.                               *)
(***************************************************************************)
EXTENDS Literals, FiniteSetTheorems, SequenceTheorems, WellFoundedInduction,
        TLAPS

-----------------------------------------------------------------------------
(* Induction and recursion over the natural numbers up to a bound, stated  *)
(* of sets and of functions.                                               *)

\* What holds at 0 and passes from each number to the next holds up to n.
LEMMA BoundedInduction ==
  ASSUME NEW n \in Nat, NEW S, 0 \in S,
         \A i \in 0 .. n - 1 : i \in S => i + 1 \in S
  PROVE  0 .. n \subseteq S
  <1> DEFINE T == (0 .. n) \ S
             Less == OpToRel(<, Nat)
  <1> SUFFICES ASSUME T # {} PROVE FALSE
    OBVIOUS
  <1>1. T \subseteq Nat
    OBVIOUS
  <1>2. PICK m \in T : \A y \in T : ~(<<y, m>> \in Less)
    BY <1>1, NatLessThanWellFounded, WFMin
  <1>3. \A y \in T : ~(y < m)
    BY <1>1, <1>2 DEF OpToRel
  <1>4. m \in 0 .. n /\ m \notin S /\ m - 1 \in 0 .. n - 1
    OBVIOUS
  <1>5. m - 1 \notin T
    BY <1>3, <1>4
  <1> QED
    BY <1>4, <1>5

\* f is what base and step give for 0 .. n.
Recurses(f, n, base, step) ==
    f[0] = base /\ \A i \in 1 .. n : f[i] = step[<<i, f[i - 1]>>]

\* A step that takes values to values has a recursive function.
LEMMA RecursionExists ==
  ASSUME NEW n \in Nat, NEW A, NEW base \in A, NEW step \in [(1 .. n) \X A -> A]
  PROVE  \E f \in [0 .. n -> A] : Recurses(f, n, base, step)
  <1> DEFINE Is(f, m) == /\ f \in [0 .. m -> A] /\ f[0] = base
                         /\ \A i \in 1 .. m : f[i] = step[<<i, f[i - 1]>>]
             S == {m \in 0 .. n : \E f : Is(f, m)}
  <1>1. 0 \in S
    <2> DEFINE z == [i \in 0 .. 0 |-> base]
    <2>1. z \in [0 .. 0 -> A] /\ z[0] = base /\ 1 .. 0 = {}
      OBVIOUS
    <2> HIDE DEF z
    <2>2. Is(z, 0) /\ 0 \in 0 .. n
      BY <2>1
    <2> HIDE DEF Is
    <2> QED
      BY <2>2
  <1>2. ASSUME NEW m \in 0 .. n - 1, m \in S
        PROVE  m + 1 \in S
    <2>1. PICK f : Is(f, m)
      <3> HIDE DEF Is
      <3> QED
        BY <1>2
    <2> DEFINE v == step[<<m + 1, f[m]>>]
               g == [i \in 0 .. m + 1 |-> IF i = m + 1 THEN v ELSE f[i]]
    <2>2. /\ f \in [0 .. m -> A] /\ f[0] = base
          /\ \A i \in 1 .. m : f[i] = step[<<i, f[i - 1]>>]
      BY <2>1
    <2> HIDE DEF Is, S
    <2>3. /\ m \in Nat /\ m \in 0 .. m /\ m + 1 \in 1 .. n /\ m + 1 \in 0 .. m + 1
          /\ m \in 0 .. m + 1 /\ 0 \in 0 .. m /\ m + 1 \in 0 .. n
      OBVIOUS
    <2>4. v \in A
      <3>1. f[m] \in A
        BY <2>2, <2>3
      <3>2. <<m + 1, f[m]>> \in (1 .. n) \X A
        BY <2>3, <3>1
      <3> QED
        BY <3>2
    <2>5. /\ \A i \in 0 .. m : g[i] = f[i]
          /\ g[m + 1] = v
      <3> HIDE DEF v
      <3>1. \A i \in 0 .. m : i \in 0 .. m + 1 /\ i # m + 1
        BY <2>3
      <3> QED
        BY <2>3, <3>1
    <2>6. g \in [0 .. m + 1 -> A]
      <3> HIDE DEF v
      <3>1. \A i \in 0 .. m + 1 : i = m + 1 \/ (i # m + 1 /\ i \in 0 .. m)
        BY <2>3
      <3>2. \A i \in 0 .. m : f[i] \in A
        BY <2>2
      <3> QED
        BY <2>4, <3>1, <3>2
    <2> HIDE DEF g
    <2>7. \A i \in 1 .. m + 1 : g[i] = step[<<i, g[i - 1]>>]
      <3> TAKE i \in 1 .. m + 1
      <3>1. i - 1 \in 0 .. m /\ (i = m + 1 \/ (i \in 1 .. m /\ i \in 0 .. m))
        BY <2>3
      <3>2. CASE i = m + 1
        <4>1. i - 1 = m
          BY <2>3, <3>2
        <4> QED
          BY <2>3, <2>5, <3>2, <4>1
      <3>3. CASE i \in 1 .. m /\ i \in 0 .. m
        BY <2>2, <2>5, <3>1, <3>3
      <3> QED
        BY <3>1, <3>2, <3>3
    <2>8. g[0] = base
      BY <2>2, <2>3, <2>5
    <2>9. Is(g, m + 1)
      BY <2>6, <2>7, <2>8 DEF Is
    <2> QED
      BY <2>3, <2>9 DEF S
  <1>3. n \in S
    <2> HIDE DEF S
    <2>1. 0 .. n \subseteq S
      BY <1>1, <1>2, BoundedInduction
    <2> QED
      BY <2>1
  <1>4. PICK f : Is(f, n)
    <2> HIDE DEF Is
    <2> QED
      BY <1>3
  <1> HIDE DEF S
  <1> QED
    BY <1>4 DEF Recurses

-----------------------------------------------------------------------------
(* Characters, and the loop over them.                                     *)

\* No character is of two kinds.
LEMMA KindsAreDisjoint ==
    /\ WordCharacters \cap (Signs \cup {":", "="} \cup WhiteSpace \cup Others) = {}
    /\ (Letters \cup Gap) \cap Digits = {}
    /\ Signs \cap ({":", "="} \cup WhiteSpace \cup Others) = {}
    /\ {":", "="} \cap (WhiteSpace \cup Others) = {}
    /\ WhiteSpace \cap Others = {}
    /\ ":" # "="
  <1> DEFINE K == <<Letters, Gap, Digits, Signs, Blanks, Others, {":", "=", Newline}>>
  <1>0. \A i, j \in 1 .. 7 : i # j => K[i] \cap K[j] = {}
    BY CharacterAssumption DEF Kinds
  <1>1. /\ K[1] = Letters /\ K[2] = Gap /\ K[3] = Digits /\ K[4] = Signs
        /\ K[5] = Blanks /\ K[6] = Others /\ K[7] = {":", "=", Newline}
    OBVIOUS
  <1>2. /\ Letters \cap Digits = {} /\ Letters \cap Signs = {} /\ Letters \cap Blanks = {}
        /\ Letters \cap Others = {} /\ Letters \cap {":", "=", Newline} = {}
    BY <1>0, <1>1
  <1>3. /\ Gap \cap Digits = {} /\ Gap \cap Signs = {} /\ Gap \cap Blanks = {}
        /\ Gap \cap Others = {} /\ Gap \cap {":", "=", Newline} = {}
    BY <1>0, <1>1
  <1>4. /\ Digits \cap Signs = {} /\ Digits \cap Blanks = {}
        /\ Digits \cap Others = {} /\ Digits \cap {":", "=", Newline} = {}
    BY <1>0, <1>1
  <1>5. /\ Signs \cap Blanks = {} /\ Signs \cap Others = {}
        /\ Signs \cap {":", "=", Newline} = {}
    BY <1>0, <1>1
  <1>6. /\ Blanks \cap Others = {} /\ Blanks \cap {":", "=", Newline} = {}
        /\ Others \cap {":", "=", Newline} = {}
    BY <1>0, <1>1
  <1>7. Newline # ":" /\ Newline # "=" /\ ":" # "="
    BY DEF Newline
  <1> HIDE DEF K
  <1> QED
    BY <1>2, <1>3, <1>4, <1>5, <1>6, <1>7 DEF WordCharacters, WhiteSpace

\* Until stops, at the first column where it may.
LEMMA UntilIsFirst ==
    ASSUME NEW view, NEW begin \in Nat, NEW end \in Nat, begin <= end, NEW S
    PROVE  /\ Until(view, begin, end, S) \in begin .. end
           /\ \/ Until(view, begin, end, S) = end
              \/ CharAt(view, Until(view, begin, end, S)) \in S
           /\ \A c \in begin .. Until(view, begin, end, S) - 1 : CharAt(view, c) \notin S
  <1> DEFINE T == {c \in begin .. end : c = end \/ CharAt(view, c) \in S}
             Less == OpToRel(<, Nat)
  <1>1. end \in T /\ T \subseteq Nat
    OBVIOUS
  <1>2. PICK q \in T : \A y \in T : ~ (<<y, q>> \in Less)
    BY <1>1, NatLessThanWellFounded, WFMin
  <1>3. \A y \in T : ~ (y < q)
    BY <1>1, <1>2 DEF OpToRel
  <1>4. \A c \in begin .. q - 1 : CharAt(view, c) \notin S
    BY <1>1, <1>3
  <1> QED
    BY <1>1, <1>4 DEF Until

-----------------------------------------------------------------------------
(* Types.                                                                  *)

\* The line compileCode is in is one of the lines.
LEMMA LineType ==
    ASSUME TypeOK, line_index <= Len(code_lines)
    PROVE  line_index \in DOMAIN code_lines /\ Line.from \in Nat \ {0} /\ Line.size \in Nat
  <1>1. line_index \in DOMAIN code_lines
    BY DEF TypeOK
  <1>2. code_lines[line_index] \in Views
    BY <1>1 DEF TypeOK
  <1> QED
    BY <1>1, <1>2 DEF Line, Views

\* Where the stretch without white space ends.
LEMMA WordEndRange ==
    ASSUME TypeOK, InLine, CharAt(Line, begin_index) \notin WhiteSpace
    PROVE  /\ WordEnd \in begin_index + 1 .. Line.size + 1
           /\ \/ WordEnd = Line.size + 1
              \/ CharAt(Line, WordEnd) \in WhiteSpace
           /\ \A c \in begin_index .. WordEnd - 1 : CharAt(Line, c) \notin WhiteSpace
  <1>1. begin_index \in Nat /\ Line.size \in Nat /\ begin_index <= Line.size
    BY LineType DEF TypeOK, InLine
  <1>2. begin_index <= Line.size + 1 /\ Line.size + 1 \in Nat
    BY <1>1
  <1>3. /\ WordEnd \in begin_index .. Line.size + 1
        /\ WordEnd = Line.size + 1 \/ CharAt(Line, WordEnd) \in WhiteSpace
        /\ \A c \in begin_index .. WordEnd - 1 : CharAt(Line, c) \notin WhiteSpace
    BY <1>1, <1>2, UntilIsFirst DEF WordEnd
  <1> QED
    BY <1>1, <1>3

\* A token lies within that stretch; a word ends where word characters end.
LEMMA NextIndexRange ==
    ASSUME TypeOK, InLine, CharAt(Line, begin_index) \notin WhiteSpace
    PROVE  /\ NextIndex # NoIndex => NextIndex \in begin_index + 1 .. WordEnd
           /\ CharAt(Line, begin_index) \in WordCharacters =>
                 /\ NextIndex # NoIndex
                 /\ \/ NextIndex = WordEnd
                    \/ CharAt(Line, NextIndex) \in Characters \ WordCharacters
                 /\ \A c \in begin_index .. NextIndex - 1 :
                       CharAt(Line, c) \notin Characters \ WordCharacters
  <1>1. begin_index \in Nat \ {0} /\ WordEnd \in Nat /\ begin_index + 1 <= WordEnd
    BY WordEndRange, LineType DEF TypeOK, InLine
  <1> DEFINE n == Until(Line, begin_index + 1, WordEnd, Characters \ WordCharacters)
  <1>2. /\ n \in begin_index + 1 .. WordEnd
        /\ n = WordEnd \/ CharAt(Line, n) \in Characters \ WordCharacters
        /\ \A c \in begin_index + 1 .. n - 1 :
              CharAt(Line, c) \notin Characters \ WordCharacters
    <2>1. begin_index + 1 \in Nat
      BY <1>1
    <2> QED
      BY <1>1, <2>1, UntilIsFirst
  <1>3. CASE CharAt(Line, begin_index) \in WordCharacters
    <2>1. NextIndex = n
      BY <1>3 DEF NextIndex, getNextIndex
    <2>2. \A c \in begin_index .. n - 1 : c = begin_index \/ c \in begin_index + 1 .. n - 1
      BY <1>1, <1>2
    <2> HIDE DEF n
    <2> QED
      BY <1>1, <1>2, <1>3, <2>1, <2>2 DEF NoIndex
  <1>4. CASE CharAt(Line, begin_index) \notin WordCharacters
    <2>1. \/ NextIndex = begin_index + 1 \/ NextIndex = NoIndex
          \/ NextIndex = begin_index + 2 /\ begin_index + 1 < WordEnd
      <3>1. CASE CharAt(Line, begin_index) \in Signs \cup {"="}
        BY <1>4, <3>1, Zenon DEF NextIndex, getNextIndex
      <3>2. CASE /\ CharAt(Line, begin_index) \notin Signs \cup {"="}
                 /\ CharAt(Line, begin_index) = ":" /\ begin_index + 1 < WordEnd
                 /\ CharAt(Line, begin_index + 1) = "="
        BY <1>4, <3>2, Zenon DEF NextIndex, getNextIndex
      <3>3. CASE /\ CharAt(Line, begin_index) \notin Signs \cup {"="}
                 /\ ~(/\ CharAt(Line, begin_index) = ":" /\ begin_index + 1 < WordEnd
                      /\ CharAt(Line, begin_index + 1) = "=")
        BY <1>4, <3>3, Zenon DEF NextIndex, getNextIndex
      <3> QED
        BY <3>1, <3>2, <3>3, Zenon
    <2> QED
      BY <1>1, <1>4, <2>1
  <1> QED
    BY <1>3, <1>4

\* What compileCode adds to streamTokens has a type.
LEMMA TokenTypeType == ASSUME NEW word PROVE TokenType(word) \in Types \cup {NoType}
  BY DEF TokenType, Types

\* The constructor's line ends within the text.
LEMMA LineEndRange ==
    ASSUME TypeOK, next_line <= Len(text)
    PROVE  /\ LineEnd \in next_line .. Len(text) + 1
           /\ LineEnd = Len(text) + 1 \/ text[LineEnd] = Newline
           /\ \A q \in next_line .. LineEnd - 1 : text[q] # Newline
  <1>1. next_line \in Nat \ {0} /\ Len(text) + 1 \in Nat /\ next_line <= Len(text) + 1
    BY DEF TypeOK
  <1>2. \A c \in Nat : CharAt(Whole, c) = text[c]
    BY DEF CharAt, At, Whole
  <1>3. /\ LineEnd \in next_line .. Len(text) + 1
        /\ LineEnd = Len(text) + 1 \/ CharAt(Whole, LineEnd) \in {Newline}
        /\ \A c \in next_line .. LineEnd - 1 : CharAt(Whole, c) \notin {Newline}
    BY <1>1, UntilIsFirst DEF LineEnd
  <1> QED
    BY <1>1, <1>2, <1>3

\* The initial state has its type.
LEMMA TypeInit == Init => TypeOK
  <1> SUFFICES ASSUME Init PROVE TypeOK
    OBVIOUS
  <1>1. PICK n \in 0 .. MaxLength : text \in [1 .. n -> Characters]
    BY DEF Init
  <1>2. text \in Seq(Characters)
    BY <1>1, LengthAssumption
  <1> QED
    BY <1>2 DEF Init, TypeOK

\* Every step keeps the types.
LEMMA TypeStep == TypeOK /\ [Next]_vars => TypeOK'
  <1> SUFFICES ASSUME TypeOK, [Next]_vars PROVE TypeOK'
    OBVIOUS
  <1>1. CASE SplitLine
    <2>1. /\ LineEnd \in next_line .. Len(text) + 1
          /\ next_line \in Nat \ {0}
      BY <1>1, LineEndRange DEF SplitLine, TypeOK
    <2>2. [from |-> next_line, size |-> LineEnd - next_line] \in Views
      BY <2>1 DEF Views
    <2>3. code_lines' \in Seq(Views) /\ Len(code_lines') = Len(code_lines) + 1
      BY <1>1, <2>2 DEF SplitLine, TypeOK
    <2>4. next_line' \in 1 .. Len(text) + 2
      BY <1>1, <2>1 DEF SplitLine, TypeOK
    <2>5. line_index' \in 1 .. Len(code_lines') + 1
      BY <1>1, <2>3 DEF SplitLine, TypeOK
    <2> QED
      BY <1>1, <2>3, <2>4, <2>5 DEF SplitLine, TypeOK
  <1>2. CASE StartLexing \/ Accept
    BY <1>2 DEF StartLexing, Accept, lines, TypeOK
  <1>3. CASE SkipWhiteSpace
    BY <1>3 DEF SkipWhiteSpace, lines, TypeOK
  <1>4. CASE TakeToken
    <2>1. /\ NextIndex \in Nat \ {0} /\ NextIndex - 1 \in Nat
          /\ begin_index \in Nat \ {0} /\ line_index \in Nat \ {0}
      BY <1>4, NextIndexRange, WordEndRange, LineType, SMTT(30) DEF TakeToken, InLine, TypeOK
    <2>2. Reference(line_index, begin_index, NextIndex - 1) \in References
      BY <2>1 DEF Reference, References
    <2>3. TokenType(Word(NextIndex)) \in Types
      BY <1>4, TokenTypeType DEF TakeToken
    <2>4. streamTokens' \in Seq([reference : References, type : Types])
      BY <1>4, <2>2, <2>3 DEF TakeToken, TypeOK
    <2> QED
      BY <1>4, <2>1, <2>4 DEF TakeToken, lines, TypeOK
  <1>5. CASE RejectCharacter \/ RejectWord
    <2>1. PICK last \in Nat :
             printed' = Append(printed, Reference(line_index, begin_index, last))
      <3>1. CASE RejectCharacter
        BY <3>1 DEF RejectCharacter, printTokenFailure, TypeOK
      <3>2. CASE RejectWord
        <4>1. NextIndex - 1 \in Nat
          BY <3>2, NextIndexRange, WordEndRange, LineType DEF RejectWord, InLine, TypeOK
        <4> QED
          BY <3>2, <4>1 DEF RejectWord, printTokenFailure
      <3> QED
        BY <1>5, <3>1, <3>2
    <2>2. Reference(line_index, begin_index, last) \in References
      BY DEF Reference, References, TypeOK
    <2>3. printed' \in Seq(References)
      BY <2>1, <2>2 DEF TypeOK
    <2> QED
      BY <1>5, <2>3 DEF RejectCharacter, RejectWord, printTokenFailure, lines, TypeOK
  <1>6. CASE EndLine
    BY <1>6 DEF EndLine, lines, TypeOK
  <1>7. CASE ReportEndOfText
    <2>1. EndOfText \in References
      <3>1. CASE code_lines = <<>>
        BY <3>1 DEF EndOfText, Reference, References
      <3>2. CASE code_lines # <<>>
        <4>1. Len(code_lines) \in DOMAIN code_lines
          BY <3>2 DEF TypeOK
        <4>2. code_lines[Len(code_lines)] \in Views
          BY <4>1 DEF TypeOK
        <4>3. Len(code_lines) \in Nat \ {0} /\ code_lines[Len(code_lines)].size \in Nat
          BY <4>1, <4>2 DEF TypeOK, Views
        <4> QED
          BY <3>2, <4>3 DEF EndOfText, Reference, References
      <3> QED
        BY <3>1, <3>2
    <2>2. printed' \in Seq(References)
      BY <1>7, <2>1 DEF ReportEndOfText, TypeOK
    <2> QED
      BY <1>7, <2>2 DEF ReportEndOfText, lines, TypeOK
  <1>8. CASE UNCHANGED vars
    BY <1>8 DEF vars, TypeOK
  <1> QED
    BY <1>1, <1>2, <1>3, <1>4, <1>5, <1>6, <1>7, <1>8 DEF Next

\* Type correctness: every CodeReference has a line and columns that count
\* from 1, for texts of every length.
THEOREM TypeCorrect == Spec => []TypeOK
  BY TypeInit, TypeStep, PTL DEF Spec

-----------------------------------------------------------------------------
(* The lines.                                                              *)

NewlinesBefore(p) == {q \in 1 .. p - 1 : text[q] = Newline}

\* The k-th line has no newline in it, stands between two, and its number
\* counts the newlines before it.
LineOK(k) ==
    LET line == code_lines[k]
    IN /\ line.from + line.size <= Len(text) + 1
       /\ line.from + line.size < next_line
       /\ \A q \in line.from .. line.from + line.size - 1 : text[q] # Newline
       /\ line.from + line.size <= Len(text) =>
             text[line.from + line.size] = Newline
       /\ line.from > 1 => text[line.from - 1] = Newline
       /\ k = 1 + Cardinality(NewlinesBefore(line.from))

\* Lines follow each other, a newline apart.
LineBegins(k) ==
    code_lines[k].from =
        IF k = 1 THEN 1 ELSE code_lines[k - 1].from + code_lines[k - 1].size + 1

InLineOf(p, k) == p \in code_lines[k].from .. code_lines[k].from + code_lines[k].size - 1

SplitInv ==
    /\ \A k \in DOMAIN code_lines : LineOK(k) /\ LineBegins(k)
    /\ next_line = IF code_lines = <<>> THEN 1
                   ELSE code_lines[Len(code_lines)].from
                          + code_lines[Len(code_lines)].size + 1
    /\ next_line <= Len(text) + 1 =>
          /\ next_line > 1 => text[next_line - 1] = Newline
          /\ Len(code_lines) = Cardinality(NewlinesBefore(next_line))
    /\ \A p \in DOMAIN text : p < next_line =>
          text[p] = Newline \/ \E k \in DOMAIN code_lines : InLineOf(p, k)
    /\ stage # "splitting" => next_line > Len(text)

\* No line has been split off.
LEMMA SplitInit == Init => SplitInv
  <1> SUFFICES ASSUME Init PROVE SplitInv
    OBVIOUS
  <1>1. NewlinesBefore(1) = {}
    BY DEF NewlinesBefore
  <1>2. Cardinality(NewlinesBefore(1)) = 0
    BY <1>1, FS_EmptySet
  <1>3. TypeOK
    BY TypeInit
  <1>4. \A p \in DOMAIN text : ~ (p < 1)
    BY <1>3 DEF TypeOK
  <1> QED
    BY <1>2, <1>4 DEF Init, SplitInv

\* A line more.
LEMMA SplitStep ==
    ASSUME TypeOK, SplitInv, SplitLine
    PROVE  SplitInv'
  <1>a. PICK e : e = LineEnd
    OBVIOUS
  <1>b. PICK n : n = Len(code_lines)
    OBVIOUS
  <1>c. PICK new : new = [from |-> next_line, size |-> e - next_line]
    OBVIOUS
  <1>1. /\ next_line \in Nat \ {0} /\ n \in Nat /\ Len(text) \in Nat
        /\ code_lines \in Seq(Views) /\ next_line <= Len(text)
        /\ DOMAIN text = 1 .. Len(text)
    BY <1>b DEF TypeOK, SplitLine
  <1>2. /\ e \in next_line .. Len(text) + 1
        /\ e = Len(text) + 1 \/ text[e] = Newline
        /\ \A q \in next_line .. e - 1 : text[q] # Newline
    BY <1>a, LineEndRange DEF SplitLine
  <1>3. new \in Views /\ new.from = next_line /\ new.size = e - next_line
    BY <1>1, <1>2, <1>c DEF Views
  <1>4. /\ code_lines' = Append(code_lines, new) /\ next_line' = e + 1
        /\ text' = text /\ stage' = stage /\ stage = "splitting"
    BY <1>a, <1>c DEF SplitLine
  <1>5. /\ Len(code_lines') = n + 1 /\ DOMAIN code_lines' = 1 .. n + 1
        /\ DOMAIN code_lines = 1 .. n
        /\ code_lines'[n + 1] = new
        /\ \A k \in 1 .. n : code_lines'[k] = code_lines[k]
    BY <1>1, <1>3, <1>4, <1>b
  <1>6. \A k \in 1 .. n : code_lines[k] \in Views
    BY <1>1, <1>5
  <1>7. \A p : NewlinesBefore(p)' = NewlinesBefore(p)
    BY <1>4 DEF NewlinesBefore
  <1>8. /\ next_line > 1 => text[next_line - 1] = Newline
        /\ n = Cardinality(NewlinesBefore(next_line))
    BY <1>1, <1>b DEF SplitInv
  <1>9. \A k \in 1 .. n : LineOK(k)' /\ LineBegins(k)'
    <2> SUFFICES ASSUME NEW k \in 1 .. n PROVE LineOK(k)' /\ LineBegins(k)'
      OBVIOUS
    <2>1. LineOK(k) /\ LineBegins(k)
      BY <1>5 DEF SplitInv
    <2>2. code_lines'[k] = code_lines[k] /\ (k > 1 => code_lines'[k - 1] = code_lines[k - 1])
      BY <1>1, <1>5
    <2>3. code_lines[k].from + code_lines[k].size < next_line'
      BY <1>1, <1>2, <1>4, <1>6, <2>1 DEF LineOK, Views
    <2>4. LineOK(k)'
      BY <1>4, <1>7, <2>1, <2>2, <2>3 DEF LineOK
    <2>5. LineBegins(k)'
      BY <2>1, <2>2 DEF LineBegins
    <2> QED
      BY <2>4, <2>5
  <1>10. LineOK(n + 1)'
    <2>1. /\ new.from + new.size = e /\ new.from = next_line
      BY <1>1, <1>2, <1>3
    <2> QED
      <3>1. code_lines'[n + 1].from = next_line /\ code_lines'[n + 1].size = new.size
        BY <1>5, <2>1
      <3>2. NewlinesBefore(code_lines[n + 1].from)' = NewlinesBefore(next_line)
        BY <1>4, <3>1 DEF NewlinesBefore
      <3>3. n + 1 = 1 + Cardinality(NewlinesBefore(code_lines[n + 1].from)')
        BY <1>1, <1>8, <3>2
      <3> QED
        <4>1. code_lines'[n + 1].from + code_lines'[n + 1].size = e
          BY <2>1, <3>1
        <4>2. /\ e <= Len(text') + 1 /\ e < next_line'
              /\ \A q \in next_line .. e - 1 : text'[q] # Newline
              /\ e <= Len(text') => text'[e] = Newline
              /\ next_line > 1 => text'[next_line - 1] = Newline
          BY <1>1, <1>2, <1>4, <1>8
        <4> QED
          BY <1>1, <1>2, <1>3, <3>1, <3>3, <4>1, <4>2 DEF LineOK
  <1>11. LineBegins(n + 1)'
    <2>1. CASE n = 0
      <3>1. code_lines = <<>>
        BY <1>1, <1>b, <2>1, EmptySeq
      <3>2. next_line = 1
        BY <3>1 DEF SplitInv
      <3> QED
        BY <1>3, <1>5, <2>1, <3>2 DEF LineBegins
    <2>2. CASE n > 0
      <3>1. code_lines # <<>> /\ n \in 1 .. n /\ n + 1 # 1 /\ n + 1 - 1 = n
        BY <1>1, <1>b, <2>2
      <3>2. next_line = code_lines[n].from + code_lines[n].size + 1
        BY <3>1, <1>b DEF SplitInv
      <3> QED
        BY <1>1, <1>3, <1>5, <3>1, <3>2 DEF LineBegins
    <2> QED
      BY <1>1, <2>1, <2>2
  <1>12. next_line' = code_lines'[n + 1].from + code_lines'[n + 1].size + 1
    BY <1>1, <1>2, <1>3, <1>4, <1>5
  <1>13. ASSUME next_line' <= Len(text) + 1
         PROVE  /\ text[next_line' - 1] = Newline
                /\ n + 1 = Cardinality(NewlinesBefore(next_line'))
    <2>1. e <= Len(text) /\ text[e] = Newline /\ e + 1 - 1 = e
      BY <1>1, <1>2, <1>4, <1>13
    <2>2. NewlinesBefore(e + 1) = NewlinesBefore(next_line) \cup {e}
      BY <1>1, <1>2, <2>1 DEF NewlinesBefore
    <2>3. e \notin NewlinesBefore(next_line)
      BY <1>1, <1>2 DEF NewlinesBefore
    <2>4. IsFiniteSet(NewlinesBefore(next_line))
      <3>1. IsFiniteSet(1 .. next_line - 1)
        BY <1>1, FS_Interval
      <3> QED
        BY <3>1, FS_Subset DEF NewlinesBefore
    <2>5. Cardinality(NewlinesBefore(e + 1)) = Cardinality(NewlinesBefore(next_line)) + 1
      BY <2>2, <2>3, <2>4, FS_AddElement
    <2>6. next_line' = e + 1
      BY <1>4
    <2>7. text[next_line' - 1] = Newline
      BY <1>1, <1>2, <2>1, <2>6
    <2>8. n + 1 = Cardinality(NewlinesBefore(e + 1))
      BY <1>8, <2>5
    <2>9. NewlinesBefore(next_line') = NewlinesBefore(e + 1)
      BY <2>6 DEF NewlinesBefore
    <2> QED
      BY <2>7, <2>8, <2>9
  <1>14. \A p \in DOMAIN text : p < next_line' =>
            text[p] = Newline \/ \E k \in 1 .. n + 1 : InLineOf(p, k)'
    <2> SUFFICES ASSUME NEW p \in DOMAIN text, p < next_line', text[p] # Newline
                 PROVE  \E k \in 1 .. n + 1 : InLineOf(p, k)'
      OBVIOUS
    <2>1. CASE p < next_line
      <3>1. PICK k \in 1 .. n : InLineOf(p, k)
        BY <1>5, <2>1 DEF SplitInv
      <3> QED
        BY <1>1, <1>5, <3>1 DEF InLineOf
    <2>2. CASE p >= next_line
      <3>1. p \in next_line .. e - 1
        BY <1>1, <1>2, <1>4, <2>2
      <3>2. InLineOf(p, n + 1)'
        BY <1>1, <1>2, <1>3, <1>5, <3>1 DEF InLineOf
      <3> QED
        BY <1>1, <3>2
    <2> QED
      BY <1>1, <2>1, <2>2
  <1>15. code_lines' # <<>>
    BY <1>1, <1>5
  <1>16. \A k \in 1 .. n + 1 : LineOK(k)' /\ LineBegins(k)'
    <2>1. \A k \in 1 .. n + 1 : k \in 1 .. n \/ k = n + 1
      BY <1>1
    <2> QED
      BY <1>9, <1>10, <1>11, <2>1
  <1> QED
    BY <1>4, <1>5, <1>7, <1>12, <1>13, <1>14, <1>15, <1>16 DEF SplitInv

\* The lines stay what they are once the constructor has ended.
LEMMA LinesStay ==
    ASSUME SplitInv, UNCHANGED lines, stage # "splitting" \/ next_line > Len(text) \/ stage' = stage
    PROVE  SplitInv'
  <1>1. \A p : NewlinesBefore(p)' = NewlinesBefore(p)
    BY DEF NewlinesBefore, lines
  <1>2. \A k : (LineOK(k)' <=> LineOK(k)) /\ (LineBegins(k)' <=> LineBegins(k))
    BY <1>1 DEF LineOK, LineBegins, lines
  <1>3. \A p, k : InLineOf(p, k)' <=> InLineOf(p, k)
    BY DEF InLineOf, lines
  <1> QED
    BY <1>1, <1>2, <1>3 DEF SplitInv, lines

\* What SplitInv says of a line when all of them are known.
LEMMA LineInText ==
    ASSUME TypeOK, SplitInv, NEW k \in DOMAIN code_lines
    PROVE  /\ code_lines[k].from \in Nat \ {0} /\ code_lines[k].size \in Nat
           /\ code_lines[k].from + code_lines[k].size <= Len(text) + 1
           /\ code_lines[k].from + code_lines[k].size <= Len(text) =>
                 text[code_lines[k].from + code_lines[k].size] = Newline
           /\ code_lines[k].from > 1 => text[code_lines[k].from - 1] = Newline
           /\ k + 1 \in DOMAIN code_lines =>
                 code_lines[k + 1].from = code_lines[k].from + code_lines[k].size + 1
           /\ k + 1 \notin DOMAIN code_lines /\ stage # "splitting" =>
                 code_lines[k].from + code_lines[k].size >= Len(text)
  <1>1. code_lines[k] \in Views /\ k \in 1 .. Len(code_lines) /\ Len(text) \in Nat
    BY DEF TypeOK
  <1>2. LineOK(k) /\ (k + 1 \in DOMAIN code_lines => LineBegins(k + 1))
    BY DEF SplitInv
  <1>3. k + 1 \in DOMAIN code_lines =>
           code_lines[k + 1].from = code_lines[k].from + code_lines[k].size + 1
    BY <1>1, <1>2 DEF LineBegins
  <1>4. ASSUME k + 1 \notin DOMAIN code_lines, stage # "splitting"
        PROVE  code_lines[k].from + code_lines[k].size >= Len(text)
    <2>1. k = Len(code_lines) /\ code_lines # <<>>
      BY <1>1, <1>4 DEF TypeOK
    <2>2. next_line = code_lines[k].from + code_lines[k].size + 1 /\ next_line > Len(text)
      BY <1>4, <2>1 DEF SplitInv
    <2> QED
      BY <1>1, <2>2 DEF Views
  <1> QED
    BY <1>1, <1>2, <1>3, <1>4 DEF LineOK, Views

\* The numbers and columns of lines, from the invariant of the constructor.
LEMMA LinesAreRight == TypeOK /\ SplitInv => LinesAreTheText
  <1> SUFFICES ASSUME TypeOK, SplitInv, stage # "splitting",
                      NEW p \in DOMAIN text, text[p] # Newline
               PROVE  \E k \in DOMAIN code_lines :
                         LET line == code_lines[k]
                         IN /\ p \in line.from .. line.from + line.size - 1
                            /\ \A q \in line.from .. p : text[q] # Newline
                            /\ line.from > 1 => text[line.from - 1] = Newline
                            /\ k = 1 + Cardinality({q \in 1 .. p : text[q] = Newline})
    BY DEF LinesAreTheText
  <1>1. p < next_line /\ p \in 1 .. Len(text) /\ Len(text) \in Nat
    BY DEF TypeOK, SplitInv
  <1>2. PICK k \in DOMAIN code_lines : InLineOf(p, k)
    BY <1>1 DEF SplitInv
  <1>3. code_lines[k].from \in Nat \ {0} /\ code_lines[k].size \in Nat
    BY LineInText
  <1>4. LineOK(k)
    BY DEF SplitInv
  <1>5. \A q \in code_lines[k].from .. p : text[q] # Newline
    BY <1>1, <1>2, <1>3, <1>4 DEF LineOK, InLineOf
  <1>6. {q \in 1 .. p : text[q] = Newline} = NewlinesBefore(code_lines[k].from)
    BY <1>1, <1>2, <1>3, <1>5 DEF NewlinesBefore, InLineOf
  <1> QED
    BY <1>2, <1>4, <1>5, <1>6 DEF LineOK, InLineOf

-----------------------------------------------------------------------------
(* What stands at a position of the text.                                  *)

\* White space begins nothing.
LEMMA NothingAtWhiteSpace ==
    ASSUME TypeOK, NEW p \in DOMAIN text, text[p] \in WhiteSpace, NEW to, NEW type
    PROVE  ~IsLexeme(text, p, to, type) /\ ~IsMistake(text, p, to)
  <1>1. /\ text[p] \notin WordCharacters /\ text[p] \notin Signs
        /\ text[p] # ":" /\ text[p] # "=" /\ text[p] \notin Others
    BY KindsAreDisjoint
  <1>2. ~IsWord(text, p, to)
    BY <1>1 DEF IsWord, TypeOK
  <1> QED
    BY <1>1, <1>2 DEF IsLexeme, IsMistake

\* A position where a word has begun.
Fresh(p) ==
    /\ p \in DOMAIN text
    /\ p > 1 => /\ text[p - 1] # ":"
                /\ text[p - 1] \notin WordCharacters \/ text[p] \notin WordCharacters

\* Two words that overlap are the same.
LEMMA WordsAreApart ==
    ASSUME TypeOK, NEW a, NEW b, IsWord(text, a, b), NEW c \in a .. b, NEW d,
           IsWord(text, c, d)
    PROVE  c = a /\ d = b
  <1>1. /\ a \in 1 .. Len(text) /\ b \in a .. Len(text) /\ d \in c .. Len(text)
        /\ Len(text) \in Nat
    BY DEF IsWord, TypeOK
  <1>2. c = a
    <2>1. CASE c > a
      <3>1. c - 1 \in a .. b /\ c > 1
        BY <1>1, <2>1
      <3> QED
        BY <3>1 DEF IsWord
    <2> QED
      BY <1>1, <2>1
  <1>3. ~ (d < b)
    <2>1. CASE d < b
      <3>1. d + 1 \in a .. b /\ d < Len(text)
        BY <1>1, <2>1
      <3> QED
        BY <3>1 DEF IsWord
    <2> QED
      BY <2>1
  <1>4. ~ (b < d)
    <2>1. CASE b < d
      <3>1. b + 1 \in c .. d /\ b < Len(text)
        BY <1>1, <2>1
      <3> QED
        BY <3>1 DEF IsWord
    <2> QED
      BY <2>1
  <1> QED
    BY <1>1, <1>2, <1>3, <1>4

\* What TokenType looks at is the range of the text.
LEMMA WordOfRange ==
    ASSUME TypeOK, NEW a \in DOMAIN text, NEW b \in DOMAIN text, a <= b
    PROVE  LET w == SubSeq(text, a, b)
           IN /\ w \in Seq(Characters) /\ Len(w) = b - a + 1
              /\ w[1] = text[a]
              /\ isKeyword(w) <=> IsKeywordAt(text, a, b)
              /\ isIdentifier(w) <=> Consists(text, a, b, Letters \cup Gap)
              /\ isLiteral(w) <=> Consists(text, a, b, Digits)
  <1> DEFINE w == SubSeq(text, a, b)
  <1>1. a \in 1 .. Len(text) /\ b \in 1 .. Len(text) /\ Len(text) \in Nat
    BY DEF TypeOK
  <1>2. /\ w \in Seq(Characters) /\ Len(w) = b - a + 1
        /\ \A c \in 1 .. b - a + 1 : w[c] = text[a + c - 1]
    BY <1>1, SMTT(30) DEF TypeOK
  <1>3. DOMAIN w = 1 .. b - a + 1
    BY <1>2
  <1> HIDE DEF w
  <1>4. \A c \in 1 .. b - a + 1 : a + c - 1 \in a .. b
    BY <1>1
  <1>5. \A p \in a .. b : p - a + 1 \in 1 .. b - a + 1 /\ a + (p - a + 1) - 1 = p
    BY <1>1
  <1>6. ASSUME NEW S
        PROVE  (\A c \in DOMAIN w : w[c] \in S) <=> Consists(text, a, b, S)
    <2>1. ASSUME \A c \in DOMAIN w : w[c] \in S, NEW p \in a .. b PROVE text[p] \in S
      <3>1. w[p - a + 1] \in S /\ w[p - a + 1] = text[a + (p - a + 1) - 1]
        BY <1>2, <1>3, <1>5, <2>1
      <3> QED
        BY <1>5, <3>1
    <2>2. ASSUME Consists(text, a, b, S), NEW c \in DOMAIN w PROVE w[c] \in S
      BY <1>2, <1>3, <1>4, <2>2 DEF Consists
    <2> QED
      BY <2>1, <2>2 DEF Consists
  <1>7. w[1] = text[a]
    BY <1>1, <1>2
  <1>8. isKeyword(w) <=> IsKeywordAt(text, a, b)
    BY DEF isKeyword, IsKeywordAt, w
  <1> QED
    BY <1>2, <1>6, <1>7, <1>8 DEF isIdentifier, isLiteral, w

\* Where compileCode stands in the text.
Here == IF line_index <= Len(code_lines) THEN At(Line, begin_index) ELSE Len(text) + 1

\* Columns of the line are positions of the text.
LEMMA ColumnsAreInText ==
    ASSUME TypeOK, SplitInv, InLine
    PROVE  /\ Here = Line.from + begin_index - 1 /\ Here \in DOMAIN text
           /\ Line.from \in Nat \ {0} /\ Line.size \in Nat
           /\ begin_index \in 1 .. Line.size
           /\ Line.from + Line.size <= Len(text) + 1
           /\ Line.from + Line.size <= Len(text) =>
                 text[Line.from + Line.size] = Newline
           /\ \A c \in 1 .. Line.size : CharAt(Line, c) \in Characters
           /\ \A c \in Nat : CharAt(Line, c) = text[Line.from + c - 1]
           /\ Here \in 1 .. Len(text) /\ Len(text) \in Nat /\ begin_index \in Nat
           /\ CharAt(Line, begin_index) = text[Here] /\ text[Here] \in Characters
  <1>1. line_index \in DOMAIN code_lines /\ begin_index \in 1 .. Line.size
    BY LineType DEF InLine, TypeOK
  <1>2. /\ Line.from \in Nat \ {0} /\ Line.size \in Nat
        /\ Line.from + Line.size <= Len(text) + 1
        /\ Line.from + Line.size <= Len(text) => text[Line.from + Line.size] = Newline
    BY <1>1, LineInText DEF Line
  <1>3. Len(text) \in Nat /\ DOMAIN text = 1 .. Len(text)
        /\ \A p \in 1 .. Len(text) : text[p] \in Characters
    BY DEF TypeOK
  <1>4. Here = Line.from + begin_index - 1 /\ Here \in DOMAIN text
    BY <1>1, <1>2, <1>3 DEF Here, InLine, At
  <1>5. \A c \in Nat : CharAt(Line, c) = text[Line.from + c - 1]
    BY DEF CharAt, At
  <1>6. \A c \in 1 .. Line.size : Line.from + c - 1 \in 1 .. Len(text)
    BY <1>2, <1>3
  <1>7. \A c \in 1 .. Line.size : CharAt(Line, c) \in Characters
    BY <1>2, <1>3, <1>5, <1>6
  <1>8. CharAt(Line, begin_index) = text[Here] /\ text[Here] \in Characters
    BY <1>1, <1>2, <1>3, <1>4, <1>5
  <1>9. Here \in 1 .. Len(text)
    BY <1>3, <1>4
  <1> QED
    BY <1>1, <1>2, <1>3, <1>4, <1>5, <1>7, <1>8, <1>9

\* A run of word characters is read to its end.
LEMMA WordHere ==
    ASSUME TypeOK, SplitInv, InLine, Fresh(Here), text[Here] \in WordCharacters
    PROVE  /\ NextIndex \in begin_index + 1 .. Line.size + 1
           /\ IsWord(text, Here, At(Line, NextIndex) - 1)
  <1>a. PICK f, s, n : f = Line.from /\ s = Line.size /\ n = NextIndex
    OBVIOUS
  <1>1. /\ f \in Nat \ {0} /\ s \in Nat /\ begin_index \in 1 .. s /\ begin_index \in Nat
        /\ Here = f + begin_index - 1 /\ f + s <= Len(text) + 1 /\ Len(text) \in Nat
    BY <1>a, ColumnsAreInText DEF TypeOK
  <1>2. /\ f + s <= Len(text) => text[f + s] = Newline
        /\ \A c \in 1 .. s : CharAt(Line, c) \in Characters
        /\ \A c \in Nat : CharAt(Line, c) = text[f + c - 1]
    BY <1>a, ColumnsAreInText
  <1>3. CharAt(Line, begin_index) \in WordCharacters
        /\ CharAt(Line, begin_index) \notin WhiteSpace
    BY <1>1, <1>2, KindsAreDisjoint
  <1>4. /\ WordEnd \in begin_index + 1 .. s + 1
        /\ WordEnd = s + 1 \/ CharAt(Line, WordEnd) \in WhiteSpace
    BY <1>a, <1>3, WordEndRange
  <1>5. /\ n \in begin_index + 1 .. WordEnd
        /\ n = WordEnd \/ CharAt(Line, n) \in Characters \ WordCharacters
        /\ \A c \in begin_index .. n - 1 :
              CharAt(Line, c) \notin Characters \ WordCharacters
    BY <1>a, <1>3, NextIndexRange
  <1>6. n \in begin_index + 1 .. s + 1 /\ n \in Nat /\ (n = WordEnd \/ n < s + 1)
    BY <1>1, <1>4, <1>5
  <1>7. \A p \in Here .. f + n - 2 : text[p] \in WordCharacters
    <2> SUFFICES ASSUME NEW p \in Here .. f + n - 2 PROVE text[p] \in WordCharacters
      OBVIOUS
    <2>1. PICK c : c = p - f + 1
      OBVIOUS
    <2>2. c \in begin_index .. n - 1 /\ p = f + c - 1 /\ c \in 1 .. s /\ c \in Nat
      BY <1>1, <1>6, <2>1
    <2> QED
      BY <1>2, <1>5, <2>2
  <1>8. Here > 1 => text[Here - 1] \notin WordCharacters
    BY DEF Fresh
  <1>9. ASSUME f + n - 1 <= Len(text) PROVE text[f + n - 1] \notin WordCharacters
    <2>1. CASE n = s + 1
      <3>1. f + n - 1 = f + s
        BY <1>1, <2>1
      <3> QED
        BY <1>2, <1>9, <3>1, KindsAreDisjoint DEF WhiteSpace
    <2>2. CASE n < s + 1
      <3>1. CharAt(Line, n) \notin WordCharacters
        BY <1>1, <1>4, <1>5, <1>6, <2>2, KindsAreDisjoint
      <3> QED
        BY <1>2, <1>6, <3>1
    <2> QED
      BY <1>1, <1>6, <2>1, <2>2
  <1>10. PICK e : e = f + n - 2
    OBVIOUS
  <1>11. /\ At(Line, NextIndex) - 1 = e
         /\ Here \in 1 .. Len(text) /\ e \in Here .. Len(text) /\ e + 1 = f + n - 1
    <2>1. At(Line, NextIndex) = f + n - 1
      BY <1>a DEF At
    <2> QED
      BY <1>1, <1>6, <1>10, <2>1
  <1>12. e < Len(text) => text[e + 1] \notin WordCharacters
    BY <1>1, <1>9, <1>11
  <1> QED
    BY <1>a, <1>6, <1>7, <1>8, <1>10, <1>11, <1>12 DEF IsWord

\* Only the word itself, of the type TokenType gives it, begins within it.
LEMMA LexemesOfWord ==
    ASSUME TypeOK, NEW a, NEW b, IsWord(text, a, b)
    PROVE  LET type == TokenType(SubSeq(text, a, b))
           IN /\ type # NoType => IsLexeme(text, a, b, type)
              /\ type = NoType => IsMistake(text, a, b)
              /\ \A from \in a .. b : \A to, t :
                    IsLexeme(text, from, to, t) =>
                       from = a /\ to = b /\ t = type /\ type # NoType
              /\ type # NoType => \A from \in a .. b : \A to : ~IsMistake(text, from, to)
  <1> DEFINE w == SubSeq(text, a, b)
             type == TokenType(w)
  <1>1. /\ a \in 1 .. Len(text) /\ b \in a .. Len(text) /\ Len(text) \in Nat
        /\ \A p \in a .. b : text[p] \in WordCharacters
        /\ a \in DOMAIN text /\ b \in DOMAIN text /\ a <= b /\ a \in a .. b
    BY DEF IsWord, TypeOK
  <1>2. /\ w \in Seq(Characters) /\ Len(w) = b - a + 1 /\ w[1] = text[a]
        /\ isKeyword(w) <=> IsKeywordAt(text, a, b)
        /\ isIdentifier(w) <=> Consists(text, a, b, Letters \cup Gap)
        /\ isLiteral(w) <=> Consists(text, a, b, Digits)
    BY <1>1, WordOfRange
  <1>3. w[1] \in WordCharacters /\ w[1] # ":" /\ w[1] \notin Signs \cup {"="}
    BY <1>1, <1>2, KindsAreDisjoint
  <1>4. w # <<":", "=">>
    <2>1. <<":", "=">>[1] = ":"
      OBVIOUS
    <2> QED
      BY <1>3, <2>1, Zenon
  <1> HIDE DEF w
  <1>5. type = IF isKeyword(w) THEN "KEYWORD" ELSE IF isIdentifier(w) THEN "IDENTIFIER"
               ELSE IF isLiteral(w) THEN "LITERAL" ELSE NoType
    BY <1>3, <1>4, Zenon DEF TokenType
  <1>6. isKeyword(w) => isIdentifier(w)
    <2>1. isKeyword(w) => w \in Seq(Letters)
      BY KeywordAssumption DEF isKeyword
    <2> QED
      BY <2>1 DEF isIdentifier
  <1>7. ~ (isIdentifier(w) /\ isLiteral(w))
    <2>1. Consists(text, a, b, Digits) => text[a] \in Digits
      BY <1>1 DEF Consists
    <2>2. Consists(text, a, b, Letters \cup Gap) => text[a] \in Letters \cup Gap
      BY <1>1 DEF Consists
    <2> QED
      BY <1>2, <2>1, <2>2, KindsAreDisjoint
  <1>8. NoType # "KEYWORD" /\ NoType # "IDENTIFIER" /\ NoType # "LITERAL"
    BY DEF NoType
  <1>9. type # NoType => IsLexeme(text, a, b, type)
    BY <1>2, <1>5, <1>8 DEF IsLexeme
  <1>10. type = NoType => IsMistake(text, a, b)
    BY <1>2, <1>5, <1>6, <1>8 DEF IsMistake
  <1>11. ASSUME NEW from \in a .. b, NEW to, NEW t, IsLexeme(text, from, to, t)
         PROVE  from = a /\ to = b /\ t = type /\ type # NoType
    <2>1. text[from] \notin Signs /\ text[from] # "=" /\ text[from] # ":"
      BY <1>1, KindsAreDisjoint
    <2>2. /\ IsWord(text, from, to)
          /\ \/ t = "KEYWORD" /\ IsKeywordAt(text, from, to)
             \/ /\ t = "IDENTIFIER" /\ ~IsKeywordAt(text, from, to)
                /\ Consists(text, from, to, Letters \cup Gap)
             \/ t = "LITERAL" /\ Consists(text, from, to, Digits)
      BY <1>11, <2>1 DEF IsLexeme
    <2>3. from = a /\ to = b
      BY <2>2, WordsAreApart
    <2> QED
      BY <1>2, <1>5, <1>6, <1>7, <1>8, <2>2, <2>3
  <1>12. ASSUME type # NoType, NEW from \in a .. b, NEW to, IsMistake(text, from, to)
         PROVE  FALSE
    <2>1. text[from] \notin Others /\ text[from] # ":"
      BY <1>1, KindsAreDisjoint
    <2>2. /\ IsWord(text, from, to)
          /\ ~Consists(text, from, to, Letters \cup Gap)
          /\ ~Consists(text, from, to, Digits)
      BY <1>12, <2>1 DEF IsMistake
    <2>3. from = a /\ to = b
      BY <2>2, WordsAreApart
    <2> QED
      BY <1>2, <1>5, <1>6, <1>12, <2>2, <2>3
  <1> HIDE DEF type
  <1>13. type = TokenType(SubSeq(text, a, b))
    BY DEF type, w
  <1> QED
    BY <1>9, <1>10, <1>11, <1>12, <1>13

\* A sign is read alone.
LEMMA SignHere ==
    ASSUME TypeOK, SplitInv, InLine, Fresh(Here), text[Here] \in Signs \cup {"="}
    PROVE  /\ NextIndex = begin_index + 1
           /\ TokenType(SubSeq(text, Here, Here)) = text[Here]
           /\ IsLexeme(text, Here, Here, text[Here])
           /\ \A to, t : IsLexeme(text, Here, to, t) => to = Here /\ t = text[Here]
           /\ \A to : ~IsMistake(text, Here, to)
  <1>1. /\ Here \in DOMAIN text /\ Here \in 1 .. Len(text) /\ Len(text) \in Nat
        /\ CharAt(Line, begin_index) = text[Here]
    BY ColumnsAreInText
  <1>2. /\ text[Here] \notin WordCharacters /\ text[Here] # ":"
        /\ text[Here] \notin Others
    BY KindsAreDisjoint
  <1>3. NextIndex = begin_index + 1
    BY <1>1, <1>2, Zenon DEF NextIndex, getNextIndex
  <1> DEFINE w == SubSeq(text, Here, Here)
  <1>4. /\ w \in Seq(Characters) /\ Len(w) = Here - Here + 1 /\ w[1] = text[Here]
    BY <1>1, WordOfRange
  <1>5. Len(w) = 1
    BY <1>1, <1>4
  <1> HIDE DEF w
  <1>6. w # <<":", "=">> /\ 1 \in DOMAIN w
    <2>1. Len(<<":", "=">>) = 2
      OBVIOUS
    <2>2. DOMAIN w = 1 .. Len(w)
      BY <1>4
    <2> QED
      BY <1>5, <2>1, <2>2
  <1>7. w[1] \notin Letters \cup Gap /\ w[1] \notin Digits
    BY <1>2, <1>4 DEF WordCharacters
  <1>8. ~isKeyword(w) /\ ~isIdentifier(w) /\ ~isLiteral(w)
    <2>1. isKeyword(w) => w[1] \in Letters
      BY <1>6, KeywordAssumption DEF isKeyword
    <2> QED
      BY <1>6, <1>7, <2>1 DEF isIdentifier, isLiteral
  <1>9. TokenType(w) = text[Here]
    BY <1>4, <1>6, <1>8, Zenon DEF TokenType
  <1>10. \A to : ~IsWord(text, Here, to)
    BY <1>1, <1>2 DEF IsWord
  <1>11. Here > 1 => text[Here - 1] # ":"
    BY DEF Fresh
  <1>12. IsLexeme(text, Here, Here, text[Here])
    BY <1>1, <1>11 DEF IsLexeme
  <1>13. \A to, t : IsLexeme(text, Here, to, t) => to = Here /\ t = text[Here]
    BY <1>2, <1>10 DEF IsLexeme
  <1>14. \A to : ~IsMistake(text, Here, to)
    BY <1>2, <1>10 DEF IsMistake
  <1> QED
    BY <1>3, <1>9, <1>12, <1>13, <1>14 DEF w

\* A colon is read with the equals sign behind it, or refused.
LEMMA ColonHere ==
    ASSUME TypeOK, SplitInv, InLine, Fresh(Here), text[Here] = ":"
    PROVE  /\ NextIndex = NoIndex => IsMistake(text, Here, Here)
           /\ NextIndex # NoIndex =>
                 /\ NextIndex = begin_index + 2 /\ begin_index + 1 <= Line.size
                 /\ Here + 1 \in DOMAIN text /\ text[Here + 1] = "="
                 /\ TokenType(SubSeq(text, Here, Here + 1)) = ":="
                 /\ IsLexeme(text, Here, Here + 1, ":=")
                 /\ \A from \in {Here, Here + 1} : \A to, t :
                       IsLexeme(text, from, to, t) =>
                           from = Here /\ to = Here + 1 /\ t = ":="
                 /\ \A from \in {Here, Here + 1} : \A to : ~IsMistake(text, from, to)
  <1>a. PICK f, s : f = Line.from /\ s = Line.size
    OBVIOUS
  <1>1. /\ f \in Nat \ {0} /\ s \in Nat /\ begin_index \in 1 .. s /\ begin_index \in Nat
        /\ Here = f + begin_index - 1 /\ f + s <= Len(text) + 1 /\ Len(text) \in Nat
        /\ Here \in 1 .. Len(text)
    BY <1>a, ColumnsAreInText
  <1>2. /\ f + s <= Len(text) => text[f + s] = Newline
        /\ CharAt(Line, begin_index) = text[Here]
        /\ CharAt(Line, begin_index + 1) = text[Here + 1]
    <2>1. \A c \in Nat : CharAt(Line, c) = text[f + c - 1]
      BY <1>a, ColumnsAreInText
    <2>2. f + (begin_index + 1) - 1 = Here + 1 /\ begin_index + 1 \in Nat
      BY <1>1
    <2> QED
      BY <1>a, <1>1, <2>1, <2>2, ColumnsAreInText
  <1>3. /\ ":" \notin WordCharacters /\ ":" \notin Signs \cup {"="}
        /\ ":" \notin WhiteSpace /\ ":" \notin Others
        /\ "=" \notin WordCharacters /\ "=" \notin Signs
        /\ "=" \notin WhiteSpace /\ "=" \notin Others /\ ":" # "="
    BY KindsAreDisjoint
  <1>4. /\ WordEnd \in begin_index + 1 .. s + 1
        /\ WordEnd = s + 1 \/ CharAt(Line, WordEnd) \in WhiteSpace
    BY <1>a, <1>2, <1>3, WordEndRange
  <1>5. CASE begin_index + 1 < WordEnd /\ text[Here + 1] = "="
    <2>1. NextIndex = begin_index + 2
      BY <1>2, <1>3, <1>5, Zenon DEF NextIndex, getNextIndex
    <2>2. begin_index + 1 <= s /\ Here + 1 \in 1 .. Len(text) /\ Here <= Here + 1
          /\ Here \in 1 .. Len(text) - 1 /\ begin_index + 2 # NoIndex
      BY <1>1, <1>4, <1>5 DEF NoIndex
    <2>3. DOMAIN text = 1 .. Len(text)
      BY DEF TypeOK
    <2> DEFINE w == SubSeq(text, Here, Here + 1)
    <2>4. w \in Seq(Characters) /\ Len(w) = 2 /\ w[1] = ":" /\ w[2] = "="
      BY <1>1, <1>5, <2>2 DEF TypeOK
    <2> HIDE DEF w
    <2>5. w = <<":", "=">> /\ 1 \in DOMAIN w
      BY <2>4
    <2>6. ~isKeyword(w) /\ ~isIdentifier(w) /\ ~isLiteral(w)
      <3>1. isKeyword(w) => w[1] \in Letters
        BY <2>5, KeywordAssumption DEF isKeyword
      <3>2. w[1] \notin Letters \cup Gap /\ w[1] \notin Digits
        BY <1>3, <2>4 DEF WordCharacters
      <3> QED
        BY <2>5, <3>1, <3>2 DEF isIdentifier, isLiteral
    <2>7. TokenType(w) = ":="
      BY <2>5, <2>6, Zenon DEF TokenType
    <2>8. /\ \A to : ~IsWord(text, Here, to) /\ ~IsWord(text, Here + 1, to)
      BY <1>1, <1>3, <1>5, <2>2 DEF IsWord
    <2>9. IsLexeme(text, Here, Here + 1, ":=")
      BY <1>5, <2>2 DEF IsLexeme
    <2>10. \A to, t : IsLexeme(text, Here, to, t) => to = Here + 1 /\ t = ":="
      BY <1>3, <2>8 DEF IsLexeme
    <2>11. Here + 1 > 1 /\ Here + 1 - 1 = Here
      BY <1>1
    <2>12. \A to, t : ~IsLexeme(text, Here + 1, to, t)
      <3>1. PICK q : q = Here + 1
        OBVIOUS
      <3>a. q - 1 = Here
        BY <1>1, <3>1
      <3>b. \A to : ~IsWord(text, q, to)
        BY <2>8, <3>1
      <3>2. text[q] = "=" /\ q > 1 /\ text[q - 1] = ":" /\ \A to : ~IsWord(text, q, to)
        BY <1>1, <1>5, <3>1, <3>a, <3>b
      <3>3. \A to, t : ~IsLexeme(text, q, to, t)
        BY <1>3, <3>2 DEF IsLexeme
      <3> QED
        BY <3>1, <3>3
    <2>13. \A to : ~IsMistake(text, Here, to) /\ ~IsMistake(text, Here + 1, to)
      BY <1>1, <1>3, <1>5, <2>2, <2>8 DEF IsMistake
    <2> QED
      BY <1>a, <1>5, <2>1, <2>2, <2>3, <2>7, <2>9, <2>10, <2>12, <2>13 DEF w
  <1>6. CASE ~(begin_index + 1 < WordEnd /\ text[Here + 1] = "=")
    <2>1. NextIndex = NoIndex
      BY <1>2, <1>3, <1>6, Zenon DEF NextIndex, getNextIndex
    <2>2. ASSUME Here < Len(text), text[Here + 1] = "=" PROVE FALSE
      <3>1. WordEnd = begin_index + 1
        BY <1>1, <1>4, <1>6, <2>2
      <3>2. WordEnd = s + 1 => f + s = Here + 1
        BY <1>1, <3>1
      <3>3. WordEnd # s + 1
        BY <1>1, <1>2, <1>3, <2>2, <3>2 DEF WhiteSpace
      <3> QED
        BY <1>2, <1>3, <1>4, <2>2, <3>1, <3>3
    <2>3. IsMistake(text, Here, Here)
      BY <1>1, <2>2 DEF IsMistake
    <2> QED
      BY <2>1, <2>3
  <1> QED
    BY <1>5, <1>6

\* The token that begins here, or the mistake.
LEMMA TokenHere ==
    ASSUME TypeOK, SplitInv, InLine, Fresh(Here),
           CharAt(Line, begin_index) \notin WhiteSpace, NextIndex # NoIndex
    PROVE  LET last == At(Line, NextIndex) - 1
               type == TokenType(Word(NextIndex))
           IN /\ NextIndex \in begin_index + 1 .. Line.size + 1
              /\ last \in Here .. Len(text)
              /\ type = NoType => IsMistake(text, Here, last)
              /\ type # NoType =>
                    /\ IsLexeme(text, Here, last, type)
                    /\ \A from \in Here .. last : \A to, t :
                          IsLexeme(text, from, to, t) =>
                              from = Here /\ to = last /\ t = type
                    /\ \A from \in Here .. last : \A to : ~IsMistake(text, from, to)
                    /\ text[last] # ":"
                    /\ last < Len(text) =>
                          text[last] \notin WordCharacters \/ text[last + 1] \notin WordCharacters
  <1>a. PICK f, s, last, type :
           /\ f = Line.from /\ s = Line.size
           /\ last = At(Line, NextIndex) - 1 /\ type = TokenType(Word(NextIndex))
    OBVIOUS
  <1>1. /\ f \in Nat \ {0} /\ s \in Nat /\ begin_index \in 1 .. s /\ begin_index \in Nat
        /\ Here = f + begin_index - 1 /\ f + s <= Len(text) + 1 /\ Len(text) \in Nat
        /\ Here \in 1 .. Len(text)
    BY <1>a, ColumnsAreInText
  <1>2. CharAt(Line, begin_index) = text[Here] /\ text[Here] \in Characters
    BY ColumnsAreInText
  <1>3. /\ last = At(Line, NextIndex) - 1 /\ At(Line, NextIndex) = f + NextIndex - 1
        /\ type = TokenType(SubSeq(text, Here, last))
    <2>1. At(Line, NextIndex) = f + NextIndex - 1 /\ At(Line, begin_index) = Here
      BY <1>a, <1>1 DEF At
    <2>2. Word(NextIndex) = SubSeq(text, Here, At(Line, NextIndex) - 1)
      BY <2>1 DEF Word
    <2>3. Word(NextIndex) = SubSeq(text, Here, last)
      BY <1>a, <2>2
    <2>4. type = TokenType(SubSeq(text, Here, last))
      BY <1>a, <2>3
    <2> QED
      BY <1>a, <2>1, <2>4
  <1>4. CASE text[Here] \in WordCharacters
    <2>1. NextIndex \in begin_index + 1 .. s + 1 /\ IsWord(text, Here, last)
      BY <1>a, <1>4, WordHere
    <2>2. last \in Here .. Len(text)
      BY <2>1 DEF IsWord
    <2>3. text[last] # ":" /\ (last < Len(text) => text[last + 1] \notin WordCharacters)
      BY <1>1, <2>1, <2>2, KindsAreDisjoint DEF IsWord
    <2>4. /\ type # NoType => IsLexeme(text, Here, last, type)
          /\ type = NoType => IsMistake(text, Here, last)
          /\ \A from \in Here .. last : \A to, t :
                IsLexeme(text, from, to, t) => from = Here /\ to = last /\ t = type
          /\ type # NoType =>
                \A from \in Here .. last : \A to : ~IsMistake(text, from, to)
      BY <1>3, <2>1, LexemesOfWord
    <2> QED
      BY <1>a, <2>1, <2>2, <2>3, <2>4, Zenon
  <1>5. CASE text[Here] \in Signs \cup {"="}
    <2>1. /\ NextIndex = begin_index + 1
          /\ TokenType(SubSeq(text, Here, Here)) = text[Here]
          /\ IsLexeme(text, Here, Here, text[Here])
          /\ \A to, t : IsLexeme(text, Here, to, t) => to = Here /\ t = text[Here]
          /\ \A to : ~IsMistake(text, Here, to)
      BY <1>5, SignHere
    <2>2. last = Here /\ NextIndex \in begin_index + 1 .. s + 1
      BY <1>1, <1>3, <2>1
    <2>3. type = text[Here] /\ (\A from \in Here .. last : from = Here)
          /\ last \in Here .. Len(text)
      BY <1>a, <1>1, <1>3, <2>1, <2>2
    <2>4. text[last] # ":" /\ text[last] \notin WordCharacters
      BY <1>5, <2>2, KindsAreDisjoint
    <2>5. type # NoType
      BY <1>5, <2>3, TypeAssumption DEF Types
    <2> QED
      BY <1>a, <2>1, <2>2, <2>3, <2>4, <2>5, Zenon
  <1>6. CASE text[Here] = ":"
    <2>1. /\ NextIndex = begin_index + 2 /\ begin_index + 1 <= s
          /\ Here + 1 \in DOMAIN text /\ text[Here + 1] = "="
          /\ TokenType(SubSeq(text, Here, Here + 1)) = ":="
          /\ IsLexeme(text, Here, Here + 1, ":=")
          /\ \A from \in {Here, Here + 1} : \A to, t :
                IsLexeme(text, from, to, t) => from = Here /\ to = Here + 1 /\ t = ":="
          /\ \A from \in {Here, Here + 1} : \A to : ~IsMistake(text, from, to)
      BY <1>a, <1>6, ColonHere
    <2>2. last = Here + 1 /\ NextIndex \in begin_index + 1 .. s + 1
      BY <1>1, <1>3, <2>1
    <2>3. type = ":=" /\ (\A from \in Here .. last : from \in {Here, Here + 1})
          /\ last \in Here .. Len(text)
      <3>1. DOMAIN text = 1 .. Len(text)
        BY DEF TypeOK
      <3> QED
        BY <1>a, <1>1, <1>3, <2>1, <2>2, <3>1
    <2>4. text[last] # ":" /\ text[last] \notin WordCharacters
      BY <2>1, <2>2, KindsAreDisjoint
    <2>5. type # NoType
      BY <2>3 DEF NoType
    <2> QED
      BY <1>a, <2>1, <2>2, <2>3, <2>4, <2>5, Zenon
  <1>7. text[Here] \notin Others
    <2>1. ASSUME text[Here] \in Others PROVE NextIndex = NoIndex
      <3>1. text[Here] \notin WordCharacters /\ text[Here] \notin Signs \cup {"="}
            /\ text[Here] # ":"
        BY <2>1, KindsAreDisjoint
      <3> QED
        BY <1>2, <3>1, Zenon DEF NextIndex, getNextIndex
    <2> QED
      BY <2>1
  <1> QED
    BY <1>2, <1>4, <1>5, <1>6, <1>7 DEF Characters

\* Where no token can be read stands a mistake.
LEMMA NoTokenHere ==
    ASSUME TypeOK, SplitInv, InLine, Fresh(Here),
           CharAt(Line, begin_index) \notin WhiteSpace, NextIndex = NoIndex
    PROVE  IsMistake(text, Here, Here)
  <1>1. Here \in 1 .. Len(text) /\ begin_index \in Nat
    BY ColumnsAreInText
  <1>2. CharAt(Line, begin_index) = text[Here] /\ text[Here] \in Characters
    BY ColumnsAreInText
  <1>3. text[Here] \notin WordCharacters
    BY <1>2, NextIndexRange
  <1>4. text[Here] \notin Signs \cup {"="}
    <2>1. text[Here] \in Signs \cup {"="} => NextIndex = begin_index + 1
      BY SignHere
    <2> QED
      BY <1>1, <2>1 DEF NoIndex
  <1>5. text[Here] = ":" => IsMistake(text, Here, Here)
    BY ColonHere
  <1>6. text[Here] \in Others => IsMistake(text, Here, Here)
    BY <1>1 DEF IsMistake
  <1> QED
    BY <1>2, <1>3, <1>4, <1>5, <1>6 DEF Characters

-----------------------------------------------------------------------------
(* The inductive invariant.                                                *)

\* Where the lexer stands, a token may begin.
PlaceInv ==
    /\ stage = "splitting" =>
          line_index = 1 /\ begin_index = 1 /\ streamTokens = <<>> /\ printed = <<>>
    /\ stage # "splitting" =>
          /\ line_index <= Len(code_lines) => begin_index <= Line.size + 1
          /\ Here \in 1 .. Len(text) + 1
          /\ Here <= Len(text) => Fresh(Here)
    /\ stage \in {"accepted", "reported"} => Here = Len(text) + 1

IsToken(n, from, to, type) ==
    /\ From(streamTokens[n].reference) = from /\ To(streamTokens[n].reference) = to
    /\ streamTokens[n].type = type

\* What it has passed is tokens, all of them, and no mistake.
TokenInv ==
    /\ \A n \in DOMAIN streamTokens :
          LET token == streamTokens[n]
          IN /\ FitsInLine(token.reference)
             /\ IsLexeme(text, From(token.reference), To(token.reference), token.type)
             /\ To(token.reference) < Here
             /\ n > 1 => To(streamTokens[n - 1].reference) < From(token.reference)
    /\ stage # "splitting" =>
          \A from \in DOMAIN text : from < Here =>
              /\ \A to, type : IsLexeme(text, from, to, type) =>
                    \E n \in DOMAIN streamTokens : IsToken(n, from, to, type)
              /\ \A to : ~IsMistake(text, from, to)

\* The message is about what stands here.
MessageInv ==
    /\ stage \in {"splitting", "lexing", "accepted"} => printed = <<>>
    /\ stage = "rejected" =>
          /\ Len(printed) = 1
          /\ FitsInLine(printed[1])
          /\ From(printed[1]) = Here
          /\ IsMistake(text, From(printed[1]), To(printed[1]))

LexInv == TypeOK /\ SplitInv /\ PlaceInv /\ TokenInv /\ MessageInv

\* Nothing has been read.
LEMMA LexInit == Init => LexInv
  <1> SUFFICES ASSUME Init PROVE LexInv
    OBVIOUS
  <1>1. TypeOK /\ SplitInv
    BY TypeInit, SplitInit
  <1>2. streamTokens = <<>> /\ printed = <<>> /\ stage = "splitting"
        /\ line_index = 1 /\ begin_index = 1
    BY DEF Init
  <1> QED
    BY <1>1, <1>2 DEF LexInv, PlaceInv, TokenInv, MessageInv

\* A step that reads no token passes white space at most.
LEMMA Advance ==
    ASSUME LexInv, stage # "splitting", stage' # "splitting", UNCHANGED lines,
           UNCHANGED streamTokens, Here' \in Here .. Len(text) + 1,
           \A p \in Here .. Here' - 1 : text[p] \in WhiteSpace
    PROVE  TokenInv'
  <1>1. TypeOK /\ TokenInv /\ Here \in 1 .. Len(text) + 1 /\ Len(text) \in Nat
        /\ DOMAIN text = 1 .. Len(text)
    BY DEF LexInv, PlaceInv, TypeOK
  <1>2. text' = text /\ code_lines' = code_lines /\ streamTokens' = streamTokens
    BY DEF lines
  <1>3. ASSUME NEW n \in DOMAIN streamTokens
        PROVE  LET token == streamTokens[n]
               IN /\ FitsInLine(token.reference)
                  /\ IsLexeme(text, From(token.reference), To(token.reference), token.type)
                  /\ To(token.reference) < Here
                  /\ n > 1 => To(streamTokens[n - 1].reference) < From(token.reference)
    BY <1>1 DEF TokenInv
  <1>4. \A n \in DOMAIN streamTokens : To(streamTokens[n].reference) < Here'
    <2> SUFFICES ASSUME NEW n \in DOMAIN streamTokens
                 PROVE  To(streamTokens[n].reference) < Here'
      OBVIOUS
    <2>1. /\ IsLexeme(text, From(streamTokens[n].reference),
                      To(streamTokens[n].reference), streamTokens[n].type)
          /\ To(streamTokens[n].reference) < Here
      BY <1>3
    <2>2. To(streamTokens[n].reference) \in Nat
      BY <1>1, <2>1 DEF IsLexeme, IsWord
    <2> QED
      BY <1>1, <2>1, <2>2
  <1>5. \A from \in DOMAIN text : from < Here' =>
              /\ \A to, type : IsLexeme(text, from, to, type) =>
                    \E n \in DOMAIN streamTokens : IsToken(n, from, to, type)
              /\ \A to : ~IsMistake(text, from, to)
    <2> SUFFICES ASSUME NEW from \in DOMAIN text, from < Here'
                 PROVE  /\ \A to, type : IsLexeme(text, from, to, type) =>
                              \E n \in DOMAIN streamTokens : IsToken(n, from, to, type)
                        /\ \A to : ~IsMistake(text, from, to)
      OBVIOUS
    <2>1. CASE from < Here
      BY <1>1, <2>1 DEF TokenInv
    <2>2. CASE from >= Here
      <3>0. Here \in Nat /\ Here' \in Nat /\ from \in Nat
        BY <1>1
      <3>a. from \in Here .. Here' - 1
        BY <2>2, <3>0
      <3>1. text[from] \in WhiteSpace
        BY <3>a
      <3> QED
        BY <1>1, <3>1, NothingAtWhiteSpace
    <2> QED
      BY <1>1, <2>1, <2>2
  <1>6. \A r : /\ FitsInLine(r)' <=> FitsInLine(r)
               /\ From(r)' = From(r) /\ To(r)' = To(r)
    BY <1>2 DEF FitsInLine, From, To
  <1> QED
    BY <1>2, <1>3, <1>4, <1>5 DEF TokenInv, IsToken, FitsInLine, From, To

\* White space behind leaves the lexer where a token may begin.
LEMMA FreshBehindWhiteSpace ==
    ASSUME NEW p \in DOMAIN text, p > 1 => text[p - 1] \in WhiteSpace
    PROVE  Fresh(p)
  <1>1. \A c \in WhiteSpace : c # ":" /\ c \notin WordCharacters
    BY KindsAreDisjoint
  <1> QED
    BY <1>1 DEF Fresh

\* The first line begins where the text does.
LEMMA StartStep == LexInv /\ StartLexing => PlaceInv' /\ TokenInv' /\ MessageInv'
  <1> SUFFICES ASSUME LexInv, StartLexing PROVE PlaceInv' /\ TokenInv' /\ MessageInv'
    OBVIOUS
  <1> USE DEF LexInv
  <1>1. /\ stage = "splitting" /\ stage' = "lexing" /\ next_line > Len(text)
        /\ text' = text /\ code_lines' = code_lines /\ line_index' = line_index
        /\ begin_index' = begin_index /\ streamTokens' = streamTokens
        /\ printed' = printed
    BY DEF StartLexing, lines
  <1>2. line_index = 1 /\ begin_index = 1 /\ streamTokens = <<>> /\ printed = <<>>
    BY <1>1 DEF PlaceInv
  <1>3. Len(text) \in Nat /\ DOMAIN text = 1 .. Len(text)
    BY DEF TypeOK
  <1>4. Here = 1 /\ (1 <= Len(code_lines) => begin_index <= Line.size + 1)
    <2>1. CASE code_lines = <<>>
      <3>1. next_line = 1
        BY <2>1 DEF SplitInv
      <3>2. ~ (1 <= Len(code_lines)) /\ Len(text) = 0
        BY <1>1, <1>3, <2>1, <3>1
      <3> QED
        BY <1>2, <3>2 DEF Here
    <2>2. CASE code_lines # <<>>
      <3>1. 1 \in DOMAIN code_lines /\ 1 <= Len(code_lines)
        BY <2>2 DEF TypeOK
      <3>2. code_lines[1].from = 1
        BY <3>1 DEF SplitInv, LineBegins
      <3>3. code_lines[1].size \in Nat
        BY <3>1, LineInText
      <3> QED
        BY <1>2, <3>1, <3>2, <3>3 DEF Here, Line, At
    <2> QED
      BY <2>1, <2>2
  <1>5. Here' = 1 /\ Line' = Line
    BY <1>1, <1>4 DEF Here, Line, At
  <1>6. PlaceInv'
    <2>1. 1 <= Len(text) => Fresh(1)'
      BY <1>1, <1>3 DEF Fresh
    <2> QED
      BY <1>1, <1>2, <1>3, <1>4, <1>5, <2>1 DEF PlaceInv
  <1>7. TokenInv'
    <2>1. \A from \in DOMAIN text : ~ (from < 1)
      BY <1>3
    <2> QED
      BY <1>1, <1>2, <1>5, <2>1 DEF TokenInv
  <1> QED
    BY <1>1, <1>2, <1>6, <1>7 DEF MessageInv

\* White space is passed.
LEMMA SkipStep == LexInv /\ SkipWhiteSpace => PlaceInv' /\ TokenInv' /\ MessageInv'
  <1> SUFFICES ASSUME LexInv, SkipWhiteSpace PROVE PlaceInv' /\ TokenInv' /\ MessageInv'
    OBVIOUS
  <1> USE DEF LexInv
  <1>1. /\ InLine /\ stage = "lexing" /\ stage' = stage /\ UNCHANGED lines
        /\ text' = text /\ code_lines' = code_lines /\ line_index' = line_index
        /\ begin_index' = begin_index + 1 /\ UNCHANGED streamTokens
        /\ printed' = printed /\ line_index <= Len(code_lines)
        /\ CharAt(Line, begin_index) \in WhiteSpace
    BY DEF SkipWhiteSpace, InLine, lines
  <1>2. /\ Here \in 1 .. Len(text) /\ Len(text) \in Nat /\ text[Here] \in WhiteSpace
        /\ Here = Line.from + begin_index - 1 /\ begin_index \in 1 .. Line.size
        /\ Line.from \in Nat /\ Line.size \in Nat
    BY <1>1, ColumnsAreInText
  <1>3. Line' = Line /\ Here' = Line.from + (begin_index + 1) - 1
    BY <1>1 DEF Here, Line, At
  <1>4. Here' = Here + 1
    BY <1>2, <1>3
  <1>5. PlaceInv'
    <2>1. Here + 1 <= Len(text) => Fresh(Here + 1)
      <3>1. PICK p : p = Here + 1
        OBVIOUS
      <3>2. p - 1 = Here
        BY <1>2, <3>1
      <3>3. p <= Len(text) => p \in DOMAIN text
        BY <1>2, <3>1 DEF TypeOK
      <3>4. p <= Len(text) => Fresh(p)
        BY <1>2, <3>2, <3>3, FreshBehindWhiteSpace
      <3> QED
        BY <3>1, <3>4
    <2>2. Here' <= Len(text') => Fresh(Here)'
      BY <1>1, <1>4, <2>1 DEF Fresh
    <2>3. begin_index' <= Line'.size + 1
      BY <1>1, <1>2, <1>3
    <2>4. Here' \in 1 .. Len(text') + 1
      BY <1>1, <1>2, <1>4
    <2> QED
      BY <1>1, <2>2, <2>3, <2>4 DEF PlaceInv
  <1>6. TokenInv'
    <2>1. Here' \in Here .. Len(text) + 1 /\ \A p \in Here .. Here' - 1 : p = Here
      BY <1>2, <1>4
    <2> QED
      BY <1>1, <1>2, <2>1, Advance
  <1> QED
    BY <1>1, <1>5, <1>6 DEF MessageInv

\* The newline between two lines is passed.
LEMMA EndLineStep == LexInv /\ EndLine => PlaceInv' /\ TokenInv' /\ MessageInv'
  <1> SUFFICES ASSUME LexInv, EndLine PROVE PlaceInv' /\ TokenInv' /\ MessageInv'
    OBVIOUS
  <1> USE DEF LexInv
  <1>1. /\ stage = "lexing" /\ stage' = stage /\ UNCHANGED lines
        /\ text' = text /\ code_lines' = code_lines /\ line_index' = line_index + 1
        /\ begin_index' = 1 /\ UNCHANGED streamTokens /\ printed' = printed
        /\ line_index <= Len(code_lines) /\ begin_index > Line.size
    BY DEF EndLine, lines
  <1>a. PICK k, f, s : k = line_index /\ f = code_lines[k].from /\ s = code_lines[k].size
    OBVIOUS
  <1>2. /\ k \in DOMAIN code_lines /\ Line = code_lines[k] /\ Len(text) \in Nat
        /\ DOMAIN code_lines = 1 .. Len(code_lines) /\ Len(code_lines) \in Nat
        /\ k \in Nat /\ k + 1 > 1 /\ begin_index \in Nat
        /\ DOMAIN text = 1 .. Len(text)
    BY <1>1, <1>a DEF TypeOK, Line
  <1>3. /\ f \in Nat \ {0} /\ s \in Nat /\ f + s <= Len(text) + 1
        /\ f + s <= Len(text) => text[f + s] = Newline
        /\ k + 1 \in DOMAIN code_lines => code_lines[k + 1].from = f + s + 1
        /\ k + 1 \notin DOMAIN code_lines => f + s >= Len(text)
    BY <1>a, <1>1, <1>2, LineInText
  <1>4. Here = f + s
    <2>1. begin_index = s + 1
      <3>1. begin_index <= s + 1
        BY <1>1, <1>2, <1>a DEF PlaceInv
      <3> QED
        BY <1>1, <1>2, <1>3, <1>a, <3>1
    <2> QED
      BY <1>1, <1>2, <1>3, <1>a, <2>1 DEF Here, At
  <1>5. /\ Here' = IF k + 1 \in DOMAIN code_lines THEN f + s + 1 ELSE Len(text) + 1
        /\ k + 1 \in DOMAIN code_lines =>
              f + s + 1 <= Len(text) + 1 /\ begin_index' <= Line'.size + 1
    <2>1. CASE k + 1 \in DOMAIN code_lines
      <3>1. /\ code_lines[k + 1].from \in Nat /\ code_lines[k + 1].size \in Nat
            /\ code_lines[k + 1].from + code_lines[k + 1].size <= Len(text) + 1
        BY <2>1, LineInText
      <3>2. Line' = code_lines[k + 1] /\ line_index' <= Len(code_lines')
        BY <1>1, <1>2, <1>a, <2>1 DEF Line
      <3>3. Here' = code_lines[k + 1].from + 1 - 1
        BY <1>1, <3>2 DEF Here, At
      <3> QED
        BY <1>1, <1>2, <1>3, <2>1, <3>1, <3>2, <3>3
    <2>2. CASE k + 1 \notin DOMAIN code_lines
      <3>1. ~ (line_index' <= Len(code_lines'))
        BY <1>1, <1>2, <1>a, <2>2
      <3> QED
        BY <1>1, <2>2, <3>1 DEF Here
    <2> QED
      BY <2>1, <2>2
  <1>6. /\ Here' \in Here .. Len(text) + 1
        /\ \A p \in Here .. Here' - 1 : text[p] \in WhiteSpace
    <2>1. Here' \in {f + s, f + s + 1} /\ Here' <= Len(text) + 1
      BY <1>2, <1>3, <1>5
    <2>2. ASSUME NEW p \in Here .. Here' - 1 PROVE text[p] \in WhiteSpace
      <3>1. PICK h : h = Here'
        OBVIOUS
      <3>2. p \in f + s .. h - 1 /\ h \in {f + s, f + s + 1} /\ h <= Len(text) + 1
        BY <1>4, <2>1, <2>2, <3>1
      <3>3. p = f + s /\ f + s <= Len(text)
        BY <1>2, <1>3, <3>2
      <3> QED
        BY <1>3, <3>3 DEF WhiteSpace
    <2>3. Here' \in Here .. Len(text) + 1
      BY <1>2, <1>3, <1>4, <2>1
    <2> QED
      BY <2>2, <2>3
  <1>7. PlaceInv'
    <2>1. Here' <= Len(text) => Here' \in DOMAIN text /\ k + 1 \in DOMAIN code_lines
      BY <1>2, <1>3, <1>4, <1>5, <1>6
    <2>2. Here' <= Len(text) => text[Here' - 1] \in WhiteSpace
      <3>1. Here' <= Len(text) => Here' - 1 = f + s /\ f + s <= Len(text)
        BY <1>2, <1>3, <1>5, <2>1
      <3> QED
        BY <1>3, <3>1 DEF WhiteSpace
    <2>3. Here' <= Len(text) => Fresh(Here)'
      <3>1. PICK q : q = Here'
        OBVIOUS
      <3>2. q <= Len(text) => Fresh(q)
        BY <2>1, <2>2, <3>1, FreshBehindWhiteSpace
      <3> QED
        BY <1>1, <3>1, <3>2 DEF Fresh
    <2>4. line_index' <= Len(code_lines') => k + 1 \in DOMAIN code_lines
      BY <1>1, <1>2, <1>a
    <2>5. Here' \in 1 .. Len(text') + 1
      BY <1>1, <1>2, <1>3, <1>4, <1>6
    <2> QED
      BY <1>1, <1>5, <2>3, <2>4, <2>5 DEF PlaceInv
  <1>8. TokenInv'
    BY <1>1, <1>6, Advance
  <1> QED
    BY <1>1, <1>7, <1>8 DEF MessageInv

\* A token is taken.
LEMMA TakeTokenStep == LexInv /\ TakeToken => PlaceInv' /\ TokenInv' /\ MessageInv'
  <1> SUFFICES ASSUME LexInv, TakeToken PROVE PlaceInv' /\ TokenInv' /\ MessageInv'
    OBVIOUS
  <1> USE DEF LexInv
  <1>1. /\ InLine /\ stage = "lexing" /\ stage' = stage
        /\ text' = text /\ code_lines' = code_lines /\ line_index' = line_index
        /\ begin_index' = NextIndex /\ printed' = printed
        /\ line_index <= Len(code_lines) /\ NextIndex # NoIndex
        /\ CharAt(Line, begin_index) \notin WhiteSpace
    BY DEF TakeToken, InLine, lines
  <1>a. PICK last, type, r, new, count :
           /\ last = At(Line, NextIndex) - 1 /\ type = TokenType(Word(NextIndex))
           /\ r = Reference(line_index, begin_index, NextIndex - 1)
           /\ new = [reference |-> r, type |-> type] /\ count = Len(streamTokens)
    OBVIOUS
  <1>2. /\ Here \in 1 .. Len(text) /\ Len(text) \in Nat /\ DOMAIN text = 1 .. Len(text)
        /\ Here = Line.from + begin_index - 1 /\ begin_index \in 1 .. Line.size
        /\ Line.from \in Nat \ {0} /\ Line.size \in Nat /\ begin_index \in Nat
    BY <1>1, ColumnsAreInText DEF TypeOK
  <1>3. Fresh(Here)
    BY <1>1, <1>2 DEF PlaceInv
  <1>4. /\ streamTokens' = Append(streamTokens, new) /\ type # NoType
        /\ r.line = line_index /\ r.first = begin_index /\ r.last = NextIndex - 1
        /\ new.reference = r /\ new.type = type
    BY <1>a DEF TakeToken, Reference
  <1>5. /\ NextIndex \in begin_index + 1 .. Line.size + 1
        /\ last \in Here .. Len(text)
        /\ IsLexeme(text, Here, last, type)
        /\ \A from \in Here .. last : \A to, t :
              IsLexeme(text, from, to, t) => from = Here /\ to = last /\ t = type
        /\ \A from \in Here .. last : \A to : ~IsMistake(text, from, to)
        /\ text[last] # ":"
        /\ last < Len(text) =>
              text[last] \notin WordCharacters \/ text[last + 1] \notin WordCharacters
    BY <1>1, <1>3, <1>4, <1>a, TokenHere
  <1>6. /\ last \in Nat /\ NextIndex \in Nat
        /\ At(Line, NextIndex) = last + 1 /\ At(Line, NextIndex - 1) = last
        /\ At(Line, begin_index) = Here
    BY <1>2, <1>5, <1>a DEF At
  <1>7. Line' = Line /\ Here' = last + 1
    BY <1>1, <1>6 DEF Here, Line, At
  <1>8. PlaceInv'
    <2>1. last + 1 <= Len(text) => Fresh(last + 1)
      <3>1. PICK q : q = last + 1
        OBVIOUS
      <3>2. q - 1 = last /\ (q <= Len(text) => q \in DOMAIN text /\ last < Len(text))
        BY <1>2, <1>6, <3>1
      <3>3. q <= Len(text) => Fresh(q)
        BY <1>5, <3>1, <3>2 DEF Fresh
      <3> QED
        BY <3>1, <3>3
    <2>2. Here' <= Len(text') => Fresh(Here)'
      BY <1>1, <1>7, <2>1 DEF Fresh
    <2>3. Here' \in 1 .. Len(text') + 1 /\ begin_index' <= Line'.size + 1
      BY <1>1, <1>2, <1>5, <1>6, <1>7
    <2> QED
      BY <1>1, <2>2, <2>3 DEF PlaceInv
  <1>9. /\ count \in Nat /\ DOMAIN streamTokens = 1 .. count
        /\ DOMAIN streamTokens' = 1 .. count + 1
        /\ streamTokens'[count + 1] = new
        /\ \A n \in 1 .. count : streamTokens'[n] = streamTokens[n]
    BY <1>a, <1>4 DEF TypeOK
  <1>10. \A x : /\ FitsInLine(x)' <=> FitsInLine(x)
                /\ From(x)' = From(x) /\ To(x)' = To(x)
    BY <1>1 DEF FitsInLine, From, To
  <1>11. FitsInLine(r) /\ From(r) = Here /\ To(r) = last
    <2>1. Line = code_lines[r.line] /\ r.line \in DOMAIN code_lines
      BY <1>1, <1>4 DEF Line, TypeOK
    <2>2. From(r) = Here /\ To(r) = last
      BY <1>4, <1>6, <2>1 DEF From, To
    <2>3. begin_index <= NextIndex - 1 /\ NextIndex - 1 <= Line.size
      BY <1>2, <1>5, <1>6
    <2> QED
      BY <1>4, <2>1, <2>2, <2>3 DEF FitsInLine
  <1>12. ASSUME NEW n \in 1 .. count
         PROVE  /\ FitsInLine(streamTokens[n].reference)
                /\ IsLexeme(text, From(streamTokens[n].reference),
                            To(streamTokens[n].reference), streamTokens[n].type)
                /\ To(streamTokens[n].reference) < Here
                /\ To(streamTokens[n].reference) < last + 1
                /\ n > 1 => To(streamTokens[n - 1].reference)
                               < From(streamTokens[n].reference)
    <2>1. /\ FitsInLine(streamTokens[n].reference)
          /\ IsLexeme(text, From(streamTokens[n].reference),
                      To(streamTokens[n].reference), streamTokens[n].type)
          /\ To(streamTokens[n].reference) < Here
          /\ n > 1 => To(streamTokens[n - 1].reference)
                         < From(streamTokens[n].reference)
      BY <1>9 DEF TokenInv
    <2>2. To(streamTokens[n].reference) \in Nat
      BY <1>2, <2>1 DEF IsLexeme, IsWord
    <2> QED
      BY <1>2, <1>5, <1>6, <2>1, <2>2
  <1>13. ASSUME NEW n \in DOMAIN streamTokens'
         PROVE  /\ FitsInLine(streamTokens'[n].reference)
                /\ IsLexeme(text, From(streamTokens'[n].reference),
                            To(streamTokens'[n].reference), streamTokens'[n].type)
                /\ To(streamTokens'[n].reference) < last + 1
                /\ n > 1 => To(streamTokens'[n - 1].reference)
                               < From(streamTokens'[n].reference)
    <2>1. CASE n \in 1 .. count
      <3>1. n > 1 => n - 1 \in 1 .. count
        BY <1>9, <2>1
      <3> QED
        BY <1>9, <1>12, <2>1, <3>1
    <2>2. CASE n = count + 1
      <3>1. n > 1 => n - 1 \in 1 .. count
        BY <1>9, <2>2
      <3>2. n > 1 => To(streamTokens[n - 1].reference) < Here
        BY <1>12, <3>1
      <3>3. streamTokens'[n].reference = r /\ streamTokens'[n].type = type
        BY <1>4, <1>9, <2>2
      <3>4. n > 1 => streamTokens'[n - 1] = streamTokens[n - 1]
        BY <1>9, <3>1
      <3> QED
        BY <1>5, <1>6, <1>11, <3>2, <3>3, <3>4
    <2> QED
      BY <1>9, <2>1, <2>2
  <1> DEFINE Taken(n, from, to, t) ==
                /\ From(streamTokens'[n].reference) = from
                /\ To(streamTokens'[n].reference) = to
                /\ streamTokens'[n].type = t
  <1>14. ASSUME NEW from \in DOMAIN text, from < last + 1
         PROVE  /\ \A to, t : IsLexeme(text, from, to, t) =>
                      \E n \in DOMAIN streamTokens' : Taken(n, from, to, t)
                /\ \A to : ~IsMistake(text, from, to)
    <2>1. CASE from < Here
      <3>1. /\ \A to, t : IsLexeme(text, from, to, t) =>
                  \E n \in 1 .. count : IsToken(n, from, to, t)
            /\ \A to : ~IsMistake(text, from, to)
        BY <1>1, <1>9, <2>1 DEF TokenInv
      <3>2. \A n \in 1 .. count : n \in DOMAIN streamTokens'
        BY <1>9
      <3>3. \A n \in 1 .. count : \A to, t : IsToken(n, from, to, t) => Taken(n, from, to, t)
        BY <1>9 DEF IsToken
      <3> QED
        BY <3>1, <3>2, <3>3
    <2>2. CASE from >= Here
      <3>1. from \in Here .. last
        BY <1>2, <1>6, <1>14, <2>2
      <3>2. Taken(count + 1, Here, last, type) /\ count + 1 \in DOMAIN streamTokens'
        BY <1>4, <1>9, <1>11
      <3> QED
        BY <1>5, <3>1, <3>2
    <2> QED
      BY <1>2, <2>1, <2>2
  <1>15. TokenInv'
    BY <1>1, <1>7, <1>10, <1>13, <1>14 DEF TokenInv, IsToken, FitsInLine, From, To
  <1> QED
    BY <1>1, <1>8, <1>15 DEF MessageInv

\* Nothing moves when a message is printed.
LEMMA RejectStep ==
    LexInv /\ (RejectCharacter \/ RejectWord) => PlaceInv' /\ TokenInv' /\ MessageInv'
  <1> SUFFICES ASSUME LexInv, RejectCharacter \/ RejectWord
               PROVE  PlaceInv' /\ TokenInv' /\ MessageInv'
    OBVIOUS
  <1> USE DEF LexInv
  <1>1. /\ InLine /\ stage = "lexing" /\ stage' = "rejected" /\ UNCHANGED lines
        /\ text' = text /\ code_lines' = code_lines /\ line_index' = line_index
        /\ begin_index' = begin_index /\ UNCHANGED streamTokens
        /\ line_index <= Len(code_lines)
        /\ CharAt(Line, begin_index) \notin WhiteSpace
    BY DEF RejectCharacter, RejectWord, printTokenFailure, InLine, lines
  <1>2. /\ Here \in 1 .. Len(text) /\ Len(text) \in Nat
        /\ Here = Line.from + begin_index - 1 /\ begin_index \in 1 .. Line.size
        /\ Line.from \in Nat \ {0} /\ Line.size \in Nat /\ begin_index \in Nat
    BY <1>1, ColumnsAreInText
  <1>3. Fresh(Here)
    BY <1>1, <1>2 DEF PlaceInv
  <1>4. PICK last :
           /\ printed' = Append(printed, Reference(line_index, begin_index, last))
           /\ last \in begin_index .. Line.size
           /\ IsMistake(text, Here, At(Line, last))
    <2>1. CASE RejectCharacter
      <3>1. NextIndex = NoIndex
            /\ printed' = Append(printed, Reference(line_index, begin_index, begin_index))
        BY <2>1 DEF RejectCharacter, printTokenFailure
      <3>2. IsMistake(text, Here, Here) /\ At(Line, begin_index) = Here
        BY <1>1, <1>2, <1>3, <3>1, NoTokenHere DEF At
      <3> QED
        BY <1>2, <3>1, <3>2
    <2>2. CASE RejectWord
      <3>1. /\ NextIndex # NoIndex /\ TokenType(Word(NextIndex)) = NoType
            /\ printed' = Append(printed, Reference(line_index, begin_index, NextIndex - 1))
        BY <2>2 DEF RejectWord, printTokenFailure
      <3>2. /\ NextIndex \in begin_index + 1 .. Line.size + 1
            /\ IsMistake(text, Here, At(Line, NextIndex) - 1)
        BY <1>1, <1>3, <3>1, TokenHere
      <3>3. At(Line, NextIndex - 1) = At(Line, NextIndex) - 1
            /\ NextIndex - 1 \in begin_index .. Line.size
        BY <1>2, <3>2 DEF At
      <3> QED
        BY <3>1, <3>2, <3>3
    <2> QED
      BY <2>1, <2>2
  <1>5. Here' = Here /\ Line' = Line
    BY <1>1 DEF Here, Line, At
  <1>6. PlaceInv'
    BY <1>1, <1>2, <1>3, <1>5 DEF PlaceInv, Fresh
  <1>7. TokenInv'
    <2>1. Here' \in Here .. Len(text) + 1 /\ Here .. Here' - 1 = {}
      BY <1>2, <1>5
    <2> QED
      BY <1>1, <2>1, Advance
  <1>8. MessageInv'
    <2>1. PICK r : r = Reference(line_index, begin_index, last)
      OBVIOUS
    <2>2. printed = <<>>
      BY <1>1 DEF MessageInv
    <2>3. Len(printed') = 1 /\ printed'[1] = r
      BY <1>4, <2>1, <2>2
    <2>4. r.line = line_index /\ r.first = begin_index /\ r.last = last
      BY <2>1 DEF Reference
    <2>5. line_index \in DOMAIN code_lines /\ Line = code_lines[line_index]
      BY <1>1 DEF Line, TypeOK
    <2>6. FitsInLine(r)
      BY <1>2, <1>4, <2>4, <2>5 DEF FitsInLine
    <2>7. From(r) = Here /\ To(r) = At(Line, last)
      BY <1>2, <2>4, <2>5 DEF From, To, At
    <2>8. FitsInLine(r)' /\ From(r)' = Here /\ To(r)' = At(Line, last)
      BY <1>1, <2>6, <2>7 DEF FitsInLine, From, To
    <2> QED
      BY <1>1, <1>4, <1>5, <2>3, <2>8 DEF MessageInv, FitsInLine, From, To
  <1> QED
    BY <1>6, <1>7, <1>8

\* Nor when the lexer has come to the end.
LEMMA EndStep ==
    LexInv /\ (Accept \/ ReportEndOfText \/ UNCHANGED vars) =>
        PlaceInv' /\ TokenInv' /\ MessageInv'
  <1> SUFFICES ASSUME LexInv, Accept \/ ReportEndOfText \/ UNCHANGED vars
               PROVE  PlaceInv' /\ TokenInv' /\ MessageInv'
    OBVIOUS
  <1> USE DEF LexInv
  <1>1. /\ UNCHANGED lines /\ UNCHANGED streamTokens
        /\ text' = text /\ code_lines' = code_lines /\ line_index' = line_index
        /\ begin_index' = begin_index
    BY DEF Accept, ReportEndOfText, vars, lines
  <1>2. Here' = Here /\ Line' = Line
    BY <1>1 DEF Here, Line, At
  <1>3. CASE Accept
    <2>1. /\ stage = "lexing" /\ stage' = "accepted" /\ printed' = printed
          /\ ~ (line_index <= Len(code_lines))
      BY <1>3 DEF Accept, TypeOK
    <2>2. Here = Len(text) + 1 /\ Len(text) \in Nat
      BY <2>1 DEF Here, TypeOK
    <2>3. PlaceInv'
      BY <1>1, <1>2, <2>1, <2>2 DEF PlaceInv, Fresh
    <2>4. Here' \in Here .. Len(text) + 1 /\ Here .. Here' - 1 = {}
      BY <1>2, <2>2
    <2>5. TokenInv'
      BY <1>1, <2>1, <2>4, Advance
    <2> QED
      BY <2>1, <2>3, <2>5 DEF MessageInv
  <1>4. CASE ReportEndOfText
    <2>1. stage = "accepted" /\ stage' = "reported"
      BY <1>4 DEF ReportEndOfText
    <2>2. Here = Len(text) + 1 /\ Len(text) \in Nat
      BY <2>1 DEF PlaceInv, TypeOK
    <2>3. PlaceInv'
      BY <1>1, <1>2, <2>1, <2>2 DEF PlaceInv, Fresh
    <2>4. Here' \in Here .. Len(text) + 1 /\ Here .. Here' - 1 = {}
      BY <1>2, <2>2
    <2>5. TokenInv'
      BY <1>1, <2>1, <2>4, Advance
    <2> QED
      BY <2>1, <2>3, <2>5 DEF MessageInv
  <1>5. CASE UNCHANGED vars
    <2>1. stage' = stage /\ printed' = printed /\ streamTokens' = streamTokens
      BY <1>5 DEF vars
    <2>2. PlaceInv'
      BY <1>1, <1>2, <2>1 DEF PlaceInv, Fresh
    <2>3. TokenInv'
      BY <1>1, <1>2, <2>1 DEF TokenInv, IsToken, FitsInLine, From, To
    <2>4. MessageInv'
      BY <1>1, <1>2, <2>1 DEF MessageInv, FitsInLine, From, To
    <2> QED
      BY <2>2, <2>3, <2>4
  <1> QED
    BY <1>3, <1>4, <1>5

\* Every step keeps the invariant.
LEMMA LexStep == LexInv /\ [Next]_vars => LexInv'
  <1> SUFFICES ASSUME LexInv, [Next]_vars PROVE LexInv'
    OBVIOUS
  <1>1. TypeOK /\ TypeOK' /\ SplitInv
    BY TypeStep DEF LexInv
  <1>2. CASE SplitLine
    <2>1. stage = "splitting" /\ stage' = stage /\ line_index' = line_index
          /\ begin_index' = begin_index /\ streamTokens' = streamTokens
          /\ printed' = printed
      BY <1>2 DEF SplitLine
    <2>2. line_index = 1 /\ begin_index = 1 /\ streamTokens = <<>> /\ printed = <<>>
      BY <2>1 DEF LexInv, PlaceInv
    <2>3. PlaceInv' /\ TokenInv' /\ MessageInv'
      BY <2>1, <2>2 DEF PlaceInv, TokenInv, MessageInv
    <2> QED
      BY <1>1, <1>2, <2>3, SplitStep DEF LexInv
  <1>3. CASE StartLexing
    <2>1. UNCHANGED lines /\ next_line > Len(text)
      BY <1>3 DEF StartLexing
    <2> QED
      BY <1>1, <1>3, <2>1, LinesStay, StartStep DEF LexInv
  <1>4. CASE SkipWhiteSpace
    <2>1. UNCHANGED lines /\ stage' = stage
      BY <1>4 DEF SkipWhiteSpace
    <2> QED
      BY <1>1, <1>4, <2>1, LinesStay, SkipStep DEF LexInv
  <1>5. CASE TakeToken
    <2>1. UNCHANGED lines /\ stage' = stage
      BY <1>5 DEF TakeToken
    <2> QED
      BY <1>1, <1>5, <2>1, LinesStay, TakeTokenStep DEF LexInv
  <1>6. CASE RejectCharacter \/ RejectWord
    <2>1. UNCHANGED lines /\ stage # "splitting"
      BY <1>6 DEF RejectCharacter, RejectWord, InLine
    <2> QED
      BY <1>1, <1>6, <2>1, LinesStay, RejectStep DEF LexInv
  <1>7. CASE EndLine
    <2>1. UNCHANGED lines /\ stage' = stage
      BY <1>7 DEF EndLine
    <2> QED
      BY <1>1, <1>7, <2>1, LinesStay, EndLineStep DEF LexInv
  <1>8. CASE Accept \/ ReportEndOfText \/ UNCHANGED vars
    <2>1. UNCHANGED lines /\ (stage # "splitting" \/ stage' = stage)
      BY <1>8 DEF Accept, ReportEndOfText, vars, lines
    <2> QED
      BY <1>1, <1>8, <2>1, LinesStay, EndStep DEF LexInv
  <1> QED
    BY <1>2, <1>3, <1>4, <1>5, <1>6, <1>7, <1>8 DEF Next

\* The invariant holds in every reachable state.
LEMMA LexInvariance == Spec => []LexInv
  BY LexInit, LexStep, PTL DEF Spec

-----------------------------------------------------------------------------
(* Theorems.                                                               *)

\* CodeManager's constructor: every character of a text of any length is in
\* the line and the column that the newlines before it say.
THEOREM LinesKeepText == Spec => []LinesAreTheText
  <1>1. LexInv => LinesAreTheText
    BY LinesAreRight DEF LexInv
  <1> QED
    BY <1>1, LexInvariance, PTL

\* A mistake and a token do not begin at the same place.
LEMMA MistakeOrLexeme ==
    ASSUME TypeOK, NEW p, NEW end, IsMistake(text, p, end), NEW to, NEW type,
           IsLexeme(text, p, to, type)
    PROVE  FALSE
  <1>1. CASE IsWord(text, p, end)
    <2>1. p \in p .. end
      BY <1>1 DEF IsWord, TypeOK
    <2> QED
      BY <1>1, <2>1, LexemesOfWord
  <1>2. CASE /\ p \in 1 .. Len(text)
             /\ \/ text[p] \in Others
                \/ text[p] = ":" /\ (p < Len(text) => text[p + 1] # "=")
    <2>1. text[p] \notin WordCharacters /\ text[p] \notin Signs /\ text[p] # "="
          /\ (text[p] \in Others => text[p] # ":")
      BY <1>2, KindsAreDisjoint
    <2>2. ~IsWord(text, p, to)
      BY <1>2, <2>1 DEF IsWord, TypeOK
    <2>3. p \in 1 .. Len(text) - 1 /\ text[p] = ":" /\ text[p + 1] = "="
      BY <2>1, <2>2 DEF IsLexeme
    <2>4. p < Len(text)
      BY <2>3 DEF TypeOK
    <2> QED
      BY <1>2, <2>1, <2>3, <2>4
  <1> QED
    BY <1>1, <1>2 DEF IsMistake

\* TokenStream::compileCode: the tokens of a text of any length are its
\* lexemes, up to the first mistake if there is one.
THEOREM TokensAreFound == Spec => []TokensAreLexemes
  <1>1. LexInv => TokensAreLexemes
    <2> SUFFICES ASSUME LexInv PROVE TokensAreLexemes
      OBVIOUS
    <2> USE DEF LexInv
    <2>1. ASSUME stage \in {"accepted", "reported", "rejected"},
                 NEW from \in DOMAIN text, NEW to \in DOMAIN text, NEW type \in Types,
                 IsLexeme(text, from, to, type),
                 ~ (stage = "rejected" /\ from > From(printed[1]))
          PROVE  \E n \in DOMAIN streamTokens : IsToken(n, from, to, type)
      <3>1. /\ Here \in 1 .. Len(text) + 1 /\ stage # "splitting"
            /\ Len(text) \in Nat /\ from \in 1 .. Len(text)
        BY <2>1 DEF PlaceInv, TypeOK
      <3>2. from < Here
        <4>1. CASE stage = "rejected"
          <5>1. From(printed[1]) = Here /\ IsMistake(text, Here, To(printed[1]))
            BY <4>1 DEF MessageInv
          <5>2. from # Here
            BY <2>1, <5>1, MistakeOrLexeme
          <5> QED
            BY <2>1, <3>1, <4>1, <5>1, <5>2
        <4>2. CASE stage \in {"accepted", "reported"}
          BY <3>1, <4>2 DEF PlaceInv
        <4> QED
          BY <2>1, <4>1, <4>2
      <3> QED
        BY <2>1, <3>1, <3>2 DEF TokenInv
    <2> QED
      BY <2>1 DEF TokensAreLexemes, TokenInv, IsToken
  <1> QED
    BY <1>1, LexInvariance, PTL

\* TokenStream::compileCode and printTokenFailure: a text of any length is
\* refused exactly if it has a mistake, and the message shows the first one.
THEOREM FirstMistake == Spec => []FirstMistakeIsReported
  <1>1. LexInv => FirstMistakeIsReported
    <2> SUFFICES ASSUME LexInv PROVE FirstMistakeIsReported
      OBVIOUS
    <2> USE DEF LexInv
    <2>1. ASSUME stage \in {"accepted", "reported"}, NEW from \in DOMAIN text, NEW to
          PROVE  ~IsMistake(text, from, to)
      <3>1. from < Here /\ stage # "splitting"
        BY <2>1 DEF PlaceInv, TypeOK
      <3> QED
        BY <3>1 DEF TokenInv
    <2>2. ASSUME stage = "rejected", NEW from \in DOMAIN text, NEW to,
                 IsMistake(text, from, to)
          PROVE  from >= From(printed[1])
      <3>1. From(printed[1]) = Here /\ Here \in 1 .. Len(text) + 1
            /\ from \in 1 .. Len(text) /\ Len(text) \in Nat
        BY <2>2 DEF PlaceInv, MessageInv, TypeOK
      <3>2. ~ (from < Here)
        BY <2>2 DEF TokenInv
      <3> QED
        BY <3>1, <3>2
    <2> QED
      BY <2>1, <2>2 DEF FirstMistakeIsReported, MessageInv
  <1> QED
    BY <1>1, LexInvariance, PTL

\* The assertions CodeManager.cpp:24 and 28: every CodeReference of a token
\* or of the lexer's message is a range of columns of a line that exists.
THEOREM ReferencesAreRanges == Spec => []ReferencesFit
  <1>1. LexInv => ReferencesFit
    BY DEF LexInv, TokenInv, MessageInv, ReferencesFit
  <1> QED
    BY <1>1, LexInvariance, PTL

-----------------------------------------------------------------------------
(* Numbers modulo the width.                                               *)

\* A remainder is determined by its range.
LEMMA RemainderIs ==
  ASSUME NEW N \in Nat \ {0}, NEW x \in Int, NEW q \in Int, NEW r \in 0 .. N - 1,
         x = N * q + r
  PROVE  x % N = r
  <1> DEFINE p == x \div N
             s == x % N
  <1>1. p \in Int /\ s \in 0 .. N - 1 /\ x = N * p + s
    OBVIOUS
  <1> HIDE DEF p, s
  <1>2. ASSUME NEW a \in Int, NEW b \in Int, NEW c \in 0 .. N - 1, NEW d \in 0 .. N - 1,
               N * a + c = N * b + d, a - b >= 1
        PROVE  FALSE
    <2> DEFINE t == a - b - 1
    <2>1. t \in Nat
      BY <1>2
    <2>2. N * (a - b) = N * t + N
      BY <1>2, <2>1
    <2> HIDE DEF t
    <2>3. N * t \in Nat
      BY <2>1
    <2>4. N * (a - b) = d - c
      BY <1>2
    <2> QED
      BY <2>2, <2>3, <2>4
  <1>3. p = q
    <2>1. ~(p - q >= 1)
      BY <1>1, <1>2
    <2>2. ~(q - p >= 1)
      BY <1>1, <1>2
    <2> QED
      BY <1>1, <2>1, <2>2
  <1> QED
    BY <1>1, <1>3 DEF s

\* Wrap takes away a multiple of the width.
LEMMA WrapIs ==
  ASSUME NEW x \in Int
  PROVE  /\ Wrap(x) \in -Half .. Half - 1
         /\ \E k \in Int : x = Wrap(x) + (2 * Half) * k
  <1> DEFINE N == 2 * Half
             k == (x + Half) \div N
             r == (x + Half) % N
  <1>1. N \in Nat \ {0} /\ Half \in Nat \ {0}
    BY WidthAssumption
  <1>2. x + Half \in Int
    BY <1>1
  <1> HIDE DEF N
  <1>3. k \in Int /\ r \in 0 .. N - 1 /\ x + Half = N * k + r
    BY <1>1, <1>2
  <1>4. Wrap(x) = r - Half
    BY DEF Wrap, N
  <1> HIDE DEF k, r
  <1>5. Wrap(x) \in -Half .. Half - 1
    BY <1>1, <1>3, <1>4 DEF N
  <1>6. x = Wrap(x) + N * k
    BY <1>1, <1>3, <1>4
  <1> QED
    BY <1>3, <1>5, <1>6 DEF N

\* A number in range is what Wrap makes of every number that differs from it by
\* a multiple of the width.
LEMMA WrapOfCongruent ==
  ASSUME NEW x \in Int, NEW v \in -Half .. Half - 1, NEW k \in Int,
         x = v + (2 * Half) * k
  PROVE  Wrap(x) = v
  <1> DEFINE N == 2 * Half
  <1>1. N \in Nat \ {0} /\ Half \in Nat \ {0}
    BY WidthAssumption
  <1>2. v + Half \in 0 .. N - 1 /\ x + Half \in Int
    BY <1>1
  <1>3. x + Half = N * k + (v + Half)
    <2> HIDE DEF N
    <2>1. x = v + N * k
      BY DEF N
    <2>2. N * k \in Int
      BY <1>1
    <2> QED
      BY <1>1, <2>1, <2>2
  <1> HIDE DEF N
  <1>4. (x + Half) % N = v + Half
    BY <1>1, <1>2, <1>3, RemainderIs
  <1>5. Wrap(x) = (v + Half) - Half
    BY <1>4 DEF Wrap, N
  <1> QED
    BY <1>1, <1>5

-----------------------------------------------------------------------------
(* The digits.                                                             *)

\* A digit has a value.
LEMMA DigitValueType ==
  ASSUME NEW c \in Digits
  PROVE  DigitValue(c) \in 0 .. 9
  <1>1. PICK i \in DOMAIN Decimals : Decimals[i] = c
    BY DigitsAssumption
  <1>2. i \in 1 .. 10
    BY DEF Decimals
  <1>3. i - 1 \in 0 .. 9 /\ Decimals[(i - 1) + 1] = c
    BY <1>1, <1>2
  <1> QED
    BY <1>3 DEF DigitValue

\* The loop of str_to_int64, digit by digit.
LEMMA LoopIs ==
  ASSUME NEW word \in Seq(Digits)
  PROVE  \E value \in [0 .. Len(word) -> Int] :
            /\ value[0] = 0
            /\ \A n \in 1 .. Len(word) :
                  value[n] = Wrap(value[n - 1] * 10 + DigitValue(word[n]))
            /\ str_to_int64(word) = value[Len(word)]
  <1> DEFINE N == Len(word)
             step == [x \in (1 .. N) \X Int |-> Wrap(x[2] * 10 + DigitValue(word[x[1]]))]
             Body(g) == [n \in 0 .. Len(word) |->
                            IF n = 0 THEN 0 ELSE Wrap(g[n - 1] * 10 + DigitValue(word[n]))]
             value == CHOOSE g : g = Body(g)
  <1>1. N \in Nat
    OBVIOUS
  <1>2. \A n \in 1 .. N : DigitValue(word[n]) \in 0 .. 9
    <2> TAKE n \in 1 .. N
    <2>1. word[n] \in Digits
      OBVIOUS
    <2> QED
      BY <2>1, DigitValueType
  <1>3. \A y \in Int : Wrap(y) \in Int
    BY WrapIs, WidthAssumption
  <1>4. ASSUME NEW n \in 1 .. N, NEW y \in Int
        PROVE  Wrap(y * 10 + DigitValue(word[n])) \in Int
    <2>1. y * 10 + DigitValue(word[n]) \in Int
      BY <1>2
    <2> QED
      BY <1>3, <2>1
  <1>5. step \in [(1 .. N) \X Int -> Int]
    <2> HIDE DEF N
    <2> QED
      BY <1>4
  <1>6. \A n \in 1 .. N, y \in Int : step[<<n, y>>] = Wrap(y * 10 + DigitValue(word[n]))
    OBVIOUS
  <1> HIDE DEF step
  <1>7. PICK f \in [0 .. N -> Int] : Recurses(f, N, 0, step)
    <2> HIDE DEF N
    <2> DEFINE A == Int
               zero == 0
    <2>1. zero \in A /\ step \in [(1 .. N) \X A -> A]
      BY <1>5
    <2> HIDE DEF A, zero
    <2>2. \E f \in [0 .. N -> A] : Recurses(f, N, zero, step)
      BY <1>1, <2>1, RecursionExists, Zenon
    <2> QED
      BY <2>2 DEF A, zero
  <1>8. f = Body(f)
    <2>1. ASSUME NEW n \in 0 .. N
          PROVE  f[n] = IF n = 0 THEN 0 ELSE Wrap(f[n - 1] * 10 + DigitValue(word[n]))
      <3>1. n = 0 \/ (n # 0 /\ n \in 1 .. N /\ n - 1 \in 0 .. N)
        BY <1>1
      <3> QED
        BY <1>6, <1>7, <3>1 DEF Recurses
    <2>2. f = [n \in 0 .. N |-> f[n]]
      BY <1>7
    <2> QED
      BY <2>1, <2>2
  <1>9. value = Body(value)
    <2> HIDE DEF Body
    <2> QED
      BY <1>8
  <1>10. str_to_int64(word) = value[N]
    BY Zenon DEF str_to_int64
  <1> HIDE DEF value
  <1>11. /\ value[0] = 0
         /\ \A n \in 1 .. N : value[n] = Wrap(value[n - 1] * 10 + DigitValue(word[n]))
    BY <1>1, <1>9
  <1>12. value \in [0 .. N -> Int]
    <2> DEFINE S == {n \in 0 .. N : value[n] \in Int}
    <2>1. 0 \in S
      BY <1>1, <1>11
    <2>2. \A n \in 0 .. N - 1 : n \in S => n + 1 \in S
      <3> TAKE n \in 0 .. N - 1
      <3>1. n + 1 \in 1 .. N /\ n + 1 \in 0 .. N /\ (n + 1) - 1 = n
        BY <1>1
      <3>2. value[n + 1] = Wrap(value[n] * 10 + DigitValue(word[n + 1]))
        BY <1>11, <3>1
      <3> QED
        BY <1>4, <3>1, <3>2
    <2> HIDE DEF S
    <2>3. 0 .. N \subseteq S
      BY <1>1, <2>1, <2>2, BoundedInduction
    <2>4. \A n \in 0 .. N : value[n] \in Int
      BY <2>3 DEF S
    <2>5. value = [n \in 0 .. N |-> value[n]]
      BY <1>9
    <2> QED
      BY <2>4, <2>5
  <1> QED
    BY <1>10, <1>11, <1>12

\* The places of Number, and what the digits at them are worth.
LEMMA PlacesAre ==
  ASSUME NEW from \in Nat, NEW to \in Nat, NEW size \in Nat, size = to - from + 1,
         \A p \in from .. to : text[p] \in Digits
  PROVE  \E power \in [0 .. size -> Int], last \in [0 .. size -> Int] :
            /\ power[0] = 1 /\ \A n \in 1 .. size : power[n] = power[n - 1] * 10
            /\ last[0] = 0
            /\ \A n \in 1 .. size :
                  last[n] = last[n - 1] + DigitValue(text[to - n + 1]) * power[n - 1]
            /\ Number(from, to) = last[size]
  <1> DEFINE d(n) == DigitValue(text[to - n + 1])
             Powers(g) == [n \in 0 .. to - from + 1 |-> IF n = 0 THEN 1 ELSE g[n - 1] * 10]
             power == CHOOSE g : g = Powers(g)
             Places(g) == [n \in 0 .. to - from + 1 |->
                              IF n = 0 THEN 0
                              ELSE g[n - 1] + DigitValue(text[to - n + 1]) * power[n - 1]]
             last == CHOOSE g : g = Places(g)
  <1>1. Number(from, to) = last[to - from + 1]
    BY Zenon DEF Number
  <1> HIDE DEF last, power
  <1>2. \A n \in 1 .. size : d(n) \in Int
    <2> TAKE n \in 1 .. size
    <2>1. to - n + 1 \in from .. to
      OBVIOUS
    <2>2. d(n) \in 0 .. 9
      BY <2>1, DigitValueType
    <2> QED
      BY <2>2
  <1>3. /\ power \in [0 .. size -> Int]
        /\ power[0] = 1 /\ \A n \in 1 .. size : power[n] = power[n - 1] * 10
    <2> DEFINE A == Int
               one == 1
               step == [x \in (1 .. size) \X Int |-> x[2] * 10]
    <2>1. one \in A /\ step \in [(1 .. size) \X A -> A]
      OBVIOUS
    <2>2. \A n \in 1 .. size, y \in Int : step[<<n, y>>] = y * 10
      OBVIOUS
    <2> HIDE DEF A, one, step
    <2>3. PICK f \in [0 .. size -> A] : Recurses(f, size, one, step)
      BY <2>1, RecursionExists, Zenon
    <2>4. f = Powers(f)
      <3>1. ASSUME NEW n \in 0 .. size
            PROVE  f[n] = IF n = 0 THEN 1 ELSE f[n - 1] * 10
        <4>1. n = 0 \/ (n # 0 /\ n \in 1 .. size /\ n - 1 \in 0 .. size)
          OBVIOUS
        <4> QED
          BY <2>2, <2>3, <4>1 DEF Recurses, A, one
      <3>2. f = [n \in 0 .. size |-> f[n]]
        BY <2>3
      <3> QED
        BY <3>1, <3>2
    <2>5. power = Powers(power)
      <3> HIDE DEF Powers
      <3> QED
        BY <2>4 DEF power
    <2>6. power[0] = 1 /\ \A n \in 1 .. size : power[n] = power[n - 1] * 10
      BY <2>5
    <2> DEFINE S == {n \in 0 .. size : power[n] \in Int}
    <2>7. 0 \in S /\ \A n \in 0 .. size - 1 : n \in S => n + 1 \in S
      <3>1. 0 \in S
        BY <2>6
      <3>2. ASSUME NEW n \in 0 .. size - 1, n \in S
            PROVE  n + 1 \in S
        <4>1. n + 1 \in 1 .. size /\ n + 1 \in 0 .. size /\ (n + 1) - 1 = n
          OBVIOUS
        <4> QED
          BY <2>6, <3>2, <4>1
      <3> QED
        BY <3>1, <3>2
    <2> HIDE DEF S
    <2>8. 0 .. size \subseteq S
      BY <2>7, BoundedInduction
    <2>9. power = [n \in 0 .. size |-> power[n]]
      BY <2>5
    <2>10. \A n \in 0 .. size : power[n] \in Int
      BY <2>8 DEF S
    <2> QED
      BY <2>6, <2>9, <2>10
  <1>4. /\ last \in [0 .. size -> Int]
        /\ last[0] = 0 /\ \A n \in 1 .. size : last[n] = last[n - 1] + d(n) * power[n - 1]
    <2> DEFINE A == Int
               zero == 0
               step == [x \in (1 .. size) \X Int |-> x[2] + d(x[1]) * power[x[1] - 1]]
    <2>1. \A n \in 1 .. size, y \in Int : y + d(n) * power[n - 1] \in Int
      <3> TAKE n \in 1 .. size, y \in Int
      <3>1. n - 1 \in 0 .. size
        OBVIOUS
      <3>2. power[n - 1] \in Int /\ d(n) \in Int
        BY <1>2, <1>3, <3>1
      <3> QED
        BY <3>2
    <2>2. zero \in A /\ step \in [(1 .. size) \X A -> A]
      <3> HIDE DEF d
      <3> QED
        BY <2>1
    <2>3. \A n \in 1 .. size, y \in Int : step[<<n, y>>] = y + d(n) * power[n - 1]
      <3> HIDE DEF d
      <3> QED
        OBVIOUS
    <2> HIDE DEF A, zero, step
    <2>4. PICK f \in [0 .. size -> A] : Recurses(f, size, zero, step)
      BY <2>2, RecursionExists, Zenon
    <2>5. f = Places(f)
      <3>1. ASSUME NEW n \in 0 .. size
            PROVE  f[n] = IF n = 0 THEN 0 ELSE f[n - 1] + d(n) * power[n - 1]
        <4>1. n = 0 \/ (n # 0 /\ n \in 1 .. size /\ n - 1 \in 0 .. size)
          OBVIOUS
        <4> HIDE DEF d
        <4> QED
          BY <2>3, <2>4, <4>1 DEF Recurses, A, zero
      <3>2. f = [n \in 0 .. size |-> f[n]]
        BY <2>4
      <3> QED
        BY <3>1, <3>2
    <2>6. last = Places(last)
      <3> HIDE DEF Places
      <3> QED
        BY <2>5 DEF last
    <2>7. last[0] = 0 /\ \A n \in 1 .. size : last[n] = last[n - 1] + d(n) * power[n - 1]
      BY <2>6
    <2> DEFINE S == {n \in 0 .. size : last[n] \in Int}
    <2>8. 0 \in S /\ \A n \in 0 .. size - 1 : n \in S => n + 1 \in S
      <3>1. 0 \in S
        BY <2>7
      <3>2. ASSUME NEW n \in 0 .. size - 1, n \in S
            PROVE  n + 1 \in S
        <4>1. n + 1 \in 1 .. size /\ n + 1 \in 0 .. size /\ (n + 1) - 1 = n
          OBVIOUS
        <4> HIDE DEF d
        <4> QED
          BY <2>1, <2>7, <3>2, <4>1
      <3> QED
        BY <3>1, <3>2
    <2> HIDE DEF S
    <2>9. 0 .. size \subseteq S
      BY <2>8, BoundedInduction
    <2>10. last = [n \in 0 .. size |-> last[n]]
      BY <2>6
    <2>11. \A n \in 0 .. size : last[n] \in Int
      BY <2>9 DEF S
    <2> QED
      BY <2>7, <2>10, <2>11
  <1> QED
    BY <1>1, <1>3, <1>4

-----------------------------------------------------------------------------
(* The loop computes the number.                                           *)

\* One more digit: what has been read and what is still to come stand for the
\* same number as before, but for a multiple of the width.
LEMMA OneDigit ==
  ASSUME NEW W \in Int, NEW v \in Int, NEW w \in Int, NEW d \in Int, NEW q \in Int,
         NEW P \in Int, NEW rest \in Int, NEW k \in Int, NEW number \in Int,
         number = v * (P * 10) + (rest + d * P) + W * k,
         v * 10 + d = w + W * q
  PROVE  q * P + k \in Int /\ number = w * P + rest + W * (q * P + k)
  <1>1. v * (P * 10) + d * P = (v * 10 + d) * P
    OBVIOUS
  <1>2. (w + W * q) * P = w * P + W * (q * P)
    OBVIOUS
  <1>3. W * (q * P + k) = W * (q * P) + W * k
    OBVIOUS
  <1> DEFINE a == v * (P * 10)
             b == d * P
             c == W * k
             e == w * P
             f == W * (q * P)
             g == W * (q * P + k)
  <1>4. a + b = e + f /\ g = f + c /\ number = a + (rest + b) + c
    BY <1>1, <1>2, <1>3
  <1>5. a \in Int /\ b \in Int /\ c \in Int /\ e \in Int /\ f \in Int /\ g \in Int
    OBVIOUS
  <1>6. number = e + rest + g
    <2> HIDE DEF a, b, c, e, f, g
    <2> QED
      BY <1>4, <1>5
  <1> QED
    BY <1>6

\* For a range of digits of the text, str_to_int64 returns what an int64_t
\* keeps of the number.
LEMMA LoopComputesNumber ==
  ASSUME NEW from \in Nat, NEW to \in Nat, from <= to,
         \A p \in from .. to : text[p] \in Digits,
         NEW word \in Seq(Digits), Len(word) = to - from + 1,
         \A n \in 1 .. Len(word) : word[n] = text[from + n - 1]
  PROVE  str_to_int64(word) = Wrap(Number(from, to))
  <1> DEFINE N == Len(word)
             W == 2 * Half
             d(n) == DigitValue(text[to - n + 1])
  <1>1. N \in Nat /\ N >= 1 /\ N = to - from + 1 /\ W \in Int
    BY WidthAssumption
  <1>2. PICK value \in [0 .. N -> Int] :
            /\ value[0] = 0
            /\ \A n \in 1 .. N : value[n] = Wrap(value[n - 1] * 10 + DigitValue(word[n]))
            /\ str_to_int64(word) = value[N]
    BY LoopIs
  <1>3. PICK power \in [0 .. N -> Int], last \in [0 .. N -> Int] :
            /\ power[0] = 1 /\ \A n \in 1 .. N : power[n] = power[n - 1] * 10
            /\ last[0] = 0
            /\ \A n \in 1 .. N : last[n] = last[n - 1] + d(n) * power[n - 1]
            /\ Number(from, to) = last[N]
    <2> HIDE DEF N
    <2> QED
      BY <1>1, PlacesAre
  <1> HIDE DEF N, W, d
  <1> DEFINE Same(n, k) == last[N] = value[n] * power[N - n] + last[N - n] + W * k
             S == {n \in 0 .. N : \E k \in Int : Same(n, k)}
  <1>4. 0 \in S
    <2>1. 0 \in 0 .. N /\ N \in 0 .. N /\ N - 0 = N /\ 0 \in Int
      BY <1>1
    <2>2. power[N] \in Int /\ last[N] \in Int
      BY <1>3, <2>1
    <2>3. last[N] = 0 * power[N] + last[N] + W * 0
      BY <1>1, <2>2
    <2>4. Same(0, 0)
      BY <1>2, <2>1, <2>3
    <2> HIDE DEF Same
    <2> QED
      BY <2>1, <2>4
  <1>5. ASSUME NEW n \in 0 .. N - 1, n \in S
        PROVE  n + 1 \in S
    <2>1. PICK k \in Int : Same(n, k)
      BY <1>5
    <2> DEFINE m == N - n - 1
               P == power[m]
               v == value[n]
               c == d(m + 1)
    <2>2. /\ m \in 0 .. N /\ m + 1 \in 1 .. N /\ m + 1 \in 0 .. N /\ N - n = m + 1
          /\ (m + 1) - 1 = m /\ n \in 0 .. N /\ n + 1 \in 1 .. N /\ n + 1 \in 0 .. N
          /\ (n + 1) - 1 = n /\ N - (n + 1) = m
      BY <1>1
    <2>3. /\ power[m + 1] = P * 10 /\ last[m + 1] = last[m] + c * P
          /\ P \in Int /\ last[m] \in Int /\ last[N] \in Int /\ v \in Int
      <3> HIDE DEF m
      <3>1. N \in 0 .. N
        BY <1>1
      <3> QED
        BY <1>2, <1>3, <2>2, <3>1
    <2>4. DigitValue(word[n + 1]) = c /\ c \in Int
      <3>1. to - (m + 1) + 1 = from + (n + 1) - 1 /\ to - (m + 1) + 1 \in from .. to
        BY <1>1
      <3>2. word[n + 1] = text[from + (n + 1) - 1]
        BY <2>2 DEF N
      <3>3. text[to - (m + 1) + 1] \in Digits
        BY <3>1
      <3> HIDE DEF m
      <3>4. c \in 0 .. 9
        BY <3>3, DigitValueType DEF d
      <3> QED
        BY <3>1, <3>2, <3>4 DEF d
    <2>5. value[n + 1] = Wrap(v * 10 + c)
      <3> HIDE DEF c
      <3> QED
        BY <1>2, <2>2, <2>4
    <2>6. last[N] = v * (P * 10) + (last[m] + c * P) + W * k
      <3> HIDE DEF m, P, v, c
      <3>1. last[N] = v * power[m + 1] + last[m + 1] + W * k
        BY <2>1, <2>2 DEF v
      <3> QED
        BY <2>3, <3>1
    <2>7. last[m] \in Int /\ v * 10 + c \in Int
      BY <2>3, <2>4
    <2> DEFINE w == value[n + 1]
               rest == last[m]
               number == last[N]
    <2> HIDE DEF m, P, v, c
    <2>8. PICK q \in Int : v * 10 + c = w + W * q
      BY <2>5, <2>7, WrapIs DEF W
    <2>9. w \in Int /\ rest \in Int /\ number \in Int
      BY <1>2, <2>2, <2>3
    <2>10. q * P + k \in Int /\ number = w * P + rest + W * (q * P + k)
      <3> HIDE DEF w, rest, number
      <3>1. number = v * (P * 10) + (rest + c * P) + W * k
        BY <2>6 DEF rest, number
      <3> QED
        BY <1>1, <2>3, <2>4, <2>8, <2>9, <3>1, OneDigit
    <2>11. Same(n + 1, q * P + k)
      BY <2>2, <2>10 DEF P
    <2> HIDE DEF Same
    <2> QED
      BY <2>2, <2>10, <2>11
  <1>6. N \in S
    <2> HIDE DEF S
    <2>1. 0 .. N \subseteq S
      BY <1>1, <1>4, <1>5, BoundedInduction
    <2> QED
      BY <1>1, <2>1
  <1>7. PICK k \in Int : Same(N, k)
    BY <1>6
  <1>8. last[N] = value[N] + W * k
    <2>1. N - N = 0 /\ N \in 0 .. N /\ W * k \in Int
      BY <1>1
    <2>2. value[N] \in Int
      BY <1>2, <2>1
    <2> DEFINE x == W * k
    <2>3. last[N] = value[N] * 1 + 0 + x
      BY <1>3, <1>7, <2>1
    <2> HIDE DEF x
    <2>4. last[N] = value[N] + x
      BY <2>1, <2>2, <2>3 DEF x
    <2> QED
      BY <2>4 DEF x
  <1>9. value[N] \in -Half .. Half - 1
    <2>1. N \in 1 .. N /\ N - 1 \in 0 .. N
      BY <1>1
    <2> DEFINE c == word[N]
    <2>2. DigitValue(c) \in 0 .. 9
      <3>1. c \in Digits
        BY <2>1 DEF N
      <3> HIDE DEF c
      <3> QED
        BY <3>1, DigitValueType
    <2>3. value[N - 1] * 10 + DigitValue(c) \in Int
      <3> DEFINE v == value[N - 1]
                 e == DigitValue(c)
      <3>1. v \in Int /\ e \in Int
        BY <1>2, <2>1, <2>2
      <3> HIDE DEF v, e
      <3>2. v * 10 + e \in Int
        BY <3>1
      <3> QED
        BY <3>2 DEF v, e
    <2> QED
      BY <1>2, <2>1, <2>3, WrapIs
  <1>10. last[N] \in Int
    BY <1>1, <1>3
  <1>11. Wrap(last[N]) = value[N]
    <2> DEFINE x == last[N]
               y == value[N]
    <2>1. x \in Int /\ y \in -Half .. Half - 1 /\ x = y + (2 * Half) * k
      BY <1>8, <1>9, <1>10 DEF W
    <2> HIDE DEF x, y
    <2>2. Wrap(x) = y
      BY <2>1, WrapOfCongruent
    <2> QED
      BY <2>2 DEF x, y
  <1> QED
    BY <1>2, <1>3, <1>11

\* A LITERAL is a word of digits, and LiteralAST finds its digits.
LEMMA LiteralsAreRight ==
  ASSUME TypeOK, TokensAreLexemes, ReferencesFit
  PROVE  LiteralsHaveTheirNumber
  <1> SUFFICES ASSUME NEW n \in DOMAIN streamTokens, streamTokens[n].type = "LITERAL"
               PROVE  LET r == streamTokens[n].reference
                          word == print_token(r)
                      IN /\ word # <<>> /\ Consists(word, 1, Len(word), Digits)
                         /\ str_to_int64(word) = Wrap(Number(From(r), To(r)))
    BY DEF LiteralsHaveTheirNumber
  <1> DEFINE r == streamTokens[n].reference
             view == code_lines[r.line]
             from == From(r)
             to == To(r)
             word == print_token(r)
  <1>1. /\ r \in References /\ r.line \in DOMAIN code_lines /\ r.first <= r.last
        /\ r.last <= view.size
    <2> DEFINE R == [reference : References, type : Types]
    <2>1. streamTokens \in Seq(R)
      BY DEF TypeOK
    <2>2. r \in References
      <3>1. streamTokens[n] \in R
        <4> HIDE DEF R
        <4> QED
          BY <2>1
      <3> QED
        BY <3>1
    <2>3. FitsInLine(r)
      BY DEF ReferencesFit
    <2> QED
      BY <2>2, <2>3 DEF FitsInLine
  <1>2. /\ r.first \in Nat \ {0} /\ r.last \in Nat /\ view.from \in Nat \ {0}
        /\ view.size \in Nat
    <2>1. view \in Views
      BY <1>1 DEF TypeOK
    <2> QED
      BY <1>1, <2>1 DEF References, Views
  <1>3. IsLexeme(text, from, to, "LITERAL")
    BY DEF TokensAreLexemes
  <1>4. IsWord(text, from, to) /\ Consists(text, from, to, Digits)
    BY <1>3, NameAssumption DEF IsLexeme
  <1>5. /\ text \in Seq(Characters) /\ from \in 1 .. Len(text) /\ to \in from .. Len(text)
        /\ \A p \in from .. to : text[p] \in Digits
    BY <1>4 DEF IsWord, Consists, TypeOK
  <1>6. word = SubSeq(text, from, to)
    <2> HIDE DEF r
    <2>1. /\ from = view.from + r.first - 1
          /\ to = view.from + r.last - 1
      BY DEF From, To, At
    <2>2. r.first + (r.last - r.first + 1) = r.last + 1
      BY <1>2
    <2>3. word = SubSeq(text, At(view, r.first), At(view, r.last + 1) - 1)
      <3>1. CASE r.last + 1 <= view.size
        BY <2>2, <3>1 DEF print_token, Substr
      <3>2. CASE ~(r.last + 1 <= view.size)
        <4>1. r.last + 1 = view.size + 1
          BY <1>1, <1>2, <3>2
        <4> QED
          BY <2>2, <3>2, <4>1 DEF print_token, Substr
      <3> QED
        BY <3>1, <3>2
    <2>4. At(view, r.first) = from /\ At(view, r.last + 1) - 1 = to
      BY <1>2, <2>1 DEF At
    <2> QED
      BY <2>3, <2>4
  <1> HIDE DEF from, to, word, r
  <1>7. /\ Len(word) = to - from + 1 /\ Len(word) >= 1
        /\ \A i \in 1 .. Len(word) : word[i] = text[from + i - 1] /\ word[i] \in Digits
        /\ word \in Seq(Digits)
    <2>1. /\ word \in Seq(Characters) /\ Len(word) = to - from + 1
          /\ \A i \in 1 .. Len(word) : word[i] = text[from + i - 1]
      BY <1>5, <1>6
    <2>2. \A i \in 1 .. Len(word) : word[i] \in Digits
      <3> TAKE i \in 1 .. Len(word)
      <3>1. from + i - 1 \in from .. to
        BY <1>5, <2>1
      <3> QED
        BY <1>5, <2>1, <3>1
    <2> QED
      BY <1>5, <2>1, <2>2
  <1>8. str_to_int64(word) = Wrap(Number(from, to))
    <2>1. from \in Nat /\ to \in Nat /\ from <= to
      BY <1>5
    <2> QED
      BY <1>5, <1>7, <2>1, LoopComputesNumber
  <1>9. word # <<>> /\ Consists(word, 1, Len(word), Digits)
    BY <1>7 DEF Consists
  <1> QED
    BY <1>8, <1>9 DEF from, to, word, r

\* LiteralAST and str_to_int64: the number of a literal of any length, in a
\* line and a column anywhere in a text, is the one written there, modulo the
\* width of the integers.
THEOREM LiteralsAreTrue == Spec => []LiteralsHaveTheirNumber
  BY TypeCorrect, TokensAreFound, ReferencesAreRanges, LiteralsAreRight, PTL
=============================================================================
