---------------------------- MODULE ParserProofs ----------------------------
(***************************************************************************)
(* Theorems about module Parser, for token streams of every length.        *)
(***************************************************************************)
EXTENDS Parser, SequenceTheorems, TLAPS

-----------------------------------------------------------------------------
(* Blocks.                                                                 *)

\* A block whose class suits its kind is a block.
LEMMA BlockType ==
  /\ \A c \in Classes \ Declarations : Need(c) \in Blocks
  /\ \A c \in Declarations : Optional(c) \in Blocks
  /\ \A t \in Tokens : Expect(t) \in Blocks /\ Start(t) \in Blocks
  /\ \A t \in Tokens, c \in Classes \ Declarations : Repeat(t, c) \in Blocks
  /\ \A T \in SUBSET Tokens, c \in Classes \ Declarations : Continue(T, c) \in Blocks
  /\ \A T \in SUBSET {"RETURN", "identifier", "literal", "("},
        c \in {"Statement", "PrimaryExpression"} : Branch(T, c) \in Blocks
  /\ Sign \in Blocks
  <1>1. Declarations \subseteq Classes /\ {"Statement", "PrimaryExpression"} \subseteq Classes
    BY DEF Declarations, Classes
  <1>2. /\ {"+", "-"} \subseteq Tokens
        /\ {"RETURN", "identifier", "literal", "("} \subseteq Tokens
    BY DEF Tokens, Keywords
  <1> QED
    BY <1>1, <1>2 DEF Blocks, Kinds, Block, Need, Optional, Expect, Start,
                      Repeat, Continue, Branch, Sign

\* Only the declarations start with a keyword that may be missing.
HasStart(rest) == \E j \in DOMAIN rest : rest[j].kind = "start"

\* Blocks of a body that has no such keyword.
PlainBlocks == {b \in Blocks : b.kind # "start"}

\* Every operation but the start of a declaration makes a block without such
\* a keyword.
LEMMA PlainType ==
  /\ \A c \in Classes \ Declarations : Need(c) \in PlainBlocks
  /\ \A c \in Declarations : Optional(c) \in PlainBlocks
  /\ \A t \in Tokens : Expect(t) \in PlainBlocks
  /\ \A t \in Tokens, c \in Classes \ Declarations : Repeat(t, c) \in PlainBlocks
  /\ \A T \in SUBSET Tokens, c \in Classes \ Declarations :
        Continue(T, c) \in PlainBlocks
  /\ \A T \in SUBSET {"RETURN", "identifier", "literal", "("},
        c \in {"Statement", "PrimaryExpression"} : Branch(T, c) \in PlainBlocks
  /\ Sign \in PlainBlocks
  BY BlockType DEF PlainBlocks, Block, Need, Optional, Expect, Repeat, Continue,
                   Branch, Sign

\* A list of such blocks is a list of blocks, and none of them starts a
\* declaration.
LEMMA PlainList ==
  ASSUME NEW rest \in Seq(PlainBlocks)
  PROVE  rest \in Seq(Blocks) /\ ~HasStart(rest)
  BY DEF PlainBlocks, HasStart

\* A list written out has the type of its elements.
LEMMA ListType ==
  ASSUME NEW S
  PROVE  /\ \A a \in S : <<a>> \in Seq(S)
         /\ \A a, b \in S : <<a, b>> \in Seq(S)
         /\ \A a, b, c \in S : <<a, b, c>> \in Seq(S)
         /\ \A a, b, c, d, e \in S : <<a, b, c, d, e>> \in Seq(S)
  OBVIOUS

\* Every function is a list of blocks.
LEMMA BodyType ==
  ASSUME NEW class \in Classes
  PROVE  /\ Body(class) \in Seq(Blocks)
         /\ HasStart(Body(class)) => class \in Declarations
  <1>1. Tokens = {"PARAM", "VAR", "CONST", "BEGIN", "END", "RETURN",
                  "identifier", "literal", "+", "-", "*", "/", "(", ")", ",",
                  ";", "=", ":=", "."}
    BY DEF Tokens, Keywords
  <1>2. Classes \ Declarations =
          {"FunctionDeclaration", "DeclaratorList", "InitDeclaratorList",
           "InitDeclarator", "CompoundStatement", "StatementList", "Statement",
           "AssignmentExpression", "AdditiveExpression",
           "MultiplicativeExpression", "UnaryExpression", "PrimaryExpression",
           "Identifier", "Literal"}
    BY DEF Classes, Declarations
  <1>3. CASE class \in Declarations
    <2>1. /\ Start("PARAM") \in Blocks /\ Start("VAR") \in Blocks
          /\ Start("CONST") \in Blocks /\ Expect(";") \in Blocks
          /\ Need("DeclaratorList") \in Blocks /\ Need("InitDeclaratorList") \in Blocks
      BY BlockType, <1>1, <1>2
    <2>2. /\ ParameterDeclaration \in Seq(Blocks) /\ VariableDeclaration \in Seq(Blocks)
          /\ ConstantDeclaration \in Seq(Blocks)
      BY <2>1, ListType DEF ParameterDeclaration, VariableDeclaration, ConstantDeclaration
    <2> QED
      BY <1>3, <2>2 DEF Body, Declarations
  <1>4. CASE class \in Classes \ Declarations
    <2> SUFFICES Body(class) \in Seq(PlainBlocks)
      BY PlainList
    <2>1. FunctionDeclaration \in Seq(PlainBlocks)
      <3>1. /\ Optional("ParameterDeclaration") \in PlainBlocks
            /\ Optional("VariableDeclaration") \in PlainBlocks
            /\ Optional("ConstantDeclaration") \in PlainBlocks
            /\ Need("CompoundStatement") \in PlainBlocks
            /\ Expect(".") \in PlainBlocks
        BY PlainType, <1>1, <1>2 DEF Declarations
      <3> QED
        BY <3>1, ListType DEF FunctionDeclaration
    <2>2. DeclaratorList \in Seq(PlainBlocks) /\ InitDeclaratorList \in Seq(PlainBlocks)
      <3>1. /\ Need("Identifier") \in PlainBlocks /\ Repeat(",", "Identifier") \in PlainBlocks
            /\ Need("InitDeclarator") \in PlainBlocks
            /\ Repeat(",", "InitDeclarator") \in PlainBlocks
        BY PlainType, <1>1, <1>2
      <3> QED
        BY <3>1, ListType DEF DeclaratorList, InitDeclaratorList
    <2>3. InitDeclarator \in Seq(PlainBlocks) /\ CompoundStatement \in Seq(PlainBlocks)
      <3>1. /\ Need("Identifier") \in PlainBlocks /\ Expect("=") \in PlainBlocks
            /\ Need("Literal") \in PlainBlocks /\ Expect("BEGIN") \in PlainBlocks
            /\ Need("StatementList") \in PlainBlocks /\ Expect("END") \in PlainBlocks
        BY PlainType, <1>1, <1>2
      <3> QED
        BY <3>1, ListType DEF InitDeclarator, CompoundStatement
    <2>4. /\ StatementList \in Seq(PlainBlocks) /\ Statement \in Seq(PlainBlocks)
          /\ AssignmentExpression \in Seq(PlainBlocks)
      <3>1. /\ Need("Statement") \in PlainBlocks /\ Repeat(";", "Statement") \in PlainBlocks
            /\ Branch({"RETURN", "identifier"}, "Statement") \in PlainBlocks
            /\ Need("Identifier") \in PlainBlocks /\ Expect(":=") \in PlainBlocks
            /\ Need("AdditiveExpression") \in PlainBlocks
        BY PlainType, <1>1, <1>2
      <3> QED
        BY <3>1, ListType DEF StatementList, Statement, AssignmentExpression
    <2>5. /\ AdditiveExpression \in Seq(PlainBlocks)
          /\ MultiplicativeExpression \in Seq(PlainBlocks)
      <3>1. /\ Need("MultiplicativeExpression") \in PlainBlocks
            /\ Continue({"+", "-"}, "AdditiveExpression") \in PlainBlocks
            /\ Need("UnaryExpression") \in PlainBlocks
            /\ Continue({"*", "/"}, "MultiplicativeExpression") \in PlainBlocks
        BY PlainType, <1>1, <1>2
      <3> QED
        BY <3>1, ListType DEF AdditiveExpression, MultiplicativeExpression
    <2>6. /\ UnaryExpression \in Seq(PlainBlocks) /\ PrimaryExpression \in Seq(PlainBlocks)
          /\ Identifier \in Seq(PlainBlocks) /\ Literal \in Seq(PlainBlocks)
      <3>1. /\ Sign \in PlainBlocks /\ Need("PrimaryExpression") \in PlainBlocks
            /\ Branch({"identifier", "literal", "("}, "PrimaryExpression") \in PlainBlocks
            /\ Expect("identifier") \in PlainBlocks /\ Expect("literal") \in PlainBlocks
        BY PlainType, <1>1, <1>2
      <3> QED
        BY <3>1, ListType DEF UnaryExpression, PrimaryExpression, Identifier, Literal
    <2> QED
      BY <1>2, <1>4, <2>1, <2>2, <2>3, <2>4, <2>5, <2>6 DEF Body
  <1> QED
    BY <1>3, <1>4

\* So is every alternative of a branch.
LEMMA AlternativeType ==
  ASSUME NEW class \in {"Statement", "PrimaryExpression"},
         NEW token \in {"RETURN", "literal", "(", "identifier"}
  PROVE  Alternative(class, token) \in Seq(PlainBlocks)
  <1>1. /\ Expect("RETURN") \in PlainBlocks /\ Need("AdditiveExpression") \in PlainBlocks
        /\ Need("Literal") \in PlainBlocks /\ Expect("(") \in PlainBlocks
        /\ Expect(")") \in PlainBlocks /\ Need("AssignmentExpression") \in PlainBlocks
        /\ Need("Identifier") \in PlainBlocks
    BY PlainType DEF Tokens, Keywords, Classes, Declarations
  <1> QED
    BY <1>1, ListType DEF Alternative

-----------------------------------------------------------------------------
(* Lists of blocks and the stack of activations.                           *)

\* Going on to the next block adds no block.
LEMMA TailType ==
  ASSUME NEW rest \in Seq(Blocks), rest # <<>>
  PROVE  /\ Head(rest) \in Blocks /\ Head(rest) = rest[1]
         /\ Tail(rest) \in Seq(Blocks)
         /\ HasStart(Tail(rest)) => HasStart(rest)
  BY DEF HasStart

\* Blocks put in front of others are plain ones.
LEMMA PrefixType ==
  ASSUME NEW front \in Seq(PlainBlocks), NEW rest \in Seq(Blocks)
  PROVE  /\ front \o rest \in Seq(Blocks)
         /\ HasStart(front \o rest) => HasStart(rest)
  <1>1. front \in Seq(Blocks) /\ ~HasStart(front)
    BY PlainList
  <1>2. front \o rest \in Seq(Blocks) /\ Len(front \o rest) = Len(front) + Len(rest)
    BY <1>1
  <1>3. ASSUME NEW j \in DOMAIN (front \o rest), (front \o rest)[j].kind = "start"
        PROVE  HasStart(rest)
    <2>1. CASE j <= Len(front)
      <3>1. j \in DOMAIN front /\ (front \o rest)[j] = front[j]
        BY <1>1, <1>2, <2>1
      <3> QED
        BY <1>1, <1>3, <3>1 DEF HasStart
    <2>2. CASE ~(j <= Len(front))
      <3>1. j - Len(front) \in DOMAIN rest /\ (front \o rest)[j] = rest[j - Len(front)]
        BY <1>1, <1>2, <2>2
      <3> QED
        BY <1>3, <3>1 DEF HasStart
    <2> QED
      BY <2>1, <2>2
  <1> QED
    BY <1>2, <1>3 DEF HasStart

\* The innermost activation and the ones below it.
LEMMA FrontIs ==
  ASSUME NEW S, NEW s \in Seq(S), s # <<>>
  PROVE  /\ Len(s) \in Nat /\ Len(s) >= 1
         /\ Last(s) \in S /\ Last(s) = s[Len(s)]
         /\ Front(s) \in Seq(S) /\ Len(Front(s)) = Len(s) - 1
         /\ \A i \in 1 .. Len(s) - 1 : Front(s)[i] = s[i]
  <1>1. Len(s) \in Nat /\ Len(s) >= 1
    OBVIOUS
  <1>2. Last(s) \in S /\ Last(s) = s[Len(s)]
    BY <1>1 DEF Last
  <1>3. \A i \in 1 .. Len(s) - 1 : s[i] \in S
    BY <1>1
  <1>4. /\ Front(s) \in Seq(S) /\ Len(Front(s)) = Len(s) - 1
        /\ \A i \in 1 .. Len(s) - 1 : Front(s)[i] = s[i]
    <2>1. 1 \in Int /\ Len(s) - 1 \in Int
      BY <1>1
    <2> DEFINE front == SubSeq(s, 1, Len(s) - 1)
    <2>2. /\ front \in Seq(S)
          /\ Len(front) = IF 1 <= Len(s) - 1 THEN Len(s) - 1 - 1 + 1 ELSE 0
          /\ \A i \in 1 .. Len(s) - 1 - 1 + 1 : front[i] = s[1 + i - 1]
      BY ONLY <1>3, <2>1, SubSeqProperties
    <2>3. Front(s) = front
      BY DEF Front
    <2> HIDE DEF front
    <2>4. Len(front) = Len(s) - 1
      <3>1. CASE Len(s) = 1
        BY <2>2, <3>1
      <3>2. CASE Len(s) # 1
        <4>1. \A n \in Nat : n >= 1 /\ n # 1 =>
                 1 <= n - 1 /\ n - 1 - 1 + 1 = n - 1
          OBVIOUS
        <4>2. 1 <= Len(s) - 1 /\ Len(s) - 1 - 1 + 1 = Len(s) - 1
          BY ONLY <1>1, <3>2, <4>1
        <4> QED
          BY <2>2, <4>2
      <3> QED
        BY <3>1, <3>2
    <2>5. \A i \in 1 .. Len(s) - 1 : front[i] = s[i]
      BY <1>1, <2>2
    <2>6. front \in Seq(S)
      BY <2>2
    <2> QED
      BY <2>3, <2>4, <2>5, <2>6
  <1> QED
    BY <1>1, <1>2, <1>4

\* Adding an activation leaves the others where they are.
LEMMA AppendIs ==
  ASSUME NEW S, NEW s \in Seq(S), NEW e \in S
  PROVE  /\ Append(s, e) \in Seq(S) /\ Append(s, e) # <<>>
         /\ Len(Append(s, e)) = Len(s) + 1
         /\ Append(s, e)[Len(s) + 1] = e
         /\ \A i \in 1 .. Len(s) : Append(s, e)[i] = s[i]
  OBVIOUS

-----------------------------------------------------------------------------
(* Failure is reported.                                                    *)

\* An activation below another one waits at the block that made it, and a
\* keyword that may be missing is looked for by optional children only.
Chain(s) ==
    /\ \A i \in 1 .. Len(s) - 1 :
          s[i].rest # <<>> /\ Head(s[i].rest).kind \in {"need", "optional"}
    /\ \A i \in 1 .. Len(s) : HasStart(s[i].rest) =>
          i > 1 /\ Head(s[i - 1].rest).kind = "optional"

\* Who returns false has printed a message, or was optional.
Reported ==
    /\ answer = "false" =>
          \/ errors > 0
          \/ /\ Len(frames) > 1
             /\ Head(frames[Len(frames) - 1].rest).kind = "optional"
    /\ verdict = "rejected" => errors > 0

\* At the bound the stream is empty.
Window == ahead \in Upcoming(consumed)

ParserInv == TypeOK /\ Chain(frames) /\ Reported /\ Window

\* The parser starts with one activation and no message.
LEMMA ParserInit == Init => ParserInv
  <1> SUFFICES ASSUME Init PROVE ParserInv
    OBVIOUS
  <1> DEFINE a == Activation("FunctionDeclaration")
  <1>1. frames = <<a>>
    BY DEF Init
  <1>2. /\ "FunctionDeclaration" \in Classes /\ "FunctionDeclaration" \notin Declarations
    BY DEF Classes, Declarations
  <1>3. a \in Frames /\ ~HasStart(a.rest)
    BY <1>2, BodyType DEF Activation, Frame, Frames
  <1>4. ahead \in Tokens \cup {NoToken} /\ Window
    BY DEF Init, Upcoming, Window
  <1>5. consumed \in 0 .. MaxTokens
    BY LengthAssumption DEF Init
  <1> HIDE DEF a
  <1>6. frames \in Seq(Frames) /\ frames # <<>> /\ Len(frames) = 1 /\ frames[1] = a
    BY <1>1, <1>3
  <1>7. Chain(frames)
    BY <1>3, <1>6 DEF Chain
  <1> QED
    BY <1>4, <1>5, <1>6, <1>7 DEF Init, ParserInv, TypeOK, Reported

\* The innermost activation goes on: the ones below it stay as they are.
LEMMA ReplaceLast ==
  ASSUME NEW s \in Seq(Frames), s # <<>>, Chain(s), NEW t \in Frames,
         HasStart(t.rest) => HasStart(Last(s).rest)
  PROVE  /\ Append(Front(s), t) \in Seq(Frames) /\ Append(Front(s), t) # <<>>
         /\ Chain(Append(Front(s), t))
  <1> DEFINE n == Len(s)
             u == Append(Front(s), t)
  <1>1. /\ n \in Nat /\ n >= 1 /\ Last(s) = s[n]
        /\ Front(s) \in Seq(Frames) /\ Len(Front(s)) = n - 1
        /\ \A i \in 1 .. n - 1 : Front(s)[i] = s[i]
    BY FrontIs
  <1>2. /\ u \in Seq(Frames) /\ u # <<>> /\ Len(u) = Len(Front(s)) + 1
        /\ u[Len(Front(s)) + 1] = t
        /\ \A i \in 1 .. Len(Front(s)) : u[i] = Front(s)[i]
    BY <1>1, AppendIs
  <1>3. /\ \A i \in 1 .. n - 1 :
              s[i].rest # <<>> /\ Head(s[i].rest).kind \in {"need", "optional"}
        /\ \A i \in 1 .. n : HasStart(s[i].rest) =>
              i > 1 /\ Head(s[i - 1].rest).kind = "optional"
    BY DEF Chain
  <1> HIDE DEF n, u
  <1>4. Len(u) = n /\ u[n] = t /\ \A i \in 1 .. n - 1 : u[i] = s[i]
    <2>1. Len(Front(s)) + 1 = n
      BY <1>1
    <2> QED
      BY <1>1, <1>2, <2>1
  <1>5. \A i \in 1 .. n : HasStart(u[i].rest) =>
           i > 1 /\ Head(u[i - 1].rest).kind = "optional"
    <2> SUFFICES ASSUME NEW i \in 1 .. n, HasStart(u[i].rest)
                 PROVE  i > 1 /\ Head(u[i - 1].rest).kind = "optional"
      OBVIOUS
    <2>1. HasStart(s[i].rest)
      <3>1. CASE i = n
        BY <1>1, <1>4, <3>1
      <3>2. CASE i # n
        <4>1. i \in 1 .. n - 1
          BY <1>1, <3>2
        <4> QED
          BY <1>4, <4>1
      <3> QED
        BY <3>1, <3>2
    <2>2. i > 1 /\ Head(s[i - 1].rest).kind = "optional"
      BY <1>3, <2>1
    <2>3. i - 1 \in 1 .. n - 1
      BY <1>1, <2>2
    <2> QED
      BY <1>4, <2>2, <2>3
  <1>6. \A i \in 1 .. n - 1 :
           u[i].rest # <<>> /\ Head(u[i].rest).kind \in {"need", "optional"}
    BY <1>3, <1>4
  <1>7. Chain(u)
    BY <1>4, <1>5, <1>6 DEF Chain
  <1> QED
    BY <1>2, <1>7 DEF u

\* The innermost activation returns.
LEMMA DropLast ==
  ASSUME NEW s \in Seq(Frames), Len(s) > 1, Chain(s)
  PROVE  /\ Front(s) \in Seq(Frames) /\ Front(s) # <<>> /\ Chain(Front(s))
         /\ Last(Front(s)) = s[Len(s) - 1]
         /\ Last(Front(s)).rest # <<>>
         /\ Head(Last(Front(s)).rest).kind \in {"need", "optional"}
  <1> DEFINE n == Len(s)
             u == Front(s)
  <1>1. s # <<>>
    OBVIOUS
  <1>2. /\ n \in Nat /\ n > 1 /\ u \in Seq(Frames) /\ Len(u) = n - 1
        /\ \A i \in 1 .. n - 1 : u[i] = s[i]
    BY <1>1, FrontIs
  <1>3. /\ \A i \in 1 .. n - 1 :
              s[i].rest # <<>> /\ Head(s[i].rest).kind \in {"need", "optional"}
        /\ \A i \in 1 .. n : HasStart(s[i].rest) =>
              i > 1 /\ Head(s[i - 1].rest).kind = "optional"
    BY DEF Chain
  <1> HIDE DEF n, u
  <1>4. u # <<>>
    BY <1>2
  <1>5. Last(u) = u[n - 1] /\ n - 1 \in 1 .. n - 1
    BY <1>2 DEF Last
  <1>6. \A i \in 1 .. n - 2 :
           u[i].rest # <<>> /\ Head(u[i].rest).kind \in {"need", "optional"}
    BY <1>2, <1>3
  <1>7. \A i \in 1 .. n - 1 : HasStart(u[i].rest) =>
           i > 1 /\ Head(u[i - 1].rest).kind = "optional"
    <2> SUFFICES ASSUME NEW i \in 1 .. n - 1, HasStart(u[i].rest)
                 PROVE  i > 1 /\ Head(u[i - 1].rest).kind = "optional"
      OBVIOUS
    <2>1. i > 1 /\ Head(s[i - 1].rest).kind = "optional"
      BY <1>2, <1>3
    <2>2. i - 1 \in 1 .. n - 1
      BY <1>2, <2>1
    <2> QED
      BY <1>2, <2>1, <2>2
  <1>8. Chain(u)
    <2>1. Len(u) - 1 = n - 2
      BY <1>2
    <2> QED
      BY <1>2, <1>6, <1>7, <2>1 DEF Chain
  <1> QED
    BY <1>2, <1>3, <1>4, <1>5, <1>8 DEF n, u

\* A child is activated by the block that needs it.
LEMMA AddLast ==
  ASSUME NEW s \in Seq(Frames), s # <<>>, Chain(s), NEW t \in Frames,
         Last(s).rest # <<>>, Head(Last(s).rest).kind \in {"need", "optional"},
         HasStart(t.rest) => Head(Last(s).rest).kind = "optional"
  PROVE  /\ Append(s, t) \in Seq(Frames) /\ Append(s, t) # <<>>
         /\ Chain(Append(s, t))
  <1> DEFINE n == Len(s)
             u == Append(s, t)
  <1>1. n \in Nat /\ n >= 1 /\ Last(s) = s[n]
    BY FrontIs
  <1>2. /\ u \in Seq(Frames) /\ u # <<>> /\ Len(u) = n + 1 /\ u[n + 1] = t
        /\ \A i \in 1 .. n : u[i] = s[i]
    BY AppendIs
  <1>3. /\ \A i \in 1 .. n - 1 :
              s[i].rest # <<>> /\ Head(s[i].rest).kind \in {"need", "optional"}
        /\ \A i \in 1 .. n : HasStart(s[i].rest) =>
              i > 1 /\ Head(s[i - 1].rest).kind = "optional"
    BY DEF Chain
  <1> HIDE DEF n, u
  <1>4. \A i \in 1 .. n :
           u[i].rest # <<>> /\ Head(u[i].rest).kind \in {"need", "optional"}
    <2> SUFFICES ASSUME NEW i \in 1 .. n
                 PROVE  /\ s[i].rest # <<>>
                        /\ Head(s[i].rest).kind \in {"need", "optional"}
      BY <1>2
    <2>1. i = n \/ i \in 1 .. n - 1
      BY <1>1
    <2> QED
      BY <1>1, <1>3, <2>1
  <1>5. \A i \in 1 .. n + 1 : HasStart(u[i].rest) =>
           i > 1 /\ Head(u[i - 1].rest).kind = "optional"
    <2> SUFFICES ASSUME NEW i \in 1 .. n + 1, HasStart(u[i].rest)
                 PROVE  i > 1 /\ Head(u[i - 1].rest).kind = "optional"
      OBVIOUS
    <2>1. CASE i = n + 1
      <3>1. i > 1 /\ i - 1 = n /\ n \in 1 .. n
        BY <1>1, <2>1
      <3> QED
        BY <1>1, <1>2, <2>1, <3>1
    <2>2. CASE i # n + 1
      <3>1. i \in 1 .. n
        BY <1>1, <2>2
      <3>2. i > 1 /\ Head(s[i - 1].rest).kind = "optional"
        BY <1>2, <1>3, <3>1
      <3>3. i - 1 \in 1 .. n
        BY <1>1, <3>1, <3>2
      <3> QED
        BY <1>2, <3>2, <3>3
    <2> QED
      BY <2>1, <2>2
  <1>6. Chain(u)
    <2>1. Len(u) - 1 = n
      BY <1>1, <1>2
    <2> QED
      BY <1>2, <1>4, <1>5, <2>1 DEF Chain
  <1> QED
    BY <1>2, <1>6 DEF u

-----------------------------------------------------------------------------
(* The steps.                                                              *)

\* The block that is about to be executed.
LEMMA CurrentIs ==
  ASSUME TypeOK, Top.rest # <<>>
  PROVE  /\ Top \in Frames /\ Top.rest \in Seq(Blocks) /\ Top = Last(frames)
         /\ Current \in Blocks /\ Current.tokens \subseteq Tokens
         /\ Tail(Top.rest) \in Seq(Blocks)
         /\ HasStart(Tail(Top.rest)) => HasStart(Top.rest)
         /\ Current.kind = "start" => HasStart(Top.rest)
  <1>1. Top \in Frames /\ Top = Last(frames)
    BY FrontIs DEF TypeOK, Top
  <1>2. Top.rest \in Seq(Blocks)
    BY <1>1 DEF Frames
  <1>3. /\ Current \in Blocks /\ Current = Top.rest[1]
        /\ Tail(Top.rest) \in Seq(Blocks)
        /\ HasStart(Tail(Top.rest)) => HasStart(Top.rest)
    BY <1>2, TailType DEF Current
  <1>4. 1 \in DOMAIN Top.rest
    BY <1>2
  <1> QED
    BY <1>1, <1>2, <1>3, <1>4 DEF Blocks, HasStart

\* A token can only be consumed if the stream holds one.
LEMMA ConsumeStep ==
  ASSUME TypeOK, Window, ahead \in Tokens, Consume
  PROVE  /\ consumed' \in 0 .. MaxTokens /\ ahead' \in Tokens \cup {NoToken}
         /\ Window'
  <1>1. NoToken \notin Tokens
    BY DEF NoToken, Tokens, Keywords
  <1>2. consumed < MaxTokens
    BY <1>1 DEF Window, Upcoming
  <1> QED
    BY <1>2, LengthAssumption DEF TypeOK, Consume, Window, Upcoming

\* A stream that is left alone stays within its bounds.
LEMMA StreamStays ==
  ASSUME TypeOK, Window, UNCHANGED <<ahead, consumed>>
  PROVE  /\ consumed' \in 0 .. MaxTokens /\ ahead' \in Tokens \cup {NoToken}
         /\ Window'
  BY DEF TypeOK, Window, Upcoming

\* Going on with other blocks, of which none is a new optional keyword.
LEMMA ResumeStep ==
  ASSUME TypeOK, Chain(frames), NEW rest \in Seq(Blocks),
         Resume(rest), HasStart(rest) => HasStart(Top.rest)
  PROVE  frames' \in Seq(Frames) /\ frames' # <<>> /\ Chain(frames')
  <1> DEFINE t == Frame(Top.class, rest)
  <1>1. frames \in Seq(Frames) /\ frames # <<>>
    BY DEF TypeOK
  <1>2. Top \in Frames /\ Top = Last(frames)
    BY <1>1, FrontIs DEF Top
  <1>3. t \in Frames /\ t.rest = rest
    BY <1>2 DEF Frames, Frame
  <1>4. frames' = Append(Front(frames), t)
    BY DEF Resume
  <1> HIDE DEF t
  <1> QED
    BY <1>1, <1>2, <1>3, <1>4, ReplaceLast

\* A step that goes on and prints nothing keeps the invariant.
LEMMA GoOn ==
  ASSUME TypeOK, answer = "none", verdict # "rejected",
         UNCHANGED <<answer, errors, wanted>>,
         verdict' \in {verdict, "aborted"},
         frames' \in Seq(Frames), frames' # <<>>, Chain(frames'),
         consumed' \in 0 .. MaxTokens, ahead' \in Tokens \cup {NoToken}, Window'
  PROVE  ParserInv'
  BY DEF TypeOK, ParserInv, Reported

\* Printing a message and returning false keeps it as well.
LEMMA RefuseStep ==
  ASSUME ParserInv, Top.rest # <<>>, verdict = "parsing", Refuse
  PROVE  ParserInv'
  <1>1. wanted' \in SUBSET Tokens
    BY CurrentIs DEF ParserInv, Refuse
  <1>2. /\ ahead' = ahead /\ consumed' = consumed /\ frames' = frames
        /\ verdict' = verdict /\ answer' = "false" /\ errors' = errors + 1
    BY DEF Refuse, Return
  <1>3. TypeOK'
    BY <1>1, <1>2 DEF ParserInv, TypeOK
  <1>4. Chain(frames') /\ Window'
    BY <1>2 DEF ParserInv, Window, Upcoming
  <1>5. Reported'
    BY <1>2 DEF ParserInv, TypeOK, Reported
  <1> QED
    BY <1>3, <1>4, <1>5 DEF ParserInv

\* Every step keeps the invariant.
LEMMA ParserStep == ParserInv /\ [Next]_vars => ParserInv'
  <1> SUFFICES ASSUME ParserInv, [Next]_vars PROVE ParserInv'
    OBVIOUS
  <1>1. TypeOK /\ Chain(frames) /\ Reported /\ Window
    BY DEF ParserInv
  <1>2. CASE Enter
    <2>1. /\ Top.rest # <<>> /\ Current.kind \in {"need", "optional"}
          /\ verdict = "parsing" /\ answer = "none"
      BY <1>2 DEF Enter, At
    <2> DEFINE t == Activation(Current.class)
    <2>2. /\ Current \in Blocks /\ Top = Last(frames)
      BY <1>1, <2>1, CurrentIs
    <2>3. Current.class \in Classes /\ (Current.kind = "need" =>
                                          Current.class \notin Declarations)
      BY <2>1, <2>2 DEF Blocks, Declarations, Classes
    <2>4. t \in Frames /\ (HasStart(t.rest) => Current.kind = "optional")
      <3>1. Body(Current.class) \in Seq(Blocks)
        BY <2>3, BodyType
      <3>2. HasStart(Body(Current.class)) => Current.class \in Declarations
        BY <2>3, BodyType
      <3> QED
        BY <2>1, <2>3, <3>1, <3>2 DEF Activation, Frame, Frames
    <2>5. frames' = Append(frames, t)
      BY <1>2 DEF Enter
    <2> HIDE DEF t
    <2>6. frames' \in Seq(Frames) /\ frames' # <<>> /\ Chain(frames')
      BY <1>1, <2>1, <2>2, <2>4, <2>5, AddLast DEF TypeOK, Current
    <2>7. consumed' \in 0 .. MaxTokens /\ ahead' \in Tokens \cup {NoToken} /\ Window'
      BY <1>1, <1>2, StreamStays DEF Enter
    <2> QED
      BY <1>1, <1>2, <2>1, <2>6, <2>7, GoOn DEF Enter
  <1>3. CASE ExpectToken
    <2>1. Top.rest # <<>> /\ verdict = "parsing" /\ answer = "none"
      BY <1>3 DEF ExpectToken, At
    <2>2. CASE /\ ahead \in Current.tokens /\ Consume /\ Resume(Tail(Top.rest))
               /\ UNCHANGED <<answer, errors, wanted, verdict>>
      <3>1. consumed' \in 0 .. MaxTokens /\ ahead' \in Tokens \cup {NoToken} /\ Window'
        BY <1>1, <2>1, <2>2, CurrentIs, ConsumeStep
      <3>2. frames' \in Seq(Frames) /\ frames' # <<>> /\ Chain(frames')
        BY <1>1, <2>1, <2>2, CurrentIs, ResumeStep
      <3> QED
        BY <1>1, <2>1, <2>2, <3>1, <3>2, GoOn
    <2>3. CASE ahead \notin Current.tokens /\ Refuse
      BY <2>1, <2>3, RefuseStep
    <2> QED
      BY <1>3, <2>2, <2>3 DEF ExpectToken
  <1>4. CASE StartDeclaration
    <2>1. /\ Top.rest # <<>> /\ verdict = "parsing" /\ answer = "none"
          /\ Current.kind = "start"
      BY <1>4 DEF StartDeclaration, At
    <2>2. CASE /\ ahead \in Current.tokens /\ Consume /\ Resume(Tail(Top.rest))
               /\ UNCHANGED <<answer, errors, wanted, verdict>>
      <3>1. consumed' \in 0 .. MaxTokens /\ ahead' \in Tokens \cup {NoToken} /\ Window'
        BY <1>1, <2>1, <2>2, CurrentIs, ConsumeStep
      <3>2. frames' \in Seq(Frames) /\ frames' # <<>> /\ Chain(frames')
        BY <1>1, <2>1, <2>2, CurrentIs, ResumeStep
      <3> QED
        BY <1>1, <2>1, <2>2, <3>1, <3>2, GoOn
    <2>3. CASE Return("false") /\ UNCHANGED <<errors, wanted>>
      <3>1. /\ ahead' = ahead /\ consumed' = consumed /\ frames' = frames
            /\ verdict' = verdict /\ answer' = "false"
            /\ errors' = errors /\ wanted' = wanted
        BY <2>3 DEF Return
      <3>2. TypeOK' /\ Window' /\ Chain(frames')
        BY <1>1, <3>1 DEF TypeOK, Window, Upcoming
      <3>3. HasStart(Last(frames).rest) /\ Len(frames) >= 1 /\ Len(frames) \in Nat
            /\ Last(frames) = frames[Len(frames)]
        BY <1>1, <2>1, CurrentIs, FrontIs DEF TypeOK
      <3>4. /\ Len(frames) > 1
            /\ Head(frames[Len(frames) - 1].rest).kind = "optional"
        BY <1>1, <3>3 DEF Chain
      <3>5. Reported'
        BY <2>1, <3>1, <3>4 DEF Reported
      <3> QED
        BY <3>2, <3>5 DEF ParserInv
    <2> QED
      BY <1>4, <2>2, <2>3 DEF StartDeclaration
  <1>5. CASE RepeatChild
    <2>1. /\ Top.rest # <<>> /\ verdict = "parsing" /\ answer = "none"
          /\ Current.kind = "repeat"
          /\ UNCHANGED <<answer, errors, wanted, verdict>>
      BY <1>5 DEF RepeatChild, At
    <2>2. CASE ahead \in Current.tokens /\ Consume
               /\ Resume(<<Need(Current.class)>> \o Top.rest)
      <3>1. consumed' \in 0 .. MaxTokens /\ ahead' \in Tokens \cup {NoToken} /\ Window'
        BY <1>1, <2>1, <2>2, CurrentIs, ConsumeStep
      <3>2. Current.class \in Classes \ Declarations
        BY <1>1, <2>1, CurrentIs DEF Blocks
      <3>3. <<Need(Current.class)>> \in Seq(PlainBlocks)
        BY <3>2, PlainType, ListType
      <3>4. /\ <<Need(Current.class)>> \o Top.rest \in Seq(Blocks)
            /\ HasStart(<<Need(Current.class)>> \o Top.rest) => HasStart(Top.rest)
        BY <1>1, <2>1, <3>3, CurrentIs, PrefixType
      <3>5. frames' \in Seq(Frames) /\ frames' # <<>> /\ Chain(frames')
        BY <1>1, <2>2, <3>4, ResumeStep
      <3> QED
        BY <1>1, <2>1, <3>1, <3>5, GoOn
    <2>3. CASE Resume(Tail(Top.rest)) /\ UNCHANGED <<ahead, consumed>>
      <3>1. consumed' \in 0 .. MaxTokens /\ ahead' \in Tokens \cup {NoToken} /\ Window'
        BY <1>1, <2>3, StreamStays
      <3>2. frames' \in Seq(Frames) /\ frames' # <<>> /\ Chain(frames')
        BY <1>1, <2>1, <2>3, CurrentIs, ResumeStep
      <3> QED
        BY <1>1, <2>1, <3>1, <3>2, GoOn
    <2> QED
      BY <1>5, <2>2, <2>3 DEF RepeatChild
  <1>6. CASE ContinueExpression
    <2>1. /\ Top.rest # <<>> /\ verdict = "parsing" /\ answer = "none"
          /\ Current.kind = "continue"
          /\ UNCHANGED <<answer, errors, wanted, verdict>>
      BY <1>6 DEF ContinueExpression, At
    <2>2. CASE ahead \in Current.tokens /\ Consume
               /\ Resume(<<Need(Current.class)>> \o Tail(Top.rest))
      <3>1. consumed' \in 0 .. MaxTokens /\ ahead' \in Tokens \cup {NoToken} /\ Window'
        BY <1>1, <2>1, <2>2, CurrentIs, ConsumeStep
      <3>2. Current.class \in Classes \ Declarations
        BY <1>1, <2>1, CurrentIs DEF Blocks
      <3>3. <<Need(Current.class)>> \in Seq(PlainBlocks)
        BY <3>2, PlainType, ListType
      <3>4. /\ <<Need(Current.class)>> \o Tail(Top.rest) \in Seq(Blocks)
            /\ HasStart(<<Need(Current.class)>> \o Tail(Top.rest)) =>
                  HasStart(Tail(Top.rest))
        BY <1>1, <2>1, <3>3, CurrentIs, PrefixType
      <3>5. HasStart(Tail(Top.rest)) => HasStart(Top.rest)
        BY <1>1, <2>1, CurrentIs
      <3>6. frames' \in Seq(Frames) /\ frames' # <<>> /\ Chain(frames')
        BY <1>1, <2>2, <3>4, <3>5, ResumeStep
      <3> QED
        BY <1>1, <2>1, <3>1, <3>6, GoOn
    <2>3. CASE Resume(Tail(Top.rest)) /\ UNCHANGED <<ahead, consumed>>
      <3>1. consumed' \in 0 .. MaxTokens /\ ahead' \in Tokens \cup {NoToken} /\ Window'
        BY <1>1, <2>3, StreamStays
      <3>2. frames' \in Seq(Frames) /\ frames' # <<>> /\ Chain(frames')
        BY <1>1, <2>1, <2>3, CurrentIs, ResumeStep
      <3> QED
        BY <1>1, <2>1, <3>1, <3>2, GoOn
    <2> QED
      BY <1>6, <2>2, <2>3 DEF ContinueExpression
  <1>7. CASE SkipSign
    <2>1. /\ Top.rest # <<>> /\ verdict = "parsing" /\ answer = "none"
          /\ UNCHANGED <<answer, errors, wanted>>
      BY <1>7 DEF SkipSign, At
    <2>2. CASE ahead \in Current.tokens /\ Consume /\ Resume(Tail(Top.rest))
               /\ UNCHANGED verdict
      <3>1. consumed' \in 0 .. MaxTokens /\ ahead' \in Tokens \cup {NoToken} /\ Window'
        BY <1>1, <2>1, <2>2, CurrentIs, ConsumeStep
      <3>2. frames' \in Seq(Frames) /\ frames' # <<>> /\ Chain(frames')
        BY <1>1, <2>1, <2>2, CurrentIs, ResumeStep
      <3> QED
        BY <1>1, <2>1, <2>2, <3>1, <3>2, GoOn
    <2>3. CASE Resume(Tail(Top.rest)) /\ UNCHANGED <<ahead, consumed, verdict>>
      <3>1. consumed' \in 0 .. MaxTokens /\ ahead' \in Tokens \cup {NoToken} /\ Window'
        BY <1>1, <2>3, StreamStays
      <3>2. frames' \in Seq(Frames) /\ frames' # <<>> /\ Chain(frames')
        BY <1>1, <2>1, <2>3, CurrentIs, ResumeStep
      <3> QED
        BY <1>1, <2>1, <2>3, <3>1, <3>2, GoOn
    <2>4. CASE verdict' = "aborted" /\ UNCHANGED <<ahead, consumed, frames>>
      <3>1. consumed' \in 0 .. MaxTokens /\ ahead' \in Tokens \cup {NoToken} /\ Window'
        BY <1>1, <2>4, StreamStays
      <3>2. frames' \in Seq(Frames) /\ frames' # <<>> /\ Chain(frames')
        BY <1>1, <2>4 DEF TypeOK
      <3> QED
        BY <1>1, <2>1, <2>4, <3>1, <3>2, GoOn
    <2> QED
      BY <1>7, <2>2, <2>3, <2>4 DEF SkipSign
  <1>8. CASE TakeBranch
    <2>1. /\ Top.rest # <<>> /\ verdict = "parsing" /\ answer = "none"
          /\ Current.kind = "branch"
      BY <1>8 DEF TakeBranch, At
    <2>2. CASE /\ ahead \in Current.tokens
               /\ Resume(Alternative(Current.class, ahead) \o Tail(Top.rest))
               /\ UNCHANGED <<ahead, consumed, answer, errors, wanted, verdict>>
      <3> DEFINE blocks == Alternative(Current.class, ahead)
      <3>1. consumed' \in 0 .. MaxTokens /\ ahead' \in Tokens \cup {NoToken} /\ Window'
        BY <1>1, <2>2, StreamStays
      <3>2. /\ Current.class \in {"Statement", "PrimaryExpression"}
            /\ ahead \in {"RETURN", "literal", "(", "identifier"}
        BY <1>1, <2>1, <2>2, CurrentIs DEF Blocks
      <3>3. blocks \in Seq(PlainBlocks)
        BY <3>2, AlternativeType
      <3> HIDE DEF blocks
      <3>4. /\ blocks \o Tail(Top.rest) \in Seq(Blocks)
            /\ HasStart(blocks \o Tail(Top.rest)) => HasStart(Tail(Top.rest))
        BY <1>1, <2>1, <3>3, CurrentIs, PrefixType
      <3>5. HasStart(Tail(Top.rest)) => HasStart(Top.rest)
        BY <1>1, <2>1, CurrentIs
      <3>6. Resume(blocks \o Tail(Top.rest))
        BY <2>2 DEF blocks
      <3>7. frames' \in Seq(Frames) /\ frames' # <<>> /\ Chain(frames')
        BY <1>1, <3>4, <3>5, <3>6, ResumeStep
      <3> QED
        BY <1>1, <2>1, <2>2, <3>1, <3>7, GoOn
    <2>3. CASE ahead \notin Current.tokens /\ Refuse
      BY <2>1, <2>3, RefuseStep
    <2> QED
      BY <1>8, <2>2, <2>3 DEF TakeBranch
  <1>9. CASE Succeed
    <2>1. /\ ahead' = ahead /\ consumed' = consumed /\ frames' = frames
          /\ verdict' = verdict /\ answer' = "true"
          /\ errors' = errors /\ wanted' = wanted
      BY <1>9 DEF Succeed, Return
    <2>2. TypeOK' /\ Window' /\ Chain(frames')
      BY <1>1, <2>1 DEF TypeOK, Window, Upcoming
    <2>3. Reported'
      BY <1>1, <2>1 DEF Reported
    <2> QED
      BY <2>2, <2>3 DEF ParserInv
  <1>10. CASE ReturnToParent
    <2> DEFINE child == Top
               parent == Last(Front(frames))
               block == Head(parent.rest)
               t == Frame(parent.class, Tail(parent.rest))
    <2>1. /\ verdict = "parsing" /\ answer # "none" /\ Len(frames) > 1
          /\ UNCHANGED <<ahead, consumed, errors, wanted, verdict>>
      BY <1>10 DEF ReturnToParent
    <2>2. frames \in Seq(Frames) /\ frames # <<>>
      BY <1>1 DEF TypeOK
    <2>3. /\ Front(frames) \in Seq(Frames) /\ Front(frames) # <<>>
          /\ Chain(Front(frames)) /\ parent = frames[Len(frames) - 1]
          /\ parent.rest # <<>> /\ block.kind \in {"need", "optional"}
      BY <1>1, <2>1, <2>2, DropLast
    <2>4. parent \in Frames /\ child \in Frames
      BY <2>2, <2>3, FrontIs DEF Top
    <2>5. consumed' \in 0 .. MaxTokens /\ ahead' \in Tokens \cup {NoToken} /\ Window'
      BY <1>1, <2>1, StreamStays
    <2>6. CASE frames' = Append(Front(Front(frames)), t) /\ answer' = "none"
      <3>1. /\ Tail(parent.rest) \in Seq(Blocks)
            /\ HasStart(Tail(parent.rest)) => HasStart(parent.rest)
        <4>1. parent.rest \in Seq(Blocks)
          BY <2>4 DEF Frames
        <4> QED
          BY <2>3, <4>1, TailType
      <3>2. t \in Frames /\ t.rest = Tail(parent.rest)
        BY <2>4, <3>1 DEF Frames, Frame
      <3> HIDE DEF t
      <3>3. frames' \in Seq(Frames) /\ frames' # <<>> /\ Chain(frames')
        BY <2>3, <2>6, <3>1, <3>2, ReplaceLast
      <3>4. Reported'
        BY <2>1, <2>6 DEF Reported
      <3> QED
        BY <1>1, <2>1, <2>5, <2>6, <3>3, <3>4 DEF ParserInv, TypeOK
    <2>7. CASE answer = "false" /\ block.kind = "need"
               /\ frames' = Front(frames) /\ UNCHANGED answer
      <3>1. errors > 0
        BY <1>1, <2>3, <2>7 DEF Reported
      <3>2. Reported'
        BY <2>1, <3>1 DEF Reported
      <3> QED
        BY <1>1, <2>1, <2>3, <2>5, <2>7, <3>2 DEF ParserInv, TypeOK
    <2> QED
      BY <1>10, <2>6, <2>7 DEF ReturnToParent
  <1>11. CASE Finish
    <2>1. /\ ahead' = ahead /\ consumed' = consumed /\ frames' = frames
          /\ answer' = answer /\ Len(frames) = 1 /\ answer # "none"
      BY <1>11 DEF Finish
    <2>2. /\ errors' \in {errors, errors + 1} /\ wanted' \in {wanted, {}}
          /\ verdict' \in {"accepted", "rejected"}
          /\ verdict' = "rejected" => errors' = errors + 1 \/ answer # "true"
      BY <1>11 DEF Finish
    <2>3. errors \in Nat
      BY <1>1 DEF TypeOK
    <2>4. answer = "false" => errors > 0
      BY <1>1, <2>1 DEF Reported
    <2>5. Window' /\ Chain(frames')
      BY <1>1, <2>1 DEF Window, Upcoming
    <2>6. TypeOK'
      BY <1>1, <2>1, <2>2 DEF TypeOK
    <2>7. Reported'
      <3>1. answer \in {"true", "false"}
        BY <1>1, <2>1 DEF TypeOK
      <3>2. answer = "false" => errors' > 0
        BY <2>2, <2>3, <2>4
      <3>3. verdict' = "rejected" => errors' > 0
        BY <2>2, <2>3, <2>4, <3>1
      <3> QED
        BY <2>1, <3>2, <3>3 DEF Reported
    <2> QED
      BY <2>5, <2>6, <2>7 DEF ParserInv
  <1>12. CASE UNCHANGED vars
    BY <1>1, <1>12 DEF ParserInv, TypeOK, Reported, Window, Upcoming, vars
  <1> QED
    BY <1>2, <1>3, <1>4, <1>5, <1>6, <1>7, <1>8, <1>9, <1>10, <1>11, <1>12 DEF Next

\* The invariant holds throughout.
LEMMA ParserAlways == Spec => []ParserInv
  BY ParserInit, ParserStep, PTL DEF Spec

\* For every bound, the state of the parser has its type.
THEOREM TypeCorrect == Spec => []TypeOK
  <1>1. ParserInv => TypeOK
    BY DEF ParserInv
  <1> QED
    BY <1>1, ParserAlways, PTL

\* For every token stream of any length, a rejected text has a message: the
\* silent failure of a declaration that is left out never reaches compileCode.
THEOREM FailureIsReported == Spec => []RejectedIsReported
  <1>1. ParserInv => RejectedIsReported
    BY DEF ParserInv, Reported, RejectedIsReported
  <1> QED
    BY <1>1, ParserAlways, PTL

=============================================================================
