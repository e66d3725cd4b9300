------------------------------- MODULE Parser -------------------------------
(***************************************************************************)
(* The recursive-descent parser (pljit/syntax/ParseTree.cpp).              *)
(*                                                                         *)
(* Each recursiveDescentParser function is a list of blocks, written below *)
(* as one operator per class, and each kind of block is an action.  A      *)
(* frame stands for an activation: the class and the blocks it still has   *)
(* to execute; the tree it builds is the subject of ParseTree.  A token is *)
(* chosen when it becomes the first one of the stream, so a behaviour is   *)
(* one token stream and what the parser does with it.                      *)
(***************************************************************************)
EXTENDS Naturals, Sequences, SequencesExt

CONSTANT MaxTokens  \* bound: length of the token stream

ASSUME LengthAssumption == MaxTokens \in Nat

Keywords == {"PARAM", "VAR", "CONST", "BEGIN", "END", "RETURN"}
Tokens == Keywords \cup
    {"identifier", "literal", "+", "-", "*", "/", "(", ")", ",", ";", "=",
     ":=", "."}
NoToken == "end of stream"

VARIABLES
    ahead,     \* lookup(), or NoToken if isEmpty()
    consumed,  \* iterator_token
    frames,    \* activations, the innermost one last
    answer,    \* what the activation that has just returned has answered
    errors,    \* messages printed to the compile-error stream
    wanted,    \* the tokens the last message asks for
    verdict    \* the answer of compileCode

vars == <<ahead, consumed, frames, answer, errors, wanted, verdict>>

-----------------------------------------------------------------------------
(* Blocks.                                                                 *)

Block(kind, tokens, class) == [kind |-> kind, tokens |-> tokens, class |-> class]

\* if (child->recursiveDescentParser(..)) children.emplace_back; else return false
Need(class) == Block("need", {}, class)
\* the same without the else
Optional(class) == Block("optional", {}, class)
\* a token that must be there
Expect(token) == Block("expect", {token}, "GenericToken")
\* the keyword of a declaration that may be left out
Start(token) == Block("start", {token}, "GenericToken")
\* while (next token is the separator) { consume it; need a child }
Repeat(token, class) == Block("repeat", {token}, class)
\* if (next token is one of these) { consume it; need a child }
Continue(tokens, class) == Block("continue", tokens, class)
\* if (next token is a sign) consume it; isEmpty() is not asked
Sign == Block("sign", {"+", "-"}, "GenericToken")
\* one alternative per first token
Branch(tokens, class) == Block("branch", tokens, class)

FunctionDeclaration ==
    <<Optional("ParameterDeclaration"), Optional("VariableDeclaration"),
      Optional("ConstantDeclaration"), Need("CompoundStatement"), Expect(".")>>
ParameterDeclaration == <<Start("PARAM"), Need("DeclaratorList"), Expect(";")>>
VariableDeclaration == <<Start("VAR"), Need("DeclaratorList"), Expect(";")>>
ConstantDeclaration == <<Start("CONST"), Need("InitDeclaratorList"), Expect(";")>>
DeclaratorList == <<Need("Identifier"), Repeat(",", "Identifier")>>
InitDeclaratorList == <<Need("InitDeclarator"), Repeat(",", "InitDeclarator")>>
InitDeclarator == <<Need("Identifier"), Expect("="), Need("Literal")>>
CompoundStatement == <<Expect("BEGIN"), Need("StatementList"), Expect("END")>>
StatementList == <<Need("Statement"), Repeat(";", "Statement")>>
Statement == <<Branch({"RETURN", "identifier"}, "Statement")>>

\* A mutation: the two assignment tokens are confused.
AssignmentLikeConstant ==
    <<Need("Identifier"), Expect("="), Need("AdditiveExpression")>>

AssignmentExpression ==
    <<Need("Identifier"), Expect(":="), Need("AdditiveExpression")>>

\* A mutation: a sum is a list of at most two terms.
AdditiveExpressionOnce ==
    <<Need("MultiplicativeExpression"),
      Continue({"+", "-"}, "MultiplicativeExpression")>>

AdditiveExpression ==
    <<Need("MultiplicativeExpression"), Continue({"+", "-"}, "AdditiveExpression")>>
MultiplicativeExpression ==
    <<Need("UnaryExpression"), Continue({"*", "/"}, "MultiplicativeExpression")>>
UnaryExpression == <<Sign, Need("PrimaryExpression")>>
PrimaryExpression == <<Branch({"identifier", "literal", "("}, "PrimaryExpression")>>
Identifier == <<Expect("identifier")>>
Literal == <<Expect("literal")>>

Body(class) ==
    CASE class = "FunctionDeclaration" -> FunctionDeclaration
      [] class = "ParameterDeclaration" -> ParameterDeclaration
      [] class = "VariableDeclaration" -> VariableDeclaration
      [] class = "ConstantDeclaration" -> ConstantDeclaration
      [] class = "DeclaratorList" -> DeclaratorList
      [] class = "InitDeclaratorList" -> InitDeclaratorList
      [] class = "InitDeclarator" -> InitDeclarator
      [] class = "CompoundStatement" -> CompoundStatement
      [] class = "StatementList" -> StatementList
      [] class = "Statement" -> Statement
      [] class = "AssignmentExpression" -> AssignmentExpression
      [] class = "AdditiveExpression" -> AdditiveExpression
      [] class = "MultiplicativeExpression" -> MultiplicativeExpression
      [] class = "UnaryExpression" -> UnaryExpression
      [] class = "PrimaryExpression" -> PrimaryExpression
      [] class = "Identifier" -> Identifier
      [] class = "Literal" -> Literal

\* The alternatives of Statement and PrimaryExpression.
Alternative(class, token) ==
    CASE token = "RETURN" -> <<Expect("RETURN"), Need("AdditiveExpression")>>
      [] token = "literal" -> <<Need("Literal")>>
      [] token = "(" -> <<Expect("("), Need("AdditiveExpression"), Expect(")")>>
      [] token = "identifier" -> <<Need(IF class = "Statement"
                                        THEN "AssignmentExpression"
                                        ELSE "Identifier")>>

-----------------------------------------------------------------------------
Frame(class, rest) == [class |-> class, rest |-> rest]
Activation(class) == Frame(class, Body(class))

\* What the stream may hold after n tokens.
Upcoming(n) == IF n < MaxTokens THEN Tokens \cup {NoToken} ELSE {NoToken}

Init ==
    /\ ahead \in Upcoming(0)
    /\ consumed = 0
    /\ frames = <<Activation("FunctionDeclaration")>>
    /\ answer = "none"
    /\ errors = 0
    /\ wanted = {}
    /\ verdict = "parsing"

Top == Last(frames)
Current == Head(Top.rest)

\* The innermost activation is about to execute a block of the given kind.
At(kind) ==
    /\ verdict = "parsing"
    /\ answer = "none"
    /\ Top.rest # <<>>
    /\ Current.kind = kind

\* The innermost activation goes on with other blocks.
Resume(rest) == frames' = Append(Front(frames), Frame(Top.class, rest))

\* A mutation: the end of the stream is not noticed.
ConsumeBeyond ==
    /\ consumed' = consumed + 1
    /\ ahead' \in Tokens

\* nextToken()
Consume ==
    /\ consumed' = consumed + 1
    /\ ahead' \in Upcoming(consumed + 1)

Return(ok) ==
    /\ answer' = ok
    /\ UNCHANGED <<ahead, consumed, frames, verdict>>

\* printCompileError; return false
Refuse ==
    /\ errors' = errors + 1
    /\ wanted' = Current.tokens
    /\ Return("false")

\* A child is parsed; its answer decides what happens to the block.
Enter ==
    /\ At("need") \/ At("optional")
    /\ frames' = Append(frames, Activation(Current.class))
    /\ UNCHANGED <<ahead, consumed, answer, errors, wanted, verdict>>

\* A mutation: the missing token is not reported.
ExpectSilently ==
    /\ At("expect")
    /\ \/ /\ ahead \in Current.tokens
          /\ Consume
          /\ Resume(Tail(Top.rest))
          /\ UNCHANGED answer
       \/ /\ ahead \notin Current.tokens
          /\ Return("false")
    /\ UNCHANGED <<errors, wanted, verdict>>

ExpectToken ==
    /\ At("expect")
    /\ \/ /\ ahead \in Current.tokens
          /\ Consume
          /\ Resume(Tail(Top.rest))
          /\ UNCHANGED <<answer, errors, wanted, verdict>>
       \/ ahead \notin Current.tokens /\ Refuse

StartDeclaration ==
    /\ At("start")
    /\ \/ /\ ahead \in Current.tokens
          /\ Consume
          /\ Resume(Tail(Top.rest))
          /\ UNCHANGED <<answer, errors, wanted, verdict>>
       \/ /\ ahead \notin Current.tokens
          /\ Return("false")
          /\ UNCHANGED <<errors, wanted>>

RepeatChild ==
    /\ At("repeat")
    /\ \/ /\ ahead \in Current.tokens
          /\ Consume
          /\ Resume(<<Need(Current.class)>> \o Top.rest)
       \/ /\ ahead \notin Current.tokens
          /\ Resume(Tail(Top.rest))
          /\ UNCHANGED <<ahead, consumed>>
    /\ UNCHANGED <<answer, errors, wanted, verdict>>

ContinueExpression ==
    /\ At("continue")
    /\ \/ /\ ahead \in Current.tokens
          /\ Consume
          /\ Resume(<<Need(Current.class)>> \o Tail(Top.rest))
       \/ /\ ahead \notin Current.tokens
          /\ Resume(Tail(Top.rest))
          /\ UNCHANGED <<ahead, consumed>>
    /\ UNCHANGED <<answer, errors, wanted, verdict>>

\* lookup() on an empty stream fails its assertion.
SkipSign ==
    /\ At("sign")
    /\ \/ /\ ahead \in Current.tokens
          /\ Consume
          /\ Resume(Tail(Top.rest))
          /\ UNCHANGED verdict
       \/ /\ ahead \notin Current.tokens \cup {NoToken}
          /\ Resume(Tail(Top.rest))
          /\ UNCHANGED <<ahead, consumed, verdict>>
       \/ /\ ahead = NoToken
          /\ verdict' = "aborted"
          /\ UNCHANGED <<ahead, consumed, frames>>
    /\ UNCHANGED <<answer, errors, wanted>>

TakeBranch ==
    /\ At("branch")
    /\ \/ /\ ahead \in Current.tokens
          /\ Resume(Alternative(Current.class, ahead) \o Tail(Top.rest))
          /\ UNCHANGED <<ahead, consumed, answer, errors, wanted, verdict>>
       \/ ahead \notin Current.tokens /\ Refuse

\* return true at the end of the function
Succeed ==
    /\ verdict = "parsing"
    /\ answer = "none"
    /\ Top.rest = <<>>
    /\ Return("true")
    /\ UNCHANGED <<errors, wanted>>

\* A mutation: an optional child that is not there is looked for again.
ReturnToParentRetries ==
    LET parent == Last(Front(frames))
        block == Head(parent.rest)
    IN /\ verdict = "parsing"
       /\ answer # "none"
       /\ Len(frames) > 1
       /\ \/ /\ answer = "true" \/ block.kind = "optional"
             /\ frames' = Append(Front(Front(frames)),
                   IF answer = "true"
                   THEN Frame(parent.class, Tail(parent.rest))
                   ELSE parent)
             /\ answer' = "none"
          \/ /\ answer = "false" /\ block.kind = "need"
             /\ frames' = Front(frames)
             /\ UNCHANGED answer
       /\ UNCHANGED <<ahead, consumed, errors, wanted, verdict>>

\* A true child becomes part of the tree; a false one is dropped, and its
\* caller returns false as well unless the child was optional.
ReturnToParent ==
    LET parent == Last(Front(frames))
        block == Head(parent.rest)
    IN /\ verdict = "parsing"
       /\ answer # "none"
       /\ Len(frames) > 1
       /\ \/ /\ answer = "true" \/ block.kind = "optional"
             /\ frames' = Append(Front(Front(frames)),
                   Frame(parent.class, Tail(parent.rest)))
             /\ answer' = "none"
          \/ /\ answer = "false" /\ block.kind = "need"
             /\ frames' = Front(frames)
             /\ UNCHANGED answer
       /\ UNCHANGED <<ahead, consumed, errors, wanted, verdict>>

\* A mutation: tokens after the terminator are not looked at.
FinishIgnoresRest ==
    /\ verdict = "parsing"
    /\ answer # "none"
    /\ Len(frames) = 1
    /\ verdict' = IF answer = "true" THEN "accepted" ELSE "rejected"
    /\ UNCHANGED <<ahead, consumed, frames, answer, errors, wanted>>

\* ParseTreeNode::compileCode after recursiveDescentParser
Finish ==
    /\ verdict = "parsing"
    /\ answer # "none"
    /\ Len(frames) = 1
    /\ \/ /\ answer = "true" /\ ahead # NoToken
          /\ errors' = errors + 1
          /\ wanted' = {}
          /\ verdict' = "rejected"
       \/ /\ ~(answer = "true" /\ ahead # NoToken)
          /\ verdict' = IF answer = "true" THEN "accepted" ELSE "rejected"
          /\ UNCHANGED <<errors, wanted>>
    /\ UNCHANGED <<ahead, consumed, frames, answer>>

Next ==
    \/ Enter \/ ExpectToken \/ StartDeclaration \/ RepeatChild
    \/ ContinueExpression \/ SkipSign \/ TakeBranch
    \/ Succeed \/ ReturnToParent \/ Finish

Spec == Init /\ [][Next]_vars

-----------------------------------------------------------------------------
(* Properties.                                                             *)

Classes ==
    {"FunctionDeclaration", "ParameterDeclaration", "VariableDeclaration",
     "ConstantDeclaration", "DeclaratorList", "InitDeclaratorList",
     "InitDeclarator", "CompoundStatement", "StatementList", "Statement",
     "AssignmentExpression", "AdditiveExpression", "MultiplicativeExpression",
     "UnaryExpression", "PrimaryExpression", "Identifier", "Literal"}
Kinds == {"need", "optional", "expect", "start", "repeat", "continue", "sign",
          "branch"}
Declarations == {"ParameterDeclaration", "VariableDeclaration", "ConstantDeclaration"}

\* Only declarations are optional children, and nothing needs one.
Blocks ==
    {b \in [kind : Kinds, tokens : SUBSET Tokens,
            class : Classes \cup {"GenericToken"}] :
        /\ b.kind = "optional" => b.class \in Declarations
        /\ b.kind \in {"need", "repeat", "continue"} =>
              b.class \in Classes \ Declarations
        /\ b.kind = "branch" =>
              /\ b.class \in {"Statement", "PrimaryExpression"}
              /\ b.tokens \subseteq {"RETURN", "identifier", "literal", "("}}

Frames == [class : Classes, rest : Seq(Blocks)]

\* Type invariant of the parser.
TypeOK ==
    /\ ahead \in Tokens \cup {NoToken}
    /\ consumed \in 0 .. MaxTokens
    /\ frames \in Seq(Frames) /\ frames # <<>>
    /\ answer \in {"none", "true", "false"}
    /\ errors \in Nat
    /\ wanted \in SUBSET Tokens
    /\ verdict \in {"parsing", "accepted", "rejected", "aborted"}

\* The assertion Pljit.hpp:83: a failed parse has printed a message, although
\* a declaration that is left out returns false without one.
RejectedIsReported == verdict = "rejected" => errors > 0

\* The assertion Pljit.hpp:87: a successful parse has printed nothing.
AcceptedIsClean == verdict = "accepted" => errors = 0

\* The assertion TokenStream.cpp:175: lookup() is called only if there is a
\* next token.
LookupHasToken == verdict # "aborted"

\* compileCode returns or fails its assertion, whatever the tokens.
Terminates == <>(verdict # "parsing")
=============================================================================
