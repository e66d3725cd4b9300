------------------------ MODULE ParserGrammarProofs ------------------------
(***************************************************************************)
(* Theorems about module ParserGrammar.                                    *)
(***************************************************************************)
EXTENDS ParserGrammar, ParserProofs

-----------------------------------------------------------------------------
(* Forms.                                                                  *)

Symbol == Tokens \cup DOMAIN Language!Productions \cup Language!Options
Forms == Seq(Symbol)

\* A sequence with an element in front of it.
LEMMA ConsSeq ==
  ASSUME NEW S, NEW a \in S, NEW u \in Seq(S)
  PROVE  /\ Cons(a, u) \in Seq(S) /\ Cons(a, u) # <<>>
         /\ Len(Cons(a, u)) = Len(u) + 1 /\ Cons(a, u)[1] = a
         /\ \A i \in 1 .. Len(u) : Cons(a, u)[i + 1] = u[i]
         /\ Head(Cons(a, u)) = a /\ Tail(Cons(a, u)) = u
  <1>1. /\ Cons(a, u) \in Seq(S) /\ Cons(a, u) # <<>>
        /\ Len(Cons(a, u)) = Len(u) + 1 /\ Cons(a, u)[1] = a
        /\ \A i \in 1 .. Len(u) : Cons(a, u)[i + 1] = u[i]
    BY DEF Cons
  <1>2. Head(Cons(a, u)) = a
    BY <1>1
  <1>3. Tail(Cons(a, u)) \in Seq(S) /\ Len(Tail(Cons(a, u))) = Len(u)
    BY <1>1
  <1>4. \A i \in 1 .. Len(u) : Tail(Cons(a, u))[i] = u[i]
    BY <1>1
  <1>5. Tail(Cons(a, u)) = u
    BY <1>3, <1>4, SeqEqual
  <1> QED
    BY <1>1, <1>2, <1>5

\* A sequence is determined by its first element and the others.
LEMMA ConsEqual ==
  ASSUME NEW S, NEW a \in S, NEW u \in Seq(S), NEW t \in Seq(S),
         Len(t) = Len(u) + 1, t[1] = a, \A i \in 1 .. Len(u) : t[i + 1] = u[i]
  PROVE  Cons(a, u) = t
  <1>1. /\ Cons(a, u) \in Seq(S) /\ Len(Cons(a, u)) = Len(t) /\ Cons(a, u)[1] = a
        /\ \A i \in 1 .. Len(u) : Cons(a, u)[i + 1] = u[i]
    BY ConsSeq
  <1>2. \A i \in 1 .. Len(t) : Cons(a, u)[i] = t[i]
    <2> TAKE i \in 1 .. Len(t)
    <2>1. i = 1 \/ (i - 1 \in 1 .. Len(u) /\ i = (i - 1) + 1)
      OBVIOUS
    <2>2. CASE i = 1
      BY <1>1, <2>2
    <2>3. CASE i - 1 \in 1 .. Len(u) /\ i = (i - 1) + 1
      BY <1>1, <2>3
    <2> QED
      BY <2>1, <2>2, <2>3
  <1> QED
    BY <1>1, <1>2, SeqEqual

\* A list written out, element by element.
LEMMA ConsTuple2 ==
  ASSUME NEW S, NEW a \in S, NEW b \in S
  PROVE  <<a, b>> = Cons(a, <<b>>)
  <1> DEFINE t == <<a, b>>
             u == <<b>>
  <1>1. u \in Seq(S) /\ t \in Seq(S) /\ Len(u) = 1 /\ Len(t) = 2 /\ t[1] = a
    OBVIOUS
  <1>2. \A i \in 1 .. 1 : t[i + 1] = u[i]
    OBVIOUS
  <1> HIDE DEF t, u
  <1>3. Len(t) = Len(u) + 1 /\ \A i \in 1 .. Len(u) : t[i + 1] = u[i]
    BY <1>1, <1>2
  <1>4. Cons(a, u) = t
    BY ONLY a \in S, <1>1, <1>3, ConsEqual
  <1> QED
    BY <1>4 DEF t, u

\* A list of 3 has a head and a tail.
LEMMA ConsTuple3 ==
  ASSUME NEW S, NEW a \in S, NEW b \in S, NEW c \in S
  PROVE  <<a, b, c>> = Cons(a, <<b, c>>)
  <1> DEFINE t == <<a, b, c>>
             u == <<b, c>>
  <1>1. u \in Seq(S) /\ t \in Seq(S) /\ Len(u) = 2 /\ Len(t) = 3 /\ t[1] = a
    OBVIOUS
  <1>2. \A i \in 1 .. 2 : t[i + 1] = u[i]
    OBVIOUS
  <1> HIDE DEF t, u
  <1>3. Len(t) = Len(u) + 1 /\ \A i \in 1 .. Len(u) : t[i + 1] = u[i]
    BY <1>1, <1>2
  <1>4. Cons(a, u) = t
    BY ONLY a \in S, <1>1, <1>3, ConsEqual
  <1> QED
    BY <1>4 DEF t, u

\* A list of 4 has a head and a tail.
LEMMA ConsTuple4 ==
  ASSUME NEW S, NEW a \in S, NEW b \in S, NEW c \in S, NEW d \in S
  PROVE  <<a, b, c, d>> = Cons(a, <<b, c, d>>)
  <1> DEFINE t == <<a, b, c, d>>
             u == <<b, c, d>>
  <1>1. u \in Seq(S) /\ t \in Seq(S) /\ Len(u) = 3 /\ Len(t) = 4 /\ t[1] = a
    OBVIOUS
  <1>2. \A i \in 1 .. 3 : t[i + 1] = u[i]
    OBVIOUS
  <1> HIDE DEF t, u
  <1>3. Len(t) = Len(u) + 1 /\ \A i \in 1 .. Len(u) : t[i + 1] = u[i]
    BY <1>1, <1>2
  <1>4. Cons(a, u) = t
    BY ONLY a \in S, <1>1, <1>3, ConsEqual
  <1> QED
    BY <1>4 DEF t, u

\* A list of 5 has a head and a tail.
LEMMA ConsTuple5 ==
  ASSUME NEW S, NEW a \in S, NEW b \in S, NEW c \in S, NEW d \in S, NEW e \in S
  PROVE  <<a, b, c, d, e>> = Cons(a, <<b, c, d, e>>)
  <1> DEFINE t == <<a, b, c, d, e>>
             u == <<b, c, d, e>>
  <1>1. u \in Seq(S) /\ t \in Seq(S) /\ Len(u) = 4 /\ Len(t) = 5 /\ t[1] = a
    OBVIOUS
  <1>2. \A i \in 1 .. 4 : t[i + 1] = u[i]
    OBVIOUS
  <1> HIDE DEF t, u
  <1>3. Len(t) = Len(u) + 1 /\ \A i \in 1 .. Len(u) : t[i + 1] = u[i]
    BY <1>1, <1>2
  <1>4. Cons(a, u) = t
    BY ONLY a \in S, <1>1, <1>3, ConsEqual
  <1> QED
    BY <1>4 DEF t, u

\* A list whose head is known, before another one.
LEMMA ConsConcat ==
  ASSUME NEW S, NEW a \in S, NEW p \in Seq(S), NEW u \in Seq(S)
  PROVE  Cons(a, p) \o u = Cons(a, p \o u)
  <1>1. <<a>> \in Seq(S)
    OBVIOUS
  <1> QED
    BY <1>1, ConcatAssociative DEF Cons

\* A form with a symbol in front of it.
LEMMA ConsIs ==
  ASSUME NEW a \in Symbol, NEW u \in Forms
  PROVE  /\ Cons(a, u) \in Forms /\ Cons(a, u) # <<>>
         /\ Head(Cons(a, u)) = a /\ Tail(Cons(a, u)) = u
  BY ConsSeq DEF Forms

\* What is left of a form after its first symbol is a form.
LEMMA FormIs ==
  ASSUME NEW f \in Forms, f # <<>>
  PROVE  Head(f) \in Symbol /\ Tail(f) \in Forms /\ f = Cons(Head(f), Tail(f))
  <1>1. /\ Head(f) \in Symbol /\ Tail(f) \in Seq(Symbol) /\ f \in Seq(Symbol)
        /\ Len(f) = Len(Tail(f)) + 1 /\ f[1] = Head(f)
        /\ \A i \in 1 .. Len(Tail(f)) : f[i + 1] = Tail(f)[i]
    BY DEF Forms
  <1> DEFINE h == Head(f)
             t == Tail(f)
  <1>2. h \in Symbol /\ t \in Seq(Symbol) /\ f \in Seq(Symbol)
    BY <1>1
  <1>3. Len(f) = Len(t) + 1 /\ f[1] = h /\ \A i \in 1 .. Len(t) : f[i + 1] = t[i]
    BY <1>1
  <1> HIDE DEF h, t
  <1>4. Cons(h, t) = f
    BY ONLY <1>2, <1>3, ConsEqual
  <1> QED
    BY <1>2, <1>4 DEF h, t, Forms

\* The nonterminals of the grammar; a token is a terminal.
LEMMA Symbols ==
  /\ DOMAIN Language!Productions =
        {"definition", "parameters", "variables", "constants", "declarators",
         "initialized", "declarator", "compound", "statements", "statement",
         "assignment", "additive", "multiplicative", "unary", "primary"}
  /\ \A t \in Tokens : Language!IsTerminal(t)
  <1>1. DOMAIN Language!Productions =
        {"definition", "parameters", "variables", "constants", "declarators",
         "initialized", "declarator", "compound", "statements", "statement",
         "assignment", "additive", "multiplicative", "unary", "primary"}
    BY DEF Language!Productions
  <1>2. \A t \in Tokens : Language!IsTerminal(t)
    BY <1>1 DEF Language!IsTerminal, Language!Options, Tokens, Keywords
  <1> QED
    BY <1>1, <1>2

\* The names of the symbols.
LEMMA SymbolNames ==
  /\ {"PARAM", "VAR", "CONST", "BEGIN", "END", "RETURN", "identifier", "literal",
      "+", "-", "*", "/", "(", ")", ",", ";", "=", ":=", "."} = Tokens
  /\ Tokens \subseteq Symbol
  /\ {"definition", "parameters", "variables", "constants", "declarators",
      "initialized", "declarator", "compound", "statements", "statement",
      "assignment", "additive", "multiplicative", "unary", "primary",
      "[parameters]", "[variables]", "[constants]", "{, identifier}",
      "{, declarator}", "{; statement}", "[+- additive]",
      "[*/ multiplicative]", "[+-]"} \subseteq Symbol
  BY Symbols DEF Tokens, Keywords, Symbol, Language!Options

\* The expansions of a form, by its first symbol.
LEMMA ExpandSymbol ==
  ASSUME NEW u \in Forms
  PROVE  /\ \A x \in DOMAIN Language!Productions :
              Language!Expansions(Cons(x, u)) = {p \o u : p \in Language!Productions[x]}
         /\ \A x \in Language!Options :
              Language!Expansions(Cons(x, u)) = {p \o u : p \in Language!OptionProductions(x)}
         /\ \A t \in Tokens : Language!Expansions(Cons(t, u)) = {Cons(t, u)}
  <1>1. \A x \in DOMAIN Language!Productions : x \in Symbol /\ x \notin Language!Options
    <2>1. \A x \in DOMAIN Language!Productions : x \notin Language!Options
      BY Symbols DEF Language!Options
    <2> QED
      BY <2>1 DEF Symbol
  <1>2. \A x \in Language!Options : x \in Symbol
    BY DEF Symbol
  <1>3. \A t \in Tokens : t \in Symbol
    BY DEF Symbol
  <1>4. \A t \in Tokens : Language!Expansions(Cons(t, u)) = {Cons(t, u)}
    BY <1>3, ConsIs, Symbols DEF Language!Expansions
  <1>5. \A x \in DOMAIN Language!Productions :
           Language!Expansions(Cons(x, u)) = {p \o u : p \in Language!Productions[x]}
    <2> TAKE x \in DOMAIN Language!Productions
    <2>1. x \in Symbol /\ x \notin Language!Options
      BY <1>1
    <2>2. Head(Cons(x, u)) = x /\ Tail(Cons(x, u)) = u /\ Cons(x, u) # <<>>
      BY <2>1, ConsIs
    <2> QED
      BY <2>1, <2>2 DEF Language!Expansions, Language!IsTerminal
  <1>6. \A x \in Language!Options :
           Language!Expansions(Cons(x, u)) = {p \o u : p \in Language!OptionProductions(x)}
    <2> TAKE x \in Language!Options
    <2>1. x \in Symbol
      BY <1>2
    <2>2. Head(Cons(x, u)) = x /\ Tail(Cons(x, u)) = u /\ Cons(x, u) # <<>>
      BY <2>1, ConsIs
    <2> QED
      BY <2>2 DEF Language!Expansions, Language!IsTerminal
  <1> QED
    BY <1>4, <1>5, <1>6

\* The right-hand sides, in front of a form.
LEMMA List1 ==
  ASSUME NEW a \in Symbol, NEW u \in Forms
  PROVE  <<>> \o u = u /\ <<a>> \o u = Cons(a, u)
  BY ConcatEmptySeq DEF Cons, Forms

\* Forms before forms.
LEMMA ConsForm ==
  ASSUME NEW a \in Symbol, NEW p \in Forms, NEW u \in Forms
  PROVE  Cons(a, p) \o u = Cons(a, p \o u)
  BY ConsConcat DEF Forms

\* A list of 2 symbols before a form.
LEMMA List2 ==
  ASSUME NEW a \in Symbol, NEW b \in Symbol, NEW u \in Forms
  PROVE  <<a, b>> \o u = Cons(a, Cons(b, u))
  <1>1. <<a, b>> = Cons(a, <<b>>)
    BY ConsTuple2
  <1>2. <<b>> \o u = Cons(b, u)
    BY DEF Cons
  <1> DEFINE p == <<b>>
  <1>3. p \in Forms
    BY DEF Forms
  <1> HIDE DEF p
  <1>4. Cons(a, p) \o u = Cons(a, p \o u)
    BY ONLY <1>3, a \in Symbol, u \in Forms, ConsForm
  <1> QED
    BY <1>1, <1>2, <1>4 DEF p

\* A list of 3 symbols before a form.
LEMMA List3 ==
  ASSUME NEW a \in Symbol, NEW b \in Symbol, NEW c \in Symbol,
         NEW u \in Forms
  PROVE  <<a, b, c>> \o u = Cons(a, Cons(b, Cons(c, u)))
  <1>1. <<a, b, c>> = Cons(a, <<b, c>>)
    BY ConsTuple3
  <1>2. <<b, c>> \o u = Cons(b, Cons(c, u))
    BY List2
  <1> DEFINE p == <<b, c>>
  <1>3. p \in Forms
    BY DEF Forms
  <1> HIDE DEF p
  <1>4. Cons(a, p) \o u = Cons(a, p \o u)
    BY ONLY <1>3, a \in Symbol, u \in Forms, ConsForm
  <1> QED
    BY <1>1, <1>2, <1>4 DEF p

\* A list of 4 symbols before a form.
LEMMA List4 ==
  ASSUME NEW a \in Symbol, NEW b \in Symbol, NEW c \in Symbol,
         NEW d \in Symbol,
         NEW u \in Forms
  PROVE  <<a, b, c, d>> \o u = Cons(a, Cons(b, Cons(c, Cons(d, u))))
  <1>1. <<a, b, c, d>> = Cons(a, <<b, c, d>>)
    BY ConsTuple4
  <1>2. <<b, c, d>> \o u = Cons(b, Cons(c, Cons(d, u)))
    BY List3
  <1> DEFINE p == <<b, c, d>>
  <1>3. p \in Forms
    BY DEF Forms
  <1> HIDE DEF p
  <1>4. Cons(a, p) \o u = Cons(a, p \o u)
    BY ONLY <1>3, a \in Symbol, u \in Forms, ConsForm
  <1> QED
    BY <1>1, <1>2, <1>4 DEF p

\* A list of 5 symbols before a form.
LEMMA List5 ==
  ASSUME NEW a \in Symbol, NEW b \in Symbol, NEW c \in Symbol,
         NEW d \in Symbol, NEW e \in Symbol,
         NEW u \in Forms
  PROVE  <<a, b, c, d, e>> \o u = Cons(a, Cons(b, Cons(c, Cons(d, Cons(e, u)))))
  <1>1. <<a, b, c, d, e>> = Cons(a, <<b, c, d, e>>)
    BY ConsTuple5
  <1>2. <<b, c, d, e>> \o u = Cons(b, Cons(c, Cons(d, Cons(e, u))))
    BY List4
  <1> DEFINE p == <<b, c, d, e>>
  <1>3. p \in Forms
    BY DEF Forms
  <1> HIDE DEF p
  <1>4. Cons(a, p) \o u = Cons(a, p \o u)
    BY ONLY <1>3, a \in Symbol, u \in Forms, ConsForm
  <1> QED
    BY <1>1, <1>2, <1>4 DEF p

\* The expansions of a form that begins with a nonterminal.
LEMMA ExpandNonterminal ==
  ASSUME NEW u \in Forms
  PROVE  LET X(s) == Language!Expansions(Cons(s, u))
         IN /\ X("definition") = {Cons("[parameters]", Cons("[variables]", Cons("[constants]", Cons("compound", Cons(".", u)))))}
            /\ X("parameters") = {Cons("PARAM", Cons("declarators", Cons(";", u)))}
            /\ X("variables") = {Cons("VAR", Cons("declarators", Cons(";", u)))}
            /\ X("constants") = {Cons("CONST", Cons("initialized", Cons(";", u)))}
            /\ X("declarators") = {Cons("identifier", Cons("{, identifier}", u))}
            /\ X("initialized") = {Cons("declarator", Cons("{, declarator}", u))}
            /\ X("declarator") = {Cons("identifier", Cons("=", Cons("literal", u)))}
            /\ X("compound") = {Cons("BEGIN", Cons("statements", Cons("END", u)))}
            /\ X("statements") = {Cons("statement", Cons("{; statement}", u))}
            /\ X("statement") = {Cons("assignment", u), Cons("RETURN", Cons("additive", u))}
            /\ X("assignment") = {Cons("identifier", Cons(":=", Cons("additive", u)))}
            /\ X("additive") = {Cons("multiplicative", Cons("[+- additive]", u))}
            /\ X("multiplicative") = {Cons("unary", Cons("[*/ multiplicative]", u))}
            /\ X("unary") = {Cons("[+-]", Cons("primary", u))}
            /\ X("primary") = {Cons("identifier", u), Cons("literal", u), Cons("(", Cons("additive", Cons(")", u)))}
  <1> DEFINE X(s) == Language!Expansions(Cons(s, u))
  <1>1. \A s \in DOMAIN Language!Productions : X(s) = {p \o u : p \in Language!Productions[s]}
    BY ExpandSymbol
  <1>2. DOMAIN Language!Productions = {"definition", "parameters", "variables", "constants", "declarators", "initialized", "declarator", "compound", "statements", "statement", "assignment", "additive", "multiplicative", "unary", "primary"}
    BY Symbols
  <1> HIDE DEF X
  <1>3. X("definition") = {Cons("[parameters]", Cons("[variables]", Cons("[constants]", Cons("compound", Cons(".", u)))))}
    <2>1. Language!Productions["definition"] = {<<"[parameters]", "[variables]", "[constants]", "compound", ".">>}
      BY DEF Language!Productions
    <2>2. "definition" \in DOMAIN Language!Productions
      BY <1>2
    <2>3. X("definition") = {p \o u : p \in Language!Productions["definition"]}
      BY ONLY <1>1, <2>2
    <2>4. X("definition") = {<<"[parameters]", "[variables]", "[constants]", "compound", ".">> \o u}
      BY ONLY <2>1, <2>3
    <2>5. "[parameters]" \in Symbol /\ "[variables]" \in Symbol /\ "[constants]" \in Symbol /\ "compound" \in Symbol /\ "." \in Symbol
      BY SymbolNames
    <2>6. <<"[parameters]", "[variables]", "[constants]", "compound", ".">> \o u = Cons("[parameters]", Cons("[variables]", Cons("[constants]", Cons("compound", Cons(".", u)))))
      BY ONLY <2>5, u \in Forms, List5
    <2> QED
      BY ONLY <2>4, <2>6
  <1>4. X("parameters") = {Cons("PARAM", Cons("declarators", Cons(";", u)))}
    <2>1. Language!Productions["parameters"] = {<<"PARAM", "declarators", ";">>}
      BY DEF Language!Productions
    <2>2. "parameters" \in DOMAIN Language!Productions
      BY <1>2
    <2>3. X("parameters") = {p \o u : p \in Language!Productions["parameters"]}
      BY ONLY <1>1, <2>2
    <2>4. X("parameters") = {<<"PARAM", "declarators", ";">> \o u}
      BY ONLY <2>1, <2>3
    <2>5. "PARAM" \in Symbol /\ "declarators" \in Symbol /\ ";" \in Symbol
      BY SymbolNames
    <2>6. <<"PARAM", "declarators", ";">> \o u = Cons("PARAM", Cons("declarators", Cons(";", u)))
      BY ONLY <2>5, u \in Forms, List3
    <2> QED
      BY ONLY <2>4, <2>6
  <1>5. X("variables") = {Cons("VAR", Cons("declarators", Cons(";", u)))}
    <2>1. Language!Productions["variables"] = {<<"VAR", "declarators", ";">>}
      BY DEF Language!Productions
    <2>2. "variables" \in DOMAIN Language!Productions
      BY <1>2
    <2>3. X("variables") = {p \o u : p \in Language!Productions["variables"]}
      BY ONLY <1>1, <2>2
    <2>4. X("variables") = {<<"VAR", "declarators", ";">> \o u}
      BY ONLY <2>1, <2>3
    <2>5. "VAR" \in Symbol /\ "declarators" \in Symbol /\ ";" \in Symbol
      BY SymbolNames
    <2>6. <<"VAR", "declarators", ";">> \o u = Cons("VAR", Cons("declarators", Cons(";", u)))
      BY ONLY <2>5, u \in Forms, List3
    <2> QED
      BY ONLY <2>4, <2>6
  <1>6. X("constants") = {Cons("CONST", Cons("initialized", Cons(";", u)))}
    <2>1. Language!Productions["constants"] = {<<"CONST", "initialized", ";">>}
      BY DEF Language!Productions
    <2>2. "constants" \in DOMAIN Language!Productions
      BY <1>2
    <2>3. X("constants") = {p \o u : p \in Language!Productions["constants"]}
      BY ONLY <1>1, <2>2
    <2>4. X("constants") = {<<"CONST", "initialized", ";">> \o u}
      BY ONLY <2>1, <2>3
    <2>5. "CONST" \in Symbol /\ "initialized" \in Symbol /\ ";" \in Symbol
      BY SymbolNames
    <2>6. <<"CONST", "initialized", ";">> \o u = Cons("CONST", Cons("initialized", Cons(";", u)))
      BY ONLY <2>5, u \in Forms, List3
    <2> QED
      BY ONLY <2>4, <2>6
  <1>7. X("declarators") = {Cons("identifier", Cons("{, identifier}", u))}
    <2>1. Language!Productions["declarators"] = {<<"identifier", "{, identifier}">>}
      BY DEF Language!Productions
    <2>2. "declarators" \in DOMAIN Language!Productions
      BY <1>2
    <2>3. X("declarators") = {p \o u : p \in Language!Productions["declarators"]}
      BY ONLY <1>1, <2>2
    <2>4. X("declarators") = {<<"identifier", "{, identifier}">> \o u}
      BY ONLY <2>1, <2>3
    <2>5. "identifier" \in Symbol /\ "{, identifier}" \in Symbol
      BY SymbolNames
    <2>6. <<"identifier", "{, identifier}">> \o u = Cons("identifier", Cons("{, identifier}", u))
      BY ONLY <2>5, u \in Forms, List2
    <2> QED
      BY ONLY <2>4, <2>6
  <1>8. X("initialized") = {Cons("declarator", Cons("{, declarator}", u))}
    <2>1. Language!Productions["initialized"] = {<<"declarator", "{, declarator}">>}
      BY DEF Language!Productions
    <2>2. "initialized" \in DOMAIN Language!Productions
      BY <1>2
    <2>3. X("initialized") = {p \o u : p \in Language!Productions["initialized"]}
      BY ONLY <1>1, <2>2
    <2>4. X("initialized") = {<<"declarator", "{, declarator}">> \o u}
      BY ONLY <2>1, <2>3
    <2>5. "declarator" \in Symbol /\ "{, declarator}" \in Symbol
      BY SymbolNames
    <2>6. <<"declarator", "{, declarator}">> \o u = Cons("declarator", Cons("{, declarator}", u))
      BY ONLY <2>5, u \in Forms, List2
    <2> QED
      BY ONLY <2>4, <2>6
  <1>9. X("declarator") = {Cons("identifier", Cons("=", Cons("literal", u)))}
    <2>1. Language!Productions["declarator"] = {<<"identifier", "=", "literal">>}
      BY DEF Language!Productions
    <2>2. "declarator" \in DOMAIN Language!Productions
      BY <1>2
    <2>3. X("declarator") = {p \o u : p \in Language!Productions["declarator"]}
      BY ONLY <1>1, <2>2
    <2>4. X("declarator") = {<<"identifier", "=", "literal">> \o u}
      BY ONLY <2>1, <2>3
    <2>5. "identifier" \in Symbol /\ "=" \in Symbol /\ "literal" \in Symbol
      BY SymbolNames
    <2>6. <<"identifier", "=", "literal">> \o u = Cons("identifier", Cons("=", Cons("literal", u)))
      BY ONLY <2>5, u \in Forms, List3
    <2> QED
      BY ONLY <2>4, <2>6
  <1>10. X("compound") = {Cons("BEGIN", Cons("statements", Cons("END", u)))}
    <2>1. Language!Productions["compound"] = {<<"BEGIN", "statements", "END">>}
      BY DEF Language!Productions
    <2>2. "compound" \in DOMAIN Language!Productions
      BY <1>2
    <2>3. X("compound") = {p \o u : p \in Language!Productions["compound"]}
      BY ONLY <1>1, <2>2
    <2>4. X("compound") = {<<"BEGIN", "statements", "END">> \o u}
      BY ONLY <2>1, <2>3
    <2>5. "BEGIN" \in Symbol /\ "statements" \in Symbol /\ "END" \in Symbol
      BY SymbolNames
    <2>6. <<"BEGIN", "statements", "END">> \o u = Cons("BEGIN", Cons("statements", Cons("END", u)))
      BY ONLY <2>5, u \in Forms, List3
    <2> QED
      BY ONLY <2>4, <2>6
  <1>11. X("statements") = {Cons("statement", Cons("{; statement}", u))}
    <2>1. Language!Productions["statements"] = {<<"statement", "{; statement}">>}
      BY DEF Language!Productions
    <2>2. "statements" \in DOMAIN Language!Productions
      BY <1>2
    <2>3. X("statements") = {p \o u : p \in Language!Productions["statements"]}
      BY ONLY <1>1, <2>2
    <2>4. X("statements") = {<<"statement", "{; statement}">> \o u}
      BY ONLY <2>1, <2>3
    <2>5. "statement" \in Symbol /\ "{; statement}" \in Symbol
      BY SymbolNames
    <2>6. <<"statement", "{; statement}">> \o u = Cons("statement", Cons("{; statement}", u))
      BY ONLY <2>5, u \in Forms, List2
    <2> QED
      BY ONLY <2>4, <2>6
  <1>12. X("statement") = {Cons("assignment", u), Cons("RETURN", Cons("additive", u))}
    <2>1. Language!Productions["statement"] = {<<"assignment">>, <<"RETURN", "additive">>}
      BY DEF Language!Productions
    <2>2. "statement" \in DOMAIN Language!Productions
      BY <1>2
    <2>3. X("statement") = {p \o u : p \in Language!Productions["statement"]}
      BY ONLY <1>1, <2>2
    <2>4. X("statement") = {<<"assignment">> \o u, <<"RETURN", "additive">> \o u}
      BY ONLY <2>1, <2>3
    <2>5. "assignment" \in Symbol /\ "RETURN" \in Symbol /\ "additive" \in Symbol
      BY SymbolNames
    <2>6. <<"assignment">> \o u = Cons("assignment", u)
      BY ONLY <2>5, u \in Forms, List1
    <2>7. <<"RETURN", "additive">> \o u = Cons("RETURN", Cons("additive", u))
      BY ONLY <2>5, u \in Forms, List2
    <2> QED
      BY ONLY <2>4, <2>6, <2>7
  <1>13. X("assignment") = {Cons("identifier", Cons(":=", Cons("additive", u)))}
    <2>1. Language!Productions["assignment"] = {<<"identifier", ":=", "additive">>}
      BY DEF Language!Productions
    <2>2. "assignment" \in DOMAIN Language!Productions
      BY <1>2
    <2>3. X("assignment") = {p \o u : p \in Language!Productions["assignment"]}
      BY ONLY <1>1, <2>2
    <2>4. X("assignment") = {<<"identifier", ":=", "additive">> \o u}
      BY ONLY <2>1, <2>3
    <2>5. "identifier" \in Symbol /\ ":=" \in Symbol /\ "additive" \in Symbol
      BY SymbolNames
    <2>6. <<"identifier", ":=", "additive">> \o u = Cons("identifier", Cons(":=", Cons("additive", u)))
      BY ONLY <2>5, u \in Forms, List3
    <2> QED
      BY ONLY <2>4, <2>6
  <1>14. X("additive") = {Cons("multiplicative", Cons("[+- additive]", u))}
    <2>1. Language!Productions["additive"] = {<<"multiplicative", "[+- additive]">>}
      BY DEF Language!Productions
    <2>2. "additive" \in DOMAIN Language!Productions
      BY <1>2
    <2>3. X("additive") = {p \o u : p \in Language!Productions["additive"]}
      BY ONLY <1>1, <2>2
    <2>4. X("additive") = {<<"multiplicative", "[+- additive]">> \o u}
      BY ONLY <2>1, <2>3
    <2>5. "multiplicative" \in Symbol /\ "[+- additive]" \in Symbol
      BY SymbolNames
    <2>6. <<"multiplicative", "[+- additive]">> \o u = Cons("multiplicative", Cons("[+- additive]", u))
      BY ONLY <2>5, u \in Forms, List2
    <2> QED
      BY ONLY <2>4, <2>6
  <1>15. X("multiplicative") = {Cons("unary", Cons("[*/ multiplicative]", u))}
    <2>1. Language!Productions["multiplicative"] = {<<"unary", "[*/ multiplicative]">>}
      BY DEF Language!Productions
    <2>2. "multiplicative" \in DOMAIN Language!Productions
      BY <1>2
    <2>3. X("multiplicative") = {p \o u : p \in Language!Productions["multiplicative"]}
      BY ONLY <1>1, <2>2
    <2>4. X("multiplicative") = {<<"unary", "[*/ multiplicative]">> \o u}
      BY ONLY <2>1, <2>3
    <2>5. "unary" \in Symbol /\ "[*/ multiplicative]" \in Symbol
      BY SymbolNames
    <2>6. <<"unary", "[*/ multiplicative]">> \o u = Cons("unary", Cons("[*/ multiplicative]", u))
      BY ONLY <2>5, u \in Forms, List2
    <2> QED
      BY ONLY <2>4, <2>6
  <1>16. X("unary") = {Cons("[+-]", Cons("primary", u))}
    <2>1. Language!Productions["unary"] = {<<"[+-]", "primary">>}
      BY DEF Language!Productions
    <2>2. "unary" \in DOMAIN Language!Productions
      BY <1>2
    <2>3. X("unary") = {p \o u : p \in Language!Productions["unary"]}
      BY ONLY <1>1, <2>2
    <2>4. X("unary") = {<<"[+-]", "primary">> \o u}
      BY ONLY <2>1, <2>3
    <2>5. "[+-]" \in Symbol /\ "primary" \in Symbol
      BY SymbolNames
    <2>6. <<"[+-]", "primary">> \o u = Cons("[+-]", Cons("primary", u))
      BY ONLY <2>5, u \in Forms, List2
    <2> QED
      BY ONLY <2>4, <2>6
  <1>17. X("primary") = {Cons("identifier", u), Cons("literal", u), Cons("(", Cons("additive", Cons(")", u)))}
    <2>1. Language!Productions["primary"] = {<<"identifier">>, <<"literal">>, <<"(", "additive", ")">>}
      BY DEF Language!Productions
    <2>2. "primary" \in DOMAIN Language!Productions
      BY <1>2
    <2>3. X("primary") = {p \o u : p \in Language!Productions["primary"]}
      BY ONLY <1>1, <2>2
    <2>4. X("primary") = {<<"identifier">> \o u, <<"literal">> \o u, <<"(", "additive", ")">> \o u}
      BY ONLY <2>1, <2>3
    <2>5. "identifier" \in Symbol /\ "literal" \in Symbol /\ "(" \in Symbol /\ "additive" \in Symbol /\ ")" \in Symbol
      BY SymbolNames
    <2>6. <<"identifier">> \o u = Cons("identifier", u)
      BY ONLY <2>5, u \in Forms, List1
    <2>7. <<"literal">> \o u = Cons("literal", u)
      BY ONLY <2>5, u \in Forms, List1
    <2>8. <<"(", "additive", ")">> \o u = Cons("(", Cons("additive", Cons(")", u)))
      BY ONLY <2>5, u \in Forms, List3
    <2> QED
      BY ONLY <2>4, <2>6, <2>7, <2>8
  <1> QED
    BY <1>3, <1>4, <1>5, <1>6, <1>7, <1>8, <1>9, <1>10, <1>11, <1>12, <1>13, <1>14, <1>15, <1>16, <1>17 DEF X

\* The expansions of a form that begins with an option or a repetition.
LEMMA ExpandOption ==
  ASSUME NEW u \in Forms
  PROVE  LET X(s) == Language!Expansions(Cons(s, u))
         IN /\ X("[parameters]") = {u, Cons("parameters", u)}
            /\ X("[variables]") = {u, Cons("variables", u)}
            /\ X("[constants]") = {u, Cons("constants", u)}
            /\ X("{, identifier}") = {u, Cons(",", Cons("identifier", Cons("{, identifier}", u)))}
            /\ X("{, declarator}") = {u, Cons(",", Cons("declarator", Cons("{, declarator}", u)))}
            /\ X("{; statement}") = {u, Cons(";", Cons("statement", Cons("{; statement}", u)))}
            /\ X("[+- additive]") = {u, Cons("+", Cons("additive", u)), Cons("-", Cons("additive", u))}
            /\ X("[*/ multiplicative]") = {u, Cons("*", Cons("multiplicative", u)), Cons("/", Cons("multiplicative", u))}
            /\ X("[+-]") = {u, Cons("+", u), Cons("-", u)}
  <1> DEFINE X(s) == Language!Expansions(Cons(s, u))
  <1>1. \A s \in Language!Options : X(s) = {p \o u : p \in Language!OptionProductions(s)}
    BY ExpandSymbol
  <1>2. Language!Options = {"[parameters]", "[variables]", "[constants]", "{, identifier}", "{, declarator}", "{; statement}", "[+- additive]", "[*/ multiplicative]", "[+-]"}
    BY DEF Language!Options
  <1> HIDE DEF X
  <1>3. X("[parameters]") = {u, Cons("parameters", u)}
    <2>1. Language!OptionProductions("[parameters]") = {<<>>, <<"parameters">>}
      BY DEF Language!OptionProductions
    <2>2. "[parameters]" \in Language!Options
      BY <1>2
    <2>3. X("[parameters]") = {p \o u : p \in Language!OptionProductions("[parameters]")}
      BY ONLY <1>1, <2>2
    <2>4. X("[parameters]") = {<<>> \o u, <<"parameters">> \o u}
      BY ONLY <2>1, <2>3
    <2>5. "parameters" \in Symbol
      BY SymbolNames
    <2>6. <<>> \o u = u
      BY ONLY <2>5, u \in Forms, List1
    <2>7. <<"parameters">> \o u = Cons("parameters", u)
      BY ONLY <2>5, u \in Forms, List1
    <2> QED
      BY ONLY <2>4, <2>6, <2>7
  <1>4. X("[variables]") = {u, Cons("variables", u)}
    <2>1. Language!OptionProductions("[variables]") = {<<>>, <<"variables">>}
      BY DEF Language!OptionProductions
    <2>2. "[variables]" \in Language!Options
      BY <1>2
    <2>3. X("[variables]") = {p \o u : p \in Language!OptionProductions("[variables]")}
      BY ONLY <1>1, <2>2
    <2>4. X("[variables]") = {<<>> \o u, <<"variables">> \o u}
      BY ONLY <2>1, <2>3
    <2>5. "variables" \in Symbol
      BY SymbolNames
    <2>6. <<>> \o u = u
      BY ONLY <2>5, u \in Forms, List1
    <2>7. <<"variables">> \o u = Cons("variables", u)
      BY ONLY <2>5, u \in Forms, List1
    <2> QED
      BY ONLY <2>4, <2>6, <2>7
  <1>5. X("[constants]") = {u, Cons("constants", u)}
    <2>1. Language!OptionProductions("[constants]") = {<<>>, <<"constants">>}
      BY DEF Language!OptionProductions
    <2>2. "[constants]" \in Language!Options
      BY <1>2
    <2>3. X("[constants]") = {p \o u : p \in Language!OptionProductions("[constants]")}
      BY ONLY <1>1, <2>2
    <2>4. X("[constants]") = {<<>> \o u, <<"constants">> \o u}
      BY ONLY <2>1, <2>3
    <2>5. "constants" \in Symbol
      BY SymbolNames
    <2>6. <<>> \o u = u
      BY ONLY <2>5, u \in Forms, List1
    <2>7. <<"constants">> \o u = Cons("constants", u)
      BY ONLY <2>5, u \in Forms, List1
    <2> QED
      BY ONLY <2>4, <2>6, <2>7
  <1>6. X("{, identifier}") = {u, Cons(",", Cons("identifier", Cons("{, identifier}", u)))}
    <2>1. Language!OptionProductions("{, identifier}") = {<<>>, <<",", "identifier", "{, identifier}">>}
      BY DEF Language!OptionProductions
    <2>2. "{, identifier}" \in Language!Options
      BY <1>2
    <2>3. X("{, identifier}") = {p \o u : p \in Language!OptionProductions("{, identifier}")}
      BY ONLY <1>1, <2>2
    <2>4. X("{, identifier}") = {<<>> \o u, <<",", "identifier", "{, identifier}">> \o u}
      BY ONLY <2>1, <2>3
    <2>5. "," \in Symbol /\ "identifier" \in Symbol /\ "{, identifier}" \in Symbol
      BY SymbolNames
    <2>6. <<>> \o u = u
      BY ONLY <2>5, u \in Forms, List1
    <2>7. <<",", "identifier", "{, identifier}">> \o u = Cons(",", Cons("identifier", Cons("{, identifier}", u)))
      BY ONLY <2>5, u \in Forms, List3
    <2> QED
      BY ONLY <2>4, <2>6, <2>7
  <1>7. X("{, declarator}") = {u, Cons(",", Cons("declarator", Cons("{, declarator}", u)))}
    <2>1. Language!OptionProductions("{, declarator}") = {<<>>, <<",", "declarator", "{, declarator}">>}
      BY DEF Language!OptionProductions
    <2>2. "{, declarator}" \in Language!Options
      BY <1>2
    <2>3. X("{, declarator}") = {p \o u : p \in Language!OptionProductions("{, declarator}")}
      BY ONLY <1>1, <2>2
    <2>4. X("{, declarator}") = {<<>> \o u, <<",", "declarator", "{, declarator}">> \o u}
      BY ONLY <2>1, <2>3
    <2>5. "," \in Symbol /\ "declarator" \in Symbol /\ "{, declarator}" \in Symbol
      BY SymbolNames
    <2>6. <<>> \o u = u
      BY ONLY <2>5, u \in Forms, List1
    <2>7. <<",", "declarator", "{, declarator}">> \o u = Cons(",", Cons("declarator", Cons("{, declarator}", u)))
      BY ONLY <2>5, u \in Forms, List3
    <2> QED
      BY ONLY <2>4, <2>6, <2>7
  <1>8. X("{; statement}") = {u, Cons(";", Cons("statement", Cons("{; statement}", u)))}
    <2>1. Language!OptionProductions("{; statement}") = {<<>>, <<";", "statement", "{; statement}">>}
      BY DEF Language!OptionProductions
    <2>2. "{; statement}" \in Language!Options
      BY <1>2
    <2>3. X("{; statement}") = {p \o u : p \in Language!OptionProductions("{; statement}")}
      BY ONLY <1>1, <2>2
    <2>4. X("{; statement}") = {<<>> \o u, <<";", "statement", "{; statement}">> \o u}
      BY ONLY <2>1, <2>3
    <2>5. ";" \in Symbol /\ "statement" \in Symbol /\ "{; statement}" \in Symbol
      BY SymbolNames
    <2>6. <<>> \o u = u
      BY ONLY <2>5, u \in Forms, List1
    <2>7. <<";", "statement", "{; statement}">> \o u = Cons(";", Cons("statement", Cons("{; statement}", u)))
      BY ONLY <2>5, u \in Forms, List3
    <2> QED
      BY ONLY <2>4, <2>6, <2>7
  <1>9. X("[+- additive]") = {u, Cons("+", Cons("additive", u)), Cons("-", Cons("additive", u))}
    <2>1. Language!OptionProductions("[+- additive]") = {<<>>, <<"+", "additive">>, <<"-", "additive">>}
      BY DEF Language!OptionProductions
    <2>2. "[+- additive]" \in Language!Options
      BY <1>2
    <2>3. X("[+- additive]") = {p \o u : p \in Language!OptionProductions("[+- additive]")}
      BY ONLY <1>1, <2>2
    <2>4. X("[+- additive]") = {<<>> \o u, <<"+", "additive">> \o u, <<"-", "additive">> \o u}
      BY ONLY <2>1, <2>3
    <2>5. "+" \in Symbol /\ "additive" \in Symbol /\ "-" \in Symbol
      BY SymbolNames
    <2>6. <<>> \o u = u
      BY ONLY <2>5, u \in Forms, List1
    <2>7. <<"+", "additive">> \o u = Cons("+", Cons("additive", u))
      BY ONLY <2>5, u \in Forms, List2
    <2>8. <<"-", "additive">> \o u = Cons("-", Cons("additive", u))
      BY ONLY <2>5, u \in Forms, List2
    <2> QED
      BY ONLY <2>4, <2>6, <2>7, <2>8
  <1>10. X("[*/ multiplicative]") = {u, Cons("*", Cons("multiplicative", u)), Cons("/", Cons("multiplicative", u))}
    <2>1. Language!OptionProductions("[*/ multiplicative]") = {<<>>, <<"*", "multiplicative">>, <<"/", "multiplicative">>}
      BY DEF Language!OptionProductions
    <2>2. "[*/ multiplicative]" \in Language!Options
      BY <1>2
    <2>3. X("[*/ multiplicative]") = {p \o u : p \in Language!OptionProductions("[*/ multiplicative]")}
      BY ONLY <1>1, <2>2
    <2>4. X("[*/ multiplicative]") = {<<>> \o u, <<"*", "multiplicative">> \o u, <<"/", "multiplicative">> \o u}
      BY ONLY <2>1, <2>3
    <2>5. "*" \in Symbol /\ "multiplicative" \in Symbol /\ "/" \in Symbol
      BY SymbolNames
    <2>6. <<>> \o u = u
      BY ONLY <2>5, u \in Forms, List1
    <2>7. <<"*", "multiplicative">> \o u = Cons("*", Cons("multiplicative", u))
      BY ONLY <2>5, u \in Forms, List2
    <2>8. <<"/", "multiplicative">> \o u = Cons("/", Cons("multiplicative", u))
      BY ONLY <2>5, u \in Forms, List2
    <2> QED
      BY ONLY <2>4, <2>6, <2>7, <2>8
  <1>11. X("[+-]") = {u, Cons("+", u), Cons("-", u)}
    <2>1. Language!OptionProductions("[+-]") = {<<>>, <<"+">>, <<"-">>}
      BY DEF Language!OptionProductions
    <2>2. "[+-]" \in Language!Options
      BY <1>2
    <2>3. X("[+-]") = {p \o u : p \in Language!OptionProductions("[+-]")}
      BY ONLY <1>1, <2>2
    <2>4. X("[+-]") = {<<>> \o u, <<"+">> \o u, <<"-">> \o u}
      BY ONLY <2>1, <2>3
    <2>5. "+" \in Symbol /\ "-" \in Symbol
      BY SymbolNames
    <2>6. <<>> \o u = u
      BY ONLY <2>5, u \in Forms, List1
    <2>7. <<"+">> \o u = Cons("+", u)
      BY ONLY <2>5, u \in Forms, List1
    <2>8. <<"-">> \o u = Cons("-", u)
      BY ONLY <2>5, u \in Forms, List1
    <2> QED
      BY ONLY <2>4, <2>6, <2>7, <2>8
  <1> QED
    BY <1>3, <1>4, <1>5, <1>6, <1>7, <1>8, <1>9, <1>10, <1>11 DEF X

-----------------------------------------------------------------------------
(* What a form begins with.                                                *)

\* The first token of what a form stands for, if the form begins with it.
First(f) == IF f = <<>> THEN NoToken ELSE Head(f)
Ends == Tokens \cup {NoToken}

\* After at most so many expansions, every form begins with one of T.
Begins0(f, T) == f \in Forms /\ First(f) \in T
Begins1(f, T) == f \in Forms /\ \A g \in Language!Expansions(f) : Begins0(g, T)
Begins2(f, T) == f \in Forms /\ \A g \in Language!Expansions(f) : Begins1(g, T)
Begins3(f, T) == f \in Forms /\ \A g \in Language!Expansions(f) : Begins2(g, T)
Begins4(f, T) == f \in Forms /\ \A g \in Language!Expansions(f) : Begins3(g, T)
Begins5(f, T) == f \in Forms /\ \A g \in Language!Expansions(f) : Begins4(g, T)

\* NoToken is no symbol of the grammar.
LEMMA NoTokenIsNone == NoToken \notin Symbol /\ NoToken \notin Tokens
  BY Symbols DEF NoToken, Symbol, Tokens, Keywords, Language!Options

\* A form that begins with a terminal, or is empty, expands to itself.
LEMMA ExpandBegun ==
  ASSUME NEW f, Begins0(f, Ends)
  PROVE  Language!Expansions(f) = {f}
  <1>1. CASE f = <<>>
    BY <1>1 DEF Language!Expansions
  <1>2. CASE f # <<>>
    <2>1. Head(f) \in Tokens
      BY <1>2, FormIs, NoTokenIsNone DEF Begins0, First, Ends
    <2> QED
      BY <1>2, <2>1, Symbols DEF Language!Expansions
  <1> QED
    BY <1>1, <1>2

\* One expansion more, or more tokens, do no harm.
LEMMA BeginsMore ==
  ASSUME NEW f, NEW T \in SUBSET Ends
  PROVE  /\ Begins0(f, T) => Begins1(f, T)
         /\ Begins1(f, T) => Begins2(f, T)
         /\ Begins2(f, T) => Begins3(f, T)
         /\ Begins3(f, T) => Begins4(f, T)
         /\ Begins4(f, T) => Begins5(f, T)
         /\ \A U \in SUBSET Ends : T \subseteq U =>
               /\ Begins0(f, T) => Begins0(f, U)
               /\ Begins1(f, T) => Begins1(f, U)
               /\ Begins2(f, T) => Begins2(f, U)
               /\ Begins3(f, T) => Begins3(f, U)
               /\ Begins4(f, T) => Begins4(f, U)
               /\ Begins5(f, T) => Begins5(f, U)
  <1>1. \A g : Begins0(g, T) => Begins1(g, T)
    <2> TAKE g
    <2> HAVE Begins0(g, T)
    <2>1. Begins0(g, Ends)
      BY DEF Begins0
    <2>2. Language!Expansions(g) = {g}
      BY <2>1, ExpandBegun
    <2> QED
      BY <2>2 DEF Begins0, Begins1
  <1>2. \A g : Begins1(g, T) => Begins2(g, T)
    BY <1>1 DEF Begins1, Begins2
  <1>3. \A g : Begins2(g, T) => Begins3(g, T)
    BY <1>2 DEF Begins2, Begins3
  <1>4. \A g : Begins3(g, T) => Begins4(g, T)
    BY <1>3 DEF Begins3, Begins4
  <1>5. \A g : Begins4(g, T) => Begins5(g, T)
    BY <1>4 DEF Begins4, Begins5
  <1>6. ASSUME NEW U \in SUBSET Ends, T \subseteq U
        PROVE  /\ Begins0(f, T) => Begins0(f, U)
               /\ Begins1(f, T) => Begins1(f, U)
               /\ Begins2(f, T) => Begins2(f, U)
               /\ Begins3(f, T) => Begins3(f, U)
               /\ Begins4(f, T) => Begins4(f, U)
               /\ Begins5(f, T) => Begins5(f, U)
    <2>1. \A g : Begins0(g, T) => Begins0(g, U)
      BY <1>6 DEF Begins0
    <2>2. \A g : Begins1(g, T) => Begins1(g, U)
      BY <2>1 DEF Begins1
    <2>3. \A g : Begins2(g, T) => Begins2(g, U)
      BY <2>2 DEF Begins2
    <2>4. \A g : Begins3(g, T) => Begins3(g, U)
      BY <2>3 DEF Begins3
    <2>5. \A g : Begins4(g, T) => Begins4(g, U)
      BY <2>4 DEF Begins4
    <2>6. \A g : Begins5(g, T) => Begins5(g, U)
      BY <2>5 DEF Begins5
    <2> QED
      BY <2>1, <2>2, <2>3, <2>4, <2>5, <2>6
  <1> QED
    BY <1>1, <1>2, <1>3, <1>4, <1>5, <1>6

\* A form whose alternatives are settled after five expansions.
Good(f) == Begins5(f, Ends)

\* Whatever settles sooner, and begins with some tokens, is good.
LEMMA BeginsGood ==
  ASSUME NEW f, NEW T \in SUBSET Ends
  PROVE  /\ Begins0(f, T) => Begins5(f, T)
         /\ Begins1(f, T) => Begins5(f, T)
         /\ Begins2(f, T) => Begins5(f, T)
         /\ Begins3(f, T) => Begins5(f, T)
         /\ Begins4(f, T) => Begins5(f, T)
         /\ Begins5(f, T) => Good(f)
         /\ \A U \in SUBSET Ends : T \subseteq U /\ Begins5(f, T) => Begins5(f, U)
  <1>1. /\ Begins0(f, T) => Begins1(f, T)
        /\ Begins1(f, T) => Begins2(f, T)
        /\ Begins2(f, T) => Begins3(f, T)
        /\ Begins3(f, T) => Begins4(f, T)
        /\ Begins4(f, T) => Begins5(f, T)
    BY BeginsMore
  <1>2. \A U \in SUBSET Ends : T \subseteq U /\ Begins5(f, T) => Begins5(f, U)
    BY BeginsMore
  <1>3. Begins5(f, T) => Good(f)
    BY <1>2 DEF Good
  <1> QED
    BY <1>1, <1>2, <1>3

-----------------------------------------------------------------------------
(* Leftmost expansions of sets of forms.                                   *)

\* Sets of forms are expanded form by form.
LEMMA ExpandUnion ==
  /\ \A A, B : Language!Expand(A \cup B) = Language!Expand(A) \cup Language!Expand(B)
  /\ \A f : Language!Expand({f}) = Language!Expansions(f)
  /\ \A A : (\A f \in A : Begins0(f, Ends)) => Language!Expand(A) = A
  /\ Language!Expand({}) = {}
  <1>1. \A A, B : Language!Expand(A \cup B) = Language!Expand(A) \cup Language!Expand(B)
    BY DEF Language!Expand
  <1>2. \A f : Language!Expand({f}) = Language!Expansions(f)
    BY DEF Language!Expand
  <1>3. ASSUME NEW A, \A f \in A : Begins0(f, Ends)
        PROVE  Language!Expand(A) = A
    <2>1. \A f \in A : Language!Expansions(f) = {f}
      BY <1>3, ExpandBegun
    <2> QED
      BY <2>1 DEF Language!Expand
  <1>4. Language!Expand({}) = {}
    BY DEF Language!Expand
  <1> QED
    BY <1>1, <1>2, <1>3, <1>4

\* The same, all the way to the first terminals.
LEMMA LeftmostUnion ==
  ASSUME NEW A, NEW B
  PROVE  /\ Language!Leftmost(A \cup B) = Language!Leftmost(A) \cup Language!Leftmost(B)
         /\ Language!Leftmost({}) = {}
  <1> DEFINE X(G) == Language!Expand(G)
  <1>1. \A C, D : X(C \cup D) = X(C) \cup X(D)
    BY ExpandUnion
  <1>2. X({}) = {}
    BY ExpandUnion
  <1> HIDE DEF X
  <1> DEFINE Y(G) == X(X(G))
  <1>3. \A C, D : Y(C \cup D) = Y(C) \cup Y(D)
    BY <1>1
  <1>4. Y({}) = {}
    BY <1>2
  <1> HIDE DEF Y
  <1>5. Y(Y(X(A \cup B))) = Y(Y(X(A))) \cup Y(Y(X(B)))
    BY <1>1, <1>3
  <1>6. Y(Y(X({}))) = {}
    BY <1>2, <1>4
  <1> QED
    BY <1>5, <1>6 DEF X, Y, Language!Leftmost

\* Good forms derive forms that begin with a token, or none.
LEMMA LeftmostBegins ==
  ASSUME NEW G, NEW T \in SUBSET Ends, \A f \in G : Begins5(f, T)
  PROVE  \A g \in Language!Leftmost(G) : Begins0(g, T)
  <1> DEFINE G1 == Language!Expand(G)
             G2 == Language!Expand(G1)
             G3 == Language!Expand(G2)
             G4 == Language!Expand(G3)
             G5 == Language!Expand(G4)
  <1>1. \A g \in G1 : Begins4(g, T)
    BY DEF Language!Expand, Begins5
  <1>2. \A g \in G2 : Begins3(g, T)
    BY <1>1 DEF Language!Expand, Begins4
  <1>3. \A g \in G3 : Begins2(g, T)
    <2> HIDE DEF G2
    <2> QED
      BY <1>2 DEF Language!Expand, Begins3
  <1>4. \A g \in G4 : Begins1(g, T)
    <2> HIDE DEF G3
    <2> QED
      BY <1>3 DEF Language!Expand, Begins2
  <1>5. \A g \in G5 : Begins0(g, T)
    <2> HIDE DEF G4
    <2> QED
      BY <1>4 DEF Language!Expand, Begins1
  <1> QED
    BY <1>5 DEF Language!Leftmost

\* One expansion of a good form derives the same.
LEMMA LeftmostExpands ==
  ASSUME NEW f, Good(f)
  PROVE  Language!Leftmost({f}) = Language!Leftmost(Language!Expansions(f))
  <1> DEFINE L == Language!Leftmost({f})
  <1>1. \A g \in L : Begins0(g, Ends)
    BY LeftmostBegins DEF Good
  <1>2. Language!Expand(L) = L
    BY <1>1, ExpandUnion
  <1>3. Language!Expand(L) = Language!Leftmost(Language!Expand({f}))
    BY DEF Language!Leftmost
  <1> QED
    BY <1>2, <1>3, ExpandUnion

\* What begins with a token derives itself.
LEMMA LeftmostBegun ==
  ASSUME NEW f, Begins0(f, Ends)
  PROVE  Language!Leftmost({f}) = {f}
  <1>1. Language!Expand({f}) = {f}
    BY ExpandUnion
  <1> QED
    BY <1>1 DEF Language!Leftmost

-----------------------------------------------------------------------------
(* First tokens of the symbols.                                            *)

\* What an operand begins with, without and with a sign, and what comes after
\* an expression.
Operand == {"identifier", "literal", "("}
Signed == Operand \cup {"+", "-"}
Closing == {";", "END", ")"}

\* The sets of tokens that are spoken of.
LEMMA TokenSets ==
  /\ Operand \in SUBSET Ends /\ Signed \in SUBSET Ends /\ Closing \in SUBSET Ends
  /\ Closing \cup {"+", "-"} \in SUBSET Ends
  /\ Closing \cup {"+", "-", "*", "/"} \in SUBSET Ends
  /\ {";", "END"} \in SUBSET Ends /\ {",", ";"} \in SUBSET Ends
  /\ {"RETURN", "identifier"} \in SUBSET Ends
  /\ {"BEGIN"} \in SUBSET Ends /\ {"CONST", "BEGIN"} \in SUBSET Ends
  /\ {"VAR", "CONST", "BEGIN"} \in SUBSET Ends
  /\ {"PARAM", "VAR", "CONST", "BEGIN"} \in SUBSET Ends
  /\ {NoToken} \in SUBSET Ends /\ Tokens \in SUBSET Ends
  /\ \A t \in Tokens : {t} \in SUBSET Ends /\ t \in Ends
  BY SymbolNames DEF Ends, Operand, Signed, Closing

\* A token is what a form begins with.
LEMMA TokenBegins ==
  ASSUME NEW t \in Tokens, NEW v \in Forms
  PROVE  /\ Cons(t, v) \in Forms /\ Begins0(Cons(t, v), {t}) /\ Good(Cons(t, v))
         /\ \A T \in SUBSET Ends : t \in T => Begins0(Cons(t, v), T)
  <1>1. t \in Symbol
    BY SymbolNames
  <1>2. \A T \in SUBSET Ends : t \in T => Begins0(Cons(t, v), T)
    BY <1>1, ConsIs DEF Begins0, First
  <1>3. Begins0(Cons(t, v), {t}) /\ Good(Cons(t, v))
    BY <1>2, TokenSets, BeginsGood
  <1> QED
    BY <1>1, <1>2, <1>3, ConsIs

\* A symbol in front of a form.
LEMMA ConsForms == \A s \in Symbol, w \in Forms : Cons(s, w) \in Forms
  BY ConsIs

\* The symbols that begin with one of their tokens whatever follows.
LEMMA SymbolBegins ==
  /\ \A w \in Forms : Begins1(Cons("parameters", w), {"PARAM"})
  /\ \A w \in Forms : Begins1(Cons("variables", w), {"VAR"})
  /\ \A w \in Forms : Begins1(Cons("constants", w), {"CONST"})
  /\ \A w \in Forms : Begins1(Cons("declarators", w), {"identifier"})
  /\ \A w \in Forms : Begins1(Cons("declarator", w), {"identifier"})
  /\ \A w \in Forms : Begins1(Cons("compound", w), {"BEGIN"})
  /\ \A w \in Forms : Begins1(Cons("assignment", w), {"identifier"})
  /\ \A w \in Forms : Begins1(Cons("primary", w), Operand)
  /\ \A w \in Forms : Begins2(Cons("initialized", w), {"identifier"})
  /\ \A w \in Forms : Begins2(Cons("statement", w), {"RETURN", "identifier"})
  /\ \A w \in Forms : Begins3(Cons("statements", w), {"RETURN", "identifier"})
  /\ \A w \in Forms : Begins3(Cons("unary", w), Signed)
  /\ \A w \in Forms : Begins4(Cons("multiplicative", w), Signed)
  /\ \A w \in Forms : Begins5(Cons("additive", w), Signed)
  <1> DEFINE X(s, w) == Language!Expansions(Cons(s, w))
  <1>1. ASSUME NEW w \in Forms
        PROVE  Begins1(Cons("parameters", w), {"PARAM"})
    <2>1. /\ Cons("parameters", w) \in Forms
          /\ Cons("PARAM", Cons("declarators", Cons(";", w))) \in Forms
          /\ Cons("declarators", Cons(";", w)) \in Forms
          /\ Cons(";", w) \in Forms
      BY SymbolNames, ConsForms
    <2>2. X("parameters", w) = {Cons("PARAM", Cons("declarators", Cons(";", w)))}
      BY ExpandNonterminal
    <2>3. Begins0(Cons("PARAM", Cons("declarators", Cons(";", w))), {"PARAM"})
      BY <2>1, SymbolNames, TokenBegins
    <2> QED
      BY <2>1, <2>2, <2>3 DEF Begins1
  <1>2. ASSUME NEW w \in Forms
        PROVE  Begins1(Cons("variables", w), {"VAR"})
    <2>1. /\ Cons("variables", w) \in Forms
          /\ Cons("VAR", Cons("declarators", Cons(";", w))) \in Forms
          /\ Cons("declarators", Cons(";", w)) \in Forms
          /\ Cons(";", w) \in Forms
      BY SymbolNames, ConsForms
    <2>2. X("variables", w) = {Cons("VAR", Cons("declarators", Cons(";", w)))}
      BY ExpandNonterminal
    <2>3. Begins0(Cons("VAR", Cons("declarators", Cons(";", w))), {"VAR"})
      BY <2>1, SymbolNames, TokenBegins
    <2> QED
      BY <2>1, <2>2, <2>3 DEF Begins1
  <1>3. ASSUME NEW w \in Forms
        PROVE  Begins1(Cons("constants", w), {"CONST"})
    <2>1. /\ Cons("constants", w) \in Forms
          /\ Cons("CONST", Cons("initialized", Cons(";", w))) \in Forms
          /\ Cons("initialized", Cons(";", w)) \in Forms
          /\ Cons(";", w) \in Forms
      BY SymbolNames, ConsForms
    <2>2. X("constants", w) = {Cons("CONST", Cons("initialized", Cons(";", w)))}
      BY ExpandNonterminal
    <2>3. Begins0(Cons("CONST", Cons("initialized", Cons(";", w))), {"CONST"})
      BY <2>1, SymbolNames, TokenBegins
    <2> QED
      BY <2>1, <2>2, <2>3 DEF Begins1
  <1>4. ASSUME NEW w \in Forms
        PROVE  Begins1(Cons("declarators", w), {"identifier"})
    <2>1. /\ Cons("declarators", w) \in Forms
          /\ Cons("identifier", Cons("{, identifier}", w)) \in Forms
          /\ Cons("{, identifier}", w) \in Forms
      BY SymbolNames, ConsForms
    <2>2. X("declarators", w) = {Cons("identifier", Cons("{, identifier}", w))}
      BY ExpandNonterminal
    <2>3. Begins0(Cons("identifier", Cons("{, identifier}", w)), {"identifier"})
      BY <2>1, SymbolNames, TokenBegins
    <2> QED
      BY <2>1, <2>2, <2>3 DEF Begins1
  <1>5. ASSUME NEW w \in Forms
        PROVE  Begins1(Cons("declarator", w), {"identifier"})
    <2>1. /\ Cons("declarator", w) \in Forms
          /\ Cons("identifier", Cons("=", Cons("literal", w))) \in Forms
          /\ Cons("=", Cons("literal", w)) \in Forms
          /\ Cons("literal", w) \in Forms
      BY SymbolNames, ConsForms
    <2>2. X("declarator", w) = {Cons("identifier", Cons("=", Cons("literal", w)))}
      BY ExpandNonterminal
    <2>3. Begins0(Cons("identifier", Cons("=", Cons("literal", w))), {"identifier"})
      BY <2>1, SymbolNames, TokenBegins
    <2> QED
      BY <2>1, <2>2, <2>3 DEF Begins1
  <1>6. ASSUME NEW w \in Forms
        PROVE  Begins1(Cons("compound", w), {"BEGIN"})
    <2>1. /\ Cons("compound", w) \in Forms
          /\ Cons("BEGIN", Cons("statements", Cons("END", w))) \in Forms
          /\ Cons("statements", Cons("END", w)) \in Forms
          /\ Cons("END", w) \in Forms
      BY SymbolNames, ConsForms
    <2>2. X("compound", w) = {Cons("BEGIN", Cons("statements", Cons("END", w)))}
      BY ExpandNonterminal
    <2>3. Begins0(Cons("BEGIN", Cons("statements", Cons("END", w))), {"BEGIN"})
      BY <2>1, SymbolNames, TokenBegins
    <2> QED
      BY <2>1, <2>2, <2>3 DEF Begins1
  <1>7. ASSUME NEW w \in Forms
        PROVE  Begins1(Cons("assignment", w), {"identifier"})
    <2>1. /\ Cons("assignment", w) \in Forms
          /\ Cons("identifier", Cons(":=", Cons("additive", w))) \in Forms
          /\ Cons(":=", Cons("additive", w)) \in Forms
          /\ Cons("additive", w) \in Forms
      BY SymbolNames, ConsForms
    <2>2. X("assignment", w) = {Cons("identifier", Cons(":=", Cons("additive", w)))}
      BY ExpandNonterminal
    <2>3. Begins0(Cons("identifier", Cons(":=", Cons("additive", w))), {"identifier"})
      BY <2>1, SymbolNames, TokenBegins
    <2> QED
      BY <2>1, <2>2, <2>3 DEF Begins1
  <1>8. ASSUME NEW w \in Forms
        PROVE  Begins1(Cons("primary", w), Operand)
    <2>1. /\ Cons("primary", w) \in Forms
          /\ Cons("identifier", w) \in Forms
          /\ Cons("literal", w) \in Forms
          /\ Cons("(", Cons("additive", Cons(")", w))) \in Forms
          /\ Cons("additive", Cons(")", w)) \in Forms
          /\ Cons(")", w) \in Forms
      BY SymbolNames, ConsForms
    <2>2. X("primary", w) = {Cons("identifier", w), Cons("literal", w), Cons("(", Cons("additive", Cons(")", w)))}
      BY ExpandNonterminal
    <2>3. Begins0(Cons("identifier", w), Operand)
      BY <2>1, SymbolNames, TokenBegins DEF Begins0, Operand
    <2>4. Begins0(Cons("literal", w), Operand)
      BY <2>1, SymbolNames, TokenBegins DEF Begins0, Operand
    <2>5. Begins0(Cons("(", Cons("additive", Cons(")", w))), Operand)
      BY <2>1, SymbolNames, TokenBegins DEF Begins0, Operand
    <2> QED
      BY <2>1, <2>2, <2>3, <2>4, <2>5 DEF Begins1
  <1>9. ASSUME NEW w \in Forms
        PROVE  Begins2(Cons("initialized", w), {"identifier"})
    <2>1. /\ Cons("initialized", w) \in Forms
          /\ Cons("declarator", Cons("{, declarator}", w)) \in Forms
          /\ Cons("{, declarator}", w) \in Forms
      BY SymbolNames, ConsForms
    <2>2. X("initialized", w) = {Cons("declarator", Cons("{, declarator}", w))}
      BY ExpandNonterminal
    <2>3. Begins1(Cons("declarator", Cons("{, declarator}", w)), {"identifier"})
      BY <2>1, <1>5
    <2> QED
      BY <2>1, <2>2, <2>3 DEF Begins2
  <1>10. ASSUME NEW w \in Forms
        PROVE  Begins2(Cons("statement", w), {"RETURN", "identifier"})
    <2>1. /\ Cons("statement", w) \in Forms
          /\ Cons("assignment", w) \in Forms
          /\ Cons("RETURN", Cons("additive", w)) \in Forms
          /\ Cons("additive", w) \in Forms
      BY SymbolNames, ConsForms
    <2>2. X("statement", w) = {Cons("assignment", w), Cons("RETURN", Cons("additive", w))}
      BY ExpandNonterminal
    <2>3. Begins1(Cons("assignment", w), {"identifier"})
      BY <2>1, <1>7
    <2>4. Begins1(Cons("assignment", w), {"RETURN", "identifier"})
      BY <2>3, TokenSets, BeginsMore
    <2>5. Begins0(Cons("RETURN", Cons("additive", w)), {"RETURN", "identifier"})
      BY <2>1, SymbolNames, TokenBegins DEF Begins0
    <2>6. Begins1(Cons("RETURN", Cons("additive", w)), {"RETURN", "identifier"})
      BY <2>5, TokenSets, BeginsMore
    <2> QED
      BY <2>1, <2>2, <2>4, <2>6 DEF Begins2
  <1>11. ASSUME NEW w \in Forms
        PROVE  Begins3(Cons("statements", w), {"RETURN", "identifier"})
    <2>1. /\ Cons("statements", w) \in Forms
          /\ Cons("statement", Cons("{; statement}", w)) \in Forms
          /\ Cons("{; statement}", w) \in Forms
      BY SymbolNames, ConsForms
    <2>2. X("statements", w) = {Cons("statement", Cons("{; statement}", w))}
      BY ExpandNonterminal
    <2>3. Begins2(Cons("statement", Cons("{; statement}", w)), {"RETURN", "identifier"})
      BY <2>1, <1>10
    <2> QED
      BY <2>1, <2>2, <2>3 DEF Begins3
  <1>12. ASSUME NEW w \in Forms
        PROVE  Begins3(Cons("unary", w), Signed)
    <2> DEFINE p == Cons("primary", w)
    <2>1. /\ p \in Forms /\ Cons("[+-]", p) \in Forms /\ Cons("unary", w) \in Forms
      BY SymbolNames, ConsForms
    <2>2. X("unary", w) = {Cons("[+-]", p)}
      BY ExpandNonterminal
    <2>3. Begins1(p, Operand)
      BY <1>8
    <2> HIDE DEF p
    <2>4. X("[+-]", p) = {p, Cons("+", p), Cons("-", p)}
      BY <2>1, ExpandOption
    <2>5. Begins1(p, Signed)
      BY <2>3, TokenSets, BeginsMore DEF Signed
    <2>6. Begins0(Cons("+", p), Signed) /\ Begins0(Cons("-", p), Signed)
      BY <2>1, SymbolNames, TokenBegins DEF Begins0, Signed
    <2>7. Begins1(Cons("+", p), Signed) /\ Begins1(Cons("-", p), Signed)
      BY <2>6, TokenSets, BeginsMore
    <2>8. Begins2(Cons("[+-]", p), Signed)
      BY <2>1, <2>4, <2>5, <2>7 DEF Begins2
    <2> QED
      BY <2>1, <2>2, <2>8 DEF Begins3
  <1>13. ASSUME NEW w \in Forms
        PROVE  Begins4(Cons("multiplicative", w), Signed)
    <2>1. /\ Cons("multiplicative", w) \in Forms
          /\ Cons("unary", Cons("[*/ multiplicative]", w)) \in Forms
          /\ Cons("[*/ multiplicative]", w) \in Forms
      BY SymbolNames, ConsForms
    <2>2. X("multiplicative", w) = {Cons("unary", Cons("[*/ multiplicative]", w))}
      BY ExpandNonterminal
    <2>3. Begins3(Cons("unary", Cons("[*/ multiplicative]", w)), Signed)
      BY <2>1, <1>12
    <2> QED
      BY <2>1, <2>2, <2>3 DEF Begins4
  <1>14. ASSUME NEW w \in Forms
        PROVE  Begins5(Cons("additive", w), Signed)
    <2>1. /\ Cons("additive", w) \in Forms
          /\ Cons("multiplicative", Cons("[+- additive]", w)) \in Forms
          /\ Cons("[+- additive]", w) \in Forms
      BY SymbolNames, ConsForms
    <2>2. X("additive", w) = {Cons("multiplicative", Cons("[+- additive]", w))}
      BY ExpandNonterminal
    <2>3. Begins4(Cons("multiplicative", Cons("[+- additive]", w)), Signed)
      BY <2>1, <1>13
    <2> QED
      BY <2>1, <2>2, <2>3 DEF Begins5
  <1> QED
    BY <1>1, <1>2, <1>3, <1>4, <1>5, <1>6, <1>7, <1>8, <1>9, <1>10, <1>11, <1>12, <1>13, <1>14

\* What an option begins with, when it is known what follows it.
LEMMA OptionBegins ==
  /\ \A w \in Forms : Begins1(w, {"BEGIN"}) =>
        Begins2(Cons("[constants]", w), {"CONST", "BEGIN"})
  /\ \A w \in Forms : Begins2(w, {"CONST", "BEGIN"}) =>
        Begins3(Cons("[variables]", w), {"VAR", "CONST", "BEGIN"})
  /\ \A w \in Forms : Begins3(w, {"VAR", "CONST", "BEGIN"}) =>
        Begins4(Cons("[parameters]", w), {"PARAM", "VAR", "CONST", "BEGIN"})
  /\ \A w \in Forms : Begins0(w, {";"}) =>
        Begins1(Cons("{, identifier}", w), {",", ";"})
  /\ \A w \in Forms : Begins0(w, {";"}) =>
        Begins1(Cons("{, declarator}", w), {",", ";"})
  /\ \A w \in Forms : Begins0(w, {"END"}) =>
        Begins1(Cons("{; statement}", w), {";", "END"})
  /\ \A w \in Forms : Begins1(w, Closing) =>
        Begins2(Cons("[+- additive]", w), Closing \cup {"+", "-"})
  /\ \A w \in Forms : Begins2(w, Closing \cup {"+", "-"}) =>
        Begins3(Cons("[*/ multiplicative]", w), Closing \cup {"+", "-", "*", "/"})
  /\ \A w \in Forms : Begins1(w, Operand) =>
        Begins2(Cons("[+-]", w), Signed)
  <1> DEFINE X(s, w) == Language!Expansions(Cons(s, w))
  <1>1. ASSUME NEW w \in Forms, Begins1(w, {"BEGIN"})
        PROVE  Begins2(Cons("[constants]", w), {"CONST", "BEGIN"})
    <2>1. /\ Cons("[constants]", w) \in Forms
          /\ Cons("constants", w) \in Forms
      BY SymbolNames, ConsForms
    <2>2. X("[constants]", w) = {w, Cons("constants", w)}
      BY ExpandOption
    <2>3. {"BEGIN"} \in SUBSET Ends /\ {"BEGIN"} \subseteq {"CONST", "BEGIN"} /\ {"CONST", "BEGIN"} \in SUBSET Ends
      BY TokenSets
    <2>4. Begins1(w, {"CONST", "BEGIN"})
      BY <1>1, <2>3, BeginsMore
    <2>5. Begins1(Cons("constants", w), {"CONST"})
      BY SymbolBegins
    <2>6. {"CONST"} \in SUBSET Ends /\ {"CONST"} \subseteq {"CONST", "BEGIN"}
      BY SymbolNames, TokenSets
    <2>7. Begins1(Cons("constants", w), {"CONST", "BEGIN"})
      BY <2>3, <2>6, <2>5, BeginsMore
    <2> QED
      BY <2>1, <2>2, <2>4, <2>7 DEF Begins2
  <1>2. ASSUME NEW w \in Forms, Begins2(w, {"CONST", "BEGIN"})
        PROVE  Begins3(Cons("[variables]", w), {"VAR", "CONST", "BEGIN"})
    <2>1. /\ Cons("[variables]", w) \in Forms
          /\ Cons("variables", w) \in Forms
      BY SymbolNames, ConsForms
    <2>2. X("[variables]", w) = {w, Cons("variables", w)}
      BY ExpandOption
    <2>3. {"CONST", "BEGIN"} \in SUBSET Ends /\ {"CONST", "BEGIN"} \subseteq {"VAR", "CONST", "BEGIN"} /\ {"VAR", "CONST", "BEGIN"} \in SUBSET Ends
      BY TokenSets
    <2>4. Begins2(w, {"VAR", "CONST", "BEGIN"})
      BY <1>2, <2>3, BeginsMore
    <2>5. Begins1(Cons("variables", w), {"VAR"})
      BY SymbolBegins
    <2>6. {"VAR"} \in SUBSET Ends /\ {"VAR"} \subseteq {"VAR", "CONST", "BEGIN"}
      BY SymbolNames, TokenSets
    <2>7. Begins1(Cons("variables", w), {"VAR", "CONST", "BEGIN"})
      BY <2>3, <2>6, <2>5, BeginsMore
    <2>8. Begins2(Cons("variables", w), {"VAR", "CONST", "BEGIN"})
      BY <2>3, <2>7, BeginsMore
    <2> QED
      BY <2>1, <2>2, <2>4, <2>8 DEF Begins3
  <1>3. ASSUME NEW w \in Forms, Begins3(w, {"VAR", "CONST", "BEGIN"})
        PROVE  Begins4(Cons("[parameters]", w), {"PARAM", "VAR", "CONST", "BEGIN"})
    <2>1. /\ Cons("[parameters]", w) \in Forms
          /\ Cons("parameters", w) \in Forms
      BY SymbolNames, ConsForms
    <2>2. X("[parameters]", w) = {w, Cons("parameters", w)}
      BY ExpandOption
    <2>3. {"VAR", "CONST", "BEGIN"} \in SUBSET Ends /\ {"VAR", "CONST", "BEGIN"} \subseteq {"PARAM", "VAR", "CONST", "BEGIN"} /\ {"PARAM", "VAR", "CONST", "BEGIN"} \in SUBSET Ends
      BY TokenSets
    <2>4. Begins3(w, {"PARAM", "VAR", "CONST", "BEGIN"})
      BY <1>3, <2>3, BeginsMore
    <2>5. Begins1(Cons("parameters", w), {"PARAM"})
      BY SymbolBegins
    <2>6. {"PARAM"} \in SUBSET Ends /\ {"PARAM"} \subseteq {"PARAM", "VAR", "CONST", "BEGIN"}
      BY SymbolNames, TokenSets
    <2>7. Begins1(Cons("parameters", w), {"PARAM", "VAR", "CONST", "BEGIN"})
      BY <2>3, <2>6, <2>5, BeginsMore
    <2>8. Begins2(Cons("parameters", w), {"PARAM", "VAR", "CONST", "BEGIN"})
      BY <2>3, <2>7, BeginsMore
    <2>9. Begins3(Cons("parameters", w), {"PARAM", "VAR", "CONST", "BEGIN"})
      BY <2>3, <2>8, BeginsMore
    <2> QED
      BY <2>1, <2>2, <2>4, <2>9 DEF Begins4
  <1>4. ASSUME NEW w \in Forms, Begins0(w, {";"})
        PROVE  Begins1(Cons("{, identifier}", w), {",", ";"})
    <2>1. /\ Cons("{, identifier}", w) \in Forms
          /\ Cons(",", Cons("identifier", Cons("{, identifier}", w))) \in Forms
          /\ Cons("identifier", Cons("{, identifier}", w)) \in Forms
          /\ Cons("{, identifier}", w) \in Forms
      BY SymbolNames, ConsForms
    <2>2. X("{, identifier}", w) = {w, Cons(",", Cons("identifier", Cons("{, identifier}", w)))}
      BY ExpandOption
    <2>3. {";"} \in SUBSET Ends /\ {";"} \subseteq {",", ";"} /\ {",", ";"} \in SUBSET Ends
      BY TokenSets
    <2>4. Begins0(w, {",", ";"})
      BY <1>4, <2>3, BeginsMore
    <2>5. Begins0(Cons(",", Cons("identifier", Cons("{, identifier}", w))), {",", ";"})
      BY <2>1, SymbolNames, TokenBegins DEF Begins0
    <2> QED
      BY <2>1, <2>2, <2>4, <2>5 DEF Begins1
  <1>5. ASSUME NEW w \in Forms, Begins0(w, {";"})
        PROVE  Begins1(Cons("{, declarator}", w), {",", ";"})
    <2>1. /\ Cons("{, declarator}", w) \in Forms
          /\ Cons(",", Cons("declarator", Cons("{, declarator}", w))) \in Forms
          /\ Cons("declarator", Cons("{, declarator}", w)) \in Forms
          /\ Cons("{, declarator}", w) \in Forms
      BY SymbolNames, ConsForms
    <2>2. X("{, declarator}", w) = {w, Cons(",", Cons("declarator", Cons("{, declarator}", w)))}
      BY ExpandOption
    <2>3. {";"} \in SUBSET Ends /\ {";"} \subseteq {",", ";"} /\ {",", ";"} \in SUBSET Ends
      BY TokenSets
    <2>4. Begins0(w, {",", ";"})
      BY <1>5, <2>3, BeginsMore
    <2>5. Begins0(Cons(",", Cons("declarator", Cons("{, declarator}", w))), {",", ";"})
      BY <2>1, SymbolNames, TokenBegins DEF Begins0
    <2> QED
      BY <2>1, <2>2, <2>4, <2>5 DEF Begins1
  <1>6. ASSUME NEW w \in Forms, Begins0(w, {"END"})
        PROVE  Begins1(Cons("{; statement}", w), {";", "END"})
    <2>1. /\ Cons("{; statement}", w) \in Forms
          /\ Cons(";", Cons("statement", Cons("{; statement}", w))) \in Forms
          /\ Cons("statement", Cons("{; statement}", w)) \in Forms
          /\ Cons("{; statement}", w) \in Forms
      BY SymbolNames, ConsForms
    <2>2. X("{; statement}", w) = {w, Cons(";", Cons("statement", Cons("{; statement}", w)))}
      BY ExpandOption
    <2>3. {"END"} \in SUBSET Ends /\ {"END"} \subseteq {";", "END"} /\ {";", "END"} \in SUBSET Ends
      BY TokenSets
    <2>4. Begins0(w, {";", "END"})
      BY <1>6, <2>3, BeginsMore
    <2>5. Begins0(Cons(";", Cons("statement", Cons("{; statement}", w))), {";", "END"})
      BY <2>1, SymbolNames, TokenBegins DEF Begins0
    <2> QED
      BY <2>1, <2>2, <2>4, <2>5 DEF Begins1
  <1>7. ASSUME NEW w \in Forms, Begins1(w, Closing)
        PROVE  Begins2(Cons("[+- additive]", w), Closing \cup {"+", "-"})
    <2>1. /\ Cons("[+- additive]", w) \in Forms
          /\ Cons("+", Cons("additive", w)) \in Forms
          /\ Cons("additive", w) \in Forms
          /\ Cons("-", Cons("additive", w)) \in Forms
      BY SymbolNames, ConsForms
    <2>2. X("[+- additive]", w) = {w, Cons("+", Cons("additive", w)), Cons("-", Cons("additive", w))}
      BY ExpandOption
    <2>3. Closing \in SUBSET Ends /\ Closing \subseteq Closing \cup {"+", "-"} /\ Closing \cup {"+", "-"} \in SUBSET Ends
      BY TokenSets
    <2>4. Begins1(w, Closing \cup {"+", "-"})
      BY <1>7, <2>3, BeginsMore
    <2>5. Begins0(Cons("+", Cons("additive", w)), Closing \cup {"+", "-"})
      BY <2>1, SymbolNames, TokenBegins DEF Begins0
    <2>6. Begins1(Cons("+", Cons("additive", w)), Closing \cup {"+", "-"})
      BY <2>3, <2>5, BeginsMore
    <2>7. Begins0(Cons("-", Cons("additive", w)), Closing \cup {"+", "-"})
      BY <2>1, SymbolNames, TokenBegins DEF Begins0
    <2>8. Begins1(Cons("-", Cons("additive", w)), Closing \cup {"+", "-"})
      BY <2>3, <2>7, BeginsMore
    <2> QED
      BY <2>1, <2>2, <2>4, <2>6, <2>8 DEF Begins2
  <1>8. ASSUME NEW w \in Forms, Begins2(w, Closing \cup {"+", "-"})
        PROVE  Begins3(Cons("[*/ multiplicative]", w), Closing \cup {"+", "-", "*", "/"})
    <2>1. /\ Cons("[*/ multiplicative]", w) \in Forms
          /\ Cons("*", Cons("multiplicative", w)) \in Forms
          /\ Cons("multiplicative", w) \in Forms
          /\ Cons("/", Cons("multiplicative", w)) \in Forms
      BY SymbolNames, ConsForms
    <2>2. X("[*/ multiplicative]", w) = {w, Cons("*", Cons("multiplicative", w)), Cons("/", Cons("multiplicative", w))}
      BY ExpandOption
    <2>3. Closing \cup {"+", "-"} \in SUBSET Ends /\ Closing \cup {"+", "-"} \subseteq Closing \cup {"+", "-", "*", "/"} /\ Closing \cup {"+", "-", "*", "/"} \in SUBSET Ends
      BY TokenSets
    <2>4. Begins2(w, Closing \cup {"+", "-", "*", "/"})
      BY <1>8, <2>3, BeginsMore
    <2>5. Begins0(Cons("*", Cons("multiplicative", w)), Closing \cup {"+", "-", "*", "/"})
      BY <2>1, SymbolNames, TokenBegins DEF Begins0
    <2>6. Begins1(Cons("*", Cons("multiplicative", w)), Closing \cup {"+", "-", "*", "/"})
      BY <2>3, <2>5, BeginsMore
    <2>7. Begins2(Cons("*", Cons("multiplicative", w)), Closing \cup {"+", "-", "*", "/"})
      BY <2>3, <2>6, BeginsMore
    <2>8. Begins0(Cons("/", Cons("multiplicative", w)), Closing \cup {"+", "-", "*", "/"})
      BY <2>1, SymbolNames, TokenBegins DEF Begins0
    <2>9. Begins1(Cons("/", Cons("multiplicative", w)), Closing \cup {"+", "-", "*", "/"})
      BY <2>3, <2>8, BeginsMore
    <2>10. Begins2(Cons("/", Cons("multiplicative", w)), Closing \cup {"+", "-", "*", "/"})
      BY <2>3, <2>9, BeginsMore
    <2> QED
      BY <2>1, <2>2, <2>4, <2>7, <2>10 DEF Begins3
  <1>9. ASSUME NEW w \in Forms, Begins1(w, Operand)
        PROVE  Begins2(Cons("[+-]", w), Signed)
    <2>1. /\ Cons("[+-]", w) \in Forms
          /\ Cons("+", w) \in Forms
          /\ Cons("-", w) \in Forms
      BY SymbolNames, ConsForms
    <2>2. X("[+-]", w) = {w, Cons("+", w), Cons("-", w)}
      BY ExpandOption
    <2>3. Operand \in SUBSET Ends /\ Operand \subseteq Signed /\ Signed \in SUBSET Ends
      BY TokenSets DEF Signed
    <2>4. Begins1(w, Signed)
      BY <1>9, <2>3, BeginsMore
    <2>5. Begins0(Cons("+", w), Signed)
      BY <2>1, SymbolNames, TokenBegins DEF Begins0, Signed
    <2>6. Begins1(Cons("+", w), Signed)
      BY <2>3, <2>5, BeginsMore
    <2>7. Begins0(Cons("-", w), Signed)
      BY <2>1, SymbolNames, TokenBegins DEF Begins0, Signed
    <2>8. Begins1(Cons("-", w), Signed)
      BY <2>3, <2>7, BeginsMore
    <2> QED
      BY <2>1, <2>2, <2>4, <2>6, <2>8 DEF Begins2
  <1> QED
    BY <1>1, <1>2, <1>3, <1>4, <1>5, <1>6, <1>7, <1>8, <1>9

-----------------------------------------------------------------------------
(* The symbols that blocks stand for.                                      *)

Names == [
    CompoundStatement |-> "compound", DeclaratorList |-> "declarators",
    InitDeclaratorList |-> "initialized", InitDeclarator |-> "declarator",
    StatementList |-> "statements", Statement |-> "statement",
    AssignmentExpression |-> "assignment", AdditiveExpression |-> "additive",
    MultiplicativeExpression |-> "multiplicative", UnaryExpression |-> "unary",
    PrimaryExpression |-> "primary", Identifier |-> "identifier",
    Literal |-> "literal"]

OptionNames == [
    ParameterDeclaration |-> "[parameters]", VariableDeclaration |-> "[variables]",
    ConstantDeclaration |-> "[constants]"]

\* What may come after a child of the class: the grammar is one that needs one
\* token of lookahead, and this is its follow relation.
Follows(class, v) ==
    /\ v \in Forms
    /\ \/ class = "FunctionDeclaration" /\ v = <<>>
       \/ class = "ParameterDeclaration" /\ Begins3(v, {"VAR", "CONST", "BEGIN"})
       \/ class = "VariableDeclaration" /\ Begins2(v, {"CONST", "BEGIN"})
       \/ class = "ConstantDeclaration" /\ Begins1(v, {"BEGIN"})
       \/ class \in {"DeclaratorList", "InitDeclaratorList"} /\ Begins0(v, {";"})
       \/ class = "InitDeclarator" /\ Begins1(v, {",", ";"})
       \/ class = "CompoundStatement" /\ Begins0(v, {"."})
       \/ class = "StatementList" /\ Begins0(v, {"END"})
       \/ class \in {"Statement", "AssignmentExpression"} /\ Begins1(v, {";", "END"})
       \/ class = "AdditiveExpression" /\ Begins1(v, Closing)
       \/ class = "MultiplicativeExpression" /\ Begins2(v, Closing \cup {"+", "-"})
       \/ /\ class \in {"UnaryExpression", "PrimaryExpression"}
          /\ Begins3(v, Closing \cup {"+", "-", "*", "/"})
       \/ class \in {"Identifier", "Literal"} /\ Begins3(v, Tokens)

\* Block b stands for symbol s, in a body after which u is left, where v is
\* left after the symbol.
Explains(b, s, v, u) ==
    \/ \E c \in DOMAIN Names : b = Need(c) /\ s = Names[c] /\ Follows(c, v)
    \/ \E c \in Declarations : b = Optional(c) /\ s = OptionNames[c] /\ Follows(c, v)
    \/ \E t \in Tokens : b = Expect(t) /\ s = t /\ Good(v)
    \/ \E t \in Tokens : b = Start(t) /\ s = t /\ Good(v) /\ Begins5(u, Ends \ {t})
    \/ b = Repeat(",", "Identifier") /\ s = "{, identifier}" /\ Begins0(v, {";"})
    \/ b = Repeat(",", "InitDeclarator") /\ s = "{, declarator}" /\ Begins0(v, {";"})
    \/ b = Repeat(";", "Statement") /\ s = "{; statement}" /\ Begins0(v, {"END"})
    \/ /\ b = Continue({"+", "-"}, "AdditiveExpression") /\ s = "[+- additive]"
       /\ Follows("AdditiveExpression", v)
    \/ /\ b = Continue({"*", "/"}, "MultiplicativeExpression")
       /\ s = "[*/ multiplicative]" /\ Follows("MultiplicativeExpression", v)
    \/ b = Sign /\ s = "[+-]" /\ Begins1(v, Operand)
    \/ /\ b = Branch({"RETURN", "identifier"}, "Statement") /\ s = "statement"
       /\ Follows("Statement", v)
    \/ /\ b = Branch({"identifier", "literal", "("}, "PrimaryExpression")
       /\ s = "primary" /\ Follows("PrimaryExpression", v)

\* P tells for lists of blocks what forms they stand for when u is left after
\* them: it justifies each one by the first block and the list of the others.
Justified(P, u) ==
    \A rest \in Seq(Blocks), f \in Forms : <<rest, f>> \in P =>
        IF rest = <<>> THEN f = u
        ELSE /\ ~HasStart(Tail(rest))
             /\ \E s \in Symbol, v \in Forms :
                   /\ <<Tail(rest), v>> \in P
                   /\ f = Cons(s, v)
                   /\ Explains(Head(rest), s, v, u)

\* The form f is what the blocks still have to parse, and u what comes then.
Describes(rest, u, f) ==
    /\ rest \in Seq(Blocks) /\ u \in Forms /\ f \in Forms
    /\ \E P \in SUBSET (Seq(Blocks) \X Forms) : <<rest, f>> \in P /\ Justified(P, u)

\* Q tells for stacks of activations, each waiting for a child, what form
\* they still have to parse.
Supported(Q) ==
    \A s \in Seq(Frames), f \in Forms : <<s, f>> \in Q =>
        IF s = <<>> THEN f = <<>>
        ELSE \E u \in Forms :
                /\ <<Front(s), u>> \in Q
                /\ ~HasStart(Tail(Last(s).rest))
                /\ Describes(Tail(Last(s).rest), u, f)
                /\ Follows(Last(s).class, u)

StackOf(s, f) ==
    /\ s \in Seq(Frames) /\ f \in Forms
    /\ \E Q \in SUBSET (Seq(Frames) \X Forms) : <<s, f>> \in Q /\ Supported(Q)

\* What may follow a class settles.
LEMMA FollowsGood ==
  ASSUME NEW c, NEW v, Follows(c, v)
  PROVE  v \in Forms /\ Good(v)
  <1>1. v \in Forms
    BY DEF Follows
  <1>2. v = <<>> => Begins0(v, {NoToken})
    BY <1>1 DEF Begins0, First
  <1>3. \E T \in SUBSET Ends : \/ Begins0(v, T) \/ Begins1(v, T)
                               \/ Begins2(v, T) \/ Begins3(v, T)
    BY <1>2, TokenSets, SymbolNames DEF Follows
  <1> QED
    BY <1>1, <1>3, BeginsGood

\* No blocks stand for nothing.
LEMMA DescribesNone ==
  ASSUME NEW u \in Forms
  PROVE  /\ Describes(<<>>, u, u)
         /\ \A f : Describes(<<>>, u, f) => f = u
  <1>1. {<<<<>>, u>>} \in SUBSET (Seq(Blocks) \X Forms)
    <2> DEFINE none == <<>>
    <2>1. none \in Seq(Blocks)
      OBVIOUS
    <2> HIDE DEF none
    <2>2. {<<none, u>>} \in SUBSET (Seq(Blocks) \X Forms)
      BY <2>1
    <2> QED
      BY <2>2 DEF none
  <1>2. Justified({<<<<>>, u>>}, u)
    BY DEF Justified
  <1>3. <<>> \in Seq(Blocks)
    OBVIOUS
  <1>4. Describes(<<>>, u, u)
    BY <1>1, <1>2, <1>3 DEF Describes
  <1>5. \A f : Describes(<<>>, u, f) => f = u
    BY <1>3 DEF Describes, Justified
  <1> QED
    BY <1>4, <1>5

\* A block in front of others stands for a symbol in front of theirs.
LEMMA DescribesCons ==
  ASSUME NEW rest, NEW u, NEW v, Describes(rest, u, v), ~HasStart(rest),
         NEW b \in Blocks, NEW s \in Symbol, Explains(b, s, v, u)
  PROVE  Describes(Cons(b, rest), u, Cons(s, v))
  <1>1. rest \in Seq(Blocks) /\ u \in Forms /\ v \in Forms
    BY DEF Describes
  <1>2. PICK P \in SUBSET (Seq(Blocks) \X Forms) : <<rest, v>> \in P /\ Justified(P, u)
    BY DEF Describes
  <1> DEFINE r == Cons(b, rest)
             f == Cons(s, v)
             R == P \cup {<<r, f>>}
  <1>3. r \in Seq(Blocks) /\ r # <<>> /\ Head(r) = b /\ Tail(r) = rest
    BY <1>1, ConsSeq
  <1>4. f \in Forms
    BY <1>1, ConsIs
  <1> HIDE DEF r
  <1>5. R \in SUBSET (Seq(Blocks) \X Forms)
    BY <1>3, <1>4
  <1>6. Justified(R, u)
    <2> SUFFICES ASSUME NEW q \in Seq(Blocks), NEW h \in Forms, <<q, h>> \in R
                 PROVE  IF q = <<>> THEN h = u
                        ELSE /\ ~HasStart(Tail(q))
                             /\ \E t \in Symbol, w \in Forms :
                                   /\ <<Tail(q), w>> \in R
                                   /\ h = Cons(t, w)
                                   /\ Explains(Head(q), t, w, u)
      BY DEF Justified
    <2>1. CASE <<q, h>> \in P
      BY <1>2, <2>1 DEF Justified
    <2>2. CASE q = r /\ h = f
      BY <1>1, <1>2, <1>3, <2>2
    <2> QED
      BY <2>1, <2>2
  <1>7. Describes(r, u, f)
    BY <1>1, <1>3, <1>4, <1>5, <1>6 DEF Describes
  <1> QED
    BY <1>7 DEF r

\* The first of some blocks stands for the first symbol of their form.
LEMMA DescribesTail ==
  ASSUME NEW rest, NEW u, NEW f, Describes(rest, u, f), rest # <<>>
  PROVE  /\ ~HasStart(Tail(rest)) /\ Head(rest) \in Blocks
         /\ \E s \in Symbol, v \in Forms :
               /\ Describes(Tail(rest), u, v)
               /\ f = Cons(s, v)
               /\ Explains(Head(rest), s, v, u)
  <1>1. rest \in Seq(Blocks) /\ u \in Forms /\ f \in Forms
    BY DEF Describes
  <1>2. PICK P \in SUBSET (Seq(Blocks) \X Forms) : <<rest, f>> \in P /\ Justified(P, u)
    BY DEF Describes
  <1>3. Tail(rest) \in Seq(Blocks) /\ Head(rest) \in Blocks
    BY <1>1
  <1>4. /\ ~HasStart(Tail(rest))
        /\ \E s \in Symbol, v \in Forms :
              /\ <<Tail(rest), v>> \in P
              /\ f = Cons(s, v)
              /\ Explains(Head(rest), s, v, u)
    BY <1>1, <1>2 DEF Justified
  <1> QED
    BY <1>1, <1>2, <1>3, <1>4 DEF Describes

\* The last of some activations, and the others.
LEMMA StackTop ==
  ASSUME NEW s \in Seq(Frames), NEW a \in Frames
  PROVE  /\ Append(s, a) \in Seq(Frames) /\ Append(s, a) # <<>>
         /\ Front(Append(s, a)) = s /\ Last(Append(s, a)) = a
  <1>1. /\ Append(s, a) \in Seq(Frames) /\ Append(s, a) # <<>>
        /\ Len(Append(s, a)) = Len(s) + 1
        /\ Append(s, a)[Len(s) + 1] = a
        /\ \A i \in 1 .. Len(s) : Append(s, a)[i] = s[i]
    BY AppendIs
  <1> DEFINE t == Append(s, a)
  <1> HIDE DEF t
  <1>2. t \in Seq(Frames) /\ t # <<>> /\ Len(t) = Len(s) + 1 /\ Len(s) \in Nat
    BY <1>1 DEF t
  <1>3. /\ Last(t) = t[Len(t)] /\ Front(t) \in Seq(Frames)
        /\ Len(Front(t)) = Len(t) - 1
        /\ \A i \in 1 .. Len(t) - 1 : Front(t)[i] = t[i]
    BY <1>2, FrontIs
  <1>4. Len(Front(t)) = Len(s) /\ \A i \in 1 .. Len(s) : Front(t)[i] = s[i]
    BY <1>1, <1>2, <1>3 DEF t
  <1>5. Front(t) = s
    BY <1>3, <1>4, SeqEqual
  <1>6. Last(t) = a
    BY <1>1, <1>2, <1>3 DEF t
  <1> QED
    BY <1>1, <1>5, <1>6 DEF t

\* An activation that waits for a child is put on a stack.
LEMMA StackPush ==
  ASSUME NEW s, NEW u, StackOf(s, u), NEW a \in Frames, NEW f \in Forms,
         ~HasStart(Tail(a.rest)), Describes(Tail(a.rest), u, f), Follows(a.class, u)
  PROVE  StackOf(Append(s, a), f)
  <1>1. s \in Seq(Frames) /\ u \in Forms
    BY DEF StackOf
  <1>2. PICK Q \in SUBSET (Seq(Frames) \X Forms) : <<s, u>> \in Q /\ Supported(Q)
    BY DEF StackOf
  <1> DEFINE t == Append(s, a)
             R == Q \cup {<<t, f>>}
  <1>3. t \in Seq(Frames) /\ t # <<>> /\ Front(t) = s /\ Last(t) = a
    BY <1>1, StackTop
  <1> HIDE DEF t
  <1>4. R \in SUBSET (Seq(Frames) \X Forms)
    BY <1>3
  <1>5. Supported(R)
    <2> SUFFICES ASSUME NEW q \in Seq(Frames), NEW h \in Forms, <<q, h>> \in R
                 PROVE  IF q = <<>> THEN h = <<>>
                        ELSE \E w \in Forms :
                                /\ <<Front(q), w>> \in R
                                /\ ~HasStart(Tail(Last(q).rest))
                                /\ Describes(Tail(Last(q).rest), w, h)
                                /\ Follows(Last(q).class, w)
      BY DEF Supported
    <2>1. CASE <<q, h>> \in Q
      BY <1>2, <2>1 DEF Supported
    <2>2. CASE q = t /\ h = f
      BY <1>1, <1>2, <1>3, <2>2
    <2> QED
      BY <2>1, <2>2
  <1>6. StackOf(t, f)
    BY <1>3, <1>4, <1>5 DEF StackOf
  <1> QED
    BY <1>6 DEF t

\* What a stack still has to parse, as its last activation sees it.
LEMMA StackPop ==
  ASSUME NEW s, NEW f, StackOf(s, f)
  PROVE  IF s = <<>> THEN f = <<>>
         ELSE \E u \in Forms :
                 /\ StackOf(Front(s), u)
                 /\ ~HasStart(Tail(Last(s).rest))
                 /\ Describes(Tail(Last(s).rest), u, f)
                 /\ Follows(Last(s).class, u)
  <1>1. s \in Seq(Frames) /\ f \in Forms
    BY DEF StackOf
  <1>2. PICK Q \in SUBSET (Seq(Frames) \X Forms) : <<s, f>> \in Q /\ Supported(Q)
    BY DEF StackOf
  <1>3. CASE s = <<>>
    BY <1>1, <1>2, <1>3 DEF Supported
  <1>4. CASE s # <<>>
    <2>1. PICK u \in Forms : /\ <<Front(s), u>> \in Q
                             /\ ~HasStart(Tail(Last(s).rest))
                             /\ Describes(Tail(Last(s).rest), u, f)
                             /\ Follows(Last(s).class, u)
      BY <1>1, <1>2, <1>4 DEF Supported
    <2>2. Front(s) \in Seq(Frames)
      BY <1>1, <1>4, FrontIs
    <2>3. StackOf(Front(s), u)
      BY <1>2, <2>1, <2>2 DEF StackOf
    <2> QED
      BY <1>4, <2>1, <2>3
  <1> QED
    BY <1>3, <1>4

\* Before the first activation nothing is left.
LEMMA StackNone == StackOf(<<>>, <<>>)
  <1>1. {<<<<>>, <<>>>>} \in SUBSET (Seq(Frames) \X Forms)
    <2> DEFINE none == <<>>
    <2>1. none \in Seq(Frames) /\ none \in Forms
      BY DEF Forms
    <2> HIDE DEF none
    <2>2. {<<none, none>>} \in SUBSET (Seq(Frames) \X Forms)
      BY <2>1
    <2> QED
      BY <2>2 DEF none
  <1>2. Supported({<<<<>>, <<>>>>})
    BY DEF Supported
  <1>3. <<>> \in Seq(Frames) /\ <<>> \in Forms
    BY DEF Forms
  <1> QED
    BY <1>1, <1>2, <1>3 DEF StackOf

-----------------------------------------------------------------------------
(* What the functions of the parser still have to parse when they begin.   *)

\* The classes that blocks need, and their symbols.
LEMMA NamesAre ==
  /\ DOMAIN Names = {"DeclaratorList", "InitDeclaratorList", "InitDeclarator",
                     "CompoundStatement", "StatementList", "Statement",
                     "AssignmentExpression", "AdditiveExpression",
                     "MultiplicativeExpression", "UnaryExpression",
                     "PrimaryExpression", "Identifier", "Literal"}
  /\ Names["CompoundStatement"] = "compound" /\ Names["DeclaratorList"] = "declarators"
  /\ Names["InitDeclaratorList"] = "initialized" /\ Names["InitDeclarator"] = "declarator"
  /\ Names["StatementList"] = "statements" /\ Names["Statement"] = "statement"
  /\ Names["AssignmentExpression"] = "assignment"
  /\ Names["AdditiveExpression"] = "additive"
  /\ Names["MultiplicativeExpression"] = "multiplicative"
  /\ Names["UnaryExpression"] = "unary" /\ Names["PrimaryExpression"] = "primary"
  /\ Names["Identifier"] = "identifier" /\ Names["Literal"] = "literal"
  /\ OptionNames["ParameterDeclaration"] = "[parameters]"
  /\ OptionNames["VariableDeclaration"] = "[variables]"
  /\ OptionNames["ConstantDeclaration"] = "[constants]"
  /\ DOMAIN Names \subseteq Classes \ Declarations
  BY DEF Names, OptionNames, Classes, Declarations

\* A child that is needed stands for something that is not empty.
LEMMA NamesGood ==
  ASSUME NEW c \in DOMAIN Names, NEW v \in Forms
  PROVE  Names[c] \in Symbol /\ Good(Cons(Names[c], v))
  <1>1. {"identifier"} \in SUBSET Ends /\ {"BEGIN"} \in SUBSET Ends /\ {"RETURN", "identifier"} \in SUBSET Ends /\ Signed \in SUBSET Ends /\ Operand \in SUBSET Ends
    BY TokenSets, SymbolNames
  <1>2. \A s \in {"declarators", "initialized", "declarator", "compound", "statements", "statement", "assignment", "additive", "multiplicative", "unary", "primary"} : s \in Symbol
    BY SymbolNames
  <1>3. Good(Cons("declarators", v))
    BY <1>1, SymbolBegins, BeginsGood
  <1>4. Good(Cons("initialized", v))
    BY <1>1, SymbolBegins, BeginsGood
  <1>5. Good(Cons("declarator", v))
    BY <1>1, SymbolBegins, BeginsGood
  <1>6. Good(Cons("compound", v))
    BY <1>1, SymbolBegins, BeginsGood
  <1>7. Good(Cons("statements", v))
    BY <1>1, SymbolBegins, BeginsGood
  <1>8. Good(Cons("statement", v))
    BY <1>1, SymbolBegins, BeginsGood
  <1>9. Good(Cons("assignment", v))
    BY <1>1, SymbolBegins, BeginsGood
  <1>10. Good(Cons("additive", v))
    BY <1>1, SymbolBegins, BeginsGood
  <1>11. Good(Cons("multiplicative", v))
    BY <1>1, SymbolBegins, BeginsGood
  <1>12. Good(Cons("unary", v))
    BY <1>1, SymbolBegins, BeginsGood
  <1>13. Good(Cons("primary", v))
    BY <1>1, SymbolBegins, BeginsGood
  <1>14. \A t \in Tokens : t \in Symbol /\ Good(Cons(t, v))
    BY SymbolNames, TokenBegins
  <1>15. "identifier" \in Tokens /\ "literal" \in Tokens
    BY SymbolNames
  <1> QED
    BY <1>2, <1>3, <1>4, <1>5, <1>6, <1>7, <1>8, <1>9, <1>10, <1>11, <1>12, <1>13,
       <1>14, <1>15, NamesAre

\* Every block stands for something that settles.
LEMMA ExplainsGood ==
  ASSUME NEW b, NEW s, NEW v \in Forms, NEW u, Explains(b, s, v, u)
  PROVE  s \in Symbol /\ Good(Cons(s, v))
  <1>1. CASE \E c \in DOMAIN Names : b = Need(c) /\ s = Names[c] /\ Follows(c, v)
    BY <1>1, NamesGood
  <1>2. CASE \E c \in Declarations : b = Optional(c) /\ s = OptionNames[c] /\ Follows(c, v)
    <2>1. PICK c \in Declarations : s = OptionNames[c] /\ Follows(c, v)
      BY <1>2
    <2>2. CASE c = "ParameterDeclaration"
      <3>1. Begins4(Cons("[parameters]", v), {"PARAM", "VAR", "CONST", "BEGIN"})
        BY <2>1, <2>2, OptionBegins DEF Follows
      <3> QED
        BY <2>1, <2>2, <3>1, NamesAre, TokenSets, BeginsGood, SymbolNames
    <2>3. CASE c = "VariableDeclaration"
      <3>1. Begins3(Cons("[variables]", v), {"VAR", "CONST", "BEGIN"})
        BY <2>1, <2>3, OptionBegins DEF Follows
      <3> QED
        BY <2>1, <2>3, <3>1, NamesAre, TokenSets, BeginsGood, SymbolNames
    <2>4. CASE c = "ConstantDeclaration"
      <3>1. Begins2(Cons("[constants]", v), {"CONST", "BEGIN"})
        BY <2>1, <2>4, OptionBegins DEF Follows
      <3> QED
        BY <2>1, <2>4, <3>1, NamesAre, TokenSets, BeginsGood, SymbolNames
    <2> QED
      BY <2>2, <2>3, <2>4 DEF Declarations
  <1>3. CASE s \in Tokens
    BY <1>3, SymbolNames, TokenBegins
  <1>4. CASE s \in {"{, identifier}", "{, declarator}"} /\ Begins0(v, {";"})
    <2>1. Begins1(Cons(s, v), {",", ";"})
      BY <1>4, OptionBegins
    <2> QED
      BY <1>4, <2>1, TokenSets, BeginsGood, SymbolNames
  <1>5. CASE s = "{; statement}" /\ Begins0(v, {"END"})
    <2>1. Begins1(Cons(s, v), {";", "END"})
      BY <1>5, OptionBegins
    <2> QED
      BY <1>5, <2>1, TokenSets, BeginsGood, SymbolNames
  <1>6. CASE s = "[+- additive]" /\ Follows("AdditiveExpression", v)
    <2>1. Begins2(Cons(s, v), Closing \cup {"+", "-"})
      BY <1>6, OptionBegins DEF Follows
    <2> QED
      BY <1>6, <2>1, TokenSets, BeginsGood, SymbolNames
  <1>7. CASE s = "[*/ multiplicative]" /\ Follows("MultiplicativeExpression", v)
    <2>1. Begins3(Cons(s, v), Closing \cup {"+", "-", "*", "/"})
      BY <1>7, OptionBegins DEF Follows
    <2> QED
      BY <1>7, <2>1, TokenSets, BeginsGood, SymbolNames
  <1>8. CASE s = "[+-]" /\ Begins1(v, Operand)
    <2>1. Begins2(Cons(s, v), Signed)
      BY <1>8, OptionBegins
    <2> QED
      BY <1>8, <2>1, TokenSets, BeginsGood, SymbolNames
  <1>9. CASE s = "statement" \/ s = "primary"
    BY <1>9, NamesAre, NamesGood
  <1> QED
    BY <1>1, <1>2, <1>3, <1>4, <1>5, <1>6, <1>7, <1>8, <1>9 DEF Explains

\* Every form that some blocks stand for settles.
LEMMA DescribesGood ==
  ASSUME NEW rest, NEW u, NEW f, Describes(rest, u, f), Good(u)
  PROVE  Good(f)
  <1>1. CASE rest = <<>>
    BY <1>1, DescribesNone DEF Describes
  <1>2. CASE rest # <<>>
    <2>1. PICK s \in Symbol, v \in Forms :
             /\ Describes(Tail(rest), u, v)
             /\ f = Cons(s, v)
             /\ Explains(Head(rest), s, v, u)
      BY <1>2, DescribesTail
    <2> QED
      BY <2>1, ExplainsGood
  <1> QED
    BY <1>1, <1>2

\* Lists of one, two and three blocks.
LEMMA DescribesList ==
  ASSUME NEW u \in Forms
  PROVE  /\ \A b \in Blocks, s \in Symbol :
              Explains(b, s, u, u) => Describes(<<b>>, u, Cons(s, u))
         /\ \A b \in Blocks, c \in PlainBlocks, s, t \in Symbol :
              Explains(b, s, Cons(t, u), u) /\ Explains(c, t, u, u) =>
                 Describes(<<b, c>>, u, Cons(s, Cons(t, u)))
         /\ \A b \in Blocks, c, d \in PlainBlocks, s, t, w \in Symbol :
              /\ Explains(b, s, Cons(t, Cons(w, u)), u)
              /\ Explains(c, t, Cons(w, u), u)
              /\ Explains(d, w, u, u)
              => Describes(<<b, c, d>>, u, Cons(s, Cons(t, Cons(w, u))))
  <1>1. ASSUME NEW b \in Blocks, NEW s \in Symbol, Explains(b, s, u, u)
        PROVE  Describes(<<b>>, u, Cons(s, u))
    <2>1. Describes(<<>>, u, u) /\ ~HasStart(<<>>)
      BY DescribesNone DEF HasStart
    <2>2. Describes(Cons(b, <<>>), u, Cons(s, u))
      BY <1>1, <2>1, DescribesCons
    <2>3. Cons(b, <<>>) = <<b>>
      BY DEF Cons
    <2> QED
      BY <2>2, <2>3
  <1>2. \A c \in PlainBlocks : c \in Blocks
    BY DEF PlainBlocks
  <1>3. ASSUME NEW b \in Blocks, NEW c \in PlainBlocks, NEW s \in Symbol, NEW t \in Symbol,
               Explains(b, s, Cons(t, u), u), Explains(c, t, u, u)
        PROVE  Describes(<<b, c>>, u, Cons(s, Cons(t, u)))
    <2>1. Describes(<<c>>, u, Cons(t, u))
      BY <1>1, <1>2, <1>3
    <2>2. ~HasStart(<<c>>)
      BY ListType, PlainList
    <2>3. Describes(Cons(b, <<c>>), u, Cons(s, Cons(t, u)))
      BY <1>3, <2>1, <2>2, DescribesCons
    <2>4. Cons(b, <<c>>) = <<b, c>>
      BY <1>2, ConsTuple2
    <2> QED
      BY <2>3, <2>4
  <1>4. ASSUME NEW b \in Blocks, NEW c \in PlainBlocks, NEW d \in PlainBlocks,
               NEW s \in Symbol, NEW t \in Symbol, NEW w \in Symbol,
               Explains(b, s, Cons(t, Cons(w, u)), u),
               Explains(c, t, Cons(w, u), u), Explains(d, w, u, u)
        PROVE  Describes(<<b, c, d>>, u, Cons(s, Cons(t, Cons(w, u))))
    <2>1. Describes(<<c, d>>, u, Cons(t, Cons(w, u)))
      BY <1>2, <1>3, <1>4
    <2>2. ~HasStart(<<c, d>>)
      BY ListType, PlainList
    <2>3. Describes(Cons(b, <<c, d>>), u, Cons(s, Cons(t, Cons(w, u))))
      BY <1>4, <2>1, <2>2, DescribesCons
    <2>4. Cons(b, <<c, d>>) = <<b, c, d>>
      BY <1>2, ConsTuple3
    <2> QED
      BY <2>3, <2>4
  <1> QED
    BY <1>1, <1>3, <1>4

\* The blocks of the functions.
LEMMA BlocksAre ==
  /\ \A c \in DOMAIN Names : Need(c) \in PlainBlocks
  /\ \A c \in Declarations : Optional(c) \in PlainBlocks
  /\ \A t \in Tokens : Expect(t) \in PlainBlocks /\ Start(t) \in Blocks
  /\ Repeat(",", "Identifier") \in PlainBlocks
  /\ Repeat(",", "InitDeclarator") \in PlainBlocks
  /\ Repeat(";", "Statement") \in PlainBlocks
  /\ Continue({"+", "-"}, "AdditiveExpression") \in PlainBlocks
  /\ Continue({"*", "/"}, "MultiplicativeExpression") \in PlainBlocks
  /\ Sign \in PlainBlocks
  /\ Branch({"RETURN", "identifier"}, "Statement") \in PlainBlocks
  /\ Branch({"identifier", "literal", "("}, "PrimaryExpression") \in PlainBlocks
  /\ PlainBlocks \subseteq Blocks
  <1>1. \A c \in DOMAIN Names : c \in Classes \ Declarations
    BY NamesAre
  <1>2. /\ "Identifier" \in DOMAIN Names /\ "InitDeclarator" \in DOMAIN Names
        /\ "Statement" \in DOMAIN Names /\ "AdditiveExpression" \in DOMAIN Names
        /\ "MultiplicativeExpression" \in DOMAIN Names
    BY NamesAre
  <1>3. /\ "," \in Tokens /\ ";" \in Tokens
        /\ {"+", "-"} \in SUBSET Tokens /\ {"*", "/"} \in SUBSET Tokens
    BY SymbolNames
  <1> QED
    BY <1>1, <1>2, <1>3, PlainType, BlockType DEF PlainBlocks

\* How blocks are explained.
LEMMA ExplainsEach ==
  ASSUME NEW v, NEW u
  PROVE  /\ \A c \in DOMAIN Names : Follows(c, v) => Explains(Need(c), Names[c], v, u)
         /\ \A c \in Declarations :
              Follows(c, v) => Explains(Optional(c), OptionNames[c], v, u)
         /\ \A t \in Tokens : Good(v) => Explains(Expect(t), t, v, u)
         /\ \A t \in Tokens :
              Good(v) /\ Begins5(u, Ends \ {t}) => Explains(Start(t), t, v, u)
  BY DEF Explains

\* A function that is called in a context that suits it has to parse what its
\* nonterminal stands for.
LEMMA BodyDescribes ==
  ASSUME NEW c \in DOMAIN Names, NEW h, Follows(c, h)
  PROVE  /\ ~HasStart(Body(c))
         /\ \E g \in Forms :
               /\ Describes(Body(c), h, g)
               /\ Language!Leftmost({g}) = Language!Leftmost({Cons(Names[c], h)})
  <1>1. h \in Forms /\ Good(h)
    BY FollowsGood
  <1>2. ~HasStart(Body(c))
    BY NamesAre, BodyType
  <1> SUFFICES \E g \in Forms :
                  /\ Describes(Body(c), h, g)
                  /\ Language!Leftmost({g}) = Language!Leftmost({Cons(Names[c], h)})
    BY <1>2
  <1>3. \A g : Good(g) =>
           Language!Leftmost({g}) = Language!Leftmost(Language!Expansions(g))
    BY LeftmostExpands
  <1>4. Good(Cons(Names[c], h))
    BY <1>1, NamesGood
  <1>5. CASE c = "DeclaratorList"
    <2>1. Names[c] = "declarators" /\ Begins0(h, {";"})
      BY <1>5, NamesAre DEF Follows
    <2>2. /\ Cons("identifier", Cons("{, identifier}", h)) \in Forms
          /\ Cons("{, identifier}", h) \in Forms
      BY <1>1, SymbolNames, ConsForms
    <2>3. Begins1(Cons("{, identifier}", h), {",", ";"})
      BY <1>1, <2>1, OptionBegins
    <2>4. {",", ";"} \in SUBSET Ends /\ Tokens \in SUBSET Ends /\ {",", ";"} \subseteq Tokens
      BY TokenSets, SymbolNames
    <2>5. Begins1(Cons("{, identifier}", h), Tokens)
      BY <2>3, <2>4, BeginsMore
    <2>6. Begins2(Cons("{, identifier}", h), Tokens)
      BY <2>5, TokenSets, BeginsMore
    <2>7. Begins3(Cons("{, identifier}", h), Tokens)
      BY <2>6, TokenSets, BeginsMore
    <2>8. Follows("Identifier", Cons("{, identifier}", h))
      BY <1>1, <2>2, <2>7 DEF Follows
    <2>9. Explains(Need("Identifier"), "identifier", Cons("{, identifier}", h), h)
      BY <2>8, NamesAre, ExplainsEach
    <2>10. Explains(Repeat(",", "Identifier"), "{, identifier}", h, h)
      BY <1>5, <2>1 DEF Explains
    <2>11. Body(c) = <<Need("Identifier"), Repeat(",", "Identifier")>>
      BY <1>5 DEF Body, DeclaratorList
    <2>12. Need("Identifier") \in PlainBlocks /\ Repeat(",", "Identifier") \in PlainBlocks
      BY BlocksAre, NamesAre, SymbolNames
    <2>13. "identifier" \in Symbol /\ "{, identifier}" \in Symbol
      BY SymbolNames
    <2>14. Describes(<<Need("Identifier"), Repeat(",", "Identifier")>>, h, Cons("identifier", Cons("{, identifier}", h)))
      BY <1>1, <2>9, <2>10, <2>12, <2>13, BlocksAre, DescribesList
    <2>15. Language!Expansions(Cons("declarators", h)) = {Cons("identifier", Cons("{, identifier}", h))}
      BY <1>1, ExpandNonterminal
    <2> QED
      BY <1>3, <1>4, <2>1, <2>2, <2>11, <2>14, <2>15
  <1>6. CASE c = "InitDeclaratorList"
    <2>1. Names[c] = "initialized" /\ Begins0(h, {";"})
      BY <1>6, NamesAre DEF Follows
    <2>2. /\ Cons("declarator", Cons("{, declarator}", h)) \in Forms
          /\ Cons("{, declarator}", h) \in Forms
      BY <1>1, SymbolNames, ConsForms
    <2>3. Begins1(Cons("{, declarator}", h), {",", ";"})
      BY <1>1, <2>1, OptionBegins
    <2>4. Follows("InitDeclarator", Cons("{, declarator}", h))
      BY <1>1, <2>2, <2>3 DEF Follows
    <2>5. Explains(Need("InitDeclarator"), "declarator", Cons("{, declarator}", h), h)
      BY <2>4, NamesAre, ExplainsEach
    <2>6. Explains(Repeat(",", "InitDeclarator"), "{, declarator}", h, h)
      BY <1>6, <2>1 DEF Explains
    <2>7. Body(c) = <<Need("InitDeclarator"), Repeat(",", "InitDeclarator")>>
      BY <1>6 DEF Body, InitDeclaratorList
    <2>8. Need("InitDeclarator") \in PlainBlocks /\ Repeat(",", "InitDeclarator") \in PlainBlocks
      BY BlocksAre, NamesAre, SymbolNames
    <2>9. "declarator" \in Symbol /\ "{, declarator}" \in Symbol
      BY SymbolNames
    <2>10. Describes(<<Need("InitDeclarator"), Repeat(",", "InitDeclarator")>>, h, Cons("declarator", Cons("{, declarator}", h)))
      BY <1>1, <2>5, <2>6, <2>8, <2>9, BlocksAre, DescribesList
    <2>11. Language!Expansions(Cons("initialized", h)) = {Cons("declarator", Cons("{, declarator}", h))}
      BY <1>1, ExpandNonterminal
    <2> QED
      BY <1>3, <1>4, <2>1, <2>2, <2>7, <2>10, <2>11
  <1>7. CASE c = "InitDeclarator"
    <2>1. Names[c] = "declarator" /\ Begins1(h, {",", ";"})
      BY <1>7, NamesAre DEF Follows
    <2>2. /\ Cons("identifier", Cons("=", Cons("literal", h))) \in Forms
          /\ Cons("=", Cons("literal", h)) \in Forms
          /\ Cons("literal", h) \in Forms
      BY <1>1, SymbolNames, ConsForms
    <2>3. Begins0(Cons("=", Cons("literal", h)), Tokens)
      BY <2>2, SymbolNames, TokenBegins DEF Begins0
    <2>4. Begins1(Cons("=", Cons("literal", h)), Tokens)
      BY <2>3, TokenSets, BeginsMore
    <2>5. Begins2(Cons("=", Cons("literal", h)), Tokens)
      BY <2>4, TokenSets, BeginsMore
    <2>6. Begins3(Cons("=", Cons("literal", h)), Tokens)
      BY <2>5, TokenSets, BeginsMore
    <2>7. Follows("Identifier", Cons("=", Cons("literal", h)))
      BY <1>1, <2>2, <2>6 DEF Follows
    <2>8. Explains(Need("Identifier"), "identifier", Cons("=", Cons("literal", h)), h)
      BY <2>7, NamesAre, ExplainsEach
    <2>9. Good(Cons("literal", h))
      BY <1>1, <2>2, NamesAre, NamesGood
    <2>10. Explains(Expect("="), "=", Cons("literal", h), h)
      BY <2>9, SymbolNames, ExplainsEach
    <2>11. {",", ";"} \in SUBSET Ends /\ Tokens \in SUBSET Ends /\ {",", ";"} \subseteq Tokens
      BY TokenSets, SymbolNames DEF Closing
    <2>12. Begins1(h, Tokens)
      BY <2>1, <2>11, BeginsMore
    <2>13. Begins2(h, Tokens)
      BY <2>12, TokenSets, BeginsMore
    <2>14. Begins3(h, Tokens)
      BY <2>13, TokenSets, BeginsMore
    <2>15. Follows("Literal", h)
      BY <1>1, <2>2, <2>14 DEF Follows
    <2>16. Explains(Need("Literal"), "literal", h, h)
      BY <2>15, NamesAre, ExplainsEach
    <2>17. Body(c) = <<Need("Identifier"), Expect("="), Need("Literal")>>
      BY <1>7 DEF Body, InitDeclarator
    <2>18. Need("Identifier") \in PlainBlocks /\ Expect("=") \in PlainBlocks /\ Need("Literal") \in PlainBlocks
      BY BlocksAre, NamesAre, SymbolNames
    <2>19. "identifier" \in Symbol /\ "=" \in Symbol /\ "literal" \in Symbol
      BY SymbolNames
    <2>20. Describes(<<Need("Identifier"), Expect("="), Need("Literal")>>, h, Cons("identifier", Cons("=", Cons("literal", h))))
      BY <1>1, <2>8, <2>10, <2>16, <2>18, <2>19, BlocksAre, DescribesList
    <2>21. Language!Expansions(Cons("declarator", h)) = {Cons("identifier", Cons("=", Cons("literal", h)))}
      BY <1>1, ExpandNonterminal
    <2> QED
      BY <1>3, <1>4, <2>1, <2>2, <2>17, <2>20, <2>21
  <1>8. CASE c = "CompoundStatement"
    <2>1. Names[c] = "compound" /\ Begins0(h, {"."})
      BY <1>8, NamesAre DEF Follows
    <2>2. /\ Cons("BEGIN", Cons("statements", Cons("END", h))) \in Forms
          /\ Cons("statements", Cons("END", h)) \in Forms
          /\ Cons("END", h) \in Forms
      BY <1>1, SymbolNames, ConsForms
    <2>3. Good(Cons("statements", Cons("END", h)))
      BY <1>1, <2>2, NamesAre, NamesGood
    <2>4. Explains(Expect("BEGIN"), "BEGIN", Cons("statements", Cons("END", h)), h)
      BY <2>3, SymbolNames, ExplainsEach
    <2>5. Begins0(Cons("END", h), {"END"})
      BY <1>1, SymbolNames, TokenBegins
    <2>6. Follows("StatementList", Cons("END", h))
      BY <1>1, <2>2, <2>5 DEF Follows
    <2>7. Explains(Need("StatementList"), "statements", Cons("END", h), h)
      BY <2>6, NamesAre, ExplainsEach
    <2>8. Explains(Expect("END"), "END", h, h)
      BY <1>1, SymbolNames, ExplainsEach
    <2>9. Body(c) = <<Expect("BEGIN"), Need("StatementList"), Expect("END")>>
      BY <1>8 DEF Body, CompoundStatement
    <2>10. Expect("BEGIN") \in PlainBlocks /\ Need("StatementList") \in PlainBlocks /\ Expect("END") \in PlainBlocks
      BY BlocksAre, NamesAre, SymbolNames
    <2>11. "BEGIN" \in Symbol /\ "statements" \in Symbol /\ "END" \in Symbol
      BY SymbolNames
    <2>12. Describes(<<Expect("BEGIN"), Need("StatementList"), Expect("END")>>, h, Cons("BEGIN", Cons("statements", Cons("END", h))))
      BY <1>1, <2>4, <2>7, <2>8, <2>10, <2>11, BlocksAre, DescribesList
    <2>13. Language!Expansions(Cons("compound", h)) = {Cons("BEGIN", Cons("statements", Cons("END", h)))}
      BY <1>1, ExpandNonterminal
    <2> QED
      BY <1>3, <1>4, <2>1, <2>2, <2>9, <2>12, <2>13
  <1>9. CASE c = "StatementList"
    <2>1. Names[c] = "statements" /\ Begins0(h, {"END"})
      BY <1>9, NamesAre DEF Follows
    <2>2. /\ Cons("statement", Cons("{; statement}", h)) \in Forms
          /\ Cons("{; statement}", h) \in Forms
      BY <1>1, SymbolNames, ConsForms
    <2>3. Begins1(Cons("{; statement}", h), {";", "END"})
      BY <1>1, <2>1, OptionBegins
    <2>4. Follows("Statement", Cons("{; statement}", h))
      BY <1>1, <2>2, <2>3 DEF Follows
    <2>5. Explains(Need("Statement"), "statement", Cons("{; statement}", h), h)
      BY <2>4, NamesAre, ExplainsEach
    <2>6. Explains(Repeat(";", "Statement"), "{; statement}", h, h)
      BY <1>9, <2>1 DEF Explains
    <2>7. Body(c) = <<Need("Statement"), Repeat(";", "Statement")>>
      BY <1>9 DEF Body, StatementList
    <2>8. Need("Statement") \in PlainBlocks /\ Repeat(";", "Statement") \in PlainBlocks
      BY BlocksAre, NamesAre, SymbolNames
    <2>9. "statement" \in Symbol /\ "{; statement}" \in Symbol
      BY SymbolNames
    <2>10. Describes(<<Need("Statement"), Repeat(";", "Statement")>>, h, Cons("statement", Cons("{; statement}", h)))
      BY <1>1, <2>5, <2>6, <2>8, <2>9, BlocksAre, DescribesList
    <2>11. Language!Expansions(Cons("statements", h)) = {Cons("statement", Cons("{; statement}", h))}
      BY <1>1, ExpandNonterminal
    <2> QED
      BY <1>3, <1>4, <2>1, <2>2, <2>7, <2>10, <2>11
  <1>10. CASE c = "Statement"
    <2>1. Names[c] = "statement" /\ Begins1(h, {";", "END"})
      BY <1>10, NamesAre DEF Follows
    <2>2. /\ Cons("statement", h) \in Forms
      BY <1>1, SymbolNames, ConsForms
    <2>3. Explains(Branch({"RETURN", "identifier"}, "Statement"), "statement", h, h)
      BY <1>10, <2>1 DEF Explains
    <2>4. Body(c) = <<Branch({"RETURN", "identifier"}, "Statement")>>
      BY <1>10 DEF Body, Statement
    <2>5. Branch({"RETURN", "identifier"}, "Statement") \in PlainBlocks
      BY BlocksAre, NamesAre, SymbolNames
    <2>6. "statement" \in Symbol
      BY SymbolNames
    <2>7. Describes(<<Branch({"RETURN", "identifier"}, "Statement")>>, h, Cons("statement", h))
      BY <1>1, <2>3, <2>5, <2>6, BlocksAre, DescribesList
    <2> QED
      BY <2>1, <2>2, <2>4, <2>7
  <1>11. CASE c = "AssignmentExpression"
    <2>1. Names[c] = "assignment" /\ Begins1(h, {";", "END"})
      BY <1>11, NamesAre DEF Follows
    <2>2. /\ Cons("identifier", Cons(":=", Cons("additive", h))) \in Forms
          /\ Cons(":=", Cons("additive", h)) \in Forms
          /\ Cons("additive", h) \in Forms
      BY <1>1, SymbolNames, ConsForms
    <2>3. Begins0(Cons(":=", Cons("additive", h)), Tokens)
      BY <2>2, SymbolNames, TokenBegins DEF Begins0
    <2>4. Begins1(Cons(":=", Cons("additive", h)), Tokens)
      BY <2>3, TokenSets, BeginsMore
    <2>5. Begins2(Cons(":=", Cons("additive", h)), Tokens)
      BY <2>4, TokenSets, BeginsMore
    <2>6. Begins3(Cons(":=", Cons("additive", h)), Tokens)
      BY <2>5, TokenSets, BeginsMore
    <2>7. Follows("Identifier", Cons(":=", Cons("additive", h)))
      BY <1>1, <2>2, <2>6 DEF Follows
    <2>8. Explains(Need("Identifier"), "identifier", Cons(":=", Cons("additive", h)), h)
      BY <2>7, NamesAre, ExplainsEach
    <2>9. Good(Cons("additive", h))
      BY <1>1, <2>2, NamesAre, NamesGood
    <2>10. Explains(Expect(":="), ":=", Cons("additive", h), h)
      BY <2>9, SymbolNames, ExplainsEach
    <2>11. {";", "END"} \in SUBSET Ends /\ Closing \in SUBSET Ends /\ {";", "END"} \subseteq Closing
      BY TokenSets, SymbolNames DEF Closing
    <2>12. Begins1(h, Closing)
      BY <2>1, <2>11, BeginsMore
    <2>13. Follows("AdditiveExpression", h)
      BY <1>1, <2>2, <2>12 DEF Follows
    <2>14. Explains(Need("AdditiveExpression"), "additive", h, h)
      BY <2>13, NamesAre, ExplainsEach
    <2>15. Body(c) = <<Need("Identifier"), Expect(":="), Need("AdditiveExpression")>>
      BY <1>11 DEF Body, AssignmentExpression
    <2>16. Need("Identifier") \in PlainBlocks /\ Expect(":=") \in PlainBlocks /\ Need("AdditiveExpression") \in PlainBlocks
      BY BlocksAre, NamesAre, SymbolNames
    <2>17. "identifier" \in Symbol /\ ":=" \in Symbol /\ "additive" \in Symbol
      BY SymbolNames
    <2>18. Describes(<<Need("Identifier"), Expect(":="), Need("AdditiveExpression")>>, h, Cons("identifier", Cons(":=", Cons("additive", h))))
      BY <1>1, <2>8, <2>10, <2>14, <2>16, <2>17, BlocksAre, DescribesList
    <2>19. Language!Expansions(Cons("assignment", h)) = {Cons("identifier", Cons(":=", Cons("additive", h)))}
      BY <1>1, ExpandNonterminal
    <2> QED
      BY <1>3, <1>4, <2>1, <2>2, <2>15, <2>18, <2>19
  <1>12. CASE c = "AdditiveExpression"
    <2>1. Names[c] = "additive" /\ Begins1(h, Closing)
      BY <1>12, NamesAre DEF Follows
    <2>2. /\ Cons("multiplicative", Cons("[+- additive]", h)) \in Forms
          /\ Cons("[+- additive]", h) \in Forms
      BY <1>1, SymbolNames, ConsForms
    <2>3. Begins2(Cons("[+- additive]", h), Closing \cup {"+", "-"})
      BY <1>1, <2>1, OptionBegins
    <2>4. Follows("MultiplicativeExpression", Cons("[+- additive]", h))
      BY <1>1, <2>2, <2>3 DEF Follows
    <2>5. Explains(Need("MultiplicativeExpression"), "multiplicative", Cons("[+- additive]", h), h)
      BY <2>4, NamesAre, ExplainsEach
    <2>6. Explains(Continue({"+", "-"}, "AdditiveExpression"), "[+- additive]", h, h)
      BY <1>12, <2>1 DEF Explains
    <2>7. Body(c) = <<Need("MultiplicativeExpression"), Continue({"+", "-"}, "AdditiveExpression")>>
      BY <1>12 DEF Body, AdditiveExpression
    <2>8. Need("MultiplicativeExpression") \in PlainBlocks /\ Continue({"+", "-"}, "AdditiveExpression") \in PlainBlocks
      BY BlocksAre, NamesAre, SymbolNames
    <2>9. "multiplicative" \in Symbol /\ "[+- additive]" \in Symbol
      BY SymbolNames
    <2>10. Describes(<<Need("MultiplicativeExpression"), Continue({"+", "-"}, "AdditiveExpression")>>, h, Cons("multiplicative", Cons("[+- additive]", h)))
      BY <1>1, <2>5, <2>6, <2>8, <2>9, BlocksAre, DescribesList
    <2>11. Language!Expansions(Cons("additive", h)) = {Cons("multiplicative", Cons("[+- additive]", h))}
      BY <1>1, ExpandNonterminal
    <2> QED
      BY <1>3, <1>4, <2>1, <2>2, <2>7, <2>10, <2>11
  <1>13. CASE c = "MultiplicativeExpression"
    <2>1. Names[c] = "multiplicative" /\ Begins2(h, Closing \cup {"+", "-"})
      BY <1>13, NamesAre DEF Follows
    <2>2. /\ Cons("unary", Cons("[*/ multiplicative]", h)) \in Forms
          /\ Cons("[*/ multiplicative]", h) \in Forms
      BY <1>1, SymbolNames, ConsForms
    <2>3. Begins3(Cons("[*/ multiplicative]", h), Closing \cup {"+", "-", "*", "/"})
      BY <1>1, <2>1, OptionBegins
    <2>4. Follows("UnaryExpression", Cons("[*/ multiplicative]", h))
      BY <1>1, <2>2, <2>3 DEF Follows
    <2>5. Explains(Need("UnaryExpression"), "unary", Cons("[*/ multiplicative]", h), h)
      BY <2>4, NamesAre, ExplainsEach
    <2>6. Explains(Continue({"*", "/"}, "MultiplicativeExpression"), "[*/ multiplicative]", h, h)
      BY <1>13, <2>1 DEF Explains
    <2>7. Body(c) = <<Need("UnaryExpression"), Continue({"*", "/"}, "MultiplicativeExpression")>>
      BY <1>13 DEF Body, MultiplicativeExpression
    <2>8. Need("UnaryExpression") \in PlainBlocks /\ Continue({"*", "/"}, "MultiplicativeExpression") \in PlainBlocks
      BY BlocksAre, NamesAre, SymbolNames
    <2>9. "unary" \in Symbol /\ "[*/ multiplicative]" \in Symbol
      BY SymbolNames
    <2>10. Describes(<<Need("UnaryExpression"), Continue({"*", "/"}, "MultiplicativeExpression")>>, h, Cons("unary", Cons("[*/ multiplicative]", h)))
      BY <1>1, <2>5, <2>6, <2>8, <2>9, BlocksAre, DescribesList
    <2>11. Language!Expansions(Cons("multiplicative", h)) = {Cons("unary", Cons("[*/ multiplicative]", h))}
      BY <1>1, ExpandNonterminal
    <2> QED
      BY <1>3, <1>4, <2>1, <2>2, <2>7, <2>10, <2>11
  <1>14. CASE c = "UnaryExpression"
    <2>1. Names[c] = "unary" /\ Begins3(h, Closing \cup {"+", "-", "*", "/"})
      BY <1>14, NamesAre DEF Follows
    <2>2. /\ Cons("[+-]", Cons("primary", h)) \in Forms
          /\ Cons("primary", h) \in Forms
      BY <1>1, SymbolNames, ConsForms
    <2>3. Begins1(Cons("primary", h), Operand)
      BY <1>1, SymbolBegins
    <2>4. Explains(Sign, "[+-]", Cons("primary", h), h)
      BY <2>3 DEF Explains
    <2>5. Follows("PrimaryExpression", h)
      BY <1>1, <2>2, <2>1 DEF Follows
    <2>6. Explains(Need("PrimaryExpression"), "primary", h, h)
      BY <2>5, NamesAre, ExplainsEach
    <2>7. Body(c) = <<Sign, Need("PrimaryExpression")>>
      BY <1>14 DEF Body, UnaryExpression
    <2>8. Sign \in PlainBlocks /\ Need("PrimaryExpression") \in PlainBlocks
      BY BlocksAre, NamesAre, SymbolNames
    <2>9. "[+-]" \in Symbol /\ "primary" \in Symbol
      BY SymbolNames
    <2>10. Describes(<<Sign, Need("PrimaryExpression")>>, h, Cons("[+-]", Cons("primary", h)))
      BY <1>1, <2>4, <2>6, <2>8, <2>9, BlocksAre, DescribesList
    <2>11. Language!Expansions(Cons("unary", h)) = {Cons("[+-]", Cons("primary", h))}
      BY <1>1, ExpandNonterminal
    <2> QED
      BY <1>3, <1>4, <2>1, <2>2, <2>7, <2>10, <2>11
  <1>15. CASE c = "PrimaryExpression"
    <2>1. Names[c] = "primary" /\ Begins3(h, Closing \cup {"+", "-", "*", "/"})
      BY <1>15, NamesAre DEF Follows
    <2>2. /\ Cons("primary", h) \in Forms
      BY <1>1, SymbolNames, ConsForms
    <2>3. Explains(Branch({"identifier", "literal", "("}, "PrimaryExpression"), "primary", h, h)
      BY <1>15, <2>1 DEF Explains
    <2>4. Body(c) = <<Branch({"identifier", "literal", "("}, "PrimaryExpression")>>
      BY <1>15 DEF Body, PrimaryExpression
    <2>5. Branch({"identifier", "literal", "("}, "PrimaryExpression") \in PlainBlocks
      BY BlocksAre, NamesAre, SymbolNames
    <2>6. "primary" \in Symbol
      BY SymbolNames
    <2>7. Describes(<<Branch({"identifier", "literal", "("}, "PrimaryExpression")>>, h, Cons("primary", h))
      BY <1>1, <2>3, <2>5, <2>6, BlocksAre, DescribesList
    <2> QED
      BY <2>1, <2>2, <2>4, <2>7
  <1>16. CASE c = "Identifier"
    <2>1. Names[c] = "identifier" /\ Begins3(h, Tokens)
      BY <1>16, NamesAre DEF Follows
    <2>2. /\ Cons("identifier", h) \in Forms
      BY <1>1, SymbolNames, ConsForms
    <2>3. Explains(Expect("identifier"), "identifier", h, h)
      BY <1>1, SymbolNames, ExplainsEach
    <2>4. Body(c) = <<Expect("identifier")>>
      BY <1>16 DEF Body, Identifier
    <2>5. Expect("identifier") \in PlainBlocks
      BY BlocksAre, NamesAre, SymbolNames
    <2>6. "identifier" \in Symbol
      BY SymbolNames
    <2>7. Describes(<<Expect("identifier")>>, h, Cons("identifier", h))
      BY <1>1, <2>3, <2>5, <2>6, BlocksAre, DescribesList
    <2> QED
      BY <2>1, <2>2, <2>4, <2>7
  <1>17. CASE c = "Literal"
    <2>1. Names[c] = "literal" /\ Begins3(h, Tokens)
      BY <1>17, NamesAre DEF Follows
    <2>2. /\ Cons("literal", h) \in Forms
      BY <1>1, SymbolNames, ConsForms
    <2>3. Explains(Expect("literal"), "literal", h, h)
      BY <1>1, SymbolNames, ExplainsEach
    <2>4. Body(c) = <<Expect("literal")>>
      BY <1>17 DEF Body, Literal
    <2>5. Expect("literal") \in PlainBlocks
      BY BlocksAre, NamesAre, SymbolNames
    <2>6. "literal" \in Symbol
      BY SymbolNames
    <2>7. Describes(<<Expect("literal")>>, h, Cons("literal", h))
      BY <1>1, <2>3, <2>5, <2>6, BlocksAre, DescribesList
    <2> QED
      BY <2>1, <2>2, <2>4, <2>7
  <1> QED
    BY NamesAre, <1>5, <1>6, <1>7, <1>8, <1>9, <1>10, <1>11, <1>12, <1>13, <1>14, <1>15, <1>16, <1>17

\* The first element of a list written out.
LEMMA ListHead ==
  ASSUME NEW a, NEW b, NEW c
  PROVE  <<a, b, c>> # <<>> /\ Head(<<a, b, c>>) = a
  OBVIOUS

\* A declaration may be there, which its keyword shows, or not.
LEMMA DeclarationDescribes ==
  ASSUME NEW c \in Declarations, NEW h, Follows(c, h)
  PROVE  \E g \in Forms :
            /\ Describes(Body(c), h, g)
            /\ Body(c) # <<>> /\ Head(Body(c)).kind = "start"
            /\ Language!Leftmost({g, h}) =
                  Language!Leftmost({Cons(OptionNames[c], h)})
  <1>1. h \in Forms /\ Good(h)
    BY FollowsGood
  <1>2. \A g : Good(g) =>
           Language!Leftmost({g}) = Language!Leftmost(Language!Expansions(g))
    BY LeftmostExpands
  <1>3. \A A, B : Language!Leftmost(A \cup B) =
                     Language!Leftmost(A) \cup Language!Leftmost(B)
    BY LeftmostUnion
  <1>4. CASE c = "ParameterDeclaration"
    <2> DEFINE g == Cons("PARAM", Cons("declarators", Cons(";", h)))
    <2>1. OptionNames[c] = "[parameters]" /\ Begins3(h, {"VAR", "CONST", "BEGIN"})
      BY <1>4, NamesAre DEF Follows
    <2>2. g \in Forms /\ Cons("declarators", Cons(";", h)) \in Forms /\ Cons(";", h) \in Forms
      BY <1>1, SymbolNames, ConsForms
    <2>3. Begins5(h, Ends \ {"PARAM"})
      <3>1. Ends \ {"PARAM"} \in SUBSET Ends /\ {"VAR", "CONST", "BEGIN"} \subseteq Ends \ {"PARAM"}
        BY TokenSets, NoTokenIsNone
      <3>2. Begins5(h, {"VAR", "CONST", "BEGIN"})
        BY <2>1, TokenSets, BeginsGood
      <3> QED
        BY <3>1, <3>2, TokenSets, BeginsGood
    <2>4. Good(Cons("declarators", Cons(";", h)))
      BY <2>2, NamesAre, NamesGood
    <2>5. Explains(Start("PARAM"), "PARAM", Cons("declarators", Cons(";", h)), h)
      BY <2>3, <2>4, SymbolNames, ExplainsEach
    <2>6. Follows("DeclaratorList", Cons(";", h))
      <3>1. Begins0(Cons(";", h), {";"})
        BY <1>1, SymbolNames, TokenBegins
      <3> QED
        BY <2>2, <3>1 DEF Follows
    <2>7. Explains(Need("DeclaratorList"), "declarators", Cons(";", h), h)
      BY <2>6, NamesAre, ExplainsEach
    <2>8. Explains(Expect(";"), ";", h, h)
      BY <1>1, SymbolNames, ExplainsEach
    <2>9. Body(c) = <<Start("PARAM"), Need("DeclaratorList"), Expect(";")>>
      BY <1>4 DEF Body, ParameterDeclaration
    <2>10. /\ Start("PARAM") \in Blocks /\ Need("DeclaratorList") \in PlainBlocks
           /\ Expect(";") \in PlainBlocks
      BY BlocksAre, NamesAre, SymbolNames
    <2>11. "PARAM" \in Symbol /\ "declarators" \in Symbol /\ ";" \in Symbol
      BY SymbolNames
    <2>12. Describes(<<Start("PARAM"), Need("DeclaratorList"), Expect(";")>>, h, g)
      BY <1>1, <2>5, <2>7, <2>8, <2>10, <2>11, DescribesList
    <2>13. Body(c) # <<>> /\ Head(Body(c)).kind = "start"
      <3>1. Body(c) # <<>> /\ Head(Body(c)) = Start("PARAM")
        BY <2>9, ListHead
      <3> QED
        BY <3>1 DEF Start, Block
    <2>14. /\ Language!Expansions(Cons("[parameters]", h)) = {h, Cons("parameters", h)}
           /\ Language!Expansions(Cons("parameters", h)) = {g}
      BY <1>1, ExpandOption, ExpandNonterminal
    <2>15. Good(Cons("parameters", h))
      BY <1>1, SymbolBegins, TokenSets, SymbolNames, BeginsGood
    <2>16. Good(Cons("[parameters]", h))
      <3>1. Begins4(Cons("[parameters]", h), {"PARAM", "VAR", "CONST", "BEGIN"})
        BY <1>1, <2>1, OptionBegins
      <3> QED
        BY <3>1, TokenSets, BeginsGood
    <2> HIDE DEF g
    <2>17. Language!Leftmost({Cons("[parameters]", h)}) =
              Language!Leftmost({h}) \cup Language!Leftmost({Cons("parameters", h)})
      <3>1. {h, Cons("parameters", h)} = {h} \cup {Cons("parameters", h)}
        OBVIOUS
      <3> QED
        BY <1>2, <1>3, <2>14, <2>16, <3>1
    <2>18. Language!Leftmost({Cons("parameters", h)}) = Language!Leftmost({g})
      BY <1>2, <2>14, <2>15
    <2>19. Language!Leftmost({g, h}) = Language!Leftmost({g}) \cup Language!Leftmost({h})
      <3>1. {g, h} = {g} \cup {h}
        OBVIOUS
      <3> QED
        BY <1>3, <3>1
    <2> QED
      BY <2>1, <2>2, <2>9, <2>12, <2>13, <2>17, <2>18, <2>19
  <1>5. CASE c = "VariableDeclaration"
    <2> DEFINE g == Cons("VAR", Cons("declarators", Cons(";", h)))
    <2>1. OptionNames[c] = "[variables]" /\ Begins2(h, {"CONST", "BEGIN"})
      BY <1>5, NamesAre DEF Follows
    <2>2. g \in Forms /\ Cons("declarators", Cons(";", h)) \in Forms /\ Cons(";", h) \in Forms
      BY <1>1, SymbolNames, ConsForms
    <2>3. Begins5(h, Ends \ {"VAR"})
      <3>1. Ends \ {"VAR"} \in SUBSET Ends /\ {"CONST", "BEGIN"} \subseteq Ends \ {"VAR"}
        BY TokenSets, NoTokenIsNone
      <3>2. Begins5(h, {"CONST", "BEGIN"})
        BY <2>1, TokenSets, BeginsGood
      <3> QED
        BY <3>1, <3>2, TokenSets, BeginsGood
    <2>4. Good(Cons("declarators", Cons(";", h)))
      BY <2>2, NamesAre, NamesGood
    <2>5. Explains(Start("VAR"), "VAR", Cons("declarators", Cons(";", h)), h)
      BY <2>3, <2>4, SymbolNames, ExplainsEach
    <2>6. Follows("DeclaratorList", Cons(";", h))
      <3>1. Begins0(Cons(";", h), {";"})
        BY <1>1, SymbolNames, TokenBegins
      <3> QED
        BY <2>2, <3>1 DEF Follows
    <2>7. Explains(Need("DeclaratorList"), "declarators", Cons(";", h), h)
      BY <2>6, NamesAre, ExplainsEach
    <2>8. Explains(Expect(";"), ";", h, h)
      BY <1>1, SymbolNames, ExplainsEach
    <2>9. Body(c) = <<Start("VAR"), Need("DeclaratorList"), Expect(";")>>
      BY <1>5 DEF Body, VariableDeclaration
    <2>10. /\ Start("VAR") \in Blocks /\ Need("DeclaratorList") \in PlainBlocks
           /\ Expect(";") \in PlainBlocks
      BY BlocksAre, NamesAre, SymbolNames
    <2>11. "VAR" \in Symbol /\ "declarators" \in Symbol /\ ";" \in Symbol
      BY SymbolNames
    <2>12. Describes(<<Start("VAR"), Need("DeclaratorList"), Expect(";")>>, h, g)
      BY <1>1, <2>5, <2>7, <2>8, <2>10, <2>11, DescribesList
    <2>13. Body(c) # <<>> /\ Head(Body(c)).kind = "start"
      <3>1. Body(c) # <<>> /\ Head(Body(c)) = Start("VAR")
        BY <2>9, ListHead
      <3> QED
        BY <3>1 DEF Start, Block
    <2>14. /\ Language!Expansions(Cons("[variables]", h)) = {h, Cons("variables", h)}
           /\ Language!Expansions(Cons("variables", h)) = {g}
      BY <1>1, ExpandOption, ExpandNonterminal
    <2>15. Good(Cons("variables", h))
      BY <1>1, SymbolBegins, TokenSets, SymbolNames, BeginsGood
    <2>16. Good(Cons("[variables]", h))
      <3>1. Begins3(Cons("[variables]", h), {"VAR", "CONST", "BEGIN"})
        BY <1>1, <2>1, OptionBegins
      <3> QED
        BY <3>1, TokenSets, BeginsGood
    <2> HIDE DEF g
    <2>17. Language!Leftmost({Cons("[variables]", h)}) =
              Language!Leftmost({h}) \cup Language!Leftmost({Cons("variables", h)})
      <3>1. {h, Cons("variables", h)} = {h} \cup {Cons("variables", h)}
        OBVIOUS
      <3> QED
        BY <1>2, <1>3, <2>14, <2>16, <3>1
    <2>18. Language!Leftmost({Cons("variables", h)}) = Language!Leftmost({g})
      BY <1>2, <2>14, <2>15
    <2>19. Language!Leftmost({g, h}) = Language!Leftmost({g}) \cup Language!Leftmost({h})
      <3>1. {g, h} = {g} \cup {h}
        OBVIOUS
      <3> QED
        BY <1>3, <3>1
    <2> QED
      BY <2>1, <2>2, <2>9, <2>12, <2>13, <2>17, <2>18, <2>19
  <1>6. CASE c = "ConstantDeclaration"
    <2> DEFINE g == Cons("CONST", Cons("initialized", Cons(";", h)))
    <2>1. OptionNames[c] = "[constants]" /\ Begins1(h, {"BEGIN"})
      BY <1>6, NamesAre DEF Follows
    <2>2. g \in Forms /\ Cons("initialized", Cons(";", h)) \in Forms /\ Cons(";", h) \in Forms
      BY <1>1, SymbolNames, ConsForms
    <2>3. Begins5(h, Ends \ {"CONST"})
      <3>1. Ends \ {"CONST"} \in SUBSET Ends /\ {"BEGIN"} \subseteq Ends \ {"CONST"}
        BY TokenSets, NoTokenIsNone
      <3>2. Begins5(h, {"BEGIN"})
        BY <2>1, TokenSets, BeginsGood
      <3> QED
        BY <3>1, <3>2, TokenSets, BeginsGood
    <2>4. Good(Cons("initialized", Cons(";", h)))
      BY <2>2, NamesAre, NamesGood
    <2>5. Explains(Start("CONST"), "CONST", Cons("initialized", Cons(";", h)), h)
      BY <2>3, <2>4, SymbolNames, ExplainsEach
    <2>6. Follows("InitDeclaratorList", Cons(";", h))
      <3>1. Begins0(Cons(";", h), {";"})
        BY <1>1, SymbolNames, TokenBegins
      <3> QED
        BY <2>2, <3>1 DEF Follows
    <2>7. Explains(Need("InitDeclaratorList"), "initialized", Cons(";", h), h)
      BY <2>6, NamesAre, ExplainsEach
    <2>8. Explains(Expect(";"), ";", h, h)
      BY <1>1, SymbolNames, ExplainsEach
    <2>9. Body(c) = <<Start("CONST"), Need("InitDeclaratorList"), Expect(";")>>
      BY <1>6 DEF Body, ConstantDeclaration
    <2>10. /\ Start("CONST") \in Blocks /\ Need("InitDeclaratorList") \in PlainBlocks
           /\ Expect(";") \in PlainBlocks
      BY BlocksAre, NamesAre, SymbolNames
    <2>11. "CONST" \in Symbol /\ "initialized" \in Symbol /\ ";" \in Symbol
      BY SymbolNames
    <2>12. Describes(<<Start("CONST"), Need("InitDeclaratorList"), Expect(";")>>, h, g)
      BY <1>1, <2>5, <2>7, <2>8, <2>10, <2>11, DescribesList
    <2>13. Body(c) # <<>> /\ Head(Body(c)).kind = "start"
      <3>1. Body(c) # <<>> /\ Head(Body(c)) = Start("CONST")
        BY <2>9, ListHead
      <3> QED
        BY <3>1 DEF Start, Block
    <2>14. /\ Language!Expansions(Cons("[constants]", h)) = {h, Cons("constants", h)}
           /\ Language!Expansions(Cons("constants", h)) = {g}
      BY <1>1, ExpandOption, ExpandNonterminal
    <2>15. Good(Cons("constants", h))
      BY <1>1, SymbolBegins, TokenSets, SymbolNames, BeginsGood
    <2>16. Good(Cons("[constants]", h))
      <3>1. Begins2(Cons("[constants]", h), {"CONST", "BEGIN"})
        BY <1>1, <2>1, OptionBegins
      <3> QED
        BY <3>1, TokenSets, BeginsGood
    <2> HIDE DEF g
    <2>17. Language!Leftmost({Cons("[constants]", h)}) =
              Language!Leftmost({h}) \cup Language!Leftmost({Cons("constants", h)})
      <3>1. {h, Cons("constants", h)} = {h} \cup {Cons("constants", h)}
        OBVIOUS
      <3> QED
        BY <1>2, <1>3, <2>14, <2>16, <3>1
    <2>18. Language!Leftmost({Cons("constants", h)}) = Language!Leftmost({g})
      BY <1>2, <2>14, <2>15
    <2>19. Language!Leftmost({g, h}) = Language!Leftmost({g}) \cup Language!Leftmost({h})
      <3>1. {g, h} = {g} \cup {h}
        OBVIOUS
      <3> QED
        BY <1>3, <3>1
    <2> QED
      BY <2>1, <2>2, <2>9, <2>12, <2>13, <2>17, <2>18, <2>19
  <1> QED
    BY <1>4, <1>5, <1>6 DEF Declarations

\* What is known of a block of each kind.
LEMMA ExplainsKind ==
  ASSUME NEW b, NEW s, NEW v, NEW u, Explains(b, s, v, u)
  PROVE  /\ b.kind = "need" =>
              b.class \in DOMAIN Names /\ s = Names[b.class] /\ Follows(b.class, v)
         /\ b.kind = "optional" =>
              /\ b.class \in Declarations /\ s = OptionNames[b.class]
              /\ Follows(b.class, v)
         /\ b.kind = "expect" => s \in Tokens /\ b.tokens = {s} /\ Good(v)
         /\ b.kind = "start" =>
              s \in Tokens /\ b.tokens = {s} /\ Good(v) /\ Begins5(u, Ends \ {s})
         /\ b.kind = "repeat" =>
              \/ /\ b = Repeat(",", "Identifier") /\ s = "{, identifier}"
                 /\ Begins0(v, {";"})
              \/ /\ b = Repeat(",", "InitDeclarator") /\ s = "{, declarator}"
                 /\ Begins0(v, {";"})
              \/ /\ b = Repeat(";", "Statement") /\ s = "{; statement}"
                 /\ Begins0(v, {"END"})
         /\ b.kind = "continue" =>
              \/ /\ b = Continue({"+", "-"}, "AdditiveExpression")
                 /\ s = "[+- additive]" /\ Follows("AdditiveExpression", v)
              \/ /\ b = Continue({"*", "/"}, "MultiplicativeExpression")
                 /\ s = "[*/ multiplicative]" /\ Follows("MultiplicativeExpression", v)
         /\ b.kind = "sign" => b = Sign /\ s = "[+-]" /\ Begins1(v, Operand)
         /\ b.kind = "branch" =>
              \/ /\ b = Branch({"RETURN", "identifier"}, "Statement")
                 /\ s = "statement" /\ Follows("Statement", v)
              \/ /\ b = Branch({"identifier", "literal", "("}, "PrimaryExpression")
                 /\ s = "primary" /\ Follows("PrimaryExpression", v)
  <1> DEFINE need == \E c \in DOMAIN Names : b = Need(c) /\ s = Names[c] /\ Follows(c, v)
             optional == \E c \in Declarations :
                            b = Optional(c) /\ s = OptionNames[c] /\ Follows(c, v)
             expect == \E t \in Tokens : b = Expect(t) /\ s = t /\ Good(v)
             start == \E t \in Tokens :
                         b = Start(t) /\ s = t /\ Good(v) /\ Begins5(u, Ends \ {t})
             repeat ==
                \/ b = Repeat(",", "Identifier") /\ s = "{, identifier}" /\ Begins0(v, {";"})
                \/ /\ b = Repeat(",", "InitDeclarator") /\ s = "{, declarator}"
                   /\ Begins0(v, {";"})
                \/ b = Repeat(";", "Statement") /\ s = "{; statement}" /\ Begins0(v, {"END"})
             continue ==
                \/ /\ b = Continue({"+", "-"}, "AdditiveExpression")
                   /\ s = "[+- additive]" /\ Follows("AdditiveExpression", v)
                \/ /\ b = Continue({"*", "/"}, "MultiplicativeExpression")
                   /\ s = "[*/ multiplicative]" /\ Follows("MultiplicativeExpression", v)
             sign == b = Sign /\ s = "[+-]" /\ Begins1(v, Operand)
             branch ==
                \/ /\ b = Branch({"RETURN", "identifier"}, "Statement")
                   /\ s = "statement" /\ Follows("Statement", v)
                \/ /\ b = Branch({"identifier", "literal", "("}, "PrimaryExpression")
                   /\ s = "primary" /\ Follows("PrimaryExpression", v)
  <1>1. \/ need \/ optional \/ expect \/ start \/ repeat \/ continue \/ sign \/ branch
    BY DEF Explains
  <1>2. need => /\ b.kind = "need" /\ b.class \in DOMAIN Names /\ s = Names[b.class]
                /\ Follows(b.class, v)
    BY DEF Need, Block
  <1>3. optional => /\ b.kind = "optional" /\ b.class \in Declarations
                    /\ s = OptionNames[b.class] /\ Follows(b.class, v)
    BY DEF Optional, Block
  <1>4. expect => b.kind = "expect" /\ s \in Tokens /\ b.tokens = {s} /\ Good(v)
    BY DEF Expect, Block
  <1>5. start => /\ b.kind = "start" /\ s \in Tokens /\ b.tokens = {s} /\ Good(v)
                 /\ Begins5(u, Ends \ {s})
    BY DEF Start, Block
  <1>6. repeat => b.kind = "repeat"
    <2>1. \A t, c : Repeat(t, c).kind = "repeat"
      BY DEF Repeat, Block
    <2> QED
      BY <2>1
  <1>7. continue => b.kind = "continue"
    <2>1. \A t, c : Continue(t, c).kind = "continue"
      BY DEF Continue, Block
    <2> QED
      BY <2>1
  <1>8. sign => b.kind = "sign"
    BY DEF Sign, Block
  <1>9. branch => b.kind = "branch"
    BY DEF Branch, Block
  <1> HIDE DEF need, optional, expect, start
  <1>10. b.kind = "repeat" => repeat
    BY <1>1, <1>2, <1>3, <1>4, <1>5, <1>7, <1>8, <1>9
  <1>11. b.kind = "continue" => continue
    BY <1>1, <1>2, <1>3, <1>4, <1>5, <1>6, <1>8, <1>9
  <1>12. b.kind = "sign" => sign
    BY <1>1, <1>2, <1>3, <1>4, <1>5, <1>6, <1>7, <1>9
  <1>13. b.kind = "branch" => branch
    BY <1>1, <1>2, <1>3, <1>4, <1>5, <1>6, <1>7, <1>8
  <1> HIDE DEF repeat, continue, sign, branch
  <1>14. b.kind = "need" => need
    BY <1>1, <1>3, <1>4, <1>5, <1>6, <1>7, <1>8, <1>9
  <1>15. b.kind = "optional" => optional
    BY <1>1, <1>2, <1>4, <1>5, <1>6, <1>7, <1>8, <1>9
  <1>16. b.kind = "expect" => expect
    BY <1>1, <1>2, <1>3, <1>5, <1>6, <1>7, <1>8, <1>9
  <1>17. b.kind = "start" => start
    BY <1>1, <1>2, <1>3, <1>4, <1>6, <1>7, <1>8, <1>9
  <1>18. b.kind = "need" => b.class \in DOMAIN Names /\ s = Names[b.class] /\ Follows(b.class, v)
    BY <1>2, <1>14
  <1>19. b.kind = "optional" => /\ b.class \in Declarations /\ s = OptionNames[b.class]
                                /\ Follows(b.class, v)
    BY <1>3, <1>15
  <1>20. b.kind = "expect" => s \in Tokens /\ b.tokens = {s} /\ Good(v)
    BY <1>4, <1>16
  <1>21. b.kind = "start" =>
            s \in Tokens /\ b.tokens = {s} /\ Good(v) /\ Begins5(u, Ends \ {s})
    BY <1>5, <1>17
  <1> QED
    BY <1>10, <1>11, <1>12, <1>13, <1>18, <1>19, <1>20, <1>21
       DEF repeat, continue, sign, branch

-----------------------------------------------------------------------------
(* What the grammar expects, and what the parser does.                     *)

\* F holds what the forms of G derive, and besides only forms that do not
\* begin with token a.
Expects(F, a, G) ==
    /\ Language!Leftmost(G) \subseteq F
    /\ \A f \in F \ Language!Leftmost(G) : First(f) # a
    /\ \A f \in F : Begins0(f, Ends)

\* Forms that do not begin with the token can be left out.
LEMMA ExpectsDrop ==
  ASSUME NEW F, NEW a, NEW G, NEW H, Expects(F, a, G \cup H),
         \A h \in H : Begins5(h, Ends \ {a})
  PROVE  Expects(F, a, G)
  <1>1. \A f \in Language!Leftmost(H) : First(f) # a
    <2>1. Ends \ {a} \in SUBSET Ends
      OBVIOUS
    <2> QED
      BY <2>1, LeftmostBegins DEF Begins0
  <1>2. Language!Leftmost(G \cup H) = Language!Leftmost(G) \cup Language!Leftmost(H)
    BY LeftmostUnion
  <1> QED
    BY <1>1, <1>2 DEF Expects

\* Forms that derive the same are expected the same.
LEMMA ExpectsSame ==
  ASSUME NEW F, NEW a, NEW G, NEW H, Expects(F, a, G),
         Language!Leftmost(H) = Language!Leftmost(G)
  PROVE  Expects(F, a, H)
  BY DEF Expects

\* When nothing that is expected begins with the token, nothing does.
LEMMA ExpectsOther ==
  ASSUME NEW F, NEW a, NEW G, Expects(F, a, G), \A g \in G : Begins5(g, Ends \ {a})
  PROVE  \A f \in F : First(f) # a
  <1>1. {} \cup G = G
    OBVIOUS
  <1>2. Expects(F, a, {})
    BY <1>1, ExpectsDrop
  <1> QED
    BY <1>2, LeftmostUnion DEF Expects

\* What begins with tokens of T does not begin with another one.
LEMMA BeginsWithout ==
  ASSUME NEW f, NEW T \in SUBSET Ends, NEW P, T \cap P = {},
         \/ Begins0(f, T) \/ Begins1(f, T) \/ Begins2(f, T)
         \/ Begins3(f, T) \/ Begins4(f, T) \/ Begins5(f, T)
  PROVE  Begins5(f, Ends \ P)
  <1>1. T \subseteq Ends \ P /\ Ends \ P \in SUBSET Ends
    OBVIOUS
  <1>2. Begins5(f, T)
    BY BeginsGood
  <1> QED
    BY <1>1, <1>2, BeginsGood

\* The token that is expected is there: what follows it is expected next.
LEMMA ExpectsToken ==
  ASSUME NEW F, NEW t \in Tokens, NEW v \in Forms, Good(v),
         Expects(F, t, {Cons(t, v)}), NEW a
  PROVE  Expects(Language!After(F, t), a, {v})
  <1> DEFINE c == Cons(t, v)
  <1>1. c \in Forms /\ c # <<>> /\ Head(c) = t /\ Tail(c) = v /\ Begins0(c, Ends)
    BY SymbolNames, ConsIs, TokenBegins, TokenSets
  <1>2. Language!Leftmost({c}) = {c}
    BY <1>1, LeftmostBegun
  <1> HIDE DEF c
  <1>3. c \in F /\ \A f \in F : f # c => First(f) # t
    BY <1>2 DEF Expects, c
  <1>4. {f \in F \ {<<>>} : Head(f) = t} = {c}
    BY <1>1, <1>3 DEF First
  <1>5. {Tail(f) : f \in {f \in F \ {<<>>} : Head(f) = t}} = {v}
    BY <1>1, <1>4
  <1>6. Language!After(F, t) = Language!Leftmost({v})
    BY <1>5 DEF Language!After
  <1>7. \A f \in Language!Leftmost({v}) : Begins0(f, Ends)
    BY LeftmostBegins DEF Good
  <1> QED
    BY <1>6, <1>7 DEF Expects

\* An option: one of some tokens and then x, or v, which begins with none of
\* them.
LEMMA ExpectsChoice ==
  ASSUME NEW F, NEW a, NEW P \in SUBSET Tokens, NEW v \in Forms, NEW x \in Forms,
         Begins5(v, Ends \ P), Good(x),
         Expects(F, a, {v} \cup {Cons(t, x) : t \in P})
  PROVE  /\ a \notin P => Expects(F, a, {v})
         /\ a \in P => \A b : Expects(Language!After(F, a), b, {x})
  <1>1. \A t \in P : t # a => Begins5(Cons(t, x), Ends \ {a})
    <2> SUFFICES ASSUME NEW t \in P, t # a PROVE Begins5(Cons(t, x), Ends \ {a})
      OBVIOUS
    <2>1. Begins0(Cons(t, x), {t}) /\ {t} \in SUBSET Ends /\ {t} \cap {a} = {}
      BY TokenBegins, TokenSets
    <2> QED
      BY <2>1, BeginsWithout
  <1>2. ASSUME a \notin P
        PROVE  Expects(F, a, {v})
    <2> DEFINE H == {Cons(t, x) : t \in P}
    <2>1. \A h \in H : Begins5(h, Ends \ {a})
      BY <1>1, <1>2
    <2> HIDE DEF H
    <2>2. Expects(F, a, {v} \cup H)
      BY DEF H
    <2> QED
      BY <2>1, <2>2, ExpectsDrop
  <1>3. ASSUME a \in P, NEW b
        PROVE  Expects(Language!After(F, a), b, {x})
    <2> DEFINE H == {v} \cup {Cons(t, x) : t \in P \ {a}}
    <2>1. {v} \cup {Cons(t, x) : t \in P} = {Cons(a, x)} \cup H
      BY <1>3
    <2>2. Begins5(v, Ends \ {a})
      <3>1. Ends \ P \in SUBSET Ends /\ Ends \ {a} \in SUBSET Ends
            /\ Ends \ P \subseteq Ends \ {a}
        BY <1>3
      <3> QED
        BY <3>1, BeginsGood
    <2>3. \A h \in H : Begins5(h, Ends \ {a})
      BY <1>1, <2>2
    <2> HIDE DEF H
    <2>4. Expects(F, a, {Cons(a, x)})
      BY <2>1, <2>3, ExpectsDrop
    <2> QED
      BY <1>3, <2>4, ExpectsToken
  <1> QED
    BY <1>2, <1>3

\* The innermost activation looks for a keyword that may be missing.
AtStart == Top.rest # <<>> /\ Current.kind = "start"

\* What the grammar should expect when u is left after the innermost
\* activation, and g before the rest of it.
Goals(u, g) == IF answer # "none" THEN {u}
               ELSE IF AtStart THEN {g, u} ELSE {g}

\* No message yet: the activations describe what the grammar expects.
OnCourse ==
    \E u, g \in Forms :
        /\ StackOf(Front(frames), u)
        /\ Describes(Top.rest, u, g)
        /\ Follows(Top.class, u)
        /\ answer = "true" => Top.rest = <<>>
        /\ Expects(forms, ahead, Goals(u, g))

\* No way to go on begins with the next token.
Refused == \A f \in forms : First(f) # ahead

Outcome ==
    /\ errors = 0 /\ verdict = "parsing" => OnCourse
    /\ errors > 0 \/ verdict = "aborted" => Refused
    /\ verdict = "accepted" /\ errors = 0 => IsWord
    /\ errors = 1 /\ verdict = "parsing" /\ answer = "false" =>
          AtStart \/ wanted \subseteq Language!Viable(forms)
    /\ AdviceIsViable

\* forms is changed by the consumption of a token.
Watch == forms' = IF consumed' = consumed THEN forms ELSE Language!After(forms, ahead)

\* Refused says what the property says.
LEMMA RefusedIs ==
  Refused <=> ahead \notin Language!Viable(forms) /\ ~IsWord
  <1>1. Refused => ahead \notin Language!Viable(forms) /\ ~IsWord
    BY DEF Refused, First, Language!Viable, IsWord
  <1>2. ahead \notin Language!Viable(forms) /\ ~IsWord => Refused
    BY DEF Refused, First, Language!Viable, IsWord
  <1> QED
    BY <1>1, <1>2

\* Once a text is refused it stays refused.
LEMMA RefusedStays ==
  ASSUME Refused, Watch, (consumed' = consumed) => (ahead' = ahead)
  PROVE  Refused'
  <1>1. CASE consumed' = consumed
    BY <1>1 DEF Refused, Watch
  <1>2. CASE consumed' # consumed
    <2>1. {f \in forms \ {<<>>} : Head(f) = ahead} = {}
      BY DEF Refused, First
    <2>2. {Tail(f) : f \in {f \in forms \ {<<>>} : Head(f) = ahead}} = {}
      BY <2>1
    <2>3. forms' = {}
      BY <1>2, <2>2, LeftmostUnion DEF Watch, Language!After
    <2> QED
      BY <2>3 DEF Refused
  <1> QED
    BY <1>1, <1>2

\* The innermost activation goes on with other blocks.
LEMMA ResumeCourse ==
  ASSUME ParserInv, answer = "none", answer' = answer,
         NEW u \in Forms, StackOf(Front(frames), u), Follows(Top.class, u),
         NEW rest, Resume(rest), rest = <<>> \/ Head(rest).kind # "start",
         NEW g, Describes(rest, u, g), Expects(forms', ahead', {g})
  PROVE  OnCourse'
  <1> DEFINE t == Frame(Top.class, rest)
  <1>1. frames \in Seq(Frames) /\ frames # <<>>
    BY DEF ParserInv, TypeOK
  <1>2. Front(frames) \in Seq(Frames) /\ Top \in Frames
    BY <1>1, FrontIs DEF Top
  <1>3. rest \in Seq(Blocks) /\ g \in Forms
    BY DEF Describes
  <1>4. t \in Frames /\ t.class = Top.class /\ t.rest = rest
    BY <1>2, <1>3 DEF Frame, Frames
  <1>5. frames' = Append(Front(frames), t)
    BY DEF Resume
  <1> HIDE DEF t
  <1>6. Front(frames') = Front(frames) /\ Last(frames') = t
    BY <1>2, <1>4, <1>5, StackTop
  <1>7. Top' = t /\ Top'.rest = rest /\ Top'.class = Top.class
    BY <1>4, <1>6 DEF Top
  <1>8. ~AtStart'
    BY <1>7 DEF AtStart, Current
  <1>9. Goals(u, g)' = {g}
    BY <1>8 DEF Goals
  <1>10. StackOf(Front(frames'), u) /\ Describes(Top'.rest, u, g) /\ Follows(Top'.class, u)
    BY <1>6, <1>7
  <1> QED
    BY <1>3, <1>9, <1>10 DEF OnCourse

-----------------------------------------------------------------------------
(* The steps while there is no message.                                    *)

\* The situation of the innermost activation before a block.
LEMMA AtBlock ==
  ASSUME ParserInv, OnCourse, answer = "none", Top.rest # <<>>
  PROVE  \E u, v \in Forms, s \in Symbol :
            /\ StackOf(Front(frames), u) /\ Follows(Top.class, u) /\ Good(u)
            /\ Describes(Tail(Top.rest), u, v) /\ Good(v)
            /\ Describes(Top.rest, u, Cons(s, v)) /\ Good(Cons(s, v))
            /\ Explains(Current, s, v, u)
            /\ Expects(forms, ahead, IF Current.kind = "start" THEN {Cons(s, v), u}
                                     ELSE {Cons(s, v)})
            /\ ~HasStart(Tail(Top.rest))
            /\ Tail(Top.rest) = <<>> \/ Head(Tail(Top.rest)).kind # "start"
  <1>1. PICK u \in Forms, g \in Forms :
           /\ StackOf(Front(frames), u)
           /\ Describes(Top.rest, u, g)
           /\ Follows(Top.class, u)
           /\ Expects(forms, ahead, Goals(u, g))
    BY DEF OnCourse
  <1>2. Good(u)
    BY <1>1, FollowsGood
  <1>3. PICK s \in Symbol, v \in Forms :
           /\ Describes(Tail(Top.rest), u, v)
           /\ g = Cons(s, v)
           /\ Explains(Current, s, v, u)
    BY <1>1, DescribesTail DEF Current
  <1>4. Good(v) /\ Good(Cons(s, v))
    BY <1>1, <1>2, <1>3, DescribesGood
  <1>5. ~HasStart(Tail(Top.rest))
    BY <1>1, DescribesTail
  <1>6. Tail(Top.rest) = <<>> \/ Head(Tail(Top.rest)).kind # "start"
    <2> DEFINE r == Tail(Top.rest)
    <2>1. r \in Seq(Blocks)
      BY <1>3 DEF Describes
    <2> HIDE DEF r
    <2>2. r # <<>> => Head(r) = r[1] /\ 1 \in DOMAIN r
      BY <2>1
    <2> QED
      BY <1>5, <2>2 DEF HasStart, r
  <1>7. Goals(u, g) = IF Current.kind = "start" THEN {Cons(s, v), u} ELSE {Cons(s, v)}
    BY <1>3 DEF Goals, AtStart
  <1> QED
    BY <1>1, <1>2, <1>3, <1>4, <1>5, <1>6, <1>7

\* Without a message the outcome is still open.
LEMMA CourseOutcome ==
  ASSUME errors' = 0, verdict' = "parsing", OnCourse'
  PROVE  Outcome'
  BY DEF Outcome, AdviceIsViable

\* The first message is right, and names tokens that are expected.
LEMMA RefuseOutcome ==
  ASSUME errors = 0, verdict = "parsing", Refuse, Watch, Refused,
         Current.tokens \subseteq Language!Viable(forms)
  PROVE  Outcome'
  <1>1. /\ errors' = 1 /\ wanted' = Current.tokens /\ verdict' = "parsing"
        /\ ahead' = ahead /\ consumed' = consumed
    BY DEF Refuse, Return
  <1>2. forms' = forms
    BY <1>1 DEF Watch
  <1>3. Refused'
    BY <1>1, <1>2 DEF Refused
  <1>4. wanted' \subseteq Language!Viable(forms')
    BY <1>1, <1>2
  <1> QED
    BY <1>1, <1>3, <1>4 DEF Outcome, AdviceIsViable

\* A token is consumed, and the forms are the ones after it.
LEMMA ConsumeWatch ==
  ASSUME TypeOK, Consume, Watch
  PROVE  forms' = Language!After(forms, ahead)
  BY DEF TypeOK, Consume, Watch

\* A stack is its last activation on the others.
LEMMA StackIs ==
  ASSUME NEW s \in Seq(Frames), s # <<>>
  PROVE  /\ s = Append(Front(s), Last(s))
         /\ Front(s) \in Seq(Frames) /\ Last(s) \in Frames
  <1>1. /\ Len(s) \in Nat /\ Len(s) >= 1
        /\ Last(s) \in Frames /\ Last(s) = s[Len(s)]
        /\ Front(s) \in Seq(Frames) /\ Len(Front(s)) = Len(s) - 1
        /\ \A i \in 1 .. Len(s) - 1 : Front(s)[i] = s[i]
    BY FrontIs
  <1> DEFINE t == Append(Front(s), Last(s))
  <1>2. /\ t \in Seq(Frames) /\ Len(t) = Len(Front(s)) + 1
        /\ t[Len(Front(s)) + 1] = Last(s)
        /\ \A i \in 1 .. Len(Front(s)) : t[i] = Front(s)[i]
    BY <1>1, AppendIs
  <1> HIDE DEF t
  <1>3. Len(t) = Len(s) /\ \A i \in 1 .. Len(s) : t[i] = s[i]
    BY <1>1, <1>2
  <1>4. t = s
    BY <1>2, <1>3, SeqEqual
  <1> QED
    BY <1>1, <1>4 DEF t

\* A child is entered: its blocks derive what its symbol does.
LEMMA EnterCourse ==
  ASSUME ParserInv, OnCourse, errors = 0, verdict = "parsing", Enter, Watch
  PROVE  Outcome'
  <1>1. /\ answer = "none" /\ Top.rest # <<>> /\ Current.kind \in {"need", "optional"}
        /\ frames' = Append(frames, Activation(Current.class))
        /\ ahead' = ahead /\ consumed' = consumed /\ answer' = "none"
        /\ errors' = 0 /\ verdict' = "parsing"
    BY DEF Enter, At
  <1>2. forms' = forms
    BY <1>1 DEF Watch
  <1>3. frames \in Seq(Frames) /\ frames # <<>> /\ TypeOK
    BY DEF ParserInv, TypeOK
  <1>4. PICK u \in Forms, v \in Forms, s \in Symbol :
           /\ StackOf(Front(frames), u) /\ Follows(Top.class, u)
           /\ Describes(Tail(Top.rest), u, v)
           /\ Explains(Current, s, v, u)
           /\ Expects(forms, ahead, {Cons(s, v)})
           /\ ~HasStart(Tail(Top.rest))
    BY <1>1, AtBlock
  <1> DEFINE class == Current.class
             a == Activation(class)
  <1>5. Top \in Frames /\ frames = Append(Front(frames), Top)
    BY <1>3, StackIs DEF Top
  <1>6. StackOf(frames, v)
    BY <1>4, <1>5, StackPush
  <1>7. /\ Current.kind = "need" => class \in DOMAIN Names /\ s = Names[class]
                                    /\ Follows(class, v)
        /\ Current.kind = "optional" => class \in Declarations /\ s = OptionNames[class]
                                        /\ Follows(class, v)
    BY <1>4, ExplainsKind
  <1>8. class \in Classes
    BY <1>1, <1>7, NamesAre DEF Declarations, Classes
  <1>9. a \in Frames /\ a.class = class /\ a.rest = Body(class)
    BY <1>8, BodyType DEF Activation, Frame, Frames
  <1> HIDE DEF a, class
  <1>10. Front(frames') = frames /\ Last(frames') = a
    BY <1>1, <1>3, <1>9, StackTop DEF a, class
  <1>11. Top' = a /\ Top'.rest = Body(class) /\ Top'.class = class
    BY <1>9, <1>10 DEF Top
  <1>12. Current' = Head(Body(class))
    BY <1>11 DEF Current
  <1>13. Follows(class, v)
    BY <1>1, <1>7
  <1>14. CASE Current.kind = "need"
    <2>1. PICK g \in Forms :
             /\ Describes(Body(class), v, g)
             /\ Language!Leftmost({g}) = Language!Leftmost({Cons(s, v)})
             /\ ~HasStart(Body(class))
      BY <1>7, <1>14, BodyDescribes
    <2>2. Expects(forms, ahead, {g})
      BY <1>4, <2>1, ExpectsSame
    <2>3. Body(class) \in Seq(Blocks)
      BY <2>1 DEF Describes
    <2>4. Body(class) # <<>> => Head(Body(class)).kind # "start"
      <3> DEFINE r == Body(class)
      <3> HIDE DEF r
      <3>1. r \in Seq(Blocks) /\ ~HasStart(r)
        BY <2>1, <2>3 DEF r
      <3>2. r # <<>> => Head(r) = r[1] /\ 1 \in DOMAIN r
        BY <3>1
      <3> QED
        BY <3>1, <3>2 DEF HasStart, r
    <2>5. ~AtStart'
      BY <1>11, <1>12, <2>4 DEF AtStart
    <2>6. Goals(v, g)' = {g}
      BY <1>1, <2>5 DEF Goals
    <2>7. OnCourse'
      BY <1>1, <1>2, <1>6, <1>10, <1>11, <1>13, <2>1, <2>2, <2>6 DEF OnCourse
    <2> QED
      BY <1>1, <2>7, CourseOutcome
  <1>15. CASE Current.kind = "optional"
    <2>1. PICK g \in Forms :
             /\ Describes(Body(class), v, g)
             /\ Body(class) # <<>> /\ Head(Body(class)).kind = "start"
             /\ Language!Leftmost({g, v}) = Language!Leftmost({Cons(s, v)})
      BY <1>7, <1>15, DeclarationDescribes
    <2>2. Expects(forms, ahead, {g, v})
      BY <1>4, <2>1, ExpectsSame
    <2>3. AtStart'
      BY <1>11, <1>12, <2>1 DEF AtStart
    <2>4. Goals(v, g)' = {g, v}
      BY <1>1, <2>3 DEF Goals
    <2>5. OnCourse'
      BY <1>1, <1>2, <1>6, <1>10, <1>11, <1>13, <2>1, <2>2, <2>4 DEF OnCourse
    <2> QED
      BY <1>1, <2>5, CourseOutcome
  <1> QED
    BY <1>1, <1>14, <1>15

\* The token is there, or nothing else can come.
LEMMA ExpectCourse ==
  ASSUME ParserInv, OnCourse, errors = 0, verdict = "parsing", ExpectToken, Watch
  PROVE  Outcome'
  <1>1. answer = "none" /\ Top.rest # <<>> /\ Current.kind = "expect"
    BY DEF ExpectToken, At
  <1>2. TypeOK
    BY DEF ParserInv
  <1>3. PICK u \in Forms, v \in Forms, s \in Symbol :
           /\ StackOf(Front(frames), u) /\ Follows(Top.class, u)
           /\ Describes(Tail(Top.rest), u, v)
           /\ Explains(Current, s, v, u)
           /\ Expects(forms, ahead, {Cons(s, v)})
           /\ Tail(Top.rest) = <<>> \/ Head(Tail(Top.rest)).kind # "start"
    BY <1>1, AtBlock
  <1>4. s \in Tokens /\ Current.tokens = {s} /\ Good(v)
    BY <1>1, <1>3, ExplainsKind
  <1>5. CASE /\ ahead \in Current.tokens /\ Consume /\ Resume(Tail(Top.rest))
             /\ UNCHANGED <<answer, errors, wanted, verdict>>
    <2>1. forms' = Language!After(forms, ahead) /\ ahead = s
      BY <1>2, <1>4, <1>5, ConsumeWatch
    <2>2. Expects(forms', ahead', {v})
      BY <1>3, <1>4, <2>1, ExpectsToken
    <2>3. OnCourse'
      BY <1>1, <1>3, <1>5, <2>2, ResumeCourse
    <2> QED
      BY <1>5, <2>3, CourseOutcome
  <1>6. CASE ahead \notin Current.tokens /\ Refuse
    <2>1. /\ Begins0(Cons(s, v), {s}) /\ {s} \in SUBSET Ends
          /\ {s} \cap {ahead} = {} /\ Begins0(Cons(s, v), Ends)
      BY <1>4, <1>6, TokenBegins, TokenSets
    <2>2. Begins5(Cons(s, v), Ends \ {ahead})
      BY <2>1, BeginsWithout
    <2>3. Refused
      <3> DEFINE G == {Cons(s, v)}
      <3>1. Expects(forms, ahead, G) /\ \A g \in G : Begins5(g, Ends \ {ahead})
        BY <1>3, <2>2
      <3> HIDE DEF G
      <3> QED
        BY <3>1, ExpectsOther DEF Refused
    <2>4. Cons(s, v) \in forms
      BY <1>3, <2>1, LeftmostBegun DEF Expects
    <2>5. s \in Language!Viable(forms)
      BY <2>4, ConsIs DEF Language!Viable
    <2> QED
      BY <1>4, <1>6, <2>3, <2>5, RefuseOutcome
  <1> QED
    BY <1>5, <1>6 DEF ExpectToken

\* The keyword is there, or the declaration is left out.
LEMMA StartCourse ==
  ASSUME ParserInv, OnCourse, errors = 0, verdict = "parsing", StartDeclaration, Watch
  PROVE  Outcome'
  <1>1. answer = "none" /\ Top.rest # <<>> /\ Current.kind = "start"
    BY DEF StartDeclaration, At
  <1>2. TypeOK
    BY DEF ParserInv
  <1>3. PICK u \in Forms, v \in Forms, s \in Symbol :
           /\ StackOf(Front(frames), u) /\ Follows(Top.class, u)
           /\ Describes(Tail(Top.rest), u, v)
           /\ Describes(Top.rest, u, Cons(s, v))
           /\ Explains(Current, s, v, u)
           /\ Expects(forms, ahead, {Cons(s, v), u})
           /\ Tail(Top.rest) = <<>> \/ Head(Tail(Top.rest)).kind # "start"
    BY <1>1, AtBlock
  <1>4. s \in Tokens /\ Current.tokens = {s} /\ Good(v) /\ Begins5(u, Ends \ {s})
    BY <1>1, <1>3, ExplainsKind
  <1> DEFINE c == Cons(s, v)
  <1>5. Begins0(c, {s}) /\ {s} \in SUBSET Ends /\ c \in Forms
    BY <1>4, TokenBegins, TokenSets
  <1>6. Expects(forms, ahead, {c} \cup {u}) /\ Expects(forms, ahead, {u} \cup {c})
    <2>1. {c} \cup {u} = {c, u} /\ {u} \cup {c} = {c, u}
      OBVIOUS
    <2> QED
      BY <1>3, <2>1
  <1> HIDE DEF c
  <1>7. CASE /\ ahead \in Current.tokens /\ Consume /\ Resume(Tail(Top.rest))
             /\ UNCHANGED <<answer, errors, wanted, verdict>>
    <2>1. forms' = Language!After(forms, ahead) /\ ahead = s
      BY <1>2, <1>4, <1>7, ConsumeWatch
    <2>2. Expects(forms, ahead, {c})
      <3> DEFINE G == {c}
                 H == {u}
      <3>1. Expects(forms, ahead, G \cup H) /\ \A h \in H : Begins5(h, Ends \ {ahead})
        BY <1>4, <1>6, <2>1
      <3> HIDE DEF G, H
      <3>2. Expects(forms, ahead, G)
        BY <3>1, ExpectsDrop
      <3> QED
        BY <3>2 DEF G
    <2>3. Expects(forms', ahead', {v})
      BY <1>4, <2>1, <2>2, ExpectsToken DEF c
    <2>4. OnCourse'
      BY <1>1, <1>3, <1>7, <2>3, ResumeCourse
    <2> QED
      BY <1>7, <2>4, CourseOutcome
  <1>8. CASE /\ ahead \notin Current.tokens /\ Return("false")
             /\ UNCHANGED <<errors, wanted>>
    <2>1. {s} \cap {ahead} = {}
      BY <1>4, <1>8
    <2>2. Begins5(c, Ends \ {ahead})
      BY <1>5, <2>1, BeginsWithout
    <2>3. Expects(forms, ahead, {u})
      BY <1>6, <2>2, ExpectsDrop
    <2>4. /\ ahead' = ahead /\ consumed' = consumed /\ frames' = frames
          /\ verdict' = verdict /\ answer' = "false" /\ errors' = errors
      BY <1>8 DEF Return
    <2>5. forms' = forms /\ Top' = Top
      BY <2>4 DEF Watch, Top
    <2>6. Goals(u, c)' = {u}
      BY <2>4 DEF Goals
    <2>7. OnCourse'
      BY <1>3, <1>5, <2>3, <2>4, <2>5, <2>6 DEF OnCourse, c
    <2> QED
      BY <2>4, <2>7, CourseOutcome
  <1> QED
    BY <1>7, <1>8 DEF StartDeclaration

\* Blocks put before others.
LEMMA ListBefore ==
  ASSUME NEW rest \in Seq(Blocks)
  PROVE  /\ \A b \in Blocks : <<b>> \o rest = Cons(b, rest)
         /\ \A b, c \in Blocks : <<b, c>> \o rest = Cons(b, Cons(c, rest))
         /\ \A b, c, d \in Blocks :
               <<b, c, d>> \o rest = Cons(b, Cons(c, Cons(d, rest)))
  <1>1. ASSUME NEW b
        PROVE  <<b>> \o rest = Cons(b, rest)
    BY Zenon DEF Cons
  <1>2. \A b \in Blocks, p \in Seq(Blocks) : Cons(b, p) \o rest = Cons(b, p \o rest)
    <2> SUFFICES ASSUME NEW b \in Blocks, NEW p \in Seq(Blocks)
                 PROVE  Cons(b, p) \o rest = Cons(b, p \o rest)
      OBVIOUS
    <2> QED
      BY ConsConcat
  <1>3. ASSUME NEW b \in Blocks, NEW c \in Blocks
        PROVE  <<b, c>> \o rest = Cons(b, Cons(c, rest))
    <2> DEFINE p == <<c>>
    <2>1. p \in Seq(Blocks) /\ <<b, c>> = Cons(b, p)
      BY ListType, ConsTuple2
    <2> HIDE DEF p
    <2>2. Cons(b, p) \o rest = Cons(b, p \o rest)
      BY <1>2, <2>1
    <2> QED
      BY <1>1, <2>1, <2>2 DEF p
  <1>4. ASSUME NEW b \in Blocks, NEW c \in Blocks, NEW d \in Blocks
        PROVE  <<b, c, d>> \o rest = Cons(b, Cons(c, Cons(d, rest)))
    <2> DEFINE p == <<c, d>>
    <2>1. p \in Seq(Blocks) /\ <<b, c, d>> = Cons(b, p)
      BY ListType, ConsTuple3
    <2> HIDE DEF p
    <2>2. Cons(b, p) \o rest = Cons(b, p \o rest)
      BY <1>2, <2>1
    <2>3. p \o rest = Cons(c, Cons(d, rest))
      BY <1>3 DEF p
    <2> QED
      BY <2>1, <2>2, <2>3 DEF p
  <1> QED
    BY Zenon, <1>1, <1>3, <1>4

\* A list starts a declaration only in its blocks.
LEMMA StartsAre ==
  ASSUME NEW rest \in Seq(Blocks), ~HasStart(rest)
  PROVE  /\ rest = <<>> \/ Head(rest).kind # "start"
         /\ \A b \in Blocks : b.kind # "start" => ~HasStart(Cons(b, rest))
  <1>1. rest # <<>> => Head(rest) = rest[1] /\ 1 \in DOMAIN rest
    OBVIOUS
  <1>2. ASSUME NEW b \in Blocks, b.kind # "start"
        PROVE  ~HasStart(Cons(b, rest))
    <2> DEFINE t == Cons(b, rest)
    <2>1. /\ t \in Seq(Blocks) /\ Len(t) = Len(rest) + 1 /\ t[1] = b
          /\ \A i \in 1 .. Len(rest) : t[i + 1] = rest[i]
      BY ConsSeq
    <2> HIDE DEF t
    <2>2. ASSUME NEW j \in DOMAIN t, t[j].kind = "start"
          PROVE  FALSE
      <3>1. j \in 1 .. Len(rest) + 1 /\ j # 1
        BY <1>2, <2>1, <2>2
      <3>2. j - 1 \in 1 .. Len(rest) /\ t[j] = rest[j - 1]
        <4>1. j - 1 \in 1 .. Len(rest) /\ (j - 1) + 1 = j
          BY <3>1
        <4> QED
          BY <2>1, <4>1
      <3>3. j - 1 \in DOMAIN rest
        BY <3>2
      <3> QED
        BY <2>2, <3>2, <3>3 DEF HasStart
    <2> QED
      BY <2>2 DEF HasStart, t
  <1> QED
    BY <1>1, <1>2 DEF HasStart

\* A child or a token before what is described.
LEMMA DescribesMore ==
  ASSUME NEW rest, NEW u, NEW v, Describes(rest, u, v), ~HasStart(rest)
  PROVE  /\ \A c \in DOMAIN Names : Follows(c, v) =>
              LET more == Cons(Need(c), rest)
              IN /\ more \in Seq(Blocks) /\ ~HasStart(more)
                 /\ more = <<>> \/ Head(more).kind # "start"
                 /\ Describes(more, u, Cons(Names[c], v))
         /\ \A c \in Declarations : Follows(c, v) =>
              LET more == Cons(Optional(c), rest)
              IN /\ more \in Seq(Blocks) /\ ~HasStart(more)
                 /\ more = <<>> \/ Head(more).kind # "start"
                 /\ Describes(more, u, Cons(OptionNames[c], v))
         /\ \A t \in Tokens : Good(v) =>
              LET more == Cons(Expect(t), rest)
              IN /\ more \in Seq(Blocks) /\ ~HasStart(more)
                 /\ more = <<>> \/ Head(more).kind # "start"
                 /\ Describes(more, u, Cons(t, v))
  <1>1. rest \in Seq(Blocks) /\ u \in Forms /\ v \in Forms
    BY DEF Describes
  <1>2. \A b \in Blocks, s \in Symbol : b.kind # "start" /\ Explains(b, s, v, u) =>
           LET more == Cons(b, rest)
           IN /\ more \in Seq(Blocks) /\ ~HasStart(more)
              /\ more = <<>> \/ Head(more).kind # "start"
              /\ Describes(more, u, Cons(s, v))
    <2> SUFFICES ASSUME NEW b \in Blocks, NEW s \in Symbol, b.kind # "start",
                        Explains(b, s, v, u)
                 PROVE  /\ Cons(b, rest) \in Seq(Blocks) /\ ~HasStart(Cons(b, rest))
                        /\ Head(Cons(b, rest)).kind # "start"
                        /\ Describes(Cons(b, rest), u, Cons(s, v))
      OBVIOUS
    <2>1. Cons(b, rest) \in Seq(Blocks) /\ Head(Cons(b, rest)) = b
      BY <1>1, ConsSeq
    <2>2. ~HasStart(Cons(b, rest))
      BY <1>1, StartsAre
    <2>3. Describes(Cons(b, rest), u, Cons(s, v))
      BY DescribesCons
    <2> QED
      BY <2>1, <2>2, <2>3
  <1>3. \A c \in DOMAIN Names :
           /\ Need(c) \in Blocks /\ Need(c).kind # "start" /\ Names[c] \in Symbol
           /\ Follows(c, v) => Explains(Need(c), Names[c], v, u)
    BY <1>1, BlocksAre, ExplainsEach, NamesGood DEF Need, Block
  <1>4. \A t \in Tokens :
           /\ Expect(t) \in Blocks /\ Expect(t).kind # "start" /\ t \in Symbol
           /\ Good(v) => Explains(Expect(t), t, v, u)
    BY <1>1, BlocksAre, ExplainsEach, SymbolNames DEF Expect, Block
  <1>5. ASSUME NEW c \in DOMAIN Names, Follows(c, v)
        PROVE  LET more == Cons(Need(c), rest)
               IN /\ more \in Seq(Blocks) /\ ~HasStart(more)
                  /\ more = <<>> \/ Head(more).kind # "start"
                  /\ Describes(more, u, Cons(Names[c], v))
    BY <1>2, <1>3, <1>5
  <1>6. ASSUME NEW t \in Tokens, Good(v)
        PROVE  LET more == Cons(Expect(t), rest)
               IN /\ more \in Seq(Blocks) /\ ~HasStart(more)
                  /\ more = <<>> \/ Head(more).kind # "start"
                  /\ Describes(more, u, Cons(t, v))
    BY <1>2, <1>4, <1>6
  <1>7. \A c \in Declarations :
           /\ Optional(c) \in Blocks /\ Optional(c).kind # "start"
           /\ OptionNames[c] \in Symbol
           /\ Follows(c, v) => Explains(Optional(c), OptionNames[c], v, u)
    <2>1. \A c \in Declarations : OptionNames[c] \in Symbol
      <3>1. /\ "[constants]" \in Symbol /\ "[variables]" \in Symbol
            /\ "[parameters]" \in Symbol
        BY SymbolNames
      <3> QED
        BY <3>1, NamesAre DEF Declarations
    <2> QED
      BY <1>1, <2>1, BlocksAre, ExplainsEach DEF Optional, Block
  <1>8. ASSUME NEW c \in Declarations, Follows(c, v)
        PROVE  LET more == Cons(Optional(c), rest)
               IN /\ more \in Seq(Blocks) /\ ~HasStart(more)
                  /\ more = <<>> \/ Head(more).kind # "start"
                  /\ Describes(more, u, Cons(OptionNames[c], v))
    BY <1>2, <1>7, <1>8
  <1> QED
    BY <1>5, <1>6, <1>8

\* A choice between a token and going on.
LEMMA ChoiceCourse ==
  ASSUME ParserInv, errors = 0, verdict = "parsing", answer = "none", Watch,
         UNCHANGED <<answer, errors, wanted, verdict>>,
         NEW u \in Forms, StackOf(Front(frames), u), Follows(Top.class, u),
         NEW v \in Forms, Describes(Tail(Top.rest), u, v),
         Tail(Top.rest) = <<>> \/ Head(Tail(Top.rest)).kind # "start",
         NEW P \in SUBSET Tokens, Begins5(v, Ends \ P),
         NEW x \in Forms, Good(x),
         Expects(forms, ahead, {v} \cup {Cons(t, x) : t \in P}),
         NEW more, Describes(more, u, x), more = <<>> \/ Head(more).kind # "start",
         \/ ahead \in P /\ Consume /\ Resume(more)
         \/ /\ ahead \notin P /\ Resume(Tail(Top.rest))
            /\ UNCHANGED <<ahead, consumed>>
  PROVE  Outcome'
  <1>1. /\ ahead \notin P => Expects(forms, ahead, {v})
        /\ ahead \in P => \A b : Expects(Language!After(forms, ahead), b, {x})
    BY ExpectsChoice
  <1>2. CASE ahead \in P /\ Consume /\ Resume(more)
    <2>1. forms' = Language!After(forms, ahead)
      BY <1>2, ConsumeWatch DEF ParserInv
    <2>2. Expects(forms', ahead', {x})
      BY <1>1, <1>2, <2>1
    <2>3. OnCourse'
      BY <1>2, <2>2, ResumeCourse
    <2> QED
      BY <2>3, CourseOutcome
  <1>3. CASE /\ ahead \notin P /\ Resume(Tail(Top.rest))
             /\ UNCHANGED <<ahead, consumed>>
    <2>1. forms' = forms /\ ahead' = ahead
      BY <1>3 DEF Watch
    <2>2. Expects(forms', ahead', {v})
      BY <1>1, <1>3, <2>1
    <2>3. OnCourse'
      BY <1>3, <2>2, ResumeCourse
    <2> QED
      BY <2>3, CourseOutcome
  <1> QED
    BY <1>2, <1>3

\* A loop over children between separators: once more, or on.
LEMMA RepeatMore ==
  ASSUME NEW s, NEW v \in Forms, NEW u, Explains(Current, s, v, u),
         Current.kind = "repeat"
  PROVE  /\ Current.class \in DOMAIN Names /\ s \in Symbol
         /\ Follows(Current.class, Cons(s, v))
         /\ \E P \in SUBSET Tokens :
               /\ P = Current.tokens
               /\ Begins5(v, Ends \ P)
               /\ Language!Leftmost({Cons(s, v)}) =
                     Language!Leftmost({v} \cup
                        {Cons(t, Cons(Names[Current.class], Cons(s, v))) : t \in P})
  <1> DEFINE f == Cons(s, v)
             goal(c, t) ==
                /\ c \in DOMAIN Names /\ s \in Symbol /\ Follows(c, f)
                /\ {t} \in SUBSET Tokens /\ Begins5(v, Ends \ {t})
                /\ Language!Leftmost({f}) =
                      Language!Leftmost({v} \cup {Cons(q, Cons(Names[c], f)) : q \in {t}})
  <1>1. /\ {",", ";"} \in SUBSET Ends /\ {";", "END"} \in SUBSET Ends
        /\ {";"} \in SUBSET Ends /\ {"END"} \in SUBSET Ends
        /\ Tokens \in SUBSET Ends
        /\ "," \in Tokens /\ ";" \in Tokens /\ {",", ";"} \subseteq Tokens
    BY TokenSets, SymbolNames
  <1>2. s \in Symbol /\ Good(f) /\ f \in Forms
    <2>1. s \in Symbol /\ Good(Cons(s, v))
      BY ExplainsGood
    <2> QED
      BY <2>1, ConsForms
  <1>3. Language!Leftmost({f}) = Language!Leftmost(Language!Expansions(f))
    BY <1>2, LeftmostExpands
  <1>4. ASSUME s = "{, identifier}", Begins0(v, {";"})
        PROVE  goal("Identifier", ",")
    <2> DEFINE x == Cons(",", Cons("identifier", f))
    <2>1. "Identifier" \in DOMAIN Names /\ Names["Identifier"] = "identifier"
      BY NamesAre
    <2>2. Language!Expansions(f) = {v, x}
      BY <1>4, ExpandOption DEF f
    <2>3. {v} \cup {Cons(q, Cons(Names["Identifier"], f)) : q \in {","}} = {v, x}
      BY <2>1
    <2>4. {";"} \in SUBSET Ends /\ {";"} \cap {","} = {}
      BY <1>1
    <2>5. Begins5(v, Ends \ {","})
      BY <1>4, <2>4, BeginsWithout
    <2>6. Begins1(f, {",", ";"})
      BY <1>4, OptionBegins DEF f
    <2>7. Begins3(f, Tokens)
      <3>1. Begins3(f, {",", ";"})
        BY <1>1, <2>6, BeginsMore
      <3> QED
        BY <1>1, <3>1, BeginsMore
    <2>8. Follows("Identifier", f)
      BY <1>2, <2>7 DEF Follows
    <2> HIDE DEF x, f
    <2> QED
      BY <1>1, <1>2, <1>3, <2>1, <2>2, <2>3, <2>5, <2>8
  <1>5. ASSUME s = "{, declarator}", Begins0(v, {";"})
        PROVE  goal("InitDeclarator", ",")
    <2> DEFINE x == Cons(",", Cons("declarator", f))
    <2>1. "InitDeclarator" \in DOMAIN Names /\ Names["InitDeclarator"] = "declarator"
      BY NamesAre
    <2>2. Language!Expansions(f) = {v, x}
      BY <1>5, ExpandOption DEF f
    <2>3. {v} \cup {Cons(q, Cons(Names["InitDeclarator"], f)) : q \in {","}} = {v, x}
      BY <2>1
    <2>4. {";"} \in SUBSET Ends /\ {";"} \cap {","} = {}
      BY <1>1
    <2>5. Begins5(v, Ends \ {","})
      BY <1>5, <2>4, BeginsWithout
    <2>6. Begins1(f, {",", ";"})
      BY <1>5, OptionBegins DEF f
    <2>7. Follows("InitDeclarator", f)
      BY <1>2, <2>6 DEF Follows
    <2> HIDE DEF x, f
    <2> QED
      BY <1>1, <1>2, <1>3, <2>1, <2>2, <2>3, <2>5, <2>7
  <1>6. ASSUME s = "{; statement}", Begins0(v, {"END"})
        PROVE  goal("Statement", ";")
    <2> DEFINE x == Cons(";", Cons("statement", f))
    <2>1. "Statement" \in DOMAIN Names /\ Names["Statement"] = "statement"
      BY NamesAre
    <2>2. Language!Expansions(f) = {v, x}
      BY <1>6, ExpandOption DEF f
    <2>3. {v} \cup {Cons(q, Cons(Names["Statement"], f)) : q \in {";"}} = {v, x}
      BY <2>1
    <2>4. {"END"} \in SUBSET Ends /\ {"END"} \cap {";"} = {}
      BY <1>1
    <2>5. Begins5(v, Ends \ {";"})
      BY <1>6, <2>4, BeginsWithout
    <2>6. Begins1(f, {";", "END"})
      BY <1>6, OptionBegins DEF f
    <2>7. Follows("Statement", f)
      BY <1>2, <2>6 DEF Follows
    <2> HIDE DEF x, f
    <2> QED
      BY <1>1, <1>2, <1>3, <2>1, <2>2, <2>3, <2>5, <2>7
  <1> HIDE DEF f
  <1>7. \/ /\ Current = Repeat(",", "Identifier") /\ s = "{, identifier}"
           /\ Begins0(v, {";"})
        \/ /\ Current = Repeat(",", "InitDeclarator") /\ s = "{, declarator}"
           /\ Begins0(v, {";"})
        \/ /\ Current = Repeat(";", "Statement") /\ s = "{; statement}"
           /\ Begins0(v, {"END"})
    BY ExplainsKind
  <1>8. \A t, c : Repeat(t, c).class = c /\ Repeat(t, c).tokens = {t}
    BY DEF Repeat, Block
  <1>9. \E t : Current.tokens = {t} /\ goal(Current.class, t)
    <2>1. ASSUME NEW t, NEW cl, Current = Repeat(t, cl), goal(cl, t)
          PROVE  \E q : Current.tokens = {q} /\ goal(Current.class, q)
      <3> HIDE DEF goal
      <3>1. Current.class = cl /\ Current.tokens = {t}
        BY <1>8, <2>1
      <3> QED
        BY <2>1, <3>1
    <2> HIDE DEF goal
    <2> QED
      BY <1>4, <1>5, <1>6, <1>7, <2>1
  <1> QED
    BY <1>9 DEF f

\* A loop goes round once more, or ends.
LEMMA RepeatCourse ==
  ASSUME ParserInv, OnCourse, errors = 0, verdict = "parsing", RepeatChild, Watch
  PROVE  Outcome'
  <1>1. /\ answer = "none" /\ Top.rest # <<>> /\ Current.kind = "repeat"
        /\ UNCHANGED <<answer, errors, wanted, verdict>>
    BY DEF RepeatChild, At
  <1>2. PICK u \in Forms, v \in Forms, s \in Symbol :
           /\ StackOf(Front(frames), u) /\ Follows(Top.class, u)
           /\ Describes(Tail(Top.rest), u, v) /\ Good(v)
           /\ Describes(Top.rest, u, Cons(s, v)) /\ Good(Cons(s, v))
           /\ Explains(Current, s, v, u)
           /\ Expects(forms, ahead, {Cons(s, v)})
           /\ ~HasStart(Tail(Top.rest))
           /\ Tail(Top.rest) = <<>> \/ Head(Tail(Top.rest)).kind # "start"
    BY <1>1, AtBlock
  <1> DEFINE c == Current.class
             f == Cons(s, v)
             x == Cons(Names[c], f)
             more == <<Need(c)>> \o Top.rest
  <1>3. c \in DOMAIN Names /\ Follows(c, f)
    BY <1>1, <1>2, RepeatMore
  <1>4. PICK P \in SUBSET Tokens :
           /\ P = Current.tokens
           /\ Begins5(v, Ends \ P)
           /\ Language!Leftmost({f}) =
                 Language!Leftmost({v} \cup {Cons(t, x) : t \in P})
    BY <1>1, <1>2, RepeatMore
  <1>5. Expects(forms, ahead, {v} \cup {Cons(t, x) : t \in P})
    <2> DEFINE H == {v} \cup {Cons(t, x) : t \in P}
    <2> HIDE DEF H, f
    <2> QED
      BY <1>2, <1>4, ExpectsSame DEF H, f
  <1>6. Top.rest \in Seq(Blocks) /\ ~HasStart(Top.rest)
    <2> DEFINE tail == Tail(Top.rest)
    <2>1. Top.rest \in Seq(Blocks) /\ tail \in Seq(Blocks) /\ ~HasStart(tail)
      BY <1>2 DEF Describes
    <2>2. Head(Top.rest) \in Blocks /\ Top.rest = Cons(Head(Top.rest), tail)
      <3>1. Head(Top.rest) \in Blocks
        BY <1>1, <2>1
      <3>2. /\ Len(Top.rest) = Len(tail) + 1 /\ Top.rest[1] = Head(Top.rest)
            /\ \A i \in 1 .. Len(tail) : Top.rest[i + 1] = tail[i]
        BY <1>1, <2>1
      <3> QED
        BY <2>1, <3>1, <3>2, ConsEqual
    <2> HIDE DEF tail
    <2> QED
      BY <1>1, <2>1, <2>2, StartsAre DEF Current
  <1>7. Need(c) \in Blocks /\ more = Cons(Need(c), Top.rest)
    <2>1. Need(c) \in Blocks
      BY <1>3, BlocksAre
    <2> DEFINE rest == Top.rest
               b == Need(c)
    <2>2. rest \in Seq(Blocks) /\ b \in Blocks
      BY <1>6, <2>1
    <2> HIDE DEF rest, b
    <2>3. <<b>> \o rest = Cons(b, rest)
      BY Zenon, <2>2, ListBefore
    <2> QED
      BY <2>1, <2>3 DEF rest, b
  <1>8. /\ Describes(more, u, x)
        /\ more = <<>> \/ Head(more).kind # "start"
    BY <1>2, <1>3, <1>6, <1>7, DescribesMore
  <1>9. x \in Forms /\ Good(x)
    <2>1. f \in Forms
      BY <1>2, ConsForms
    <2> QED
      BY <1>3, <2>1, NamesGood, ConsForms
  <1>10. \/ ahead \in P /\ Consume /\ Resume(more)
         \/ /\ ahead \notin P /\ Resume(Tail(Top.rest))
            /\ UNCHANGED <<ahead, consumed>>
    BY <1>4 DEF RepeatChild
  <1> HIDE DEF c, f, x, more
  <1> QED
    BY <1>1, <1>2, <1>4, <1>5, <1>8, <1>9, <1>10, ChoiceCourse

\* An operator and another operand, or on.
LEMMA ContinueMore ==
  ASSUME NEW s, NEW v \in Forms, NEW u, Explains(Current, s, v, u),
         Current.kind = "continue"
  PROVE  /\ Current.class \in DOMAIN Names /\ Follows(Current.class, v)
         /\ \E P \in SUBSET Tokens :
               /\ P = Current.tokens
               /\ Begins5(v, Ends \ P)
               /\ Language!Leftmost({Cons(s, v)}) =
                     Language!Leftmost({v} \cup
                        {Cons(t, Cons(Names[Current.class], v)) : t \in P})
  <1> DEFINE f == Cons(s, v)
             goal(c, P) ==
                /\ c \in DOMAIN Names /\ Follows(c, v)
                /\ P \in SUBSET Tokens /\ Begins5(v, Ends \ P)
                /\ Language!Leftmost({f}) =
                      Language!Leftmost({v} \cup {Cons(q, Cons(Names[c], v)) : q \in P})
  <1>1. /\ "+" \in Tokens /\ "-" \in Tokens /\ "*" \in Tokens /\ "/" \in Tokens
        /\ Closing \in SUBSET Ends /\ Closing \cup {"+", "-"} \in SUBSET Ends
        /\ Closing \cap {"+", "-"} = {} /\ (Closing \cup {"+", "-"}) \cap {"*", "/"} = {}
    BY TokenSets, SymbolNames DEF Closing
  <1>2. Language!Leftmost({f}) = Language!Leftmost(Language!Expansions(f))
    BY ExplainsGood, LeftmostExpands
  <1>3. ASSUME s = "[+- additive]", Follows("AdditiveExpression", v)
        PROVE  goal("AdditiveExpression", {"+", "-"})
    <2>1. "AdditiveExpression" \in DOMAIN Names /\ Names["AdditiveExpression"] = "additive"
      BY NamesAre
    <2>2. Language!Expansions(f) = {v, Cons("+", Cons("additive", v)), Cons("-", Cons("additive", v))}
      BY <1>3, ExpandOption DEF f
    <2>3. {v} \cup {Cons(q, Cons(Names["AdditiveExpression"], v)) : q \in {"+", "-"}} =
             {v, Cons("+", Cons("additive", v)), Cons("-", Cons("additive", v))}
      BY <2>1
    <2>4. Begins1(v, Closing)
      BY <1>3 DEF Follows
    <2>5. Begins5(v, Ends \ {"+", "-"})
      BY <1>1, <2>4, BeginsWithout
    <2> HIDE DEF f
    <2> QED
      BY <1>1, <1>2, <1>3, <2>1, <2>2, <2>3, <2>5
  <1>4. ASSUME s = "[*/ multiplicative]", Follows("MultiplicativeExpression", v)
        PROVE  goal("MultiplicativeExpression", {"*", "/"})
    <2>1. "MultiplicativeExpression" \in DOMAIN Names /\ Names["MultiplicativeExpression"] = "multiplicative"
      BY NamesAre
    <2>2. Language!Expansions(f) = {v, Cons("*", Cons("multiplicative", v)), Cons("/", Cons("multiplicative", v))}
      BY <1>4, ExpandOption DEF f
    <2>3. {v} \cup {Cons(q, Cons(Names["MultiplicativeExpression"], v)) : q \in {"*", "/"}} =
             {v, Cons("*", Cons("multiplicative", v)), Cons("/", Cons("multiplicative", v))}
      BY <2>1
    <2>4. Begins2(v, Closing \cup {"+", "-"})
      BY <1>4 DEF Follows
    <2>5. Begins5(v, Ends \ {"*", "/"})
      BY <1>1, <2>4, BeginsWithout
    <2> HIDE DEF f
    <2> QED
      BY <1>1, <1>2, <1>4, <2>1, <2>2, <2>3, <2>5
  <1> HIDE DEF f
  <1>5. \/ /\ Current = Continue({"+", "-"}, "AdditiveExpression")
           /\ s = "[+- additive]" /\ Follows("AdditiveExpression", v)
        \/ /\ Current = Continue({"*", "/"}, "MultiplicativeExpression")
           /\ s = "[*/ multiplicative]" /\ Follows("MultiplicativeExpression", v)
    BY ExplainsKind
  <1>6. \A P, c : Continue(P, c).class = c /\ Continue(P, c).tokens = P
    BY DEF Continue, Block
  <1>7. goal(Current.class, Current.tokens)
    <2>1. ASSUME NEW P, NEW c, Current = Continue(P, c), goal(c, P)
          PROVE  goal(Current.class, Current.tokens)
      <3>1. Current.class = c /\ Current.tokens = P
        BY <1>6, <2>1
      <3> HIDE DEF goal
      <3> QED
        BY <2>1, <3>1
    <2> HIDE DEF goal
    <2> QED
      BY <1>3, <1>4, <1>5, <2>1
  <1> QED
    BY <1>7 DEF f

\* An operator is followed by an operand, or there is none.
LEMMA ContinueCourse ==
  ASSUME ParserInv, OnCourse, errors = 0, verdict = "parsing", ContinueExpression, Watch
  PROVE  Outcome'
  <1>1. /\ answer = "none" /\ Top.rest # <<>> /\ Current.kind = "continue"
        /\ UNCHANGED <<answer, errors, wanted, verdict>>
    BY DEF ContinueExpression, At
  <1>2. PICK u \in Forms, v \in Forms, s \in Symbol :
           /\ StackOf(Front(frames), u) /\ Follows(Top.class, u)
           /\ Describes(Tail(Top.rest), u, v) /\ Good(v)
           /\ Explains(Current, s, v, u)
           /\ Expects(forms, ahead, {Cons(s, v)})
           /\ ~HasStart(Tail(Top.rest))
           /\ Tail(Top.rest) = <<>> \/ Head(Tail(Top.rest)).kind # "start"
    BY <1>1, AtBlock
  <1> DEFINE c == Current.class
             f == Cons(s, v)
             x == Cons(Names[c], v)
             rest == Tail(Top.rest)
             more == <<Need(c)>> \o rest
  <1>3. c \in DOMAIN Names /\ Follows(c, v)
    BY <1>1, <1>2, ContinueMore
  <1>4. PICK P \in SUBSET Tokens :
           /\ P = Current.tokens
           /\ Begins5(v, Ends \ P)
           /\ Language!Leftmost({f}) =
                 Language!Leftmost({v} \cup {Cons(t, x) : t \in P})
    BY <1>1, <1>2, ContinueMore
  <1>5. Expects(forms, ahead, {v} \cup {Cons(t, x) : t \in P})
    <2> DEFINE H == {v} \cup {Cons(t, x) : t \in P}
    <2> HIDE DEF H, f
    <2> QED
      BY <1>2, <1>4, ExpectsSame DEF H, f
  <1>6. rest \in Seq(Blocks) /\ ~HasStart(rest) /\ Describes(rest, u, v)
    BY <1>2 DEF Describes
  <1>7. more = Cons(Need(c), rest)
    <2> DEFINE b == Need(c)
    <2>1. rest \in Seq(Blocks) /\ b \in Blocks
      BY <1>3, <1>6, BlocksAre
    <2> HIDE DEF rest, b
    <2>2. <<b>> \o rest = Cons(b, rest)
      BY Zenon, <2>1, ListBefore
    <2> QED
      BY <2>2 DEF b
  <1>8. /\ Describes(more, u, x)
        /\ more = <<>> \/ Head(more).kind # "start"
    <2> HIDE DEF rest
    <2> QED
      BY <1>3, <1>6, <1>7, DescribesMore
  <1>9. x \in Forms /\ Good(x)
    BY <1>3, NamesGood, ConsForms
  <1>10. \/ ahead \in P /\ Consume /\ Resume(more)
         \/ /\ ahead \notin P /\ Resume(rest)
            /\ UNCHANGED <<ahead, consumed>>
    BY <1>4 DEF ContinueExpression
  <1> HIDE DEF c, f, x, more
  <1> QED
    BY <1>1, <1>2, <1>4, <1>5, <1>8, <1>9, <1>10, ChoiceCourse

\* A sign, or on.  At the end of the stream an operand is missing.
LEMMA SignCourse ==
  ASSUME ParserInv, OnCourse, errors = 0, verdict = "parsing", SkipSign, Watch
  PROVE  Outcome'
  <1>1. /\ answer = "none" /\ Top.rest # <<>> /\ Current.kind = "sign"
        /\ UNCHANGED <<answer, errors, wanted>>
    BY DEF SkipSign, At
  <1>2. PICK u \in Forms, v \in Forms, s \in Symbol :
           /\ StackOf(Front(frames), u) /\ Follows(Top.class, u)
           /\ Describes(Tail(Top.rest), u, v) /\ Good(v)
           /\ Good(Cons(s, v))
           /\ Explains(Current, s, v, u)
           /\ Expects(forms, ahead, {Cons(s, v)})
           /\ ~HasStart(Tail(Top.rest))
           /\ Tail(Top.rest) = <<>> \/ Head(Tail(Top.rest)).kind # "start"
    BY <1>1, AtBlock
  <1> DEFINE f == Cons(s, v)
             P == {"+", "-"}
             rest == Tail(Top.rest)
  <1>3. Current = Sign /\ s = "[+-]" /\ Begins1(v, Operand)
    BY <1>1, <1>2, ExplainsKind
  <1>4. Current.tokens = P
    BY <1>3 DEF Sign, Block
  <1>5. /\ P \in SUBSET Tokens /\ Operand \in SUBSET Ends /\ Operand \cap P = {}
        /\ Signed \in SUBSET Ends /\ Signed \cap {NoToken} = {}
    BY TokenSets, SymbolNames, NoTokenIsNone DEF Operand, Signed
  <1>6. Begins5(v, Ends \ P)
    <2> HIDE DEF P
    <2> QED
      BY <1>3, <1>5, BeginsWithout
  <1>7. Expects(forms, ahead, {v} \cup {Cons(t, v) : t \in P})
    <2> DEFINE H == {v} \cup {Cons(t, v) : t \in P}
               X == Language!Expansions(f)
    <2>1. X = {v, Cons("+", v), Cons("-", v)}
      BY <1>3, ExpandOption
    <2>2. X = H
      BY <2>1
    <2>3. Language!Leftmost({f}) = Language!Leftmost(X)
      BY <1>2, LeftmostExpands
    <2> HIDE DEF H, X, f
    <2> QED
      BY <1>2, <2>2, <2>3, ExpectsSame DEF H, f
  <1>8. CASE verdict' = "parsing" /\
             (\/ ahead \in P /\ Consume /\ Resume(rest)
              \/ /\ ahead \notin P /\ Resume(rest)
                 /\ UNCHANGED <<ahead, consumed>>)
    <2> HIDE DEF P
    <2> QED
      BY <1>1, <1>2, <1>5, <1>6, <1>7, <1>8, ChoiceCourse
  <1>9. CASE ahead = NoToken /\ verdict' = "aborted" /\ UNCHANGED <<ahead, consumed, frames>>
    <2>1. Begins2(f, Signed)
      BY <1>3, OptionBegins
    <2>2. Begins5(f, Ends \ {ahead})
      BY <1>5, <1>9, <2>1, BeginsWithout
    <2> DEFINE G == {f}
    <2>3. Expects(forms, ahead, G) /\ \A g \in G : Begins5(g, Ends \ {ahead})
      BY <1>2, <2>2
    <2> HIDE DEF G
    <2>4. Refused
      BY <2>3, ExpectsOther DEF Refused
    <2>5. forms' = forms /\ ahead' = ahead /\ errors' = 0
      BY <1>1, <1>9 DEF Watch
    <2>6. Refused'
      BY <2>4, <2>5 DEF Refused
    <2> QED
      BY <1>9, <2>5, <2>6 DEF Outcome, AdviceIsViable
  <1> QED
    BY <1>4, <1>8, <1>9 DEF SkipSign

\* One way on is expected when no other begins with the token.
LEMMA ExpectsOne ==
  ASSUME NEW F, NEW a, NEW G, Expects(F, a, G), NEW g \in G,
         \A h \in G \ {g} : Begins5(h, Ends \ {a})
  PROVE  Expects(F, a, {g})
  <1> DEFINE one == {g}
             others == G \ {g}
  <1>1. Expects(F, a, one \cup others) /\ \A h \in others : Begins5(h, Ends \ {a})
    <2>1. one \cup others = G
      OBVIOUS
    <2> QED
      BY <2>1
  <1> HIDE DEF one, others
  <1>2. Expects(F, a, one)
    BY <1>1, ExpectsDrop
  <1> QED
    BY <1>2 DEF one

\* A token that a way on begins with may come next.
LEMMA ViableGoal ==
  ASSUME NEW F, NEW a, NEW G, Expects(F, a, G), NEW g \in G,
         NEW t \in Tokens, NEW w \in Forms,
         Language!Leftmost({g}) = {Cons(t, w)}
  PROVE  t \in Language!Viable(F)
  <1> DEFINE one == {g}
  <1>1. G \cup one = G
    OBVIOUS
  <1>2. Cons(t, w) \in Language!Leftmost(one)
    OBVIOUS
  <1> HIDE DEF one
  <1>3. Language!Leftmost(G \cup one) = Language!Leftmost(G) \cup Language!Leftmost(one)
    BY LeftmostUnion
  <1>4. Cons(t, w) \in F
    BY <1>1, <1>2, <1>3 DEF Expects
  <1>5. Cons(t, w) # <<>> /\ Head(Cons(t, w)) = t
    BY ConsIs, SymbolNames
  <1> QED
    BY <1>4, <1>5 DEF Language!Viable

\* What begins with a token does not begin with another one, and is one of
\* the forms it derives.
LEMMA TokenGoal ==
  ASSUME NEW t \in Tokens, NEW v \in Forms
  PROVE  /\ \A a : t # a => Begins5(Cons(t, v), Ends \ {a})
         /\ Language!Leftmost({Cons(t, v)}) = {Cons(t, v)}
  <1>1. ASSUME NEW a, t # a
        PROVE  Begins5(Cons(t, v), Ends \ {a})
    <2>1. Begins0(Cons(t, v), {t}) /\ {t} \in SUBSET Ends /\ {t} \cap {a} = {}
      BY <1>1, TokenBegins, TokenSets
    <2> QED
      BY <2>1, BeginsWithout
  <1>2. Begins0(Cons(t, v), Ends)
    BY TokenBegins, TokenSets
  <1>3. Language!Leftmost({Cons(t, v)}) = {Cons(t, v)}
    BY <1>2, LeftmostBegun
  <1> QED
    BY <1>1, <1>3

\* The alternatives of a statement.
LEMMA StatementBranch ==
  ASSUME NEW rest, NEW u, NEW v \in Forms, Describes(rest, u, v), ~HasStart(rest),
         Follows("Statement", v), Good(v),
         Expects(forms, ahead, {Cons("statement", v)}),
         NEW more, more = Alternative("Statement", ahead) \o rest
  PROVE  /\ ahead \in {"RETURN", "identifier"} => \E x \in Forms :
              /\ Describes(more, u, x)
              /\ more = <<>> \/ Head(more).kind # "start"
              /\ Expects(forms, ahead, {x})
         /\ ahead \notin {"RETURN", "identifier"} => /\ \A f \in forms : First(f) # ahead
                          /\ {"RETURN", "identifier"} \subseteq Language!Viable(forms)
  <1> DEFINE A == Cons("assignment", v)
             E == Cons("additive", v)
             R == Cons("RETURN", E)
             S == Cons("statement", v)
             w == Cons(":=", E)
             I == Cons("identifier", w)
  <1>1. /\ A \in Forms /\ E \in Forms /\ R \in Forms /\ w \in Forms /\ I \in Forms
        /\ "RETURN" \in Tokens /\ "identifier" \in Tokens /\ S \in Forms
    BY SymbolNames, ConsForms
  <1>2. Good(S) /\ Good(A) /\ Good(E)
    <2>1. /\ "Statement" \in DOMAIN Names /\ "AssignmentExpression" \in DOMAIN Names
          /\ "AdditiveExpression" \in DOMAIN Names
          /\ Names["Statement"] = "statement" /\ Names["AdditiveExpression"] = "additive"
          /\ Names["AssignmentExpression"] = "assignment"
      BY NamesAre
    <2> QED
      BY <2>1, NamesGood
  <1>3. Language!Expansions(S) = {A, R}
    BY ExpandNonterminal
  <1>4. Language!Expansions(A) = {I}
    BY ExpandNonterminal
  <1>5. Begins1(A, {"identifier"}) /\ {"identifier"} \in SUBSET Ends
    BY SymbolBegins, TokenSets, SymbolNames
  <1>6. Begins1(v, {";", "END"})
    BY DEF Follows
  <1>7. Follows("AdditiveExpression", v) /\ Follows("AssignmentExpression", v)
    <2>1. /\ {";", "END"} \in SUBSET Ends /\ Closing \in SUBSET Ends
          /\ {";", "END"} \subseteq Closing
      BY TokenSets DEF Closing
    <2>2. Begins1(v, Closing)
      BY <1>6, <2>1, BeginsMore
    <2> QED
      BY <1>6, <2>2 DEF Follows
  <1>8. rest \in Seq(Blocks)
    BY DEF Describes
  <1> DEFINE G == {A, R}
  <1> HIDE DEF A, E, R, S, w, I
  <1>9. Expects(forms, ahead, G)
    <2> DEFINE one == {S}
    <2>1. Language!Leftmost(one) = Language!Leftmost(G)
      BY <1>2, <1>3, LeftmostExpands
    <2>2. Expects(forms, ahead, one)
      BY DEF S
    <2> HIDE DEF one, G
    <2> QED
      BY <2>1, <2>2, ExpectsSame
  <1>10. A \in G /\ R \in G
    OBVIOUS
  <1>11. "RETURN" # ahead => Begins5(R, Ends \ {ahead})
    BY <1>1, TokenGoal DEF R
  <1>12. "identifier" # ahead => Begins5(A, Ends \ {ahead})
    <2> SUFFICES ASSUME "identifier" # ahead PROVE Begins5(A, Ends \ {ahead})
      OBVIOUS
    <2>1. {"identifier"} \cap {ahead} = {}
      OBVIOUS
    <2> QED
      BY <1>5, <2>1, BeginsWithout
  <1>13. ASSUME ahead = "RETURN"
         PROVE  \E x \in Forms :
              /\ Describes(more, u, x)
              /\ more = <<>> \/ Head(more).kind # "start"
              /\ Expects(forms, ahead, {x})
    <2>1. \A h \in G \ {R} : Begins5(h, Ends \ {ahead})
      BY <1>12, <1>13
    <2>2. Expects(forms, ahead, {R})
      <3> HIDE DEF G
      <3> QED
        BY <1>9, <1>10, <2>1, ExpectsOne
    <2> DEFINE b == Expect("RETURN")
               c == Need("AdditiveExpression")
               r == Cons(c, rest)
               begun == Cons(b, r)
    <2>3. b \in Blocks /\ c \in Blocks /\ "AdditiveExpression" \in DOMAIN Names
      BY <1>1, BlocksAre, NamesAre
    <2>4. /\ r \in Seq(Blocks) /\ ~HasStart(r)
          /\ Describes(r, u, E)
      BY <1>7, <2>3, DescribesMore, NamesAre DEF E
    <2> HIDE DEF r
    <2>5. /\ begun = <<>> \/ Head(begun).kind # "start"
          /\ Describes(begun, u, R)
      BY <1>1, <1>2, <2>4, DescribesMore DEF R
    <2>6. Alternative("Statement", ahead) = <<b, c>>
      BY <1>13 DEF Alternative
    <2> HIDE DEF b, c
    <2>7. <<b, c>> \o rest = begun
      BY Zenon, <1>8, <2>3, ListBefore DEF r
    <2> HIDE DEF begun
    <2> QED
      BY <1>1, <2>2, <2>5, <2>6, <2>7
  <1>14. ASSUME ahead = "identifier"
         PROVE  \E x \in Forms :
              /\ Describes(more, u, x)
              /\ more = <<>> \/ Head(more).kind # "start"
              /\ Expects(forms, ahead, {x})
    <2>1. \A h \in G \ {A} : Begins5(h, Ends \ {ahead})
      BY <1>11, <1>14
    <2>2. Expects(forms, ahead, {A})
      <3> HIDE DEF G
      <3> QED
        BY <1>9, <1>10, <2>1, ExpectsOne
    <2> DEFINE c == Need("AssignmentExpression")
               begun == Cons(c, rest)
    <2>3. c \in Blocks /\ "AssignmentExpression" \in DOMAIN Names
      BY BlocksAre, NamesAre
    <2>4. /\ begun = <<>> \/ Head(begun).kind # "start"
          /\ Describes(begun, u, A)
      BY <1>7, <2>3, DescribesMore, NamesAre DEF A
    <2>5. Alternative("Statement", ahead) = <<c>>
      BY <1>14 DEF Alternative
    <2> HIDE DEF c
    <2>6. <<c>> \o rest = begun
      BY Zenon, <1>8, <2>3, ListBefore
    <2> HIDE DEF begun
    <2> QED
      BY <1>1, <2>2, <2>4, <2>5, <2>6
  <1>15. ASSUME ahead \notin {"RETURN", "identifier"}
         PROVE  /\ \A f \in forms : First(f) # ahead
                /\ {"RETURN", "identifier"} \subseteq Language!Viable(forms)
    <2>1. \A g \in G : Begins5(g, Ends \ {ahead})
      BY <1>11, <1>12, <1>15
    <2>2. Language!Leftmost({R}) = {R}
      BY <1>1, TokenGoal DEF R
    <2>3. Language!Leftmost({A}) = {I}
      <3>1. Language!Leftmost({A}) = Language!Leftmost({I})
        BY <1>2, <1>4, LeftmostExpands
      <3>2. Language!Leftmost({I}) = {I}
        BY <1>1, TokenGoal DEF I
      <3> QED
        BY <3>1, <3>2
    <2> HIDE DEF G
    <2>4. \A f \in forms : First(f) # ahead
      BY <1>9, <2>1, ExpectsOther
    <2>5. "RETURN" \in Language!Viable(forms)
      BY <1>1, <1>9, <1>10, <2>2, ViableGoal DEF R
    <2>6. "identifier" \in Language!Viable(forms)
      BY <1>1, <1>9, <1>10, <2>3, ViableGoal DEF I
    <2> QED
      BY <2>4, <2>5, <2>6
  <1> QED
    BY <1>13, <1>14, <1>15

\* The alternatives of an operand.
LEMMA PrimaryBranch ==
  ASSUME NEW rest, NEW u, NEW v \in Forms, Describes(rest, u, v), ~HasStart(rest),
         Follows("PrimaryExpression", v), Good(v),
         Expects(forms, ahead, {Cons("primary", v)}),
         NEW more, more = Alternative("PrimaryExpression", ahead) \o rest
  PROVE  /\ ahead \in {"identifier", "literal", "("} => \E x \in Forms :
              /\ Describes(more, u, x)
              /\ more = <<>> \/ Head(more).kind # "start"
              /\ Expects(forms, ahead, {x})
         /\ ahead \notin {"identifier", "literal", "("} => /\ \A f \in forms : First(f) # ahead
                          /\ {"identifier", "literal", "("} \subseteq Language!Viable(forms)
  <1> DEFINE I == Cons("identifier", v)
             L == Cons("literal", v)
             C == Cons(")", v)
             E == Cons("additive", C)
             B == Cons("(", E)
             S == Cons("primary", v)
  <1>1. /\ I \in Forms /\ L \in Forms /\ C \in Forms /\ E \in Forms /\ B \in Forms
        /\ "identifier" \in Tokens /\ "literal" \in Tokens /\ "(" \in Tokens
        /\ ")" \in Tokens /\ S \in Forms
    BY SymbolNames, ConsForms
  <1>2. Good(S) /\ Good(E) /\ Good(C)
    <2>1. /\ "PrimaryExpression" \in DOMAIN Names /\ "AdditiveExpression" \in DOMAIN Names
          /\ Names["PrimaryExpression"] = "primary"
          /\ Names["AdditiveExpression"] = "additive"
      BY NamesAre
    <2>2. Good(S)
      BY <2>1, NamesGood
    <2>3. Good(C)
      BY <1>1, TokenBegins
    <2> HIDE DEF C
    <2>4. Good(E)
      BY <1>1, <2>1, NamesGood
    <2> QED
      BY <2>2, <2>3, <2>4
  <1>3. Language!Expansions(S) = {I, L, B}
    BY ExpandNonterminal
  <1>4. Follows("Identifier", v) /\ Follows("Literal", v)
    <2>1. /\ Closing \cup {"+", "-", "*", "/"} \in SUBSET Ends /\ Tokens \in SUBSET Ends
          /\ Closing \cup {"+", "-", "*", "/"} \subseteq Tokens
      BY TokenSets, SymbolNames DEF Closing
    <2>2. Begins3(v, Closing \cup {"+", "-", "*", "/"})
      BY DEF Follows
    <2>3. Begins3(v, Tokens)
      BY <2>1, <2>2, BeginsMore
    <2> QED
      BY <2>3 DEF Follows
  <1>5. Follows("AdditiveExpression", C)
    <2>1. ")" \in Closing /\ Closing \in SUBSET Ends
      BY TokenSets DEF Closing
    <2>2. Begins0(C, Closing)
      BY <1>1, <2>1, TokenBegins
    <2> HIDE DEF C
    <2>3. Begins1(C, Closing)
      BY <2>1, <2>2, BeginsMore
    <2> QED
      BY <1>1, <2>3 DEF Follows
  <1>6. rest \in Seq(Blocks)
    BY DEF Describes
  <1> DEFINE G == {I, L, B}
  <1>7. /\ "identifier" # ahead => Begins5(I, Ends \ {ahead})
        /\ Language!Leftmost({I}) = {I}
    BY <1>1, TokenGoal
  <1>8. /\ "literal" # ahead => Begins5(L, Ends \ {ahead})
        /\ Language!Leftmost({L}) = {L}
    BY <1>1, TokenGoal
  <1> HIDE DEF I, L, C, E, S
  <1>9. /\ "(" # ahead => Begins5(B, Ends \ {ahead})
        /\ Language!Leftmost({B}) = {B}
    BY <1>1, TokenGoal
  <1> HIDE DEF B
  <1>10. Expects(forms, ahead, G)
    <2> DEFINE one == {S}
    <2>1. Language!Leftmost(one) = Language!Leftmost(G)
      BY <1>2, <1>3, LeftmostExpands
    <2>2. Expects(forms, ahead, one)
      BY DEF S
    <2> HIDE DEF one, G
    <2> QED
      BY <2>1, <2>2, ExpectsSame
  <1>11. I \in G /\ L \in G /\ B \in G
    OBVIOUS
  <1>12. ASSUME ahead = "identifier"
         PROVE  \E x \in Forms :
              /\ Describes(more, u, x)
              /\ more = <<>> \/ Head(more).kind # "start"
              /\ Expects(forms, ahead, {x})
    <2>1. \A h \in G \ {I} : Begins5(h, Ends \ {ahead})
      BY <1>8, <1>9, <1>12
    <2>2. Expects(forms, ahead, {I})
      <3> HIDE DEF G
      <3> QED
        BY <1>10, <1>11, <2>1, ExpectsOne
    <2> DEFINE c == Need("Identifier")
               begun == Cons(c, rest)
    <2>3. c \in Blocks /\ "Identifier" \in DOMAIN Names
      BY BlocksAre, NamesAre
    <2>4. /\ begun = <<>> \/ Head(begun).kind # "start"
          /\ Describes(begun, u, I)
      BY <1>4, <2>3, DescribesMore, NamesAre DEF I
    <2>5. Alternative("PrimaryExpression", ahead) = <<c>>
      BY <1>12 DEF Alternative
    <2> HIDE DEF c
    <2>6. <<c>> \o rest = begun
      BY Zenon, <1>6, <2>3, ListBefore
    <2> HIDE DEF begun
    <2> QED
      BY <1>1, <2>2, <2>4, <2>5, <2>6
  <1>13. ASSUME ahead = "literal"
         PROVE  \E x \in Forms :
              /\ Describes(more, u, x)
              /\ more = <<>> \/ Head(more).kind # "start"
              /\ Expects(forms, ahead, {x})
    <2>1. \A h \in G \ {L} : Begins5(h, Ends \ {ahead})
      BY <1>7, <1>9, <1>13
    <2>2. Expects(forms, ahead, {L})
      <3> HIDE DEF G
      <3> QED
        BY <1>10, <1>11, <2>1, ExpectsOne
    <2> DEFINE c == Need("Literal")
               begun == Cons(c, rest)
    <2>3. c \in Blocks /\ "Literal" \in DOMAIN Names
      BY BlocksAre, NamesAre
    <2>4. /\ begun = <<>> \/ Head(begun).kind # "start"
          /\ Describes(begun, u, L)
      BY <1>4, <2>3, DescribesMore, NamesAre DEF L
    <2>5. Alternative("PrimaryExpression", ahead) = <<c>>
      BY <1>13 DEF Alternative
    <2> HIDE DEF c
    <2>6. <<c>> \o rest = begun
      BY Zenon, <1>6, <2>3, ListBefore
    <2> HIDE DEF begun
    <2> QED
      BY <1>1, <2>2, <2>4, <2>5, <2>6
  <1>14. ASSUME ahead = "("
         PROVE  \E x \in Forms :
              /\ Describes(more, u, x)
              /\ more = <<>> \/ Head(more).kind # "start"
              /\ Expects(forms, ahead, {x})
    <2>1. \A h \in G \ {B} : Begins5(h, Ends \ {ahead})
      BY <1>7, <1>8, <1>14
    <2>2. Expects(forms, ahead, {B})
      <3> HIDE DEF G
      <3> QED
        BY <1>10, <1>11, <2>1, ExpectsOne
    <2> DEFINE b == Expect("(")
               c == Need("AdditiveExpression")
               d == Expect(")")
               q == Cons(d, rest)
               r == Cons(c, q)
               begun == Cons(b, r)
    <2>3. /\ b \in Blocks /\ c \in Blocks /\ d \in Blocks
          /\ "AdditiveExpression" \in DOMAIN Names
          /\ Names["AdditiveExpression"] = "additive"
      BY <1>1, BlocksAre, NamesAre
    <2>4. q \in Seq(Blocks) /\ ~HasStart(q) /\ Describes(q, u, C)
      BY <1>1, DescribesMore DEF C
    <2> HIDE DEF q
    <2>5. r \in Seq(Blocks) /\ ~HasStart(r) /\ Describes(r, u, E)
      BY <1>5, <2>3, <2>4, DescribesMore DEF E
    <2> HIDE DEF r
    <2>6. /\ begun = <<>> \/ Head(begun).kind # "start"
          /\ Describes(begun, u, B)
      BY <1>1, <1>2, <2>5, DescribesMore DEF B
    <2>7. Alternative("PrimaryExpression", ahead) = <<b, c, d>>
      BY <1>14 DEF Alternative
    <2> HIDE DEF b, c, d
    <2>8. <<b, c, d>> \o rest = begun
      <3>1. \A b1, c1, d1 \in Blocks :
               <<b1, c1, d1>> \o rest = Cons(b1, Cons(c1, Cons(d1, rest)))
        BY ONLY <1>6, ListBefore
      <3>2. <<b, c, d>> \o rest = Cons(b, Cons(c, Cons(d, rest)))
        BY ONLY Zenon, <2>3, <3>1
      <3> QED
        BY ONLY Zenon, <3>2 DEF r, q
    <2> HIDE DEF begun
    <2> QED
      BY <1>1, <2>2, <2>6, <2>7, <2>8
  <1>15. ASSUME ahead \notin {"identifier", "literal", "("}
         PROVE  /\ \A f \in forms : First(f) # ahead
                /\ {"identifier", "literal", "("} \subseteq Language!Viable(forms)
    <2>1. \A g \in G : Begins5(g, Ends \ {ahead})
      BY <1>7, <1>8, <1>9, <1>15
    <2> HIDE DEF G
    <2>2. \A f \in forms : First(f) # ahead
      BY <1>10, <2>1, ExpectsOther
    <2>3. "identifier" \in Language!Viable(forms)
      BY <1>1, <1>7, <1>10, <1>11, ViableGoal DEF I
    <2>4. "literal" \in Language!Viable(forms)
      BY <1>1, <1>8, <1>10, <1>11, ViableGoal DEF L
    <2>5. "(" \in Language!Viable(forms)
      BY <1>1, <1>9, <1>10, <1>11, ViableGoal DEF B
    <2> QED
      BY <2>2, <2>3, <2>4, <2>5
  <1> QED
    BY <1>12, <1>13, <1>14, <1>15

\* An alternative is taken, or none begins with the token.
LEMMA BranchCourse ==
  ASSUME ParserInv, OnCourse, errors = 0, verdict = "parsing", TakeBranch, Watch
  PROVE  Outcome'
  <1>1. answer = "none" /\ Top.rest # <<>> /\ Current.kind = "branch"
    BY DEF TakeBranch, At
  <1>2. PICK u \in Forms, v \in Forms, s \in Symbol :
           /\ StackOf(Front(frames), u) /\ Follows(Top.class, u)
           /\ Describes(Tail(Top.rest), u, v) /\ Good(v)
           /\ Explains(Current, s, v, u)
           /\ Expects(forms, ahead, {Cons(s, v)})
           /\ ~HasStart(Tail(Top.rest))
    BY <1>1, AtBlock
  <1> DEFINE rest == Tail(Top.rest)
             P == Current.tokens
             more == Alternative(Current.class, ahead) \o rest
  <1>3. /\ ahead \in P => \E x \in Forms :
              /\ Describes(more, u, x)
              /\ more = <<>> \/ Head(more).kind # "start"
              /\ Expects(forms, ahead, {x})
        /\ ahead \notin P => /\ \A f \in forms : First(f) # ahead
                             /\ P \subseteq Language!Viable(forms)
    <2>1. CASE /\ Current = Branch({"RETURN", "identifier"}, "Statement")
               /\ s = "statement" /\ Follows("Statement", v)
      <3>1. Current.class = "Statement" /\ P = {"RETURN", "identifier"}
        BY <2>1 DEF Branch, Block
      <3> HIDE DEF P, rest
      <3>2. Expects(forms, ahead, {Cons("statement", v)})
        BY <1>2, <2>1
      <3>3. Describes(rest, u, v) /\ ~HasStart(rest)
        BY <1>2 DEF rest
      <3>4. more = Alternative("Statement", ahead) \o rest
        BY <3>1
      <3>5. v \in Forms /\ Good(v) /\ Follows("Statement", v)
        BY <1>2, <2>1
      <3> HIDE DEF more
      <3> QED
        BY ONLY <3>1, <3>2, <3>3, <3>4, <3>5, StatementBranch
    <2>2. CASE /\ Current = Branch({"identifier", "literal", "("}, "PrimaryExpression")
               /\ s = "primary" /\ Follows("PrimaryExpression", v)
      <3>1. Current.class = "PrimaryExpression" /\ P = {"identifier", "literal", "("}
        BY <2>2 DEF Branch, Block
      <3> HIDE DEF P, rest
      <3>2. Expects(forms, ahead, {Cons("primary", v)})
        BY <1>2, <2>2
      <3>3. Describes(rest, u, v) /\ ~HasStart(rest)
        BY <1>2 DEF rest
      <3>4. more = Alternative("PrimaryExpression", ahead) \o rest
        BY <3>1
      <3>5. v \in Forms /\ Good(v) /\ Follows("PrimaryExpression", v)
        BY <1>2, <2>2
      <3> HIDE DEF more
      <3> QED
        BY ONLY <3>1, <3>2, <3>3, <3>4, <3>5, PrimaryBranch
    <2> QED
      BY <1>1, <1>2, <2>1, <2>2, ExplainsKind
  <1>4. CASE /\ ahead \in P /\ Resume(more)
             /\ UNCHANGED <<ahead, consumed, answer, errors, wanted, verdict>>
    <2>1. PICK x \in Forms :
              /\ Describes(more, u, x)
              /\ more = <<>> \/ Head(more).kind # "start"
              /\ Expects(forms, ahead, {x})
      BY <1>3, <1>4
    <2>2. forms' = forms /\ ahead' = ahead
      BY <1>4 DEF Watch
    <2>3. Expects(forms', ahead', {x})
      BY <2>1, <2>2
    <2> HIDE DEF more
    <2>4. OnCourse'
      BY <1>1, <1>2, <1>4, <2>1, <2>3, ResumeCourse
    <2> QED
      BY <1>4, <2>4, CourseOutcome
  <1>5. CASE ahead \notin P /\ Refuse
    BY <1>3, <1>5, RefuseOutcome DEF Refused
  <1> QED
    BY <1>4, <1>5 DEF TakeBranch

\* A function that has come to its end has parsed its part.
LEMMA SucceedCourse ==
  ASSUME ParserInv, OnCourse, errors = 0, verdict = "parsing", Succeed, Watch
  PROVE  Outcome'
  <1>1. /\ answer = "none" /\ Top.rest = <<>> /\ answer' = "true"
        /\ ahead' = ahead /\ consumed' = consumed /\ frames' = frames
        /\ verdict' = "parsing" /\ errors' = 0
    BY DEF Succeed, Return
  <1>2. PICK u \in Forms, g \in Forms :
           /\ StackOf(Front(frames), u)
           /\ Describes(Top.rest, u, g)
           /\ Follows(Top.class, u)
           /\ Expects(forms, ahead, Goals(u, g))
    BY DEF OnCourse
  <1>3. g = u
    BY <1>1, <1>2, DescribesNone
  <1>4. Goals(u, g) = {u} /\ Goals(u, g)' = {u}
    BY <1>1, <1>3 DEF Goals, AtStart
  <1>5. forms' = forms /\ Top' = Top
    BY <1>1 DEF Watch, Top
  <1>6. OnCourse'
    BY <1>1, <1>2, <1>4, <1>5 DEF OnCourse
  <1> QED
    BY <1>1, <1>6, CourseOutcome

\* The activation that waits below the innermost one.
LEMMA ParentIs ==
  ASSUME ParserInv, Len(frames) > 1
  PROVE  /\ Front(frames) \in Seq(Frames) /\ Front(frames) # <<>>
         /\ Last(Front(frames)) = frames[Len(frames) - 1]
         /\ Last(Front(frames)) \in Frames
         /\ Front(Front(frames)) \in Seq(Frames)
         /\ Last(Front(frames)).rest # <<>>
  <1>1. frames \in Seq(Frames) /\ frames # <<>> /\ Len(frames) \in Nat
    BY DEF ParserInv, TypeOK
  <1> DEFINE s == Front(frames)
  <1>2. /\ s \in Seq(Frames) /\ Len(s) = Len(frames) - 1
        /\ \A i \in 1 .. Len(frames) - 1 : s[i] = frames[i]
    BY <1>1, FrontIs
  <1> HIDE DEF s
  <1>3. s # <<>>
    BY <1>1, <1>2
  <1>4. Last(s) = s[Len(s)] /\ Last(s) \in Frames /\ Front(s) \in Seq(Frames)
    BY <1>2, <1>3, FrontIs
  <1>5. Last(s) = frames[Len(frames) - 1]
    BY <1>1, <1>2, <1>4
  <1>6. frames[Len(frames) - 1].rest # <<>>
    BY <1>1 DEF ParserInv, Chain
  <1> QED
    BY <1>2, <1>3, <1>4, <1>5, <1>6 DEF s

\* The caller goes on after a child, or after one that is left out.
LEMMA ReturnCourse ==
  ASSUME ParserInv, OnCourse, errors = 0, verdict = "parsing", ReturnToParent, Watch
  PROVE  Outcome'
  <1> DEFINE parent == Last(Front(frames))
             front == Front(Front(frames))
             t == Frame(parent.class, Tail(parent.rest))
  <1>1. /\ answer # "none" /\ Len(frames) > 1 /\ ahead' = ahead /\ consumed' = consumed
        /\ verdict' = "parsing" /\ errors' = 0
    BY DEF ReturnToParent
  <1>2. PICK u \in Forms, g \in Forms :
           /\ StackOf(Front(frames), u)
           /\ Expects(forms, ahead, Goals(u, g))
    BY DEF OnCourse
  <1>3. Expects(forms, ahead, {u})
    BY <1>1, <1>2 DEF Goals
  <1>4. /\ Front(frames) # <<>> /\ parent \in Frames /\ front \in Seq(Frames)
        /\ parent = frames[Len(frames) - 1] /\ parent.rest # <<>>
    BY <1>1, ParentIs
  <1>5. PICK w \in Forms :
           /\ StackOf(front, w)
           /\ ~HasStart(Tail(parent.rest))
           /\ Describes(Tail(parent.rest), w, u)
           /\ Follows(parent.class, w)
    BY <1>2, <1>4, StackPop
  <1>6. CASE frames' = Append(front, t) /\ answer' = "none"
    <2>1. Tail(parent.rest) \in Seq(Blocks)
      BY <1>5 DEF Describes
    <2>2. t \in Frames /\ t.class = parent.class /\ t.rest = Tail(parent.rest)
      BY <1>4, <2>1 DEF Frame, Frames
    <2>3. t.rest = <<>> \/ Head(t.rest).kind # "start"
      BY <1>5, <2>1, <2>2, StartsAre
    <2> HIDE DEF t
    <2>4. Front(frames') = front /\ Last(frames') = t
      BY <1>4, <1>6, <2>2, StackTop
    <2>5. Top' = t
      BY <2>4 DEF Top
    <2>6. ~AtStart'
      BY <2>3, <2>5 DEF AtStart, Current
    <2>7. Goals(w, u)' = {u}
      BY <1>6, <2>6 DEF Goals
    <2>8. forms' = forms
      BY <1>1 DEF Watch
    <2>9. /\ StackOf(Front(frames'), w) /\ Describes(Top'.rest, w, u)
          /\ Follows(Top'.class, w)
      BY <1>5, <2>2, <2>4, <2>5
    <2>10. Expects(forms', ahead', Goals(w, u)')
      BY <1>1, <1>3, <2>7, <2>8
    <2>11. OnCourse'
      BY <1>6, <2>9, <2>10 DEF OnCourse
    <2> QED
      BY <1>1, <2>11, CourseOutcome
  <1>7. CASE answer = "false" /\ Head(parent.rest).kind = "need"
    BY <1>4, <1>7 DEF ParserInv, Reported
  <1> QED
    BY <1>6, <1>7 DEF ReturnToParent

\* The end of compileCode.
LEMMA FinishCourse ==
  ASSUME ParserInv, OnCourse, errors = 0, verdict = "parsing", Finish, Watch
  PROVE  Outcome'
  <1>1. /\ answer # "none" /\ Len(frames) = 1 /\ ahead' = ahead /\ consumed' = consumed
    BY DEF Finish
  <1>2. PICK u \in Forms, g \in Forms :
           /\ StackOf(Front(frames), u)
           /\ Expects(forms, ahead, Goals(u, g))
    BY DEF OnCourse
  <1> DEFINE none == <<>>
             s == Front(frames)
  <1>3. s = <<>>
    <2>1. s \in Seq(Frames) /\ Len(s) = 0
      BY <1>1, FrontIs DEF ParserInv, TypeOK
    <2> HIDE DEF s
    <2> QED
      BY <2>1
  <1>4. u = none
    BY <1>2, <1>3, StackPop
  <1>5. Expects(forms, ahead, {none})
    BY <1>1, <1>2, <1>4 DEF Goals
  <1>6. Begins0(none, Ends)
    BY DEF Begins0, First, Ends, Forms
  <1>7. First(none) = NoToken
    BY DEF First
  <1> HIDE DEF none
  <1>8. Language!Leftmost({none}) = {none}
    BY <1>6, LeftmostBegun
  <1>9. none \in forms /\ \A f \in forms : f # none => First(f) # ahead
    BY <1>5, <1>8 DEF Expects
  <1>10. forms' = forms
    BY <1>1 DEF Watch
  <1>11. CASE answer = "true" /\ ahead # NoToken /\ errors' = errors + 1 /\ wanted' = {}
              /\ verdict' = "rejected"
    <2>1. Refused'
      BY <1>1, <1>7, <1>9, <1>10, <1>11 DEF Refused
    <2> QED
      BY <1>11, <2>1 DEF Outcome, AdviceIsViable
  <1>12. CASE answer = "true" /\ ahead = NoToken /\ errors' = errors
              /\ verdict' = "accepted"
    <2>1. IsWord'
      BY <1>1, <1>9, <1>10, <1>12 DEF IsWord, none
    <2> QED
      BY <1>12, <2>1 DEF Outcome, AdviceIsViable
  <1>13. answer = "true"
    BY <1>1 DEF ParserInv, TypeOK, Reported
  <1> QED
    BY <1>11, <1>12, <1>13 DEF Finish

-----------------------------------------------------------------------------
(* The steps after a message.                                              *)

\* The stream changes only when a token is consumed, and messages stay.
LEMMA StepStream ==
  ASSUME ParserInv, Next
  PROVE  /\ consumed' = consumed => ahead' = ahead
         /\ errors' \in Nat /\ errors' >= errors
  <1>1. consumed \in Nat /\ errors \in Nat
    BY DEF ParserInv, TypeOK
  <1>2. Consume => consumed' # consumed
    BY <1>1 DEF Consume
  <1>3. Refuse => /\ errors' = errors + 1 /\ ahead' = ahead
    BY DEF Refuse, Return
  <1>4. CASE Enter \/ Succeed \/ ReturnToParent
    BY <1>1, <1>4 DEF Enter, Succeed, Return, ReturnToParent
  <1>5. CASE ExpectToken \/ StartDeclaration \/ TakeBranch
    BY <1>1, <1>2, <1>3, <1>5 DEF ExpectToken, StartDeclaration, TakeBranch, Return
  <1>6. CASE RepeatChild \/ ContinueExpression \/ SkipSign
    BY <1>1, <1>2, <1>6 DEF RepeatChild, ContinueExpression, SkipSign
  <1>7. CASE Finish
    BY <1>1, <1>7 DEF Finish
  <1> QED
    BY <1>4, <1>5, <1>6, <1>7 DEF Next

\* The keyword of a declaration is looked for by optional children.
LEMMA StartIsOptional ==
  ASSUME ParserInv, AtStart
  PROVE  Len(frames) > 1 /\ Head(Last(Front(frames)).rest).kind = "optional"
  <1>1. frames \in Seq(Frames) /\ frames # <<>> /\ Len(frames) \in Nat
    BY DEF ParserInv, TypeOK
  <1>2. /\ Top \in Frames /\ Top = frames[Len(frames)] /\ Len(frames) >= 1
    BY <1>1, FrontIs DEF Top
  <1>3. HasStart(Top.rest)
    <2> DEFINE r == Top.rest
    <2>1. r \in Seq(Blocks) /\ r # <<>> /\ Head(r).kind = "start"
      BY <1>2 DEF Frames, AtStart, Current
    <2> HIDE DEF r
    <2>2. Head(r) = r[1] /\ 1 \in DOMAIN r
      BY <2>1
    <2> QED
      BY <2>1, <2>2 DEF HasStart, r
  <1>4. Len(frames) > 1 /\ Head(frames[Len(frames) - 1].rest).kind = "optional"
    BY <1>1, <1>2, <1>3 DEF ParserInv, Chain
  <1> QED
    BY <1>4, ParentIs

\* After a message a text stays refused, and the advice that has been given.
LEMMA ReportedOutcome ==
  ASSUME ParserInv, Outcome, errors > 0, verdict = "parsing", Next, Watch
  PROVE  Outcome'
  <1>1. errors \in Nat /\ verdict # "rejected"
    BY DEF ParserInv, TypeOK
  <1>2. /\ consumed' = consumed => ahead' = ahead
        /\ errors' \in Nat /\ errors' >= errors
    BY StepStream
  <1>3. Refused
    BY DEF Outcome
  <1>4. Refused'
    BY <1>2, <1>3, RefusedStays
  <1>5. errors' > 0
    BY <1>1, <1>2
  <1>6. ASSUME errors' = 1, answer' = "false", verdict' = "parsing"
        PROVE  AtStart' \/ wanted' \subseteq Language!Viable(forms')
    <2>1. errors = 1
      BY <1>1, <1>2, <1>6
    <2>2. ~Refuse
      BY <1>6, <2>1 DEF Refuse
    <2>3. CASE StartDeclaration
      <3>1. answer = "none" /\ AtStart
        BY <2>3 DEF StartDeclaration, At, AtStart
      <3>2. frames' = frames
        BY <1>6, <2>3, <3>1 DEF StartDeclaration, Return
      <3> QED
        BY <3>1, <3>2 DEF AtStart, Current, Top
    <2>4. CASE ReturnToParent
      <3>1. /\ answer = "false" /\ Head(Last(Front(frames)).rest).kind = "need"
            /\ consumed' = consumed /\ wanted' = wanted
        BY <1>6, <2>4 DEF ReturnToParent
      <3>2. ~AtStart
        BY <3>1, StartIsOptional
      <3>3. wanted \subseteq Language!Viable(forms)
        BY <2>1, <3>1, <3>2 DEF Outcome
      <3> QED
        BY <3>1, <3>3 DEF Watch
    <2>5. CASE Enter \/ ExpectToken \/ RepeatChild \/ ContinueExpression \/ SkipSign
               \/ TakeBranch \/ Succeed \/ Finish
      BY <1>6, <2>2, <2>5 DEF Enter, ExpectToken, RepeatChild, ContinueExpression,
                              SkipSign, TakeBranch, Succeed, Finish, At, Return
    <2> QED
      BY <2>3, <2>4, <2>5 DEF Next
  <1>7. ASSUME errors' = 1, verdict' = "rejected"
        PROVE  wanted' \subseteq Language!Viable(forms')
    <2>1. errors = 1
      BY <1>1, <1>2, <1>7
    <2>2. Finish
      BY <1>7 DEF Next, Enter, ExpectToken, StartDeclaration, RepeatChild,
                  ContinueExpression, SkipSign, TakeBranch, Succeed, ReturnToParent,
                  Return, Refuse
    <2>3. /\ answer = "false" /\ Len(frames) = 1 /\ consumed' = consumed
          /\ wanted' = wanted
      BY <1>7, <2>1, <2>2 DEF Finish, ParserInv, TypeOK
    <2>4. ~AtStart
      BY <2>3, StartIsOptional
    <2>5. wanted \subseteq Language!Viable(forms)
      BY <2>1, <2>3, <2>4 DEF Outcome
    <2> QED
      BY <2>3, <2>5 DEF Watch
  <1> QED
    BY <1>4, <1>5, <1>6, <1>7 DEF Outcome, AdviceIsViable

-----------------------------------------------------------------------------
(* The inductive invariant.                                                *)

GrammarInv == ParserInv /\ Outcome

\* What the parser is about to do with a text is what the grammar asks of it.
LEMMA DefinitionDescribes ==
  \E g \in Forms :
     /\ Describes(Body("FunctionDeclaration"), <<>>, g)
     /\ ~HasStart(Body("FunctionDeclaration"))
     /\ Language!Start = Language!Leftmost({g})
     /\ Good(g)
  <1> DEFINE none == <<>>
             p == Cons(".", none)
             c == Cons("compound", p)
             k == Cons("[constants]", c)
             v == Cons("[variables]", k)
             g == Cons("[parameters]", v)
             d == Cons("definition", none)
             b1 == Optional("ParameterDeclaration")
             b2 == Optional("VariableDeclaration")
             b3 == Optional("ConstantDeclaration")
             b4 == Need("CompoundStatement")
             b5 == Expect(".")
             r3 == <<b3, b4, b5>>
             r2 == Cons(b2, r3)
             r1 == Cons(b1, r2)
  <1>1. /\ "." \in Tokens /\ none \in Forms /\ p \in Forms /\ c \in Forms /\ k \in Forms
        /\ v \in Forms /\ g \in Forms /\ d \in Forms
    <2>1. none \in Forms
      BY DEF Forms
    <2>2. /\ "." \in Symbol /\ "." \in Tokens /\ "compound" \in Symbol
          /\ "[constants]" \in Symbol /\ "[variables]" \in Symbol
          /\ "[parameters]" \in Symbol /\ "definition" \in Symbol
      BY SymbolNames
    <2> HIDE DEF none
    <2> QED
      BY <2>1, <2>2, ConsForms
  <1>2. /\ "ParameterDeclaration" \in Declarations /\ "VariableDeclaration" \in Declarations
        /\ "ConstantDeclaration" \in Declarations /\ "CompoundStatement" \in DOMAIN Names
    BY NamesAre DEF Declarations
  <1>3. /\ b1 \in PlainBlocks /\ b2 \in PlainBlocks /\ b3 \in PlainBlocks
        /\ b4 \in PlainBlocks /\ b5 \in PlainBlocks /\ PlainBlocks \subseteq Blocks
    BY <1>1, <1>2, BlocksAre
  <1>4. Good(none) /\ Follows("FunctionDeclaration", none)
    <2>1. Follows("FunctionDeclaration", none)
      BY <1>1 DEF Follows
    <2> QED
      BY <2>1, FollowsGood
  <1> HIDE DEF none
  <1>5. Begins0(p, {"."})
    BY <1>1, TokenBegins
  <1> HIDE DEF p
  <1>6. Begins1(c, {"BEGIN"})
    BY <1>1, SymbolBegins
  <1> HIDE DEF c
  <1>7. Begins2(k, {"CONST", "BEGIN"})
    BY <1>1, <1>6, OptionBegins
  <1> HIDE DEF k
  <1>8. Begins3(v, {"VAR", "CONST", "BEGIN"})
    BY <1>1, <1>7, OptionBegins
  <1> HIDE DEF v
  <1>9. Begins4(g, {"PARAM", "VAR", "CONST", "BEGIN"})
    BY <1>1, <1>8, OptionBegins
  <1>10. {"PARAM", "VAR", "CONST", "BEGIN"} \in SUBSET Ends /\ Ends \in SUBSET Ends
    BY TokenSets
  <1>11. Language!Expansions(d) = {g}
    BY <1>1, ExpandNonterminal DEF v, k, c, p
  <1> HIDE DEF g
  <1>12. Good(g) /\ Begins4(g, Ends)
    <2> DEFINE T == {"PARAM", "VAR", "CONST", "BEGIN"}
    <2>1. T \in SUBSET Ends /\ Begins4(g, T)
      BY <1>9, <1>10
    <2> HIDE DEF T
    <2> QED
      BY <1>10, <2>1, BeginsGood, BeginsMore
  <1>13. Good(d)
    BY <1>1, <1>11, <1>12 DEF Good, Begins5
  <1>14. <<"definition">> = d
    BY ConcatEmptySeq DEF d, Cons, none
  <1> HIDE DEF d
  <1>15. Language!Start = Language!Leftmost({g})
    BY <1>11, <1>13, <1>14, LeftmostExpands DEF Language!Start
  <1>16. Describes(r3, none, k) /\ r3 \in Seq(Blocks) /\ ~HasStart(r3)
    <2>1. Explains(b5, ".", none, none)
      BY <1>1, <1>4, ExplainsEach
    <2>2. Explains(b4, "compound", p, none)
      <3>1. Follows("CompoundStatement", p)
        BY <1>1, <1>5 DEF Follows
      <3> QED
        BY <1>2, <3>1, ExplainsEach, NamesAre
    <2>3. Explains(b3, "[constants]", c, none)
      <3>1. Follows("ConstantDeclaration", c)
        BY <1>1, <1>6 DEF Follows
      <3> QED
        BY <1>2, <3>1, ExplainsEach, NamesAre
    <2>4. r3 \in Seq(PlainBlocks)
      BY <1>3, ListType
    <2> HIDE DEF b3, b4, b5
    <2>5. Describes(r3, none, Cons("[constants]", Cons("compound", Cons(".", none))))
      <3>1. "." \in Symbol /\ "compound" \in Symbol /\ "[constants]" \in Symbol
        BY SymbolNames
      <3>2. Explains(b4, "compound", Cons(".", none), none)
        BY <2>2 DEF p
      <3>3. Explains(b3, "[constants]", Cons("compound", Cons(".", none)), none)
        BY <2>3 DEF p, c
      <3> QED
        BY <1>1, <1>3, <2>1, <3>1, <3>2, <3>3, DescribesList
    <2>6. Describes(r3, none, k)
      BY <2>5 DEF k, c, p
    <2>7. r3 \in Seq(Blocks) /\ ~HasStart(r3)
      <3> HIDE DEF r3
      <3> QED
        BY <2>4, PlainList
    <2> QED
      BY <2>6, <2>7
  <1> HIDE DEF r3
  <1>17. Describes(r2, none, v) /\ r2 \in Seq(Blocks) /\ ~HasStart(r2)
    <2>1. Follows("VariableDeclaration", k)
      BY <1>1, <1>7 DEF Follows
    <2> QED
      BY <1>2, <1>16, <2>1, DescribesMore, NamesAre DEF v
  <1> HIDE DEF r2
  <1>18. Describes(r1, none, g) /\ r1 \in Seq(Blocks) /\ ~HasStart(r1)
    <2>1. Follows("ParameterDeclaration", v)
      BY <1>1, <1>8 DEF Follows
    <2> QED
      BY <1>2, <1>17, <2>1, DescribesMore, NamesAre DEF g
  <1>19. Body("FunctionDeclaration") = r1
    <2>1. Body("FunctionDeclaration") = <<b1, b2, b3, b4, b5>>
      BY DEF Body, FunctionDeclaration
    <2> HIDE DEF b1, b2, b3, b4, b5
    <2>2. <<b1, b2, b3, b4, b5>> = Cons(b1, <<b2, b3, b4, b5>>)
      BY <1>3, ConsTuple5
    <2>3. <<b2, b3, b4, b5>> = Cons(b2, <<b3, b4, b5>>)
      BY <1>3, ConsTuple4
    <2> QED
      BY <2>1, <2>2, <2>3 DEF r2, r3
  <1> QED
    BY <1>1, <1>12, <1>15, <1>18, <1>19 DEF none

\* At the beginning the activation of the definition is all there is.
LEMMA GrammarInit == CheckedInit => GrammarInv
  <1> SUFFICES ASSUME CheckedInit PROVE GrammarInv
    OBVIOUS
  <1>1. ParserInv
    BY ParserInit DEF CheckedInit
  <1>2. /\ frames = <<Activation("FunctionDeclaration")>> /\ answer = "none" /\ errors = 0
        /\ verdict = "parsing" /\ forms = Language!Start
    BY DEF CheckedInit, Init
  <1>3. PICK g \in Forms :
           /\ Describes(Body("FunctionDeclaration"), <<>>, g)
           /\ ~HasStart(Body("FunctionDeclaration"))
           /\ Language!Start = Language!Leftmost({g})
           /\ Good(g)
    BY DefinitionDescribes
  <1> DEFINE a == Activation("FunctionDeclaration")
             none == <<>>
  <1>4. /\ a \in Frames /\ a.class = "FunctionDeclaration"
        /\ a.rest = Body("FunctionDeclaration")
    BY BodyType DEF Activation, Frame, Frames, Classes
  <1>5. /\ none \in Seq(Frames) /\ none \in Forms
        /\ Follows("FunctionDeclaration", none) /\ StackOf(none, none)
    BY StackNone DEF Follows, Forms
  <1> HIDE DEF a
  <1>6. frames = Append(none, a)
    BY <1>2 DEF a
  <1>7. Front(frames) = none /\ Top = a
    <2> HIDE DEF none
    <2> QED
      BY <1>4, <1>5, <1>6, StackTop DEF Top
  <1>8. ~AtStart
    <2> DEFINE r == Top.rest
    <2>1. r \in Seq(Blocks) /\ ~HasStart(r)
      BY <1>3, <1>4, <1>7 DEF Describes
    <2> HIDE DEF r
    <2>2. r = <<>> \/ Head(r).kind # "start"
      BY <2>1, StartsAre
    <2> QED
      BY <2>2 DEF AtStart, Current, r
  <1>9. Goals(none, g) = {g}
    BY <1>2, <1>8 DEF Goals
  <1>10. Expects(forms, ahead, {g})
    <2> DEFINE G == {g}
    <2>1. Ends \in SUBSET Ends /\ \A f \in G : Begins5(f, Ends)
      BY <1>3 DEF Good
    <2> HIDE DEF G
    <2>2. \A f \in Language!Leftmost(G) : Begins0(f, Ends)
      BY <2>1, LeftmostBegins
    <2>3. forms = Language!Leftmost(G)
      BY <1>2, <1>3 DEF G
    <2>4. Expects(forms, ahead, G)
      BY <2>2, <2>3 DEF Expects
    <2> QED
      BY <2>4 DEF G
  <1>11. OnCourse
    BY <1>2, <1>3, <1>4, <1>5, <1>7, <1>9, <1>10 DEF OnCourse
  <1>12. Outcome
    BY <1>2, <1>11 DEF Outcome, AdviceIsViable
  <1> QED
    BY <1>1, <1>12 DEF GrammarInv

\* Every step of the parser, with the grammar watching, keeps the invariant.
LEMMA GrammarStep ==
  GrammarInv /\ [CheckedNext]_<<vars, forms>> => GrammarInv'
  <1> SUFFICES ASSUME GrammarInv, [CheckedNext]_<<vars, forms>>
               PROVE  GrammarInv'
    OBVIOUS
  <1>1. ParserInv /\ Outcome
    BY DEF GrammarInv
  <1>2. CASE UNCHANGED <<vars, forms>>
    <2>1. ParserInv'
      BY <1>1, <1>2, ParserStep
    <2>2. /\ ahead' = ahead /\ frames' = frames /\ answer' = answer /\ errors' = errors
          /\ wanted' = wanted /\ verdict' = verdict /\ forms' = forms
      BY <1>2 DEF vars
    <2>3. /\ Top' = Top /\ AtStart' = AtStart /\ Refused' = Refused /\ IsWord' = IsWord
          /\ \A u, g : Goals(u, g)' = Goals(u, g)
      BY <2>2 DEF Top, AtStart, Current, Refused, IsWord, Goals
    <2>4. OnCourse' = OnCourse
      BY <2>2, <2>3 DEF OnCourse
    <2>5. Outcome'
      BY <1>1, <2>2, <2>3, <2>4 DEF Outcome, AdviceIsViable
    <2> QED
      BY <2>1, <2>5 DEF GrammarInv
  <1>3. CASE CheckedNext
    <2>1. Next /\ Watch
      BY <1>3 DEF CheckedNext, Watch
    <2>2. ParserInv'
      BY <1>1, <2>1, ParserStep
    <2>3. verdict = "parsing"
      BY <2>1 DEF Next, Enter, ExpectToken, StartDeclaration, RepeatChild,
                  ContinueExpression, SkipSign, TakeBranch, Succeed, ReturnToParent,
                  Finish, At
    <2>4. CASE errors = 0
      <3>1. OnCourse
        BY <1>1, <2>3, <2>4 DEF Outcome
      <3>2. Outcome'
        BY <1>1, <2>1, <2>3, <2>4, <3>1, EnterCourse, ExpectCourse, StartCourse,
           RepeatCourse, ContinueCourse, SignCourse, BranchCourse, SucceedCourse,
           ReturnCourse, FinishCourse DEF Next
      <3> QED
        BY <2>2, <3>2 DEF GrammarInv
    <2>5. CASE errors # 0
      <3>1. errors > 0
        BY <1>1, <2>5 DEF ParserInv, TypeOK
      <3>2. Outcome'
        BY <1>1, <2>1, <2>3, <3>1, ReportedOutcome
      <3> QED
        BY <2>2, <3>2 DEF GrammarInv
    <2> QED
      BY <2>4, <2>5
  <1> QED
    BY <1>2, <1>3

\* The invariant holds throughout.
LEMMA GrammarAlways == CheckedSpec => []GrammarInv
  BY GrammarInit, GrammarStep, PTL DEF CheckedSpec

-----------------------------------------------------------------------------
(* The theorems.                                                           *)

\* What recursiveDescentParser and compileCode accept without a message is a
\* word of the grammar of final.pdf, however long the text.
THEOREM AcceptedIsWord == CheckedSpec => []AcceptsOnlyWords
  <1>1. GrammarInv => AcceptsOnlyWords
    BY DEF GrammarInv, Outcome, AcceptsOnlyWords
  <1> QED
    BY <1>1, GrammarAlways, PTL

\* A printCompileError of the parser, or a failed assertion of lookup(), is
\* never wrong: the tokens up to and including the one refused begin no word.
THEOREM RefusedIsNoWord == CheckedSpec => []RefusesOnlyNonWords
  <1>1. GrammarInv => RefusesOnlyNonWords
    BY RefusedIs DEF GrammarInv, Outcome, RefusesOnlyNonWords
  <1> QED
    BY <1>1, GrammarAlways, PTL

\* The tokens that the only message of printCompileError asks for are tokens
\* with which the text could go on.
THEOREM AdviceLeadsOn == CheckedSpec => []AdviceIsViable
  <1>1. GrammarInv => AdviceIsViable
    BY DEF GrammarInv, Outcome
  <1> QED
    BY <1>1, GrammarAlways, PTL
=============================================================================
