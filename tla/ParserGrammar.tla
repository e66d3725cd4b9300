--------------------------- MODULE ParserGrammar ---------------------------
(***************************************************************************)
(* The parser beside the grammar: forms holds every way in which the       *)
(* tokens consumed so far can be completed to a word of the language.      *)
(***************************************************************************)
EXTENDS Parser

Language == INSTANCE Grammar

VARIABLE forms

CheckedInit == Init /\ forms = Language!Start

CheckedNext ==
    /\ Next
    /\ forms' = IF consumed' = consumed THEN forms
                ELSE Language!After(forms, ahead)

\* The grammar only watches.  compileCode is a call that runs to its end.
CheckedSpec ==
    CheckedInit /\ [][CheckedNext]_<<vars, forms>> /\ WF_<<vars, forms>>(CheckedNext)

IsWord == ahead = NoToken /\ <<>> \in forms

\* A text that is accepted without a message is a word of the language.
AcceptsOnlyWords == verdict = "accepted" /\ errors = 0 => IsWord

\* A message, or a failed assertion, means that the text is no word: the
\* tokens up to and including the first one refused begin no word.
RefusesOnlyNonWords ==
    errors > 0 \/ verdict = "aborted" =>
        ahead \notin Language!Viable(forms) /\ ~IsWord

\* The single message of a rejected text asks for tokens that do lead on.
AdviceIsViable ==
    verdict = "rejected" /\ errors = 1 => wanted \subseteq Language!Viable(forms)
=============================================================================
