------------------------------ MODULE MCLexer ------------------------------
(* One character of each kind, but two digits and two letters, of which one *)
(* is a keyword.                                                            *)
EXTENDS Literals

Reserved == {<<"E">>}
=============================================================================
