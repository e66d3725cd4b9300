---------------------------- MODULE MCSemantic ----------------------------
(* The analysis does not look at the spelling of identifiers. *)
EXTENDS Semantic, TLC

Renaming == Permutations(Names)
=============================================================================
