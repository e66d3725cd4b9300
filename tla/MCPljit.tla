------------------------------ MODULE MCPljit ------------------------------
(* Model values for the threads of Pljit and NodeNumbers. *)
EXTENDS NodeNumbers

CONSTANTS t1, t2
=============================================================================
