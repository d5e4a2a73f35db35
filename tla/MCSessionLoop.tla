--------------------------- MODULE MCSessionLoop ----------------------------
(* Two threads of the embedder.                                             *)
EXTENDS SessionLoop

CONSTANTS c1, c2
=============================================================================
