----------------------------- MODULE MCDisplay ------------------------------
(* Three host states: the second only resizes, the others repaint.          *)
EXTENDS Display, TLC

CONSTANTS small, large

ServerResizes == 2 :> large
NoServerResizes == << >>
=============================================================================
