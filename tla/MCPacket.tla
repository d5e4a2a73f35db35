------------------------------ MODULE MCPacket ------------------------------
(* Clocks that pass the reserved timestamp and wrap within a few steps.     *)
EXTENDS Packet

Clocks == [e \in Directions |-> IF e = "ToServer" THEN 6 ELSE 7]
=============================================================================
