----------------------------- MODULE MCSspLink ------------------------------
(* Instances of SspLink for TLC: events are interchangeable. *)
EXTENDS SspLink

Keys == Permutations(Events)
=============================================================================
