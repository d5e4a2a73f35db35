----------------------------- MODULE StreamSync -----------------------------
(***************************************************************************)
(* What one direction of SSP promises the layers above it, without state   *)
(* numbers, diffs, timers or a network: the peer's view of the stream is   *)
(* always a prefix of what was entered and only ever grows; after the      *)
(* stream is sealed nothing is entered; and the end of the stream is       *)
(* confirmed only when the peer has all of it.                             *)
(***************************************************************************)
EXTENDS Integers, Sequences

CONSTANT Events

VARIABLES typed, delivered, sealed, finished

syncVars == << typed, delivered, sealed, finished >>

Init ==
  /\ typed = << >>
  /\ delivered = << >>
  /\ sealed = FALSE
  /\ finished = FALSE

Enter ==
  /\ ~ sealed
  /\ \E e \in Events : typed' = Append(typed, e)
  /\ UNCHANGED << delivered, sealed, finished >>

Deliver ==
  /\ \E n \in Len(delivered) .. Len(typed) : delivered' = SubSeq(typed, 1, n)
  /\ UNCHANGED << typed, sealed, finished >>

Seal ==
  /\ sealed' = TRUE
  /\ UNCHANGED << typed, delivered, finished >>

Finish ==
  /\ sealed /\ delivered = typed
  /\ finished' = TRUE
  /\ UNCHANGED << typed, delivered, sealed >>

Next == Enter \/ Deliver \/ Seal \/ Finish

Spec == Init /\ [][Next]_syncVars
=============================================================================
