----------------------------- MODULE SspAnyPeer -----------------------------
(***************************************************************************)
(* SspReceiver on its own, facing a peer that may send any instruction at  *)
(* all: numbers that go backwards, bases never sent, throwaways that run   *)
(* ahead of everything.  The comments in process_instruction promise that  *)
(* the queue's invariants survive all of that.                             *)
(***************************************************************************)
EXTENDS SspReceiver

CONSTANTS
  Instructions,   \* what may arrive
  Malformed,      \* the diffs among them that do not parse
  MaxTime         \* bound on the clock

ASSUME AnyPeerAssumption ==
  /\ \A m \in Instructions :
       /\ m.old_num \in Nat /\ m.new_num \in Nat /\ m.throwaway_num \in Nat
       /\ m.diff \in Seq(Range(m.diff))
  /\ MaxTime \in Nat

VARIABLES
  now,
  fatal    \* process_instruction has returned an error

vars == << received, quench_until, now, fatal >>

Init == ReceiverInit /\ now = 0 /\ fatal = FALSE

Clock == now < MaxTime /\ now' = now + 1 /\ UNCHANGED << receiverVars, fatal >>

\* Other datagrams may still be handled in the wake that became fatal.
Arrives(inst) ==
  /\ \/ inst.diff \notin Malformed /\ process_instruction(inst, now) /\ UNCHANGED fatal
     \/ /\ inst.diff \in Malformed
        /\ Duplicate(inst) \/ NoReference(inst) \/ ReferenceThrownAway(inst)
             \/ Quenched(inst, now)
        /\ UNCHANGED fatal
     \/ inst.diff \in Malformed /\ BadDiff(inst, now) /\ fatal' = TRUE
  /\ UNCHANGED now

Next == Clock \/ \E inst \in Instructions : Arrives(inst)

Spec == Init /\ [][Next]_vars

-----------------------------------------------------------------------------
\* HeldStatesSorted: the queue of process_instruction is never empty and its
\* numbers strictly increase, so latest() is the newest state, a number names
\* at most one state, and retain(num >= n) keeps a suffix.
HeldStatesSorted ==
  /\ Len(received) > 0
  /\ \A i, j \in 1 .. Len(received) : i < j => received[i].num < received[j].num

\* QuenchBoundsQueue: once the queue is over RECEIVED_QUEUE_CAP it gains at most one
\* state per QUENCH_WINDOW_MS, whether appended or inserted out of order.
QuenchBoundsQueue ==
  QUENCH_WINDOW_MS > 0 =>
    Len(received) <= RECEIVED_QUEUE_CAP + 2 + (now \div QUENCH_WINDOW_MS)

\* LatestNeverRegresses: no instruction, however stale or ill-formed its
\* throwaway, lowers the number of the newest state held, the number that
\* the session acknowledges.
LatestNeverRegresses == [][latest'.num >= latest.num]_vars
=============================================================================
