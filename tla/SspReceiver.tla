---------------------------- MODULE SspReceiver -----------------------------
(***************************************************************************)
(* The receiving half of the State Synchronization Protocol (src/ssp.rs,   *)
(* SspReceiver): the states of the peer's stream that are held, sorted by  *)
(* number, and one action per outcome of process_instruction.  The         *)
(* timestamps of held states are left out: nothing reads them.             *)
(***************************************************************************)
EXTENDS UserStream, SequencesExt

CONSTANTS
  RECEIVED_QUEUE_CAP,   \* states held before quenching (1024)
  QUENCH_WINDOW_MS      \* one state over the cap per window (15 000)

ASSUME QuenchAssumption ==
  RECEIVED_QUEUE_CAP \in Nat /\ QUENCH_WINDOW_MS \in Nat

VARIABLES
  received,        \* <<[num, state]>>
  quench_until

receiverVars == << received, quench_until >>

ReceiverInit ==
  /\ received = << [num |-> 0, state |-> << >>] >>
  /\ quench_until = 0

latest == Last(received)

\* Mutant: looks for the number in the newest state only.
NewestHas(q, n) == Last(q).num = n

Holds(q, n) == \E i \in 1 .. Len(q) : q[i].num = n

\* Whether a throwaway number leaves anything in the queue.
LeavesSome(q, n) == \E i \in 1 .. Len(q) : q[i].num >= n

\* retain(num >= n): the queue is sorted, so a suffix of it.
ThrowAwayUntil(q, n) ==
  LET first == CHOOSE i \in 1 .. Len(q) :
                 q[i].num >= n /\ \A j \in 1 .. i - 1 : q[j].num < n
  IN  SubSeq(q, first, Len(q))

Reference(q, n) == CHOOSE i \in 1 .. Len(q) : q[i].num = n

\* Mutant: the diff is applied to the newest state instead of its base.
AppliedToLatest(q, inst) ==
  [num |-> inst.new_num, state |-> apply_string(Last(q).state, inst.diff)]

\* The state an instruction denotes: its diff applied to the state it names.
NewState(q, inst) ==
  [num   |-> inst.new_num,
   state |-> apply_string(q[Reference(q, inst.old_num)].state, inst.diff)]

\* Mutant: an out-of-order state is pushed at the end.
SlotAtEnd(q, n) == Len(q) + 1

\* position(num > n), the slot of an out-of-order state.
Slot(q, n) ==
  CHOOSE i \in 1 .. Len(q) : q[i].num > n /\ \A j \in 1 .. i - 1 : q[j].num <= n

-----------------------------------------------------------------------------
(* process_instruction: the early returns, then the two ways to insert. *)

Duplicate(inst) ==
  /\ Holds(received, inst.new_num)
  /\ UNCHANGED receiverVars

\* The base is unknown, or the throwaway would empty the queue.
NoReference(inst) ==
  /\ ~ Holds(received, inst.new_num)
  /\ ~ Holds(received, inst.old_num) \/ ~ LeavesSome(received, inst.throwaway_num)
  /\ UNCHANGED receiverVars

Admissible(inst) ==
  /\ ~ Holds(received, inst.new_num)
  /\ Holds(received, inst.old_num)
  /\ LeavesSome(received, inst.throwaway_num)

\* The throwaway discards the base of its own instruction.
ReferenceThrownAway(inst) ==
  LET kept == ThrowAwayUntil(received, inst.throwaway_num)
  IN  /\ Admissible(inst)
      /\ ~ Holds(kept, inst.old_num)
      /\ received' = kept
      /\ UNCHANGED quench_until

OverCap(q) == Len(q) > RECEIVED_QUEUE_CAP

\* Over the cap inside the window: the throwaway has already taken effect.
Quenched(inst, t) ==
  LET kept == ThrowAwayUntil(received, inst.throwaway_num)
  IN  /\ Admissible(inst)
      /\ Holds(kept, inst.old_num)
      /\ OverCap(kept) /\ t < quench_until
      /\ received' = kept
      /\ UNCHANGED quench_until

\* Mutant: the quench window is not armed again.
AppliedUnarmed(inst, t) ==
  LET kept == ThrowAwayUntil(received, inst.throwaway_num)
  IN  /\ Admissible(inst)
      /\ Holds(kept, inst.old_num)
      /\ ~ (OverCap(kept) /\ t < quench_until)
      /\ UNCHANGED quench_until

Applied(inst, t) ==
  LET kept == ThrowAwayUntil(received, inst.throwaway_num)
  IN  /\ Admissible(inst)
      /\ Holds(kept, inst.old_num)
      /\ ~ (OverCap(kept) /\ t < quench_until)
      /\ quench_until' = IF OverCap(kept) THEN t + QUENCH_WINDOW_MS
                                          ELSE quench_until

Latest(inst, t) ==
  LET kept == ThrowAwayUntil(received, inst.throwaway_num)
  IN  /\ Applied(inst, t)
      /\ Last(kept).num < inst.new_num
      /\ received' = Append(kept, NewState(kept, inst))

OutOfOrder(inst, t) ==
  LET kept == ThrowAwayUntil(received, inst.throwaway_num)
  IN  /\ Applied(inst, t)
      /\ Last(kept).num >= inst.new_num
      /\ received' = InsertAt(kept, Slot(kept, inst.new_num), NewState(kept, inst))

\* The diff does not parse: an error is returned after the throwaway and the
\* quench window took effect, and nothing is inserted.
BadDiff(inst, t) ==
  /\ Applied(inst, t)
  /\ inst.diff # << >>
  /\ received' = ThrowAwayUntil(received, inst.throwaway_num)

\* The outcomes that change nothing in the session's own sender.
Ignored(inst, t) ==
  \/ Duplicate(inst)
  \/ NoReference(inst)
  \/ ReferenceThrownAway(inst)
  \/ Quenched(inst, t)
  \/ OutOfOrder(inst, t)

process_instruction(inst, t) == Latest(inst, t) \/ Ignored(inst, t)
=============================================================================
