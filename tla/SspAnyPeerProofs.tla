-------------------------- MODULE SspAnyPeerProofs --------------------------
(***************************************************************************)
(* Proofs that the receiver's queue keeps its discipline whatever the peer *)
(* sends: for every set of instructions, every cap and every window.       *)
(***************************************************************************)
EXTENDS SspAnyPeer, SspReceiverProofs

USE QuenchAssumption

\* Whatever the diffs can put into a stream.
AnyEvent == UNION {Range(m.diff) : m \in Instructions}
Held == [num : Nat, state : Seq(AnyEvent)]

\* Each state beyond the one that first exceeded the cap has armed the window
\* anew after the previous window ran out.
WindowsPaid ==
  LET over == Len(received) - (RECEIVED_QUEUE_CAP + 1)
  IN  /\ quench_until \in Nat /\ quench_until <= now + QUENCH_WINDOW_MS
      /\ over >= 1 => quench_until >= over * QUENCH_WINDOW_MS

\* AnyPeerInv: the inductive invariant behind the queue's discipline.
AnyPeerInv ==
  /\ received \in Seq(Held) /\ received # << >> /\ StrictlySorted(received)
  /\ now \in Nat
  /\ WindowsPaid

LEMMA HeldHasNumber == \A h \in Held : h.num \in Nat
BY DEF Held

LEMMA DiffOfAnyEvents == \A m \in Instructions : m.diff \in Seq(AnyEvent)
<1>1. TAKE m \in Instructions
<1>2. m.diff \in Seq(Range(m.diff))
  BY AnyPeerAssumption
<1>3. Len(m.diff) \in Nat /\ DOMAIN m.diff = 1 .. Len(m.diff)
      /\ m.diff = [i \in 1 .. Len(m.diff) |-> m.diff[i]]
  BY <1>2, LenProperties
<1>4. \A i \in 1 .. Len(m.diff) : m.diff[i] \in AnyEvent
  BY <1>3 DEF AnyEvent, Range
<1>5. m.diff \in [1 .. Len(m.diff) -> AnyEvent]
  BY <1>3, <1>4
<1>6. QED
  BY <1>3, <1>5, FunctionIsSeq

\* The state that an instruction denotes carries its number.
LEMMA NewStateIsHeld ==
  ASSUME NEW q \in Seq(Held), NEW inst \in Instructions, Holds(q, inst.old_num)
  PROVE  NewState(q, inst) \in Held /\ NewState(q, inst).num = inst.new_num
<1> DEFINE r == Reference(q, inst.old_num)
<1>1. r \in 1 .. Len(q)
  BY DEF Holds, Reference
<1> HIDE DEF r
<1>2. q[r].state \in Seq(AnyEvent)
  <2>1. q[r] \in Held
    BY <1>1, ElementOfSeq
  <2>2. QED
    BY <2>1 DEF Held
<1>3. apply_string(q[r].state, inst.diff) \in Seq(AnyEvent)
  BY <1>2, DiffOfAnyEvents, ConcatProperties DEF apply_string
<1>4. QED
  BY <1>3, AnyPeerAssumption DEF NewState, Held, r

LEMMA InitAnyPeer == Init => AnyPeerInv
<1> SUFFICES ASSUME Init PROVE AnyPeerInv
  OBVIOUS
<1>1. /\ received = << [num |-> 0, state |-> << >>] >>
      /\ [num |-> 0, state |-> << >>] \in Held
  BY DEF Init, ReceiverInit, Held
<1>2. received \in Seq(Held) /\ received # << >> /\ Len(received) = 1
  BY <1>1
<1>3. StrictlySorted(received)
  BY <1>2 DEF StrictlySorted
<1>4. WindowsPaid
  BY <1>2 DEF WindowsPaid, Init, ReceiverInit
<1>5. QED
  BY <1>2, <1>3, <1>4 DEF AnyPeerInv, Init

\* What throwing away leaves: at least the newest state, and no more windows
\* to account for.
LEMMA Kept ==
  ASSUME AnyPeerInv, NEW inst \in Instructions, Admissible(inst)
  PROVE  LET kept == ThrowAwayUntil(received, inst.throwaway_num)
         IN  /\ kept \in Seq(Held) /\ kept # << >> /\ StrictlySorted(kept)
             /\ Last(kept) = latest
             /\ Len(kept) \in Nat /\ Len(kept) >= 1 /\ Len(kept) <= Len(received)
             /\ ~ Holds(kept, inst.new_num)
<1> DEFINE kept == ThrowAwayUntil(received, inst.throwaway_num)
<1>1. /\ kept \in Seq(Held) /\ kept # << >> /\ StrictlySorted(kept)
      /\ Last(kept) = Last(received) /\ Len(kept) <= Len(received)
      /\ \A i \in 1 .. Len(kept) : \E j \in 1 .. Len(received) : kept[i] = received[j]
  <2>1. /\ received \in Seq(Held) /\ received # << >> /\ StrictlySorted(received)
        /\ LeavesSome(received, inst.throwaway_num) /\ inst.throwaway_num \in Nat
    BY AnyPeerAssumption DEF AnyPeerInv, Admissible
  <2>2. QED
    BY <2>1, HeldHasNumber, ThrowAway
<1> HIDE DEF kept
<1>2. Len(kept) \in Nat /\ Len(kept) >= 1
  BY <1>1, NonEmptySeq
<1>3. ~ Holds(kept, inst.new_num)
  BY <1>1 DEF Admissible, Holds
<1>4. QED
  BY <1>1, <1>2, <1>3 DEF kept, latest

\* An instruction that changes the queue leaves what throwing away kept, or
\* that and one state more, and in the latter case only past a quench window.
LEMMA ArrivalKeeps ==
  ASSUME AnyPeerInv, NEW inst \in Instructions, Arrives(inst)
  PROVE  AnyPeerInv' /\ latest'.num >= latest.num
<1> DEFINE kept == ThrowAwayUntil(received, inst.throwaway_num)
           new == NewState(kept, inst)
           gained == Len(received') - Len(kept)
<1>1. /\ received \in Seq(Held) /\ received # << >> /\ Len(received) \in Nat
      /\ latest \in Held /\ latest.num \in Nat
      /\ now \in Nat /\ now' = now /\ inst.new_num \in Nat
  <2>1. received \in Seq(Held) /\ received # << >> /\ now \in Nat
    BY DEF AnyPeerInv
  <2>2. Len(received) \in Nat /\ Last(received) \in Held
    BY <2>1, NonEmptySeq
  <2>3. QED
    BY <2>1, <2>2, HeldHasNumber, AnyPeerAssumption DEF latest, Arrives
<1>2. CASE UNCHANGED receiverVars
  <2>1. received' = received /\ quench_until' = quench_until
    BY <1>2 DEF receiverVars
  <2>2. QED
    BY <1>1, <2>1 DEF AnyPeerInv, StrictlySorted, WindowsPaid, latest, Last
<1>3. CASE Admissible(inst) /\ received' = kept /\ UNCHANGED quench_until
  <2>1. /\ kept \in Seq(Held) /\ kept # << >> /\ StrictlySorted(kept)
        /\ Last(kept) = latest /\ Len(kept) \in Nat /\ Len(kept) <= Len(received)
    BY <1>3, Kept
  <2> HIDE DEF kept
  <2>2. WindowsPaid'
    <3> DEFINE before == Len(received) - (RECEIVED_QUEUE_CAP + 1)
               after == Len(kept) - (RECEIVED_QUEUE_CAP + 1)
    <3>1. /\ quench_until \in Nat /\ quench_until <= now + QUENCH_WINDOW_MS
          /\ before >= 1 => quench_until >= before * QUENCH_WINDOW_MS
      BY DEF AnyPeerInv, WindowsPaid
    <3>2. after <= before /\ after \in Int /\ before \in Int
      BY <1>1, <2>1
    <3>3. after * QUENCH_WINDOW_MS <= before * QUENCH_WINDOW_MS
      <4> HIDE DEF after, before
      <4>1. QED
        BY <3>2
    <3>4. after >= 1 => quench_until >= after * QUENCH_WINDOW_MS
      <4> HIDE DEF after, before
      <4>1. QED
        BY <3>1, <3>2, <3>3
    <3>5. QED
      BY <1>1, <1>3, <3>1, <3>4 DEF WindowsPaid
  <2>3. QED
    BY <1>1, <1>3, <2>1, <2>2 DEF AnyPeerInv, latest
<1>4. ASSUME Applied(inst, now), received' # << >>, received' \in Seq(Held),
             StrictlySorted(received'), gained \in {0, 1}, Last(received').num >= latest.num
      PROVE  AnyPeerInv' /\ latest'.num >= latest.num
  <2>1. /\ Admissible(inst)
        /\ ~ (Len(kept) > RECEIVED_QUEUE_CAP /\ now < quench_until)
        /\ quench_until' = IF Len(kept) > RECEIVED_QUEUE_CAP
                             THEN now + QUENCH_WINDOW_MS ELSE quench_until
    BY <1>4 DEF Applied, OverCap
  <2>2. Len(kept) \in Nat /\ Len(kept) <= Len(received)
    BY <2>1, Kept
  <2>3. Len(received') \in Nat
    BY <1>4, NonEmptySeq
  <2> HIDE DEF kept
  <2>4. WindowsPaid'
    <3> DEFINE W == QUENCH_WINDOW_MS
               before == Len(received) - (RECEIVED_QUEUE_CAP + 1)
               between == Len(kept) - (RECEIVED_QUEUE_CAP + 1)
               after == Len(received') - (RECEIVED_QUEUE_CAP + 1)
    <3>1. /\ quench_until \in Nat /\ quench_until <= now + W
          /\ before >= 1 => quench_until >= before * W
      BY DEF AnyPeerInv, WindowsPaid
    <3>2. /\ between <= before /\ after \in {between, between + 1}
          /\ after \in Int /\ between \in Int /\ before \in Int /\ W \in Nat
      BY <1>1, <1>4, <2>2, <2>3
    <3>3. CASE between < 0
      <4>1. ~ (Len(kept) > RECEIVED_QUEUE_CAP) /\ ~ (after >= 1)
        BY <2>2, <3>2, <3>3
      <4>2. QED
        BY <1>1, <2>1, <3>1, <4>1 DEF WindowsPaid
    <3>4. CASE between >= 0
      <4>1. Len(kept) > RECEIVED_QUEUE_CAP
        BY <2>2, <3>4
      <4>2. quench_until' = now + W /\ now >= quench_until
        BY <1>1, <2>1, <3>1, <4>1
      <4>3. between * W <= now
        <5> HIDE DEF before, between, after, W
        <5>1. CASE between = 0
          <6>1. between * W = 0
            BY <3>2, <5>1
          <6>2. QED
            BY <1>1, <6>1
        <5>2. CASE between >= 1
          <6>1. between * W <= before * W
            BY <3>2, <5>2
          <6>2. before >= 1 /\ between * W \in Int /\ before * W \in Int
            BY <3>2, <5>2
          <6>3. QED
            BY <1>1, <3>1, <4>2, <6>1, <6>2
        <5>3. QED
          BY <3>2, <3>4, <5>1, <5>2
      <4>4. after * W <= now + W
        <5> HIDE DEF before, between, after, W
        <5>1. after * W <= between * W + W
          BY <3>2
        <5>2. after * W \in Int /\ between * W \in Int
          BY <3>2
        <5>3. QED
          BY <1>1, <3>2, <4>3, <5>1, <5>2
      <4>5. QED
        BY <1>1, <4>2, <4>4 DEF WindowsPaid
    <3>5. QED
      BY <3>2, <3>3, <3>4
  <2>5. QED
    BY <1>1, <1>4, <2>4 DEF AnyPeerInv, latest
<1>5. CASE Latest(inst, now)
  <2>1. /\ Applied(inst, now) /\ Admissible(inst) /\ Holds(kept, inst.old_num)
        /\ Last(kept).num < inst.new_num /\ received' = Append(kept, new)
    BY <1>5 DEF Latest, Applied
  <2>2. /\ kept \in Seq(Held) /\ kept # << >> /\ StrictlySorted(kept)
        /\ Last(kept) = latest /\ Len(kept) \in Nat
    BY <2>1, Kept
  <2>3. new \in Held /\ new.num = inst.new_num
    BY <2>1, <2>2, NewStateIsHeld
  <2> HIDE DEF kept, new
  <2>4. /\ Append(kept, new) \in Seq(Held) /\ Append(kept, new) # << >>
        /\ StrictlySorted(Append(kept, new))
        /\ Last(Append(kept, new)) = new
        /\ Len(Append(kept, new)) = Len(kept) + 1
    BY <2>1, <2>2, <2>3, HeldHasNumber, AppendHeld
  <2>5. gained = 1 /\ Last(received').num >= latest.num
    BY <1>1, <2>1, <2>2, <2>3, <2>4
  <2>6. QED
    BY <1>4, <2>1, <2>4, <2>5
<1>6. CASE OutOfOrder(inst, now)
  <2>1. /\ Applied(inst, now) /\ Admissible(inst) /\ Holds(kept, inst.old_num)
        /\ Last(kept).num >= inst.new_num
        /\ received' = InsertAt(kept, Slot(kept, inst.new_num), new)
    BY <1>6 DEF OutOfOrder, Applied
  <2>2. /\ kept \in Seq(Held) /\ kept # << >> /\ StrictlySorted(kept)
        /\ Last(kept) = latest /\ Len(kept) \in Nat /\ ~ Holds(kept, inst.new_num)
    BY <2>1, Kept
  <2>3. new \in Held /\ new.num = inst.new_num
    BY <2>1, <2>2, NewStateIsHeld
  <2> HIDE DEF kept, new
  <2> DEFINE r == InsertAt(kept, Slot(kept, new.num), new)
  <2>4. /\ r \in Seq(Held) /\ r # << >> /\ StrictlySorted(r)
        /\ Last(r) = Last(kept) /\ Len(r) = Len(kept) + 1
    BY <2>1, <2>2, <2>3, HeldHasNumber, InsertHeld
  <2>5. received' = r
    BY <2>1, <2>3
  <2> HIDE DEF r
  <2>6. gained = 1 /\ Last(received').num >= latest.num
    BY <1>1, <2>2, <2>4, <2>5
  <2>7. QED
    BY <1>4, <2>1, <2>4, <2>5, <2>6
<1>7. CASE BadDiff(inst, now)
  <2>1. Applied(inst, now) /\ Admissible(inst) /\ received' = kept
    BY <1>7 DEF BadDiff, Applied
  <2>2. /\ kept \in Seq(Held) /\ kept # << >> /\ StrictlySorted(kept)
        /\ Last(kept) = latest /\ Len(kept) \in Nat
    BY <2>1, Kept
  <2> HIDE DEF kept
  <2>3. gained = 0 /\ Last(received').num >= latest.num
    BY <1>1, <2>1, <2>2
  <2>4. QED
    BY <1>4, <2>1, <2>2, <2>3
<1>8. CASE Duplicate(inst) \/ NoReference(inst)
  BY <1>2, <1>8 DEF Duplicate, NoReference
<1>9. CASE ReferenceThrownAway(inst) \/ Quenched(inst, now)
  BY <1>3, <1>9 DEF ReferenceThrownAway, Quenched
<1>10. QED
  BY <1>5, <1>6, <1>7, <1>8, <1>9 DEF Arrives, process_instruction, Ignored

LEMMA NextAnyPeer ==
  AnyPeerInv /\ [Next]_vars => AnyPeerInv' /\ [latest'.num >= latest.num]_vars
<1> SUFFICES ASSUME AnyPeerInv, [Next]_vars
             PROVE  AnyPeerInv' /\ [latest'.num >= latest.num]_vars
  OBVIOUS
<1>1. CASE \E inst \in Instructions : Arrives(inst)
  BY <1>1, ArrivalKeeps
<1>2. CASE Clock
  <2>1. received' = received /\ quench_until' = quench_until /\ now' = now + 1
    BY <1>2 DEF Clock, receiverVars
  <2>2. Last(received) \in Held
    BY NonEmptySeq DEF AnyPeerInv
  <2>3. latest'.num >= latest.num
    BY <2>1, <2>2, HeldHasNumber DEF latest
  <2>4. WindowsPaid'
    BY <2>1 DEF AnyPeerInv, WindowsPaid
  <2>5. QED
    BY <2>1, <2>3, <2>4 DEF AnyPeerInv, StrictlySorted
<1>3. CASE UNCHANGED vars
  BY <1>3 DEF vars, AnyPeerInv, StrictlySorted, WindowsPaid
<1>4. QED
  BY <1>1, <1>2, <1>3 DEF Next

-----------------------------------------------------------------------------
\* AnyPeerInv holds whatever arrives.
THEOREM AnyPeerInvariant == Spec => []AnyPeerInv
<1>1. QED
  BY InitAnyPeer, NextAnyPeer, PTL DEF Spec

\* The queue of process_instruction is never empty and stays strictly sorted.
THEOREM QueueStaysSorted == Spec => []HeldStatesSorted
<1>1. AnyPeerInv => HeldStatesSorted
  <2> SUFFICES ASSUME AnyPeerInv PROVE HeldStatesSorted
    OBVIOUS
  <2>1. Len(received) \in Nat /\ Len(received) >= 1
    BY NonEmptySeq DEF AnyPeerInv
  <2>2. QED
    BY <2>1 DEF AnyPeerInv, StrictlySorted, HeldStatesSorted
<1>2. QED
  BY <1>1, AnyPeerInvariant, PTL

\* The queue grows beyond its cap by one state per window at most, so a peer that
\* never throws away costs a bounded rate of memory.
THEOREM QueueGrowthIsPaced == Spec => []QuenchBoundsQueue
<1>1. AnyPeerInv => QuenchBoundsQueue
  <2> SUFFICES ASSUME AnyPeerInv, QUENCH_WINDOW_MS > 0
               PROVE  Len(received) <= RECEIVED_QUEUE_CAP + 2 + (now \div QUENCH_WINDOW_MS)
    BY DEF QuenchBoundsQueue
  <2> DEFINE W == QUENCH_WINDOW_MS
             over == Len(received) - (RECEIVED_QUEUE_CAP + 1)
  <2>1. /\ W \in Nat /\ W > 0 /\ now \in Nat
        /\ Len(received) \in Nat /\ over \in Int
    BY NonEmptySeq DEF AnyPeerInv
  <2>2. now \div W \in Nat /\ now < ((now \div W) + 1) * W
    BY <2>1
  <2>3. over >= 1 => over * W <= now + W
    BY <2>1 DEF AnyPeerInv, WindowsPaid
  <2>4. over <= 1 + (now \div W)
    <3> HIDE DEF over, W
    <3>1. SUFFICES ASSUME over >= (now \div W) + 2 PROVE FALSE
      BY <2>1, <2>2
    <3>2. over * W >= ((now \div W) + 2) * W
      BY <2>1, <2>2, <3>1
    <3>3. ((now \div W) + 2) * W = ((now \div W) + 1) * W + W
      BY <2>1, <2>2
    <3>4. over * W \in Int /\ ((now \div W) + 1) * W \in Int
      BY <2>1, <2>2
    <3>5. QED
      BY <2>1, <2>2, <2>3, <3>1, <3>2, <3>3, <3>4
  <2>5. QED
    BY <2>1, <2>2, <2>4
<1>2. QED
  BY <1>1, AnyPeerInvariant, PTL

\* No instruction lowers the number that the session acknowledges.
THEOREM LatestIsMonotone == Spec => LatestNeverRegresses
<1>1. QED
  BY AnyPeerInvariant, NextAnyPeer, PTL DEF Spec, LatestNeverRegresses
=============================================================================
