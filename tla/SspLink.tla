------------------------------ MODULE SspLink -------------------------------
(***************************************************************************)
(* One direction of a mosh session: the client's SspSender, a network that *)
(* loses, duplicates and reorders, and the peer's SspReceiver (the         *)
(* repository's tests run the peer with the same code; a real mosh-server  *)
(* runs its own implementation of the same protocol).  The reverse         *)
(* direction is reduced to what the sender sees of it: the ack numbers the *)
(* peer stamps on its instructions, and whether those instructions         *)
(* advanced the peer's own stream.                                         *)
(*                                                                         *)
(* The network is two sets that only grow: an instruction or ack once sent *)
(* may be delivered at any later time, any number of times, or never.  The *)
(* session loop runs commands, tick, wait_time and receive in a fixed      *)
(* cycle; here they interleave freely, so what holds here holds for the    *)
(* loop.                                                                   *)
(***************************************************************************)
EXTENDS SspSender, SspReceiver

CONSTANTS
  Rtos,            \* retransmission timeouts the RTT estimator may yield
  SendIntervals,   \* frame intervals it may yield
  HostNums,        \* state numbers of the peer's own stream
  MaxTime,         \* bound on the clock
  MaxTyped         \* bound on the events typed

ASSUME LinkAssumption ==
  /\ Rtos \subseteq Nat
  /\ SendIntervals \subseteq Nat
  /\ HostNums \subseteq Nat
  /\ MaxTime \in Nat
  /\ MaxTyped \in Nat

VARIABLES
  now,            \* the clock both ends read
  ended,          \* the session loop has reported Ended
  peer_ack_num,   \* the ack_num field of the peer's sender
  acks,           \* every ack number the peer has put on the wire
  typed,          \* history: every event the user has entered
  content         \* history: state number -> how many events it denotes

linkVars == << now, ended, peer_ack_num, acks, typed, content >>
vars == << senderVars, receiverVars, linkVars >>

HeldState == [num : Nat, state : State]

\* TypeOK: each variable stays in the range of its Rust type, and neither
\* queue is ever empty (front().unwrap() and back().expect() cannot panic).
TypeOK ==
  /\ SenderTypeOK
  /\ received \in Seq(HeldState) /\ received # << >>
  /\ quench_until \in Nat
  /\ now \in Nat
  /\ ended \in BOOLEAN
  /\ peer_ack_num \in Nat
  /\ acks \subseteq Nat
  /\ typed \in State
  /\ DOMAIN content \subseteq Nat
  /\ \A n \in DOMAIN content : content[n] \in Nat

Init ==
  /\ SenderInit
  /\ ReceiverInit
  /\ now = 0
  /\ ended = FALSE
  /\ peer_ack_num = 0
  /\ acks = {}
  /\ typed = << >>
  /\ content = [n \in {0} |-> 0]

-----------------------------------------------------------------------------
Clock ==
  /\ now < MaxTime
  /\ now' = now + 1
  /\ UNCHANGED << senderVars, receiverVars, ended, peer_ack_num, acks, typed,
                  content >>

\* drain_commands: Input and Resize (dropped once shutdown has started).
Type(e) ==
  /\ ~ ended
  /\ Len(typed) < MaxTyped
  /\ push(<< e >>)
  /\ typed' = Append(typed, e)
  /\ UNCHANGED << receiverVars, now, ended, peer_ack_num, acks, content >>

\* drain_commands: StartShutdown.
StartShutdown ==
  /\ ~ ended
  /\ start_shutdown(now)
  /\ UNCHANGED << receiverVars, linkVars >>

\* The checks of run() after the tick, on the values the tick left.
LoopEnds ==
  \/ \E m \in wire : m.ack_num = SHUTDOWN_NUM
  \/ shutdown_in_progress /\ (shutdown_acknowledged \/ shutdown_ack_timed_out(now))

\* A tick, and the loop's decision to end.
Tick(rto, si) ==
  /\ ~ ended
  /\ tick(now, rto, si)
  /\ content' = [n \in DOMAIN content \cup {back'.num} |->
                   IF n \in DOMAIN content THEN content[n] ELSE Len(typed)]
  /\ UNCHANGED << receiverVars, now, peer_ack_num, acks, typed >>
  /\ ended' = LoopEnds'

WaitTime(si) ==
  /\ ~ ended
  /\ wait_time(now, si)
  /\ UNCHANGED << receiverVars, linkVars >>

\* The peer's handle_datagram and apply_recv_outcome.
PeerReceive(inst) ==
  /\ \/ Latest(inst, now) /\ peer_ack_num' = inst.new_num
     \/ Ignored(inst, now) /\ UNCHANGED peer_ack_num
  /\ UNCHANGED << senderVars, now, ended, acks, typed, content >>

\* The peer sends an instruction of its own, stamped with its ack_num.
PeerSend ==
  /\ acks' = acks \cup {peer_ack_num}
  /\ UNCHANGED << senderVars, receiverVars, now, ended, peer_ack_num, typed,
                  content >>

\* handle_datagram: the ack is processed first, then the peer's state is
\* appended as the newest (num above all earlier ones) or ignored.
ClientReceive(ack) ==
  /\ ~ ended
  /\ process_acknowledgment_through(ack)
  /\ \/ \E num \in HostNums, had_diff \in BOOLEAN :
          /\ num > ack_num
          /\ NewestStateAppended(num, had_diff, now)
     \/ UNCHANGED << ack_num, last_heard, pending_data_ack >>
  /\ UNCHANGED << current_state, next_ack_time, mindelay_clock,
                  shutdown_in_progress, shutdown_tries, shutdown_start, wire >>
  /\ UNCHANGED << receiverVars, now, ended, peer_ack_num, acks, typed, content >>

Next ==
  \/ Clock
  \/ \E e \in Events : Type(e)
  \/ StartShutdown
  \/ \E rto \in Rtos, si \in SendIntervals : Tick(rto, si)
  \/ \E si \in SendIntervals : WaitTime(si)
  \/ \E inst \in wire : PeerReceive(inst)
  \/ PeerSend
  \/ \E ack \in acks : ClientReceive(ack)

Spec == Init /\ [][Next]_vars

-----------------------------------------------------------------------------
(* Correctness. *)

\* StreamsNeverFork: whatever is lost, duplicated or reordered, and whatever
\* the two ends cull, each state the peer holds under number n is exactly
\* the first content[n] events the user entered - process_instruction never
\* applies a diff to a base other than the one it was computed against.
StreamsNeverFork ==
  \A i \in 1 .. Len(received) :
     /\ received[i].num \in DOMAIN content
     /\ received[i].state = SubSeq(typed, 1, content[received[i].num])

\* KnownReceiverHeld: the state at the head of sent_states, which
\* rationalize_states and the prospective resend take to be known to the
\* peer, is one the peer still holds, so a diff against it can always be
\* applied (no throwaway already on its way discards it).
KnownReceiverHeld == Holds(received, front.num)

\* ShutdownAckedMeansDelivered: when shutdown_acknowledged() lets the session
\* end cleanly, the peer's newest state is everything the user entered.
ShutdownAckedMeansDelivered ==
  shutdown_acknowledged => latest.state = typed

\* HeaderDeterminesDiff: two instructions between the same pair of state
\* numbers carry the same diff, also when the number is the SHUTDOWN_NUM that
\* many sends share.  Fragmenter::make_fragments relies on it: it compares the
\* header alone to decide that an instruction may reuse the last fragment id.
HeaderDeterminesDiff ==
  \A m1, m2 \in wire :
     m1.old_num = m2.old_num /\ m1.new_num = m2.new_num => m1.diff = m2.diff

\* DueFrameHasNews: whenever compute_timers says a frame is due, the diff that
\* tick then builds is not empty; otherwise the loop would wake at once, send
\* nothing, and find the same frame due again.
DueFrameHasNews ==
  \A rto \in Rtos, si \in SendIntervals :
    LET cur == Rationalized(current_state)
        q   == RationalizedQueue
        w   == update_assumed_receiver_state(now, rto)
    IN  DueSend(cur, q, w, now, rto, si)
          => diff_from(cur, q[ResendBase(cur, q, w)].state) # << >>

\* AssumedSurvivesCull: whenever the next tick may cull the queue, the state that
\* its diff starts from is not the one erased, and the assumed index names that
\* same state afterwards.  The branch of add_sent_state for an assumed state that
\* was culled, which its comment calls unreachable, is never taken.
AssumedSurvivesCull ==
  \A rto \in Rtos :
    LET cur   == Rationalized(current_state)
        q     == RationalizedQueue
        a     == ResendBase(cur, q, update_assumed_receiver_state(now, rto))
        entry == [timestamp |-> now, num |-> back.num + 1, state |-> cur]
    IN  Len(q) >= SENT_QUEUE_CAP =>
          /\ a # CullIndex(Append(q, entry))
          /\ add_sent_state(q, entry)[AssumedAfterCull(q, a)] = q[a]

\* AckedNeverRegresses: a late or duplicated ack never moves the head of
\* sent_states backwards, even after the queue was culled from the middle.
AckedNeverRegresses == [][front'.num >= front.num]_vars

-----------------------------------------------------------------------------
(***************************************************************************)
(* The inductive invariant behind the safety properties.  Offset counts    *)
(* the events that rationalize_states has dropped from the sender's        *)
(* streams; everything either end holds or sends is a window of `typed'.   *)
(***************************************************************************)
Offset == Len(typed) - Len(current_state)

\* Live stream and sent states, as windows that start at offset o.
Aligned(cur, q, o) ==
  /\ IsWindow(cur, Events, typed, o, Len(typed))
  /\ \A i \in 1 .. Len(q) :
       /\ q[i].num \in DOMAIN content
       /\ o <= content[q[i].num]
       /\ IsWindow(q[i].state, Events, typed, o, content[q[i].num])

Sorted(q) == \A i, j \in 1 .. Len(q) : i <= j => q[i].num <= q[j].num

NumberingInv ==
  /\ 0 \in DOMAIN content /\ content[0] = 0
  /\ \A m, n \in DOMAIN content : m <= n => content[m] <= content[n]
  /\ \A n \in DOMAIN content :
       content[n] <= Len(typed) /\ n <= back.num /\ n <= SHUTDOWN_NUM
  /\ SHUTDOWN_NUM \in DOMAIN content =>
       shutdown_in_progress /\ content[SHUTDOWN_NUM] = Len(typed)

QueueInv ==
  /\ Offset \in Nat
  /\ Aligned(current_state, sent_states, Offset)
  /\ Sorted(sent_states)

InstructionOK(m) ==
  /\ m.old_num \in DOMAIN content /\ m.new_num \in DOMAIN content
  /\ m.old_num <= m.new_num
  /\ IsWindow(m.diff, Events, typed, content[m.old_num], content[m.new_num])
  /\ m.throwaway_num <= m.old_num
  /\ m.throwaway_num <= front.num

WireInv == \A m \in wire : InstructionOK(m)

HeldInv ==
  /\ \A i, j \in 1 .. Len(received) : i < j => received[i].num < received[j].num
  /\ \A i \in 1 .. Len(received) :
       /\ received[i].num \in DOMAIN content
       /\ IsWindow(received[i].state, Events, typed, 0, content[received[i].num])

AckInv ==
  /\ Holds(received, front.num)
  /\ peer_ack_num = latest.num
  /\ \A ack \in acks : ack >= front.num => Holds(received, ack)

\* LinkInv: the inductive invariant - sender queue, instructions in flight
\* and receiver queue all describe windows of the one stream the user entered,
\* and no acknowledgement in flight names a state that the peer has dropped
\* and the sender could still adopt as its base.
LinkInv ==
  /\ TypeOK
  /\ NumberingInv
  /\ QueueInv
  /\ WireInv
  /\ HeldInv
  /\ AckInv

(* The promise made to the layers above. *)
Sync == INSTANCE StreamSync WITH
          delivered <- latest.state,
          sealed    <- shutdown_in_progress,
          finished  <- shutdown_acknowledged

\* ImplementsStreamSync: the sender, the network and the receiver together
\* implement StreamSync: the peer sees a growing prefix of what was entered, and
\* shutdown is confirmed only after all of it arrived.
ImplementsStreamSync == Sync!Spec
=============================================================================
