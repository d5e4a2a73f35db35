----------------------------- MODULE SspSender ------------------------------
(***************************************************************************)
(* The sending half of the State Synchronization Protocol (src/ssp.rs,     *)
(* SspSender<UserStream>): what to send, when, and as a diff against which *)
(* state the peer is assumed to hold.  The caller owns the clock: every    *)
(* operation takes the time t at which it is called, and tick also takes   *)
(* the retransmission timeout rto and the frame interval si.               *)
(*                                                                         *)
(* The code's queue index assumed_receiver counts from 0; here it counts   *)
(* from 1.  The field next_send_time is left out: it is written and never  *)
(* read.  `wire' stands for everything the sender ever put into `out'.     *)
(***************************************************************************)
EXTENDS UserStream, SequencesExt

CONSTANTS
  Events,                   \* keystrokes and resizes
  ACK_INTERVAL_MS,          \* between empty acks (3000)
  ACK_DELAY_MS,             \* how long a data ack may be delayed (100)
  ACTIVE_RETRY_TIMEOUT_MS,  \* silence that stops frame-rate resends (10 000)
  SHUTDOWN_RETRIES,         \* shutdown packets before giving up (16)
  SENT_QUEUE_CAP,           \* bound on sent_states (32)
  CULL_FROM_END,            \* the cull erases end() - this (16)
  SEND_MINDELAY,            \* keystroke collection delay (1)
  RESEND_LIMIT,             \* a full resend below this length ... (1000)
  RESEND_SLACK,             \* ... and this little longer is preferred (100)
  SHUTDOWN_NUM              \* u64::MAX, the state number that means "bye"

ASSUME TimingAssumption ==
  /\ ACK_INTERVAL_MS \in Nat
  /\ ACK_DELAY_MS \in Nat
  /\ ACTIVE_RETRY_TIMEOUT_MS \in Nat
  /\ SHUTDOWN_RETRIES \in Nat
  /\ SEND_MINDELAY \in Nat

\* The cull point lies strictly between the head of the queue and the two
\* newest states, as 16 does in a queue of 32.
ASSUME QueueAssumption ==
  /\ SENT_QUEUE_CAP \in Nat
  /\ CULL_FROM_END \in 3 .. SENT_QUEUE_CAP
  /\ SHUTDOWN_NUM \in Nat \ {0}

None == -1

VARIABLES
  current_state,        \* the live outgoing stream
  sent_states,          \* <<[timestamp, num, state]>>, oldest first
  assumed_receiver,     \* index of the state the peer is assumed to hold
  ack_num,              \* newest state we hold of the peer's stream
  next_ack_time,
  mindelay_clock,       \* when the live stream diverged, or None
  pending_data_ack,
  shutdown_in_progress,
  shutdown_tries,
  shutdown_start,
  last_heard,
  wire                  \* every instruction sent so far

senderVars ==
  << current_state, sent_states, assumed_receiver, ack_num, next_ack_time,
     mindelay_clock, pending_data_ack, shutdown_in_progress, shutdown_tries,
     shutdown_start, last_heard, wire >>

State == Seq(Events)

SentState == [timestamp : Nat, num : Nat, state : State]

\* TransportInstruction; protocol_version is constant and chaff unused.
Instruction ==
  [old_num : Nat, new_num : Nat, ack_num : Nat, throwaway_num : Nat,
   diff : State]

SenderTypeOK ==
  /\ current_state \in State
  /\ sent_states \in Seq(SentState) /\ sent_states # << >>
  /\ assumed_receiver \in 1 .. Len(sent_states)
  /\ ack_num \in Nat
  /\ next_ack_time \in Nat
  /\ mindelay_clock \in Nat \cup {None}
  /\ pending_data_ack \in BOOLEAN
  /\ shutdown_in_progress \in BOOLEAN
  /\ shutdown_tries \in Nat
  /\ shutdown_start \in Nat \cup {None}
  /\ last_heard \in Nat
  /\ wire \subseteq Instruction

SenderInit ==
  /\ current_state = << >>
  /\ sent_states = << [timestamp |-> 0, num |-> 0, state |-> << >>] >>
  /\ assumed_receiver = 1
  /\ ack_num = 0
  /\ next_ack_time = ACK_INTERVAL_MS
  /\ mindelay_clock = None
  /\ pending_data_ack = FALSE
  /\ shutdown_in_progress = FALSE
  /\ shutdown_tries = 0
  /\ shutdown_start = None
  /\ last_heard = 0
  /\ wire = {}

-----------------------------------------------------------------------------
(* What the accessors report. *)

front == sent_states[1]
back == Last(sent_states)

\* Mutant: looks at the newest state sent instead of the newest acknowledged.
NewestSentIsShutdown == back.num = SHUTDOWN_NUM

shutdown_acknowledged == front.num = SHUTDOWN_NUM

shutdown_ack_timed_out(t) ==
  /\ shutdown_in_progress
  /\ \/ shutdown_tries >= SHUTDOWN_RETRIES
     \/ t - shutdown_start >= ACTIVE_RETRY_TIMEOUT_MS

-----------------------------------------------------------------------------
(* The pieces of tick, in the order the code runs them. *)

\* Mutant: the age comparison the wrong way round.
WalkWhileStale(t, rto) ==
  CHOOSE i \in 1 .. Len(sent_states) :
    LET stale(j) == t - sent_states[j].timestamp >= rto + ACK_DELAY_MS
    IN  /\ \A j \in 2 .. i : stale(j)
        /\ i < Len(sent_states) => ~ stale(i + 1)

\* Walk the queue from its second entry while the entries were sent recently
\* enough to deserve the benefit of the doubt.
update_assumed_receiver_state(t, rto) ==
  CHOOSE i \in 1 .. Len(sent_states) :
    LET fresh(j) == t - sent_states[j].timestamp < rto + ACK_DELAY_MS
    IN  /\ \A j \in 2 .. i : fresh(j)
        /\ i < Len(sent_states) => ~ fresh(i + 1)

\* rationalize_states, on the live stream and on the queue: drop the prefix
\* that the peer is known to hold from every stream we keep.
Rationalized(s) ==
  IF Len(sent_states) < 2 THEN s ELSE subtract(s, front.state)

RationalizedQueue ==
  [i \in 1 .. Len(sent_states) |->
     [sent_states[i] EXCEPT !.state = Rationalized(@)]]

\* compute_timers on the live stream cur, the queue q and the assumed state a.
MindelayClock(cur, q, t) ==
  IF cur # Last(q).state /\ mindelay_clock = None THEN t ELSE mindelay_clock

NextAckTime(q, t, si) ==
  IF shutdown_in_progress \/ ack_num = SHUTDOWN_NUM
    THEN Last(q).timestamp + si
    ELSE IF pending_data_ack /\ next_ack_time > t + ACK_DELAY_MS
           THEN t + ACK_DELAY_MS
           ELSE next_ack_time

\* Mutant: resends also when the head of the queue already is the live stream.
DueAlsoWhenAcked(cur, q, a, t, rto, si) ==
  t >= Last(q).timestamp + (IF cur # Last(q).state THEN si ELSE rto + ACK_DELAY_MS)

NextSend(cur, q, a, t, rto, si) ==
  LET clock     == MindelayClock(cur, q, t)
      frame     == Last(q).timestamp + si
      collected == IF clock = None THEN frame
                                   ELSE Max({frame, clock + SEND_MINDELAY})
      listening == last_heard + ACTIVE_RETRY_TIMEOUT_MS > t
  IN  CASE cur # Last(q).state -> collected
        [] cur = Last(q).state /\ listening /\ cur # q[a].state -> collected
        [] cur = Last(q).state /\ listening /\ cur = q[a].state /\ cur # q[1].state ->
             Last(q).timestamp + rto + ACK_DELAY_MS
        [] OTHER -> None

DueSend(cur, q, a, t, rto, si) ==
  LET next_send == NextSend(cur, q, a, t, rto, si)
  IN  next_send # None /\ t >= next_send

\* attempt_prospective_resend_optimization: the index whose state the diff
\* is taken against, the head when a full resend costs little more.
ResendBase(cur, q, a) ==
  LET proposed == Len(diff_from(cur, q[a].state))
      resend   == Len(diff_from(cur, q[1].state))
  IN  IF /\ a # 1
         /\ \/ resend <= proposed
            \/ resend < RESEND_LIMIT /\ resend - proposed < RESEND_SLACK
        THEN 1 ELSE a

\* add_sent_state on queue q with assumed index a: append, and when the queue
\* is over its cap erase one from the middle.
CullIndex(q) == Len(q) - CULL_FROM_END + 1

add_sent_state(q, entry) ==
  LET longer == Append(q, entry)
  IN  IF Len(longer) > SENT_QUEUE_CAP
        THEN RemoveAt(longer, CullIndex(longer)) ELSE longer

AssumedAfterCull(q, a) ==
  LET idx == Len(q) + 1 - CULL_FROM_END + 1
  IN  IF Len(q) + 1 <= SENT_QUEUE_CAP \/ a < idx THEN a
      ELSE IF a = idx THEN 1 ELSE a - 1

\* Mutants: the throwaway is the newest number, or the base of the diff, instead
\* of the head of the queue.
ThrowawayNewest(q, old_num, new_num, diff) ==
  /\ wire' = wire \cup {[old_num |-> old_num, new_num |-> new_num,
                         ack_num |-> ack_num, throwaway_num |-> Last(q).num,
                         diff |-> diff]}
  /\ shutdown_tries' = shutdown_tries
  /\ pending_data_ack' = FALSE

ThrowawayBase(q, old_num, new_num, diff) ==
  /\ wire' = wire \cup {[old_num |-> old_num, new_num |-> new_num,
                         ack_num |-> ack_num, throwaway_num |-> old_num,
                         diff |-> diff]}
  /\ shutdown_tries' = shutdown_tries
  /\ pending_data_ack' = FALSE

\* send_in_fragments with the queue already updated to q.
send_in_fragments(q, old_num, new_num, diff) ==
  /\ wire' = wire \cup {[old_num |-> old_num, new_num |-> new_num,
                         ack_num |-> ack_num, throwaway_num |-> q[1].num,
                         diff |-> diff]}
  /\ shutdown_tries' = IF new_num = SHUTDOWN_NUM THEN shutdown_tries + 1
                                                 ELSE shutdown_tries
  /\ pending_data_ack' = FALSE

-----------------------------------------------------------------------------
(* Bound: numbers stay below SHUTDOWN_NUM, which takes 2^64 sends to reach. *)
NumbersLeft == shutdown_in_progress \/ back.num + 1 < SHUTDOWN_NUM

\* tick that sends nothing: no ack is due, and no frame is or it would be
\* empty.
TickSilent(t, rto, si) ==
  LET cur == Rationalized(current_state)
      q   == RationalizedQueue
      w   == update_assumed_receiver_state(t, rto)
      a   == ResendBase(cur, q, w)
      due == DueSend(cur, q, w, t, rto, si)
  IN  /\ t < NextAckTime(q, t, si)
      /\ due => diff_from(cur, q[a].state) = << >>
      /\ current_state' = cur
      /\ sent_states' = q
      /\ assumed_receiver' = IF due THEN a ELSE w
      /\ next_ack_time' = NextAckTime(q, t, si)
      /\ mindelay_clock' = IF due THEN None ELSE MindelayClock(cur, q, t)
      /\ UNCHANGED << ack_num, pending_data_ack, shutdown_in_progress,
                      shutdown_tries, shutdown_start, last_heard, wire >>

\* tick with nothing to say and an ack due: send_empty_ack.
TickEmptyAck(t, rto, si) ==
  LET cur     == Rationalized(current_state)
      q       == RationalizedQueue
      a       == ResendBase(cur, q, update_assumed_receiver_state(t, rto))
      new_num == IF shutdown_in_progress THEN SHUTDOWN_NUM ELSE Last(q).num + 1
      entry   == [timestamp |-> t, num |-> new_num, state |-> cur]
  IN  /\ NumbersLeft
      /\ t >= NextAckTime(q, t, si)
      /\ diff_from(cur, q[a].state) = << >>
      /\ current_state' = cur
      /\ sent_states' = add_sent_state(q, entry)
      /\ assumed_receiver' = AssumedAfterCull(q, a)
      /\ send_in_fragments(sent_states', q[a].num, new_num, << >>)
      /\ next_ack_time' = t + ACK_INTERVAL_MS
      /\ mindelay_clock' = None
      /\ UNCHANGED << ack_num, shutdown_in_progress, shutdown_start, last_heard >>

\* tick with something to say: send_to_receiver.
TickSend(t, rto, si) ==
  LET cur     == Rationalized(current_state)
      q       == RationalizedQueue
      w       == update_assumed_receiver_state(t, rto)
      a       == ResendBase(cur, q, w)
      diff    == diff_from(cur, q[a].state)
      new_num == IF shutdown_in_progress THEN SHUTDOWN_NUM
                 ELSE IF cur = Last(q).state THEN Last(q).num
                                             ELSE Last(q).num + 1
      entry   == [timestamp |-> t, num |-> new_num, state |-> cur]
  IN  /\ NumbersLeft
      /\ DueSend(cur, q, w, t, rto, si) \/ t >= NextAckTime(q, t, si)
      /\ diff # << >>
      /\ current_state' = cur
      /\ sent_states' = IF new_num = Last(q).num
                          THEN [q EXCEPT ![Len(q)].timestamp = t]
                          ELSE add_sent_state(q, entry)
      /\ assumed_receiver' = Len(sent_states')
      /\ send_in_fragments(sent_states', q[a].num, new_num, diff)
      /\ next_ack_time' = t + ACK_INTERVAL_MS
      /\ mindelay_clock' = None
      /\ UNCHANGED << ack_num, shutdown_in_progress, shutdown_start, last_heard >>

tick(t, rto, si) ==
  \/ TickSilent(t, rto, si)
  \/ TickEmptyAck(t, rto, si)
  \/ TickSend(t, rto, si)

\* Mutant: the wait looks at the next frame alone.
WaitForFrame(t, rto, si) ==
  LET next_send == NextSend(current_state, sent_states, assumed_receiver, t, rto, si)
  IN  IF next_send = None THEN t + ACK_INTERVAL_MS ELSE Max({next_send, t})

\* What wait_time tells its caller: when to come back, t at the soonest.
WakeTime(t, rto, si) ==
  LET next_send == NextSend(current_state, sent_states, assumed_receiver, t, rto, si)
      next_ack  == NextAckTime(sent_states, t, si)
  IN  Max({t, IF next_send = None THEN next_ack ELSE Min({next_send, next_ack})})

\* wait_time recomputes, and so persists, the timers without a tick.
wait_time(t, si) ==
  /\ next_ack_time' = NextAckTime(sent_states, t, si)
  /\ mindelay_clock' = MindelayClock(current_state, sent_states, t)
  /\ UNCHANGED << current_state, sent_states, assumed_receiver, ack_num,
                  pending_data_ack, shutdown_in_progress, shutdown_tries,
                  shutdown_start, last_heard, wire >>

\* Mutant: input is still accepted after start_shutdown.
PushDuringShutdown(events) ==
  /\ current_state' = current_state \o events
  /\ UNCHANGED << sent_states, assumed_receiver, ack_num, next_ack_time,
                  mindelay_clock, pending_data_ack, shutdown_in_progress,
                  shutdown_tries, shutdown_start, last_heard, wire >>

\* push_bytes and push_resize on current_state().
push(events) ==
  /\ ~ shutdown_in_progress
  /\ current_state' = current_state \o events
  /\ UNCHANGED << sent_states, assumed_receiver, ack_num, next_ack_time,
                  mindelay_clock, pending_data_ack, shutdown_in_progress,
                  shutdown_tries, shutdown_start, last_heard, wire >>

start_shutdown(t) ==
  /\ ~ shutdown_in_progress
  /\ shutdown_start' = t
  /\ shutdown_in_progress' = TRUE
  /\ UNCHANGED << current_state, sent_states, assumed_receiver, ack_num,
                  next_ack_time, mindelay_clock, pending_data_ack,
                  shutdown_tries, last_heard, wire >>

\* Mutant: an ack of a state no longer in the queue renumbers its head.
AckUnchecked(ack) ==
  /\ sent_states' = [sent_states EXCEPT ![1].num = ack]
  /\ UNCHANGED assumed_receiver

\* process_acknowledgment_through.  The queue's numbers never decrease, so
\* retain(num >= ack) keeps the suffix that starts at the first such entry.
process_acknowledgment_through(ack) ==
  IF \E i \in 1 .. Len(sent_states) : sent_states[i].num = ack
    THEN LET first == CHOOSE i \in 1 .. Len(sent_states) :
                        /\ sent_states[i].num >= ack
                        /\ \A j \in 1 .. i - 1 : sent_states[j].num < ack
             kept  == SubSeq(sent_states, first, Len(sent_states))
         IN  /\ sent_states' = kept
             /\ assumed_receiver' =
                  IF assumed_receiver > Len(kept) THEN Len(kept)
                                                  ELSE assumed_receiver
    ELSE UNCHANGED << sent_states, assumed_receiver >>

\* set_ack_num, remote_heard and set_data_ack, as apply_recv_outcome calls
\* them when the peer's instruction was appended as its newest state.
NewestStateAppended(num, had_diff, t) ==
  /\ ack_num' = num
  /\ last_heard' = t
  /\ pending_data_ack' = (pending_data_ack \/ had_diff)

=============================================================================
