---------------------------- MODULE SspDelivery -----------------------------
(***************************************************************************)
(* The sender driven by the session loop for ever: what was typed reaches  *)
(* the peer although packets are lost and the peer falls silent, and what  *)
(* the peer sends is acknowledged in time.  SspLink shows that nothing     *)
(* wrong is delivered; this module shows that delivery happens.            *)
(*                                                                         *)
(* The loop of run() is: commands, tick, wait_time, and a receive that     *)
(* sleeps until the wait is over or a datagram comes.  The sender's clock  *)
(* stands at Now, and Clock moves its timestamps one unit into the past    *)
(* instead, down to the age from which the code no longer tells them       *)
(* apart.  With it, state numbers are replaced by their ranks among those  *)
(* that either end can still name, so behaviours are infinite in a finite  *)
(* state space.                                                            *)
(*                                                                         *)
(* The peer is external: it holds states by number and applies a diff to   *)
(* the state that it names.  Its answers are the acks of states it holds,  *)
(* and news of its own stream.                                             *)
(***************************************************************************)
EXTENDS SspSender

CONSTANTS
  Rtos,            \* retransmission timeouts the RTT estimator may yield
  SendIntervals,   \* frame intervals it may yield
  POLL_CAP_MS,     \* the longest sleep in receive
  MaxTyped         \* bound on the events typed

\* An ack of our own is due less often than a frame (3000 against 20 .. 250).
ASSUME DeliveryAssumption ==
  /\ Rtos \subseteq Nat /\ IsFiniteSet(Rtos)
  /\ SendIntervals \subseteq 1 .. ACK_INTERVAL_MS /\ SendIntervals # {}
  /\ POLL_CAP_MS \in Nat \ {0} /\ MaxTyped \in Nat

VARIABLES
  loop,       \* where the loop is: "tick", "wait", "receive", "drain", "ended"
  wake,       \* when the receive times out
  peer,       \* external: state number -> how many events that state has
  entered,    \* history: how many events the user has entered
  sent_age,   \* history: since the client last sent anything
  data_age    \* history: since data came that nothing sent has acknowledged

vars == << senderVars, loop, wake, peer, entered, sent_age, data_age >>

\* The ages from which nothing changes any more.
StateAge == Max(Rtos \cup SendIntervals) + ACK_DELAY_MS
Now == Max({StateAge, ACTIVE_RETRY_TIMEOUT_MS, SEND_MINDELAY})

Lost == Max({ACK_INTERVAL_MS, ACK_DELAY_MS}) + POLL_CAP_MS + 1

Older(time, age) == Max({time - 1, Now - age})

Init ==
  /\ current_state = << >>
  /\ sent_states = << [timestamp |-> Now, num |-> 0, state |-> << >>] >>
  /\ assumed_receiver = 1
  /\ ack_num = 0
  /\ next_ack_time = Now + ACK_INTERVAL_MS
  /\ mindelay_clock = None
  /\ pending_data_ack = FALSE
  /\ shutdown_in_progress = FALSE
  /\ shutdown_tries = 0
  /\ shutdown_start = None
  /\ last_heard = Now
  /\ wire = {}
  /\ loop = "tick"
  /\ wake = Now
  /\ peer = [n \in {0} |-> 0]
  /\ entered = 0
  /\ sent_age = 0
  /\ data_age = None

newest_held == Max(DOMAIN peer)
missing == entered - peer[newest_held]

-----------------------------------------------------------------------------
(* The loop. *)

\* drain_commands: Input and Resize.
Type(e) ==
  /\ loop = "tick"
  /\ entered < MaxTyped
  /\ push(<< e >>)
  /\ entered' = entered + 1
  /\ UNCHANGED << loop, wake, peer, sent_age, data_age >>

\* drain_commands: StartShutdown.
StartShutdown ==
  /\ loop = "tick"
  /\ start_shutdown(Now)
  /\ UNCHANGED << loop, wake, peer, entered, sent_age, data_age >>

OwnShutdownOver ==
  shutdown_in_progress /\ (shutdown_acknowledged \/ shutdown_ack_timed_out(Now))

\* The tick, and the end of the session.  Every instruction sent carries
\* ack_num, so it acknowledges whatever has come; the first that carries
\* SHUTDOWN_NUM is counterparty_shutdown_acknowledged, and ends the session.
Tick(rto, si) ==
  /\ loop = "tick"
  /\ \/ /\ TickSilent(Now, rto, si)
        /\ loop' = IF OwnShutdownOver' THEN "ended" ELSE "wait"
        /\ UNCHANGED << sent_age, data_age >>
     \/ /\ TickEmptyAck(Now, rto, si) \/ TickSend(Now, rto, si)
        /\ loop' = IF ack_num = SHUTDOWN_NUM \/ OwnShutdownOver' THEN "ended" ELSE "wait"
        /\ sent_age' = 0 /\ data_age' = None
  /\ UNCHANGED << wake, peer, entered >>

\* wait_time, clamped to 1 .. POLL_CAP_MS.
Wait(rto, si) ==
  /\ loop = "wait"
  /\ wait_time(Now, si)
  /\ wake' = Now + Max({1, Min({POLL_CAP_MS, WakeTime(Now, rto, si) - Now})})
  /\ loop' = "receive"
  /\ UNCHANGED << peer, entered, sent_age, data_age >>

\* handle_datagram: an ack of a state that the peer holds, and perhaps a new
\* state num of the peer's own stream, with data in its diff or without.  The
\* sender tells SHUTDOWN_NUM, the peer's last, from the others, which are all 0
\* here.  After the one datagram of the newest socket the older ones are drained.
Hear(ack, news, num) ==
  /\ loop \in {"receive", "drain"}
  /\ process_acknowledgment_through(ack)
  /\ IF news = "nothing"
       THEN UNCHANGED << ack_num, last_heard, pending_data_ack, data_age >>
       ELSE /\ ack_num # SHUTDOWN_NUM
            /\ NewestStateAppended(num, news = "data", Now)
            /\ data_age' = IF news = "data" /\ data_age = None THEN 0 ELSE data_age
  /\ loop' = "drain"
  /\ wake' = Now
  /\ UNCHANGED << current_state, next_ack_time, mindelay_clock,
                  shutdown_in_progress, shutdown_tries, shutdown_start, wire >>
  /\ UNCHANGED << peer, entered, sent_age >>

Drained ==
  /\ loop = "drain"
  /\ loop' = "tick"
  /\ UNCHANGED << senderVars, wake, peer, entered, sent_age, data_age >>

-----------------------------------------------------------------------------
(* The world. *)

\* External: an instruction whose base the peer holds adds a state to it and
\* discards those below the throwaway number.  (While the loop is busy no time
\* passes and nothing looks at the peer.)
Deliver(inst) ==
  /\ loop = "receive"
  /\ inst.old_num \in DOMAIN peer /\ inst.new_num \notin DOMAIN peer
  /\ LET kept == {n \in DOMAIN peer : n >= inst.throwaway_num} \cup {inst.new_num}
     IN  peer' = [n \in kept |-> IF n = inst.new_num
                                   THEN peer[inst.old_num] + Len(inst.diff)
                                   ELSE peer[n]]
  /\ UNCHANGED << senderVars, loop, wake, entered, sent_age, data_age >>

Advances(inst) == inst.new_num > newest_held

\* The numbers either end can still name, by rank.
Named == {sent_states[i].num : i \in DOMAIN sent_states}
Rank(n) ==
  IF n = SHUTDOWN_NUM THEN n ELSE Cardinality({k \in Named \cup {newest_held} : k < n})

\* A unit of time passes, the last one of the sleep or not; what was sent and
\* has not arrived is lost.
Clock ==
  /\ loop = "receive"
  /\ wake' = wake - 1
  /\ loop' = IF wake' = Now THEN "tick" ELSE "receive"
  /\ sent_states' = [i \in DOMAIN sent_states |->
                       [sent_states[i] EXCEPT !.timestamp = Older(@, StateAge),
                                              !.num = Rank(@)]]
  /\ next_ack_time' = Older(next_ack_time, 0)
  /\ mindelay_clock' = IF mindelay_clock = None THEN None
                       ELSE Older(mindelay_clock, SEND_MINDELAY)
  /\ last_heard' = Older(last_heard, ACTIVE_RETRY_TIMEOUT_MS)
  /\ shutdown_start' = IF shutdown_start = None THEN None
                       ELSE Older(shutdown_start, ACTIVE_RETRY_TIMEOUT_MS)
  /\ wire' = {}
  /\ peer' = LET kept == DOMAIN peer \cap (Named \cup {newest_held})
             IN  [r \in {Rank(n) : n \in kept} |->
                    peer[CHOOSE n \in kept : Rank(n) = r]]
  /\ sent_age' = Min({sent_age + 1, Lost})
  /\ data_age' = IF data_age = None THEN None ELSE Min({data_age + 1, Lost})
  /\ UNCHANGED << current_state, assumed_receiver, ack_num, pending_data_ack,
                  shutdown_in_progress, shutdown_tries, entered >>

LoopStep ==
  \/ Drained
  \/ \E rto \in Rtos, si \in SendIntervals : Tick(rto, si) \/ Wait(rto, si)

Next ==
  \/ \E e \in Events : Type(e)
  \/ StartShutdown
  \/ LoopStep
  \/ \E ack \in DOMAIN peer, news \in {"nothing", "echo", "data"}, num \in {0, SHUTDOWN_NUM} :
       Hear(ack, news, num)
  \/ \E inst \in wire : Deliver(inst)
  \/ Clock

\* The loop runs and time passes.  Of the instructions that would advance the
\* peer, sent over and over, some arrive; nothing need ever come back.
Spec == /\ Init /\ [][Next]_vars
        /\ WF_vars(LoopStep) /\ SF_vars(Clock)
        /\ SF_vars(\E inst \in wire : Advances(inst) /\ Deliver(inst))

-----------------------------------------------------------------------------
\* One end has closed the session.
Closing == shutdown_in_progress \/ ack_num = SHUTDOWN_NUM

\* Delivered: what was typed reaches the peer, through any number of losses
\* and culls, also when the peer has been silent for so long that compute_timers
\* no longer schedules frames: the next ack due carries the diff instead.  Once
\* either end closes the session nothing more need arrive.
Delivered == missing > 0 ~> missing = 0 \/ Closing

\* How long an ack of data may take: once either end is closing, compute_timers
\* takes the next ack from the frame interval alone, and so may put it off.
AckDeadline == IF Closing THEN Max({ACK_DELAY_MS} \cup SendIntervals) ELSE ACK_DELAY_MS

\* SpeaksInTime: the client is never silent for longer than ACK_INTERVAL_MS, and
\* data from the peer is acknowledged by something sent within ACK_DELAY_MS, or
\* a frame interval once either end closes the session, whatever else comes in
\* the meantime and however the loop's sleeps fall ("the delayed-ack deadline is
\* PERSISTED", compute_timers).
SpeaksInTime == sent_age <= ACK_INTERVAL_MS /\ data_age <= AckDeadline
=============================================================================
