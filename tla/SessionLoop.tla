---------------------------- MODULE SessionLoop -----------------------------
(***************************************************************************)
(* The life of a session (src/session.rs): the handle that the embedder's  *)
(* threads share, and the loop thread from start() to its exit.  Callers   *)
(* and loop meet in the command channel and in the mutex around the        *)
(* thread's handle, which join() holds while it waits.                     *)
(*                                                                         *)
(* Of the SSP engines only what ends a session is kept: both shutdowns,    *)
(* the retries, the timers that drive them, and the fatal errors.  Ages    *)
(* count from the last send and from the start of the shutdown, and stop   *)
(* where the code no longer tells them apart.                              *)
(***************************************************************************)
EXTENDS Integers, Sequences, FiniteSets

CONSTANTS
  Callers, Nobody,          \* the embedder's threads, and none of them
  SHUTDOWN_RETRIES,
  ACTIVE_RETRY_TIMEOUT_MS,
  SEND_INTERVAL,            \* what send_interval() returns
  MaxCommands,              \* bound on the commands ever sent
  MaxScreens                \* bound on the ScreenChanged events

ASSUME LoopAssumption ==
  /\ Nobody \notin Callers
  /\ SHUTDOWN_RETRIES \in Nat \ {0} /\ ACTIVE_RETRY_TIMEOUT_MS \in Nat \ {0}
  /\ SEND_INTERVAL \in Nat \ {0} /\ MaxCommands \in Nat /\ MaxScreens \in Nat

VARIABLES
  launch,      \* the launch bundle is still there
  thread,      \* the slot holds the loop's handle
  owner,       \* who holds the mutex around the slot
  call,        \* caller -> "none", or the call it is in: "join", "terminate"
  commands,    \* the channel
  sent,        \* history: commands ever sent
  loop,        \* where the loop thread is in run()
  fatal,
  shutdown,    \* our own: [in_progress, tries, age, acknowledged]
  peer,        \* the peer's: [received (ack_num is MAX), last_ack_sent]
  since_send,  \* age of the newest sent state
  events,      \* history: every event, with how far a terminate() had come
  terminated   \* history: "no", "called" or "returned"

handleVars == << launch, thread, owner, call >>
channelVars == << commands, sent >>
senderVars == << shutdown, peer, since_send >>
historyVars == << events, terminated >>
vars == << handleVars, channelVars, loop, fatal, senderVars, historyVars >>

\* build_deferred, with what SessionLoop::new and SspSender::new will set.
Init ==
  /\ launch = TRUE /\ thread = FALSE /\ owner = Nobody
  /\ call = [c \in Callers |-> "none"]
  /\ commands = << >> /\ sent = 0
  /\ loop = "unborn"
  /\ fatal = FALSE
  /\ shutdown = [in_progress |-> FALSE, tries |-> 0, age |-> 0, acknowledged |-> FALSE]
  /\ peer = [received |-> FALSE, last_ack_sent |-> FALSE]
  /\ since_send = 0
  /\ events = << >> /\ terminated = "no"

Announced(kind) == events' = Append(events, [kind |-> kind, terminated |-> terminated])

-----------------------------------------------------------------------------
(* The handle. *)

\* MoshSession::start: under the mutex, a no-op once launched.
start(c) ==
  /\ call[c] = "none" /\ owner = Nobody
  /\ ~ thread /\ launch
  /\ launch' = FALSE
  /\ thread' = TRUE
  /\ loop' = "drain"
  /\ UNCHANGED << owner, call, channelVars, fatal, senderVars, historyVars >>

\* command(): a channel whose receiver is gone drops what is sent.
command(cmd) ==
  /\ sent < MaxCommands
  /\ sent' = sent + 1
  /\ commands' = IF loop = "exited" THEN commands ELSE Append(commands, cmd)

\* send_input, resize and start_shutdown: they never wait.
Request(c, cmd) ==
  /\ call[c] = "none"
  /\ command(cmd)
  /\ UNCHANGED << handleVars, loop, fatal, senderVars, historyVars >>

CallJoin(c) ==
  /\ call[c] = "none"
  /\ call' = [call EXCEPT ![c] = "join"]
  /\ UNCHANGED << launch, thread, owner, channelVars, loop, fatal, senderVars,
                  historyVars >>

\* terminate() up to its join.
CallTerminate(c) ==
  /\ call[c] = "none"
  /\ command("Terminate")
  /\ call' = [call EXCEPT ![c] = "terminate"]
  /\ terminated' = IF terminated = "no" THEN "called" ELSE terminated
  /\ UNCHANGED << launch, thread, owner, loop, fatal, senderVars, events >>

Return(c) ==
  /\ call' = [call EXCEPT ![c] = "none"]
  /\ terminated' = IF call[c] = "terminate" THEN "returned" ELSE terminated

\* Mutant: the handle is taken out and the mutex released before the wait.
JoinUnlocked(c) ==
  /\ call[c] # "none"
  /\ \/ /\ ~ thread /\ owner # c
        /\ Return(c)
        /\ UNCHANGED << thread, owner >>
     \/ /\ thread /\ thread' = FALSE /\ owner' = c
        /\ UNCHANGED << call, terminated >>
     \/ /\ owner = c /\ loop = "exited"
        /\ owner' = Nobody
        /\ Return(c)
        /\ UNCHANGED thread
  /\ UNCHANGED << launch, channelVars, loop, fatal, senderVars, events >>

\* join(): take the handle, and hold the mutex until the thread has ended.
join(c) ==
  /\ call[c] # "none"
  /\ \/ /\ owner = Nobody /\ ~ thread
        /\ Return(c)
        /\ UNCHANGED << thread, owner >>
     \/ /\ owner = Nobody /\ thread
        /\ thread' = FALSE /\ owner' = c
        /\ UNCHANGED << call, terminated >>
     \/ /\ owner = c /\ loop = "exited"
        /\ owner' = Nobody
        /\ Return(c)
        /\ UNCHANGED thread
  /\ UNCHANGED << launch, channelVars, loop, fatal, senderVars, events >>

-----------------------------------------------------------------------------
(* The loop thread: run(). *)

\* Mutant: Terminate stops the draining, not the loop.
TerminateDropped ==
  /\ loop = "drain" /\ commands # << >>
  /\ commands' = Tail(commands)
  /\ loop' = IF Head(commands) = "Terminate" THEN "tick" ELSE loop
  /\ shutdown' = IF Head(commands) = "StartShutdown" /\ ~ shutdown.in_progress
                   THEN [shutdown EXCEPT !.in_progress = TRUE] ELSE shutdown
  /\ UNCHANGED << handleVars, sent, fatal, peer, since_send, historyVars >>

\* One command of drain_commands; Terminate leaves the loop without a word.
DrainOne ==
  /\ loop = "drain" /\ commands # << >>
  /\ commands' = Tail(commands)
  /\ loop' = IF Head(commands) = "Terminate" THEN "exited" ELSE loop
  /\ shutdown' = IF Head(commands) = "StartShutdown" /\ ~ shutdown.in_progress
                   THEN [shutdown EXCEPT !.in_progress = TRUE] ELSE shutdown
  /\ UNCHANGED << handleVars, sent, fatal, peer, since_send, historyVars >>

\* Mutant: the loop leaves on a fatal error without announcing it.
DrainedSilently ==
  /\ loop = "drain" /\ commands = << >>
  /\ loop' = IF fatal THEN "exited" ELSE "tick"
  /\ UNCHANGED << handleVars, channelVars, fatal, senderVars, historyVars >>

\* The queue is empty: a fatal error ends the session.
Drained ==
  /\ loop = "drain" /\ commands = << >>
  /\ IF fatal THEN /\ Announced("Ended") /\ loop' = "exited"
              ELSE /\ loop' = "tick" /\ UNCHANGED events
  /\ UNCHANGED << handleVars, channelVars, fatal, senderVars, terminated >>

\* Once either shutdown is known, an instruction is due exactly when the
\* newest sent state has the age of the send interval.
AckDue == since_send = SEND_INTERVAL

Counted(tries) == IF tries < SHUTDOWN_RETRIES THEN tries + 1 ELSE tries

\* The instruction carries the newest host number, is a try if we are shutting
\* down, and its datagrams may exhaust the key.
TickSends ==
  /\ peer' = [peer EXCEPT !.last_ack_sent = peer.received]
  /\ shutdown' = IF shutdown.in_progress
                   THEN [shutdown EXCEPT !.tries = Counted(@)] ELSE shutdown
  /\ since_send' = 0
  /\ fatal' \in {fatal, TRUE}

\* sender.tick and the sends, hops and prunes that follow it.
Tick ==
  /\ loop = "tick"
  /\ loop' = "ends"
  /\ LET pressing == shutdown.in_progress \/ peer.received
     IN  \/ (pressing => AckDue) /\ TickSends
         \/ ~ (pressing /\ AckDue) /\ UNCHANGED << senderVars, fatal >>
  /\ UNCHANGED << handleVars, channelVars, historyVars >>

counterparty_shutdown_acknowledged == peer.last_ack_sent

\* Mutant: a shutdown waits for its acknowledgement for ever.
NeverTimedOut == FALSE

shutdown_ack_timed_out ==
  \/ shutdown.tries >= SHUTDOWN_RETRIES
  \/ shutdown.age >= ACTIVE_RETRY_TIMEOUT_MS

Over ==
  \/ counterparty_shutdown_acknowledged
  \/ shutdown.in_progress /\ (shutdown.acknowledged \/ shutdown_ack_timed_out)

\* The two ends of a session that are not errors.
Ends ==
  /\ loop = "ends"
  /\ IF Over THEN /\ Announced("Ended") /\ loop' = "exited"
             ELSE /\ loop' = "receive" /\ UNCHANGED events
  /\ UNCHANGED << handleVars, channelVars, fatal, senderVars, terminated >>

\* receive(): one datagram, and any number more from the older sockets.  Its
\* ack may confirm our shutdown once that was sent; its state may be one to
\* show, the peer's shutdown, both, neither, or a fatal error.
Datagram(outcome) ==
  /\ loop = "receive"
  /\ shutdown' \in {shutdown} \cup
        (IF outcome # "version" /\ shutdown.tries > 0
           THEN {[shutdown EXCEPT !.acknowledged = TRUE]} ELSE {})
  /\ fatal' = (fatal \/ outcome \in {"version", "bad diff"})
  /\ peer' = [peer EXCEPT !.received = @ \/ outcome \in {"shutdown", "last screen"}]
  /\ IF outcome \in {"screen", "last screen"}
       THEN Len(events) < MaxScreens /\ Announced("ScreenChanged")
       ELSE UNCHANGED events
  /\ UNCHANGED << handleVars, channelVars, loop, since_send, terminated >>

\* The wait is over, with or without a datagram.
Received ==
  /\ loop = "receive"
  /\ loop' = "drain"
  /\ UNCHANGED << handleVars, channelVars, fatal, senderVars, historyVars >>

Clock ==
  /\ \/ since_send < SEND_INTERVAL
     \/ shutdown.in_progress /\ shutdown.age < ACTIVE_RETRY_TIMEOUT_MS
  /\ since_send' = IF since_send < SEND_INTERVAL THEN since_send + 1 ELSE since_send
  /\ shutdown' = IF shutdown.in_progress /\ shutdown.age < ACTIVE_RETRY_TIMEOUT_MS
                   THEN [shutdown EXCEPT !.age = @ + 1] ELSE shutdown
  /\ UNCHANGED << handleVars, channelVars, loop, fatal, peer, historyVars >>

LoopStep == DrainOne \/ Drained \/ Tick \/ Ends \/ Received

Next ==
  \/ \E c \in Callers :
       \/ start(c) \/ CallJoin(c) \/ CallTerminate(c) \/ join(c)
       \/ \E cmd \in {"Input", "StartShutdown"} : Request(c, cmd)
  \/ LoopStep
  \/ \E outcome \in {"none", "screen", "shutdown", "last screen", "version", "bad diff"} :
       Datagram(outcome)
  \/ Clock

\* The loop never blocks for more than POLL_CAP_MS, time passes, and a thread
\* inside join() goes on when it can.
Spec == /\ Init /\ [][Next]_vars
        /\ WF_vars(LoopStep) /\ WF_vars(Clock)
        /\ \A c \in Callers : WF_vars(join(c))

-----------------------------------------------------------------------------
\* SilentAfterTerminate: once a terminate() has returned - to any of several
\* threads that terminate or join at once, before or after start() - no event
\* fires any more, so the embedder may free what its callback uses.
SilentAfterTerminate ==
  \A i \in DOMAIN events : events[i].terminated # "returned"

\* EndIsAnnouncedOnce: the loop never leaves without an Ended, unless somebody
\* terminated it, and nothing follows an Ended.
EndIsAnnouncedOnce ==
  /\ loop = "exited" => terminated # "no" \/ \E i \in DOMAIN events : events[i].kind = "Ended"
  /\ \A i \in DOMAIN events :
       events[i].kind = "Ended" => i = Len(events) /\ loop = "exited"

\* ShutdownEnds: whoever asks for the end, and whatever is lost, the loop ends:
\* by the handshake, or by its retries, or by its timeout.
ShutdownEnds ==
  shutdown.in_progress \/ peer.received ~> loop = "exited"

\* TerminateReturns: terminate() returns to every thread that calls it, even
\* while others are blocked in join().
TerminateReturns ==
  \A c \in Callers : call[c] = "terminate" ~> call[c] = "none"
=============================================================================
