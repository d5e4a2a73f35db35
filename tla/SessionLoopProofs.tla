------------------------- MODULE SessionLoopProofs --------------------------
(***************************************************************************)
(* Proofs about the life of a session, for any number of calling threads,  *)
(* commands and events, and for every retry count and timeout.             *)
(***************************************************************************)
EXTENDS SessionLoop, SequenceTheorems, TLAPS

USE LoopAssumption

Command == {"Input", "StartShutdown", "Terminate"}
Event == [kind : {"Ended", "ScreenChanged"}, terminated : {"no", "called", "returned"}]
Places == {"unborn", "drain", "tick", "ends", "receive", "exited"}

\* Somebody's Terminate is waiting in the channel.
Waiting(queue) == \E i \in 1 .. Len(queue) : queue[i] = "Terminate"

\* LoopTypeOK: what the handle, the channel, the loop and the event history
\* range over.
LoopTypeOK ==
  /\ launch \in BOOLEAN /\ thread \in BOOLEAN
  /\ owner \in Callers \cup {Nobody}
  /\ call \in [Callers -> {"none", "join", "terminate"}]
  /\ commands \in Seq(Command)
  /\ loop \in Places
  /\ events \in Seq(Event)
  /\ terminated \in {"no", "called", "returned"}

\* The handle: the bundle, the slot and the mutex's owner say between them where
\* the loop thread can be.
HandleInv ==
  /\ launch <=> loop = "unborn"
  /\ launch => ~ thread /\ owner = Nobody
  /\ ~ launch /\ ~ thread /\ owner = Nobody => loop = "exited"

\* A Terminate is on its way to every loop that has been told to end, and to no
\* other; once a terminate() has returned, the loop cannot get past its drain.
ChannelInv ==
  /\ \A c \in Callers : call[c] = "terminate" => terminated # "no"
  /\ Waiting(commands) => terminated # "no"
  /\ terminated # "no" /\ loop # "exited" => Waiting(commands)
  /\ terminated = "returned" => loop \in {"unborn", "drain", "exited"}

\* LoopInv: the inductive invariant behind the two safety properties.
LoopInv ==
  /\ LoopTypeOK
  /\ HandleInv
  /\ ChannelInv
  /\ SilentAfterTerminate
  /\ EndIsAnnouncedOnce

-----------------------------------------------------------------------------
(* The channel and the history, as sequences. *)

\* A command sent stays behind those already there.
LEMMA SentIsWaiting ==
  ASSUME NEW queue \in Seq(Command), NEW cmd \in Command
  PROVE  /\ Append(queue, cmd) \in Seq(Command)
         /\ Waiting(Append(queue, cmd)) <=> Waiting(queue) \/ cmd = "Terminate"
<1> DEFINE longer == Append(queue, cmd)
<1>1. /\ longer \in Seq(Command) /\ Len(longer) = Len(queue) + 1
      /\ \A i \in 1 .. Len(queue) : longer[i] = queue[i]
      /\ longer[Len(queue) + 1] = cmd
      /\ Len(queue) \in Nat
  BY AppendProperties, LenProperties
<1> HIDE DEF longer
<1>2. Waiting(longer) <=> Waiting(queue) \/ cmd = "Terminate"
  BY <1>1 DEF Waiting
<1>3. QED
  BY <1>1, <1>2 DEF longer

\* Draining another command leaves a waiting Terminate where it can be found.
LEMMA DrainedIsWaiting ==
  ASSUME NEW queue \in Seq(Command), queue # << >>
  PROVE  /\ Head(queue) \in Command /\ Tail(queue) \in Seq(Command)
         /\ Head(queue) = "Terminate" => Waiting(queue)
         /\ Waiting(Tail(queue)) => Waiting(queue)
         /\ Waiting(queue) => Head(queue) = "Terminate" \/ Waiting(Tail(queue))
<1> DEFINE rest == Tail(queue)
<1>1. /\ Head(queue) \in Command /\ rest \in Seq(Command)
      /\ Len(rest) = Len(queue) - 1
      /\ \A i \in 1 .. Len(rest) : rest[i] = queue[i + 1]
      /\ Len(queue) \in Nat \ {0}
  BY HeadTailProperties, EmptySeq
<1>2. Head(queue) = queue[1]
  OBVIOUS
<1> HIDE DEF rest
<1>3. Waiting(rest) => Waiting(queue)
  BY <1>1 DEF Waiting
<1>4. ASSUME NEW i \in 1 .. Len(queue), queue[i] = "Terminate", i # 1
      PROVE  Waiting(rest)
  <2>1. i - 1 \in 1 .. Len(rest) /\ (i - 1) + 1 = i
    BY <1>1, <1>4
  <2>2. rest[i - 1] = "Terminate"
    BY <2>1, <1>1, <1>4
  <2>3. QED
    BY <2>1, <2>2 DEF Waiting
<1>5. Waiting(queue) => Head(queue) = "Terminate" \/ Waiting(rest)
  BY <1>2, <1>4 DEF Waiting
<1>6. 1 \in 1 .. Len(queue)
  BY <1>1
<1>7. Head(queue) = "Terminate" => Waiting(queue)
  BY <1>2, <1>6 DEF Waiting
<1>8. QED
  BY <1>1, <1>3, <1>5, <1>7 DEF rest

\* What Announced does to the two properties of the history.
LEMMA AnnouncedKeepsHistory ==
  ASSUME LoopTypeOK, SilentAfterTerminate, EndIsAnnouncedOnce,
         NEW kind \in {"Ended", "ScreenChanged"}, Announced(kind),
         loop # "exited", terminated # "returned", terminated' = terminated,
         kind = "Ended" => loop' = "exited",
         kind = "ScreenChanged" => loop' # "exited"
  PROVE  /\ events' \in Seq(Event)
         /\ SilentAfterTerminate' /\ EndIsAnnouncedOnce'
<1> DEFINE e == [kind |-> kind, terminated |-> terminated]
           longer == Append(events, e)
<1>1. e \in Event /\ events \in Seq(Event)
  BY DEF Event, LoopTypeOK
<1>2. events' = longer
  BY DEF Announced
<1>3. /\ longer \in Seq(Event) /\ Len(longer) = Len(events) + 1
      /\ \A i \in 1 .. Len(events) : longer[i] = events[i]
      /\ longer[Len(events) + 1] = e
      /\ Len(events) \in Nat
      /\ DOMAIN events = 1 .. Len(events)
  BY <1>1, AppendProperties, LenProperties
<1>4. DOMAIN longer = 1 .. Len(events) + 1
  BY <1>3, LenProperties
<1>5. e.kind = kind /\ e.terminated = terminated
  OBVIOUS
<1> HIDE DEF e, longer
<1>6. SilentAfterTerminate'
  BY <1>2, <1>3, <1>4, <1>5 DEF SilentAfterTerminate
<1>7. \A i \in 1 .. Len(events) : events[i].kind # "Ended"
  BY <1>3 DEF EndIsAnnouncedOnce
<1>8. \A i \in DOMAIN longer : longer[i].kind = "Ended" => i = Len(longer) /\ loop' = "exited"
  BY <1>3, <1>4, <1>5, <1>7
<1>9. loop' = "exited" => \E i \in DOMAIN longer : longer[i].kind = "Ended"
  BY <1>3, <1>4, <1>5
<1>10. QED
  BY <1>2, <1>3, <1>6, <1>8, <1>9 DEF EndIsAnnouncedOnce

-----------------------------------------------------------------------------
(* The steps. *)

LEMMA InitHasLoopInv == Init => LoopInv
<1> SUFFICES ASSUME Init PROVE LoopInv
  OBVIOUS
<1>1. /\ << >> \in Seq(Command) /\ << >> \in Seq(Event) /\ Len(<< >>) = 0
      /\ DOMAIN << >> = {}
  BY EmptySeq
<1>2. LoopTypeOK
  BY <1>1 DEF Init, LoopTypeOK, Places
<1>3. HandleInv
  BY DEF Init, HandleInv
<1>4. ~ Waiting(commands)
  BY <1>1 DEF Init, Waiting
<1>5. ChannelInv
  BY <1>4 DEF Init, ChannelInv
<1>6. SilentAfterTerminate /\ EndIsAnnouncedOnce
  BY <1>1 DEF Init, SilentAfterTerminate, EndIsAnnouncedOnce
<1>7. QED
  BY <1>2, <1>3, <1>5, <1>6 DEF LoopInv

\* The calls that never wait, and the two that begin to.
LEMMA HandleKeepsInv ==
  ASSUME LoopInv, NEW c \in Callers,
         \/ start(c) \/ CallJoin(c) \/ CallTerminate(c)
         \/ \E cmd \in {"Input", "StartShutdown"} : Request(c, cmd)
  PROVE  LoopInv'
<1> USE DEF LoopInv
<1>1. CASE start(c)
  <2>1. LoopTypeOK'
    BY <1>1 DEF start, LoopTypeOK, Places, channelVars, historyVars
  <2>2. HandleInv' /\ ChannelInv'
    BY <1>1 DEF start, HandleInv, ChannelInv, Waiting, LoopTypeOK, channelVars, historyVars
  <2>3. SilentAfterTerminate' /\ EndIsAnnouncedOnce'
    BY <1>1 DEF start, SilentAfterTerminate, EndIsAnnouncedOnce, HandleInv, historyVars
  <2>4. QED
    BY <2>1, <2>2, <2>3
<1>2. CASE CallJoin(c)
  BY <1>2 DEF CallJoin, LoopTypeOK, HandleInv, ChannelInv, Waiting, SilentAfterTerminate,
              EndIsAnnouncedOnce, channelVars, historyVars
<1>3. ASSUME NEW cmd \in Command, command(cmd), UNCHANGED loop
      PROVE  /\ commands' \in Seq(Command)
             /\ loop = "exited" => commands' = commands
             /\ loop # "exited" =>
                  (Waiting(commands') <=> Waiting(commands) \/ cmd = "Terminate")
  BY <1>3, SentIsWaiting DEF command, LoopTypeOK
<1>4. CASE CallTerminate(c)
  <2>1. "Terminate" \in Command
    BY DEF Command
  <2>2. LoopTypeOK'
    BY <1>3, <1>4, <2>1 DEF CallTerminate, LoopTypeOK
  <2>3. HandleInv' /\ SilentAfterTerminate' /\ EndIsAnnouncedOnce'
    BY <1>4 DEF CallTerminate, LoopTypeOK, HandleInv, SilentAfterTerminate, EndIsAnnouncedOnce
  <2>4. ChannelInv'
    BY <1>3, <1>4, <2>1 DEF CallTerminate, LoopTypeOK, ChannelInv, Waiting
  <2>5. QED
    BY <2>2, <2>3, <2>4
<1>5. CASE \E cmd \in {"Input", "StartShutdown"} : Request(c, cmd)
  <2>1. PICK cmd \in {"Input", "StartShutdown"} : Request(c, cmd)
    BY <1>5
  <2>2. cmd \in Command /\ cmd # "Terminate"
    BY DEF Command
  <2>3. /\ commands' \in Seq(Command)
        /\ loop = "exited" => commands' = commands
        /\ loop # "exited" => (Waiting(commands') <=> Waiting(commands))
    BY <1>3, <2>1, <2>2 DEF Request
  <2>4. LoopTypeOK' /\ HandleInv' /\ SilentAfterTerminate' /\ EndIsAnnouncedOnce'
    BY <2>1, <2>3 DEF Request, LoopTypeOK, HandleInv, SilentAfterTerminate,
                      EndIsAnnouncedOnce, handleVars, historyVars
  <2>5. ChannelInv'
    BY <2>1, <2>3 DEF Request, LoopTypeOK, ChannelInv, handleVars, historyVars
  <2>6. QED
    BY <2>4, <2>5
<1>6. QED
  BY <1>1, <1>2, <1>4, <1>5

\* join returns to its caller only before the loop is born or after its end.
LEMMA JoinKeepsInv ==
  ASSUME LoopInv, NEW c \in Callers, join(c)
  PROVE  LoopInv'
<1> USE DEF LoopInv
<1>1. UNCHANGED << launch, commands, loop, events >>
  BY DEF join, channelVars
<1>2. ASSUME Return(c), loop \in {"unborn", "exited"},
             thread' \in BOOLEAN, owner' \in Callers \cup {Nobody}
      PROVE  LoopTypeOK' /\ ChannelInv' /\ SilentAfterTerminate' /\ EndIsAnnouncedOnce'
  <2>1. call' \in [Callers -> {"none", "join", "terminate"}]
    BY <1>2 DEF Return, LoopTypeOK
  <2>2. /\ terminated' \in {"no", "called", "returned"}
        /\ terminated # "no" <=> terminated' # "no"
        /\ \A d \in Callers : call'[d] = "terminate" => terminated' # "no"
    BY <1>2 DEF Return, LoopTypeOK, ChannelInv
  <2>3. LoopTypeOK'
    BY <1>1, <1>2, <2>1, <2>2 DEF LoopTypeOK
  <2>4. ChannelInv'
    BY <1>1, <1>2, <2>2 DEF ChannelInv, Waiting
  <2>5. SilentAfterTerminate' /\ EndIsAnnouncedOnce'
    BY <1>1, <2>2 DEF SilentAfterTerminate, EndIsAnnouncedOnce
  <2>6. QED
    BY <2>3, <2>4, <2>5
<1>3. CASE owner = Nobody /\ ~ thread /\ Return(c) /\ UNCHANGED << thread, owner >>
  <2>1. loop \in {"unborn", "exited"}
    BY <1>3 DEF HandleInv, LoopTypeOK
  <2>2. QED
    BY <1>1, <1>2, <1>3, <2>1 DEF LoopTypeOK, HandleInv
<1>4. CASE owner = Nobody /\ thread /\ thread' = FALSE /\ owner' = c
           /\ UNCHANGED << call, terminated >>
  <2>1. LoopTypeOK' /\ HandleInv'
    BY <1>1, <1>4 DEF LoopTypeOK, HandleInv
  <2>2. ChannelInv' /\ SilentAfterTerminate' /\ EndIsAnnouncedOnce'
    BY <1>1, <1>4 DEF ChannelInv, Waiting, SilentAfterTerminate, EndIsAnnouncedOnce
  <2>3. QED
    BY <2>1, <2>2
<1>5. CASE owner = c /\ loop = "exited" /\ owner' = Nobody /\ Return(c) /\ UNCHANGED thread
  <2>1. HandleInv'
    BY <1>1, <1>5 DEF LoopTypeOK, HandleInv
  <2>2. QED
    BY <1>2, <1>5, <2>1 DEF LoopTypeOK
<1>6. QED
  BY <1>3, <1>4, <1>5 DEF join

\* One command drained: the loop leaves on a Terminate, and on nothing else.
LEMMA DrainOneKeepsInv ==
  ASSUME LoopInv, DrainOne
  PROVE  LoopInv'
<1> USE DEF LoopInv
<1>1. /\ loop = "drain" /\ commands # << >> /\ commands' = Tail(commands)
      /\ loop' = IF Head(commands) = "Terminate" THEN "exited" ELSE loop
      /\ UNCHANGED << launch, thread, owner, call, events, terminated >>
  BY DEF DrainOne, handleVars, historyVars
<1>2. /\ Tail(commands) \in Seq(Command)
      /\ Head(commands) = "Terminate" => Waiting(commands)
      /\ Waiting(Tail(commands)) => Waiting(commands)
      /\ Waiting(commands) => Head(commands) = "Terminate" \/ Waiting(Tail(commands))
  BY <1>1, DrainedIsWaiting DEF LoopTypeOK
<1>3. LoopTypeOK' /\ HandleInv'
  BY <1>1, <1>2 DEF LoopTypeOK, HandleInv, Places
<1>4. ChannelInv'
  BY <1>1, <1>2 DEF ChannelInv
<1>5. SilentAfterTerminate'
  BY <1>1 DEF SilentAfterTerminate
<1>6. EndIsAnnouncedOnce'
  BY <1>1, <1>2 DEF EndIsAnnouncedOnce, ChannelInv
<1>7. QED
  BY <1>3, <1>4, <1>5, <1>6

\* A loop that is past its drain has no Terminate behind it that was returned
\* from, so it may announce.
LEMMA AnnouncingKeepsInv ==
  ASSUME LoopInv, Drained \/ Ends
  PROVE  LoopInv'
<1> USE DEF LoopInv
<1>1. UNCHANGED << launch, thread, owner, call, commands, terminated >>
  BY DEF Drained, Ends, handleVars, channelVars
<1>2. loop \in {"drain", "ends"} /\ loop' \in {"exited", "tick", "receive"}
  BY DEF Drained, Ends
<1>3. terminated # "returned"
  <2>1. CASE Drained
    <3>1. ~ Waiting(commands)
      BY <2>1, EmptySeq DEF Drained, Waiting
    <3>2. QED
      BY <3>1, <2>1 DEF ChannelInv, Drained
  <2>2. CASE Ends
    BY <2>2 DEF ChannelInv, Ends
  <2>3. QED
    BY <2>1, <2>2
<1>4. events' \in Seq(Event) /\ SilentAfterTerminate' /\ EndIsAnnouncedOnce'
  <2>1. CASE Announced("Ended") /\ loop' = "exited"
    BY <2>1, <1>1, <1>2, <1>3, AnnouncedKeepsHistory
  <2>2. CASE UNCHANGED events /\ loop' # "exited"
    BY <2>2, <1>1, <1>2 DEF LoopTypeOK, SilentAfterTerminate, EndIsAnnouncedOnce
  <2>3. QED
    BY <2>1, <2>2 DEF Drained, Ends
<1>5. LoopTypeOK' /\ HandleInv'
  BY <1>1, <1>2, <1>4 DEF LoopTypeOK, HandleInv, Places
<1>6. ChannelInv'
  BY <1>1, <1>2, <1>3 DEF ChannelInv, Waiting, LoopTypeOK
<1>7. QED
  BY <1>4, <1>5, <1>6

LEMMA DatagramKeepsInv ==
  ASSUME LoopInv, NEW outcome, Datagram(outcome)
  PROVE  LoopInv'
<1> USE DEF LoopInv
<1>1. /\ loop = "receive"
      /\ UNCHANGED << launch, thread, owner, call, commands, loop, terminated >>
      /\ Announced("ScreenChanged") \/ UNCHANGED events
  BY DEF Datagram, handleVars, channelVars
<1>2. terminated # "returned"
  BY <1>1 DEF ChannelInv
<1>3. events' \in Seq(Event) /\ SilentAfterTerminate' /\ EndIsAnnouncedOnce'
  <2>1. CASE Announced("ScreenChanged")
    BY <2>1, <1>1, <1>2, AnnouncedKeepsHistory
  <2>2. CASE UNCHANGED events
    BY <2>2, <1>1 DEF LoopTypeOK, SilentAfterTerminate, EndIsAnnouncedOnce
  <2>3. QED
    BY <1>1, <2>1, <2>2
<1>4. LoopTypeOK' /\ HandleInv' /\ ChannelInv'
  BY <1>1, <1>3 DEF LoopTypeOK, HandleInv, ChannelInv, Waiting
<1>5. QED
  BY <1>3, <1>4

\* The steps that only move the loop on, and time.
LEMMA QuietStepKeepsInv ==
  ASSUME LoopInv,
         UNCHANGED << launch, thread, owner, call, commands, events, terminated >>,
         \/ UNCHANGED loop
         \/ loop = "tick" /\ loop' = "ends"
         \/ loop = "receive" /\ loop' = "drain"
  PROVE  LoopInv'
<1> USE DEF LoopInv
<1>1. LoopTypeOK' /\ HandleInv' /\ ChannelInv'
  BY DEF LoopTypeOK, Places, HandleInv, ChannelInv, Waiting
<1>2. SilentAfterTerminate' /\ EndIsAnnouncedOnce'
  BY DEF SilentAfterTerminate, EndIsAnnouncedOnce
<1>3. QED
  BY <1>1, <1>2

LEMMA NextKeepsLoopInv == LoopInv /\ [Next]_vars => LoopInv'
<1> SUFFICES ASSUME LoopInv, [Next]_vars PROVE LoopInv'
  OBVIOUS
<1>1. CASE \E c \in Callers :
             \/ start(c) \/ CallJoin(c) \/ CallTerminate(c) \/ join(c)
             \/ \E cmd \in {"Input", "StartShutdown"} : Request(c, cmd)
  BY <1>1, HandleKeepsInv, JoinKeepsInv
<1>2. CASE DrainOne
  BY <1>2, DrainOneKeepsInv
<1>3. CASE Drained \/ Ends
  BY <1>3, AnnouncingKeepsInv
<1>4. CASE Tick \/ Received
  BY <1>4, QuietStepKeepsInv DEF Tick, Received, handleVars, channelVars, historyVars
<1>5. CASE \E outcome \in {"none", "screen", "shutdown", "last screen", "version",
                           "bad diff"} : Datagram(outcome)
  BY <1>5, DatagramKeepsInv
<1>6. CASE Clock
  BY <1>6, QuietStepKeepsInv DEF Clock, handleVars, channelVars, historyVars
<1>7. CASE UNCHANGED vars
  BY <1>7, QuietStepKeepsInv DEF vars, handleVars, channelVars, historyVars
<1>8. QED
  BY <1>1, <1>2, <1>3, <1>4, <1>5, <1>6, <1>7 DEF Next, LoopStep

-----------------------------------------------------------------------------
(* The theorems. *)

\* LoopInvariant: the handle, the channel and the history agree, whichever calls
\* of the embedder's threads interleave with the loop.
THEOREM LoopInvariant == Spec => []LoopInv
BY InitHasLoopInv, NextKeepsLoopInv, PTL DEF Spec

\* TerminateSilences: after any terminate() has returned, however many threads
\* terminate, join and start at once, no callback is made.
THEOREM TerminateSilences == Spec => []SilentAfterTerminate
<1>1. LoopInv => SilentAfterTerminate
  BY DEF LoopInv
<1>2. QED
  BY <1>1, LoopInvariant, PTL

\* EndIsAnnounced: Ended is announced unless the session was terminated, once,
\* and last.
THEOREM EndIsAnnounced == Spec => []EndIsAnnouncedOnce
<1>1. LoopInv => EndIsAnnouncedOnce
  BY DEF LoopInv
<1>2. QED
  BY <1>1, LoopInvariant, PTL
=============================================================================
