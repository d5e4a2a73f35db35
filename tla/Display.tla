------------------------------ MODULE Display -------------------------------
(***************************************************************************)
(* From received host states to the screen: the loop thread brings one     *)
(* display engine to the newest state, by the suffix of its event log when *)
(* the engine sits on an ancestor, by a replay into a blank engine when    *)
(* the state branched (src/session.rs, handle_datagram; src/ssp.rs,        *)
(* EventLog).  The embedder's threads resize the same engine, render it    *)
(* when frame_version has changed, and may drain the raw bytes.            *)
(*                                                                         *)
(* A host state is its log, a sequence of events, and a diff the events it *)
(* appends, so the queue is that of SspReceiver.  An event carries the     *)
(* numbers of the states it leads from and to, which stand for its bytes   *)
(* and also for the identity of its log node: every number is applied at   *)
(* most once.  Painting `from' to `to' is right only on a screen that      *)
(* shows `from'.  The echo ack is left to the prediction overlay.          *)
(***************************************************************************)
EXTENDS SspReceiver

CONSTANTS
  MaxNum,        \* newest host state
  Paints,        \* the states that change the screen of their predecessor
  HostSize,      \* the states at which the server resized -> the size
  InitialSize,
  Sizes,         \* what the embedder may resize to (2 x 2 and up)
  MaxResizes     \* bound on the embedder's resizes

ASSUME DisplayAssumption ==
  /\ MaxNum \in Nat /\ MaxResizes \in Nat
  /\ Paints \subseteq 1 .. MaxNum /\ DOMAIN HostSize \subseteq 1 .. MaxNum

Garbage == -1

VARIABLES
  display,         \* [screen, size]: the engine behind the mutex
  engine_at,       \* the log the engine has consumed
  loop,            \* where the loop thread is in handle_datagram
  fresh,           \* the engine being rebuilt
  frame_version,
  pending_bytes,   \* host bytes not yet drained
  capture,         \* whether host bytes are kept for draining
  ui,              \* where resize() is
  resizes,
  rendering,       \* the version a renderer has read and not yet drawn
  rendered,        \* the last frame drawn
  asked,           \* history: the size last asked for locally
  consumer,        \* history: the engine of whoever drains the bytes
  branched,        \* history: a rebuild has put a whole log among the bytes
  missed           \* history: bytes went by while the capture was off

loopVars == << engine_at, loop, fresh >>
uiVars == << ui, resizes, asked >>
renderVars == << rendering, rendered >>
byteVars == << pending_bytes, capture, consumer, branched, missed >>
vars == << receiverVars, loopVars, uiVars, renderVars, byteVars, display,
           frame_version >>

-----------------------------------------------------------------------------
(* The server, as far as its diffs go. *)

MaxOf(S) == CHOOSE x \in S : \A y \in S : y <= x

\* The screen of state n is named after the last state that changed it.
ScreenOf(n) == MaxOf({0} \cup {p \in Paints : p <= n})

\* The new size, if any, then the repaint, if any.
HostDiff(m, n) ==
  LET resized == {r \in DOMAIN HostSize : m < r /\ r <= n}
  IN  (IF resized = {} THEN << >>
       ELSE << [kind |-> "resize", from |-> m, to |-> n,
                size |-> HostSize[MaxOf(resized)]] >>)
      \o (IF ScreenOf(m) = ScreenOf(n) THEN << >>
          ELSE << [kind |-> "bytes", from |-> m, to |-> n] >>)

HostInstruction(m, n, t) ==
  [old_num |-> m, new_num |-> n, throwaway_num |-> t, diff |-> HostDiff(m, n)]

Instructions ==
  {inst \in {HostInstruction(m, n, t) : m \in 0 .. MaxNum, n \in 0 .. MaxNum,
                                        t \in 0 .. MaxNum} :
     inst.old_num < inst.new_num /\ inst.throwaway_num <= inst.old_num}

-----------------------------------------------------------------------------
(* The engine. *)

blank(size) == [screen |-> 0, size |-> size]

Painted(screen, e) ==
  IF screen = ScreenOf(e.from) THEN ScreenOf(e.to) ELSE Garbage

feed_display(d, e) ==
  IF e.kind = "resize" THEN [d EXCEPT !.size = e.size]
                       ELSE [d EXCEPT !.screen = Painted(@, e)]

\* An engine after a log, event by event.
Fed(d, log) ==
  LET after[i \in 0 .. Len(log)] ==
        IF i = 0 THEN d ELSE feed_display(after[i - 1], log[i])
  IN  after[Len(log)]

\* The events of a log that carry bytes.
Bytes(log) ==
  LET among[i \in 0 .. Len(log)] ==
        IF i = 0 THEN << >>
        ELSE IF log[i].kind = "bytes" THEN Append(among[i - 1], log[i])
                                      ELSE among[i - 1]
  IN  among[Len(log)]

\* Mutant: a capture replaces what has not been drained.
CapturedOver(buffer, log) == IF capture THEN Bytes(log) ELSE buffer

\* feed_display also appends the bytes, not the sizes, to pending_bytes, if the
\* capture is on; a switch in the middle of a log is taken to come before it.
Captured(buffer, log) == IF capture THEN buffer \o Bytes(log) ELSE buffer

Missed(log) == ~ capture /\ Bytes(log) # << >>

Init ==
  /\ ReceiverInit
  /\ display = blank(InitialSize)
  /\ engine_at = << >>
  /\ loop = "idle"
  /\ fresh = blank(InitialSize)
  /\ frame_version = 1
  /\ pending_bytes = << >> /\ capture = TRUE
  /\ ui = "idle"
  /\ resizes = 0
  /\ rendering = 0
  /\ rendered = [version |-> 0, display |-> display]
  /\ asked = InitialSize
  /\ consumer = blank(InitialSize)
  /\ branched = FALSE /\ missed = FALSE

-----------------------------------------------------------------------------
(* The loop thread. *)

\* Mutant: any log at least as long as the engine's is taken to extend it.
LongerLog(log, base) == Len(base) <= Len(log)

\* suffix_over is Some: base is an ancestor, node for node.
Descends(log, base) == IsPrefix(base, log)

\* The outcomes that leave the display alone: a state inserted below the newest,
\* or nothing accepted.
NotNewest(inst) ==
  /\ Ignored(inst, 0)
  /\ UNCHANGED << display, pending_bytes, missed, loop, engine_at >>

\* handle_datagram up to the display: a newest state is fed as a suffix, or
\* needs a rebuild.
Datagram(inst) ==
  /\ loop = "idle"
  /\ \/ /\ Latest(inst, 0)
        /\ LET log    == latest'.state
               suffix == DropFirst(log, Len(engine_at))
           IN  \/ /\ Descends(log, engine_at) /\ suffix # << >>
                  /\ display' = Fed(display, suffix)
                  /\ pending_bytes' = Captured(pending_bytes, suffix)
                  /\ missed' = (missed \/ Missed(suffix))
                  /\ engine_at' = log
                  /\ loop' = "fed"
               \/ /\ Descends(log, engine_at) /\ suffix = << >>
                  /\ loop' \in {"idle", "fed"}   \* guesses retired, or none
                  /\ UNCHANGED << display, pending_bytes, missed, engine_at >>
               \/ /\ ~ Descends(log, engine_at)
                  /\ loop' = "branched"
                  /\ UNCHANGED << display, pending_bytes, missed, engine_at >>
     \/ NotNewest(inst)
  /\ UNCHANGED << fresh, uiVars, renderVars, capture, consumer, branched,
                  frame_version >>

\* The rebuild reads the size, releases the lock, and replays the whole log.
Rebuild ==
  /\ loop = "branched"
  /\ fresh' = Fed(blank(display.size), latest.state)
  /\ pending_bytes' = Captured(pending_bytes, latest.state)
  /\ branched' = TRUE
  /\ missed' = (missed \/ Missed(latest.state))
  /\ loop' = "rebuilt"
  /\ UNCHANGED << receiverVars, engine_at, uiVars, renderVars, capture, consumer,
                  display, frame_version >>

Replace ==
  /\ loop = "rebuilt"
  /\ display' = fresh
  /\ engine_at' = latest.state
  /\ loop' = "fed"
  /\ UNCHANGED << receiverVars, fresh, uiVars, renderVars, byteVars,
                  frame_version >>

\* Mutant: no repaint is announced.
ScreenUnannounced ==
  /\ loop = "fed"
  /\ loop' = "idle"
  /\ UNCHANGED << receiverVars, engine_at, fresh, uiVars, renderVars, byteVars,
                  display, frame_version >>

\* The end of handle_datagram: frame_version and the ScreenChanged event.
ScreenChanged ==
  /\ loop = "fed"
  /\ frame_version' = frame_version + 1
  /\ loop' = "idle"
  /\ UNCHANGED << receiverVars, engine_at, fresh, uiVars, renderVars, byteVars,
                  display >>

-----------------------------------------------------------------------------
(* The embedder's threads. *)

\* Mutant: the version is bumped before the engine is touched.
BumpFirst(size) ==
  \/ /\ ui = "idle" /\ resizes < MaxResizes
     /\ frame_version' = frame_version + 1
     /\ asked' = size /\ ui' = "resized" /\ resizes' = resizes + 1
     /\ UNCHANGED << receiverVars, loopVars, renderVars, byteVars, display >>
  \/ /\ ui = "resized"
     /\ display' = [display EXCEPT !.size = asked]
     /\ ui' = "idle"
     /\ UNCHANGED << receiverVars, loopVars, resizes, asked, renderVars, byteVars,
                     frame_version >>

\* MoshSession::resize: the engine under its lock, then the version.
resize(size) ==
  \/ /\ ui = "idle" /\ resizes < MaxResizes
     /\ display' = [display EXCEPT !.size = size]
     /\ asked' = size /\ ui' = "resized" /\ resizes' = resizes + 1
     /\ UNCHANGED << receiverVars, loopVars, renderVars, byteVars, frame_version >>
  \/ /\ ui = "resized"
     /\ frame_version' = frame_version + 1
     /\ ui' = "idle"
     /\ UNCHANGED << receiverVars, loopVars, resizes, asked, renderVars, byteVars,
                     display >>

\* External: a renderer reads frame_version() and then, if it moved, with_display().
Render ==
  /\ \/ /\ rendering = 0 /\ rendered.version # frame_version
        /\ rendering' = frame_version /\ UNCHANGED rendered
     \/ /\ rendering # 0
        /\ rendered' = [version |-> rendering, display |-> display]
        /\ rendering' = 0
  /\ UNCHANGED << receiverVars, loopVars, uiVars, byteVars, display, frame_version >>

\* take_host_bytes, by an embedder that feeds an engine of its own.
take_host_bytes ==
  /\ pending_bytes # << >>
  /\ consumer' = Fed(consumer, pending_bytes)
  /\ pending_bytes' = << >>
  /\ UNCHANGED << receiverVars, loopVars, uiVars, renderVars, capture, branched,
                  missed, display, frame_version >>

\* What is buffered stays until it is drained.
set_host_bytes_capture(on) ==
  /\ capture' = on
  /\ UNCHANGED << receiverVars, loopVars, uiVars, renderVars, pending_bytes, consumer,
                  branched, missed, display, frame_version >>

Next ==
  \/ \E inst \in Instructions : Datagram(inst)
  \/ Rebuild \/ Replace \/ ScreenChanged
  \/ \E size \in Sizes : resize(size)
  \/ Render
  \/ take_host_bytes
  \/ \E on \in BOOLEAN : set_host_bytes_capture(on)

\* The embedder draws whenever it is told to; the loop finishes what it began.
Spec == /\ Init /\ [][Next]_vars
        /\ WF_vars(Render)
        /\ WF_vars(Rebuild \/ Replace \/ ScreenChanged)
        /\ WF_vars(ui = "resized" /\ \E size \in Sizes : resize(size))

-----------------------------------------------------------------------------
\* DisplayShowsLatest: whenever handle_datagram has returned, the engine
\* shows the screen of the newest state held, whichever bases the states were
\* painted from and in whatever order they, and the throwaways, arrived.
DisplayShowsLatest ==
  loop \in {"idle", "fed"} => display.screen = ScreenOf(latest.num)

\* NoStaleFrame: a frame drawn at the current frame_version is what the engine
\* shows, once neither thread is between its change and its bump - so a
\* renderer that polls the version never sleeps on an old screen.
NoStaleFrame ==
  /\ loop # "fed" /\ ui = "idle"
  /\ rendered.version = frame_version
  => rendered.display = display

\* NewestIsDrawn: each newest state is eventually drawn, or a newer one is.
NewestIsDrawn ==
  \A n \in 1 .. MaxNum :
    latest.num = n ~> rendered.display.screen = ScreenOf(latest.num)

\* LocalResizeSticks: the comment in resize() - "resize locally at once (the UI
\* must not wait an RTT)": with a server that sends no sizes of its own, the
\* engine has the size last asked for.
LocalResizeSticks ==
  HostSize = << >> /\ loop = "idle" /\ ui = "idle" => display.size = asked

\* ConsumerFollowsUntilBranch: as long as no rebuild has happened and no bytes
\* went by while the capture was off, whoever feeds the drained bytes to a screen
\* of its own has the newest one, each byte handed over once and in order,
\* whenever it drains and however often it switches the capture.  (After a rebuild the
\* buffer holds a repaint from the blank screen with nothing to clear the
\* consumer's, although take_host_bytes says "a linear consumer stays correct".)
ConsumerFollowsUntilBranch ==
  ~ branched /\ ~ missed /\ loop # "branched" /\ pending_bytes = << >>
    => consumer.screen = ScreenOf(latest.num)
=============================================================================
